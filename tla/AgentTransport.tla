--------------------------- MODULE AgentTransport ---------------------------
(***************************************************************************)
(* The pull transport between control plane and agents:                    *)
(* internal/driver/agenttransport over the node registry                   *)
(* internal/domain/agentnode.                                              *)
(*                                                                         *)
(* An agent registers, sends heartbeats, polls for jobs, executes them,    *)
(* reports progress and the result.  Poll and Dispatch read the node under *)
(* the registry's lock and go on under the transport's: two actions each.  *)
(* What a poll hands out then travels: the agent receives it in a third    *)
(* step, and anything may happen in between.  Answers get lost, agents     *)
(* crash, the callbacks into the deployment engine fail.  The engine and   *)
(* the loop of the agent are not part of the repository: the agent is      *)
(* modelled from what the client's calls allow.                            *)
(***************************************************************************)
EXTENDS Naturals, Integers, Sequences, FiniteSets

CONSTANTS
  Nodes,         \* agents of one environment, by name
  Jobs,          \* jobs that may be dispatched
  NoNode,        \* where a job is before it is dispatched
  NoJob,         \* what an idle slot executes
  Needs,         \* Needs[j]: the capability the type of j asks for
  Facts,         \* what agents report of themselves: [status, capabilities]
  Slots,         \* executions an agent has under way at once
  Results,       \* terminal results
  LeaseTTL,      \* ticks a lease lasts
  MaxLag,        \* bound: age of the clock a call judges by
  MaxFaults,     \* bound: lost answers, crashes and failing callbacks
  Timely         \* agents report progress before the lease runs out

HeartbeatStatuses == {"online", "degraded", "incompatible"}

ASSUME AgentAssumption ==
  /\ NoNode \notin Nodes
  /\ NoJob \notin Jobs
  /\ \A fact \in Facts : /\ fact = [status |-> fact.status, capabilities |-> fact.capabilities]
                         /\ fact.status \in HeartbeatStatuses
  /\ IsFiniteSet(Slots)
  /\ "none" \notin Results /\ "running" \notin Results
  /\ MaxLag \in Nat
  /\ LeaseTTL \in Nat /\ LeaseTTL > MaxLag
  /\ MaxFaults \in Nat
  /\ Timely \in BOOLEAN

VARIABLES
  token,         \* a registration token is valid
  node,          \* node[n]: its registry record
  job,           \* job[j]: its record
  queue,         \* queue[n]: jobs dispatched to n, oldest first; never pruned
  dispatching,   \* dispatching[j]: the node a Dispatch under way has looked up
  polling,       \* polling[n]: how many jobs a poll that was let in may take
  heard,         \* heard[n]: external, the agent waits for its poll's answer
  answer,        \* answer[n]: external, jobs in an answer on its way to it
  slot,          \* slot[n][s]: external, what the agent executes there
  told,          \* told[j]: external, results the completion callback accepted
  faults         \* bound: see MaxFaults

registry  == <<token, node>>
transport == <<job, queue, dispatching>>
agents    == <<polling, heard, answer, slot>>
vars == <<registry, transport, agents, told, faults>>

Unregistered == [status |-> "none", capabilities |-> {}]
Undispatched == [node |-> NoNode, leaseIn |-> 0, result |-> "none"]
Idle == [job |-> NoJob, state |-> "none"]

Statuses == {"none", "registering", "disabled"} \cup HeartbeatStatuses

TypeOK ==
  /\ token \in BOOLEAN
  /\ node \in [Nodes -> [status : Statuses,
                         capabilities : SUBSET UNION {fact.capabilities : fact \in Facts}]]
  /\ job \in [Jobs -> [node : Nodes \cup {NoNode}, leaseIn : -MaxLag .. LeaseTTL,
                       result : Results \cup {"none"}]]
  /\ queue \in [Nodes -> Seq(Jobs)]
  /\ dispatching \in [Jobs -> Nodes \cup {NoNode}]
  /\ polling \in [Nodes -> 0 .. Cardinality(Slots)]
  /\ heard \in [Nodes -> BOOLEAN]
  /\ answer \in [Nodes -> SUBSET Jobs]
  /\ slot \in [Nodes -> [Slots -> [job : Jobs \cup {NoJob},
                                   state : {"none", "running"} \cup Results]]]
  /\ told \in [Jobs -> Seq(Results)]
  /\ faults \in 0 .. MaxFaults

Completed(j)   == job[j].result # "none"
Schedulable(n) == node[n].status \in {"online", "degraded"}
FreeSlots(n)   == {s \in Slots : slot[n][s] = Idle}
Running(n, s)  == slot[n][s].state = "running"
Finished(n, s) == slot[n][s].state \in Results

Init ==
  /\ token = FALSE
  /\ node = [n \in Nodes |-> Unregistered]
  /\ job = [j \in Jobs |-> Undispatched]
  /\ queue = [n \in Nodes |-> <<>>]
  /\ dispatching = [j \in Jobs |-> NoNode]
  /\ polling = [n \in Nodes |-> 0]
  /\ heard = [n \in Nodes |-> FALSE]
  /\ answer = [n \in Nodes |-> {}]
  /\ slot = [n \in Nodes |-> [s \in Slots |-> Idle]]
  /\ told = [j \in Jobs |-> <<>>]
  /\ faults = 0

Fault == faults < MaxFaults /\ faults' = faults + 1

-----------------------------------------------------------------------------
(* The registry.                                                           *)

CreateRegistrationToken ==
  /\ token' = TRUE
  /\ UNCHANGED <<node, transport, agents, told, faults>>

(* A day is long against a lease: expiry is a step of its own.             *)
TokenExpires ==
  /\ token
  /\ token' = FALSE
  /\ UNCHANGED <<node, transport, agents, told, faults>>

(* A name that is taken is answered with the record it has, unchanged; the *)
(* token is not used up.                                                   *)
Register(n) ==
  /\ token
  /\ node[n] = Unregistered
  /\ \E fact \in Facts :
       node' = [node EXCEPT ![n] = [status |-> "registering", capabilities |-> fact.capabilities]]
  /\ UNCHANGED <<token, transport, agents, told, faults>>

Heartbeat(n, fact) ==
  /\ node[n].status \notin {"none", "disabled"}
  /\ node' = [node EXCEPT ![n] = fact]
  /\ UNCHANGED <<token, transport, agents, told, faults>>

Disable(n) ==
  /\ node[n].status # "none"
  /\ node' = [node EXCEPT ![n].status = "disabled"]
  /\ UNCHANGED <<token, transport, agents, told, faults>>

-----------------------------------------------------------------------------
(* The control plane's side of a job.                                      *)

(* Dispatch looks the node up and compares capabilities, not the status.   *)
DispatchLookup(j, n) ==
  /\ job[j] = Undispatched
  /\ dispatching[j] = NoNode
  /\ node[n].status # "none"
  /\ Needs[j] \in node[n].capabilities
  /\ dispatching' = [dispatching EXCEPT ![j] = n]
  /\ UNCHANGED <<registry, job, queue, agents, told, faults>>

(* The lease starts run out: the job is there for the next poll.           *)
DispatchStore(j, lag) ==
  LET n == dispatching[j] IN
  /\ n # NoNode
  /\ job' = [job EXCEPT ![j] = [node |-> n, leaseIn |-> -lag, result |-> "none"]]
  /\ queue' = [queue EXCEPT ![n] = Append(@, j)]
  /\ dispatching' = [dispatching EXCEPT ![j] = NoNode]
  /\ UNCHANGED <<registry, agents, told, faults>>

PollOfAnyStatus(n) ==                                                      \* mutant
  /\ polling[n] = 0 /\ ~heard[n]
  /\ FreeSlots(n) # {}
  /\ node[n].status # "none"
  /\ polling' = [polling EXCEPT ![n] = Cardinality(FreeSlots(n))]
  /\ heard' = [heard EXCEPT ![n] = TRUE]
  /\ UNCHANGED <<registry, transport, answer, slot, told, faults>>

(* Poll reads the status of the node before it takes the transport's lock. *)
(* An agent asks for as many jobs as it can execute.                       *)
PollLookup(n) ==
  /\ polling[n] = 0 /\ ~heard[n]
  /\ FreeSlots(n) # {}
  /\ Schedulable(n)
  /\ polling' = [polling EXCEPT ![n] = Cardinality(FreeSlots(n))]
  /\ heard' = [heard EXCEPT ![n] = TRUE]
  /\ UNCHANGED <<registry, transport, answer, slot, told, faults>>

IncompleteJobs(n, lag) ==                                                  \* mutant
  {i \in DOMAIN queue[n] : ~Completed(queue[n][i])}

JobsWithFreeLease(n, lag) ==                                               \* mutant
  {i \in DOMAIN queue[n] : job[queue[n][i]].leaseIn <= -lag}

(* Where in the queue a poll that judges by a clock lag ticks old finds    *)
(* jobs to take.                                                           *)
Pollable(n, lag) ==
  {i \in DOMAIN queue[n] : ~Completed(queue[n][i]) /\ job[queue[n][i]].leaseIn <= -lag}

(* The jobs the poll takes: the first of them.                             *)
Taken(n, lag) ==
  LET all   == Pollable(n, lag)
      first == {i \in all : Cardinality({k \in all : k < i}) < polling[n]}
  IN  {queue[n][i] : i \in first}

(* The answer sets out, if the agent is still there to wait for it.        *)
Answered(n, taken) == answer' = [answer EXCEPT ![n] = IF heard[n] THEN taken ELSE {}]

(* The leases of what a poll has taken.                                    *)
Leased(taken, lag) ==
  job' = [j \in Jobs |-> IF j \in taken THEN [job[j] EXCEPT !.leaseIn = LeaseTTL - lag] ELSE job[j]]

PopHandedOut(n, lag) ==                                                    \* mutant
  LET taken == Taken(n, lag) IN
  /\ polling[n] > 0
  /\ Leased(taken, lag)
  /\ Answered(n, taken)
  /\ queue' = [queue EXCEPT ![n] = SelectSeq(@, LAMBDA j : j \notin taken)]
  /\ polling' = [polling EXCEPT ![n] = 0]
  /\ UNCHANGED <<registry, dispatching, heard, slot, told, faults>>

(* Poll under the transport's lock.                                        *)
PollLease(n, lag) ==
  LET taken == Taken(n, lag) IN
  /\ polling[n] > 0
  /\ Leased(taken, lag)
  /\ Answered(n, taken)
  /\ polling' = [polling EXCEPT ![n] = 0]
  /\ UNCHANGED <<registry, queue, dispatching, heard, slot, told, faults>>

ExtendLease(n, s) ==                                                       \* mutant
  /\ Running(n, s)
  /\ ~Completed(slot[n][s].job)
  /\ job' = [job EXCEPT ![slot[n][s].job].leaseIn = @ + LeaseTTL]
  /\ UNCHANGED <<registry, queue, dispatching, agents, told, faults>>

(* A report for a job that is over is accepted and ignored; one whose      *)
(* callback fails changes nothing.                                         *)
ReportProgress(n, s) ==
  /\ Running(n, s)
  /\ ~Completed(slot[n][s].job)
  /\ job' = [job EXCEPT ![slot[n][s].job].leaseIn = LeaseTTL]
  /\ UNCHANGED <<registry, queue, dispatching, agents, told, faults>>

Freed(n, s) == slot' = [slot EXCEPT ![n][s] = Idle]

CompleteAnyJob(n, s) ==                                                    \* mutant
  LET j == slot[n][s].job result == slot[n][s].state IN
  /\ Finished(n, s)
  /\ told' = [told EXCEPT ![j] = Append(@, result)]
  /\ job' = [job EXCEPT ![j].result = result, ![j].leaseIn = 0]
  /\ \/ Freed(n, s) /\ UNCHANGED faults
     \/ UNCHANGED slot /\ Fault
  /\ UNCHANGED <<registry, queue, dispatching, polling, heard, answer>>

(* The first result is passed to the callback and recorded, under the      *)
(* lock; the answer may get lost, then the agent reports again.            *)
CompleteJob(n, s) ==
  LET j == slot[n][s].job result == slot[n][s].state IN
  /\ Finished(n, s)
  /\ ~Completed(j)
  /\ told' = [told EXCEPT ![j] = Append(@, result)]
  /\ job' = [job EXCEPT ![j].result = result, ![j].leaseIn = 0]
  /\ \/ Freed(n, s) /\ UNCHANGED faults
     \/ UNCHANGED slot /\ Fault
  /\ UNCHANGED <<registry, queue, dispatching, polling, heard, answer>>

(* A result for a job that is over: accepted when it is the recorded one,  *)
(* refused otherwise.  Either way the agent is done with it.               *)
CompleteAgain(n, s) ==
  /\ Finished(n, s)
  /\ Completed(slot[n][s].job)
  /\ Freed(n, s)
  /\ UNCHANGED <<registry, transport, polling, heard, answer, told, faults>>

(* The completion callback fails: nothing is recorded, the agent may try   *)
(* again.                                                                  *)
CallbackFails(n, s) ==
  /\ Finished(n, s)
  /\ ~Completed(slot[n][s].job)
  /\ Fault
  /\ UNCHANGED <<registry, transport, agents, told>>

-----------------------------------------------------------------------------
(* The agent.                                                              *)

(* The answer arrives: one execution begins per job in it, whatever became *)
(* of the job since the answer was given.                                  *)
Receive(n) ==
  /\ heard[n] /\ polling[n] = 0
  /\ \E place \in [answer[n] -> FreeSlots(n)] :
       /\ \A j, k \in answer[n] : place[j] = place[k] => j = k
       /\ slot' = [slot EXCEPT ![n] = [s \in Slots |->
            IF \E j \in answer[n] : place[j] = s
            THEN [job |-> CHOOSE j \in answer[n] : place[j] = s, state |-> "running"]
            ELSE @[s]]]
  /\ heard' = [heard EXCEPT ![n] = FALSE]
  /\ answer' = [answer EXCEPT ![n] = {}]
  /\ UNCHANGED <<registry, transport, polling, told, faults>>

(* The agent gives the poll up, before or after it was answered.           *)
LoseAnswer(n) ==
  /\ heard[n]
  /\ Fault
  /\ heard' = [heard EXCEPT ![n] = FALSE]
  /\ answer' = [answer EXCEPT ![n] = {}]
  /\ UNCHANGED <<registry, transport, polling, slot, told>>

Finish(n, s, result) ==
  /\ Running(n, s)
  /\ slot' = [slot EXCEPT ![n][s].state = result]
  /\ UNCHANGED <<registry, transport, polling, heard, answer, told, faults>>

(* A crash loses what was executed, what was not yet reported and what is  *)
(* on its way; a poll under way is still answered, to nobody.              *)
Crash(n) ==
  /\ Fault
  /\ slot' = [slot EXCEPT ![n] = [s \in Slots |-> Idle]]
  /\ heard' = [heard EXCEPT ![n] = FALSE]
  /\ answer' = [answer EXCEPT ![n] = {}]
  /\ UNCHANGED <<registry, transport, polling, told>>

(* What an agent has in hand, or is about to.                              *)
InHand(n) == answer[n] \cup {slot[n][s].job : s \in {s \in Slots : Running(n, s)}}

(* Timely agents do not let the lease of a job they execute get to its     *)
(* end, and their answers do not travel that long.                         *)
Tick ==
  /\ Timely => \A n \in Nodes : \A j \in InHand(n) : Completed(j) \/ job[j].leaseIn > 1
  /\ job' = [j \in Jobs |->
       IF job[j].node = NoNode \/ Completed(j) \/ job[j].leaseIn = -MaxLag THEN job[j]
       ELSE [job[j] EXCEPT !.leaseIn = @ - 1]]
  /\ UNCHANGED <<registry, queue, dispatching, agents, told, faults>>

AgentStep(n) ==
  \/ \E fact \in Facts : Heartbeat(n, fact)
  \/ PollLookup(n)
  \/ \E lag \in 0 .. MaxLag : PollLease(n, lag)
  \/ \E s \in Slots : \/ ReportProgress(n, s)
                      \/ CompleteJob(n, s)
                      \/ CompleteAgain(n, s)
                      \/ CallbackFails(n, s)
                      \/ \E result \in Results : Finish(n, s, result)
  \/ Receive(n) \/ LoseAnswer(n)
  \/ Crash(n)

Next ==
  \/ CreateRegistrationToken \/ TokenExpires
  \/ \E n \in Nodes : Register(n) \/ Disable(n) \/ AgentStep(n)
  \/ \E j \in Jobs : \/ \E n \in Nodes : DispatchLookup(j, n)
                     \/ \E lag \in 0 .. MaxLag : DispatchStore(j, lag)
  \/ Tick

Spec == Init /\ [][Next]_vars

(* Dispatch goes on, time passes, agents poll, answers arrive, executions  *)
(* end, results are reported until they are answered.                      *)
Fairness ==
  /\ WF_vars(Tick)
  /\ \A j \in Jobs : WF_vars(\E lag \in 0 .. MaxLag : DispatchStore(j, lag))
  /\ \A n \in Nodes :
       /\ WF_vars(PollLookup(n))
       /\ WF_vars(\E lag \in 0 .. MaxLag : PollLease(n, lag))
       /\ WF_vars(Receive(n))
       /\ \A s \in Slots :
            /\ WF_vars(\E result \in Results : Finish(n, s, result))
            /\ WF_vars(CompleteJob(n, s))
            /\ WF_vars(CompleteAgain(n, s))

FairSpec == Spec /\ Fairness

-----------------------------------------------------------------------------
(* Properties.                                                             *)

(* service.go:385: a lease keeps a job from being handed out again, so as  *)
(* long as agents report progress in time no job that is still open is     *)
(* executed twice at once, whatever answers are lost and whoever crashes.  *)
OneExecutionPerOpenJob ==
  \A j \in Jobs : ~Completed(j) =>
    Cardinality({at \in Nodes \X Slots : slot[at[1]][at[2]] = [job |-> j, state |-> "running"]}) <= 1

(* service.go:460: the deployment engine hears of a job exactly what is    *)
(* recorded of it, once, however many executions there were and however    *)
(* often each was reported.                                                *)
EngineHearsTheRecord ==
  \A j \in Jobs : told[j] = IF Completed(j) THEN <<job[j].result>> ELSE <<>>

(* service.go:379 and :418: a job that is over keeps its result and is not *)
(* handed out any more.  It may still be started: by an answer that was on *)
(* its way when a late execution reported the result, one execution per    *)
(* such answer and no more.                                                *)
OverIsNotHandedOut ==
  [][\A j \in Jobs : Completed(j) =>
       /\ job'[j].result = job[j].result
       /\ \A n \in Nodes : j \in answer'[n] => j \in answer[n]
       /\ \A n \in Nodes, s \in Slots : slot'[n][s].job = j /\ slot[n][s].job # j =>
            /\ j \in answer[n] /\ j \notin answer'[n]
            /\ \A t \in Slots \ {s} : slot'[n][t].job = j => slot[n][t].job = j]_vars

(* agentnode/service.go:340: a node stays disabled and no poll of its      *)
(* agent is let in any more.  After the one that was, if there is one, it  *)
(* is handed no job, and starts none but those already on their way to it. *)
DisabledIsOutOfWork ==
  [][\A n \in Nodes : node[n].status = "disabled" =>
       /\ node'[n].status = "disabled"
       /\ polling[n] = 0 => polling'[n] = 0 /\ answer'[n] \subseteq answer[n]
       /\ \A s \in Slots : slot'[n][s].state = "running" =>
            Running(n, s) \/ slot'[n][s].job \in answer[n]]_vars

(* The comment on Disable, agentnode/service.go:340, taken at its word: a  *)
(* disabled node is handed no new work.                                    *)
NoNewWorkWhenDisabled ==
  [][\A n \in Nodes : node[n].status = "disabled" => answer'[n] \subseteq answer[n]]_vars

(* service.go:389: the lease of a job that was handed out in vain runs out *)
(* and the job is handed out again, until it is over; provided its agent   *)
(* stays online.                                                           *)
DispatchedJobsEnd ==
  \A j \in Jobs, n \in Nodes :
    <>[]Schedulable(n) => (job[j].node = n ~> Completed(j))
=============================================================================
