------------------------ MODULE AgentTransportProofs ------------------------
(***************************************************************************)
(* Proofs about AgentTransport, for any number of agents, jobs, slots and  *)
(* faults.                                                                 *)
(*                                                                         *)
(* The deployment engine hears the record because it hears under the same  *)
(* lock (HeardInv).  One execution per open job needs to know where an     *)
(* execution may come from: from an answer to the one agent the job was    *)
(* dispatched to (SlotInv, AnswerInv), which was given while no lease was  *)
(* running; timely agents keep the lease running as long as they execute   *)
(* (LeaseInv) or an answer is on its way to them (PromiseInv).             *)
(***************************************************************************)
EXTENDS AgentTransport, FiniteSetTheorems, TLAPS

SlotInv(n, s) ==
  \/ slot[n][s] = Idle
  \/ /\ slot[n][s].job \in Jobs /\ job[slot[n][s].job].node = n
     /\ Running(n, s) \/ Finished(n, s)

AnswerInv(n) == \A j \in answer[n] : job[j].node = n

QueueInv(n) == \A i \in DOMAIN queue[n] : job[queue[n][i]].node = n

DispatchInv(j) == dispatching[j] # NoNode => job[j] = Undispatched

HeardInv(j) == told[j] = IF Completed(j) THEN <<job[j].result>> ELSE <<>>

(* What the first theorems rest on.                                        *)
AgentInv ==
  /\ TypeOK
  /\ \A n \in Nodes, s \in Slots : SlotInv(n, s)
  /\ \A n \in Nodes : QueueInv(n) /\ AnswerInv(n)
  /\ \A j \in Jobs : DispatchInv(j) /\ HeardInv(j)

-----------------------------------------------------------------------------

LEMMA IdleIsTyped == Idle.job = NoJob /\ Idle.state = "none"
  BY DEF Idle

(* An execution under way, or ended, is of a job.                          *)
LEMMA BusySlots ==
  ASSUME AgentInv, NEW n \in Nodes, NEW s \in Slots, Running(n, s) \/ Finished(n, s)
  PROVE  slot[n][s].job \in Jobs /\ job[slot[n][s].job].node = n
  BY AgentAssumption, IdleIsTyped DEF AgentAssumption, AgentInv, SlotInv, Running, Finished

LEMMA FreeSlotsAreFew ==
  ASSUME NEW n \in Nodes
  PROVE  Cardinality(FreeSlots(n)) \in 0 .. Cardinality(Slots)
  <1>1. FreeSlots(n) \subseteq Slots /\ IsFiniteSet(Slots)
    BY AgentAssumption DEF AgentAssumption, FreeSlots
  <1>2. /\ Cardinality(FreeSlots(n)) \in Nat /\ Cardinality(Slots) \in Nat
        /\ Cardinality(FreeSlots(n)) <= Cardinality(Slots)
    BY <1>1, FS_Subset, FS_CardinalityType
  <1> QED
    BY <1>2

(* A poll takes jobs of the agent's queue that are open and have no lease. *)
LEMMA TakenIsOpen ==
  ASSUME TypeOK, NEW n \in Nodes, NEW lag \in 0 .. MaxLag
  PROVE  \A j \in Taken(n, lag) :
           /\ j \in Jobs /\ ~Completed(j) /\ job[j].leaseIn <= -lag
           /\ \E i \in DOMAIN queue[n] : queue[n][i] = j
  <1>1. \A i \in DOMAIN queue[n] : queue[n][i] \in Jobs
    BY DEF TypeOK
  <1>2. \A j \in Taken(n, lag) : \E i \in Pollable(n, lag) : queue[n][i] = j
    BY DEF Taken
  <1> QED
    BY <1>1, <1>2 DEF Pollable

(* What an answer that arrives does to the slots.                          *)
LEMMA AnswerFillsSlots ==
  ASSUME TypeOK, NEW n \in Nodes, Receive(n)
  PROVE  /\ slot' \in [Nodes -> [Slots -> [job : Jobs \cup {NoJob},
                                           state : {"none", "running"} \cup Results]]]
         /\ \A m \in Nodes \ {n} : slot'[m] = slot[m]
         /\ \A s \in Slots :
              \/ slot'[n][s] = slot[n][s]
              \/ \E j \in answer[n] : slot'[n][s] = [job |-> j, state |-> "running"]
         /\ \A s, t \in Slots : slot'[n][s].job = slot'[n][t].job /\ s # t =>
              slot'[n][s] = slot[n][s] \/ slot'[n][t] = slot[n][t]
  <1> DEFINE taken == answer[n]
  <1>1. taken \subseteq Jobs
    BY DEF TypeOK
  <1>2. PICK place \in [taken -> FreeSlots(n)] :
          /\ \A j, k \in taken : place[j] = place[k] => j = k
          /\ slot' = [slot EXCEPT ![n] = [s \in Slots |->
               IF \E j \in taken : place[j] = s
               THEN [job |-> CHOOSE j \in taken : place[j] = s, state |-> "running"]
               ELSE slot[n][s]]]
    BY DEF Receive, TypeOK
  <1> HIDE DEF taken
  <1> DEFINE put(s) == CHOOSE j \in taken : place[j] = s
  <1>3. \A s \in Slots : (\E j \in taken : place[j] = s) => put(s) \in taken /\ place[put(s)] = s
    OBVIOUS
  <1>4. \A s \in Slots :
          slot'[n][s] = IF \E j \in taken : place[j] = s THEN [job |-> put(s), state |-> "running"]
                                                         ELSE slot[n][s]
    BY <1>2 DEF TypeOK
  <1>5. /\ DOMAIN slot' = Nodes /\ slot' = [m \in Nodes |-> slot'[m]]
        /\ \A m \in Nodes \ {n} : slot'[m] = slot[m]
        /\ slot'[n] = [s \in Slots |-> slot'[n][s]]
    BY <1>2, <1>4 DEF TypeOK
  <1> HIDE DEF put
  <1>6. slot \in [Nodes -> [Slots -> [job : Jobs \cup {NoJob},
                                     state : {"none", "running"} \cup Results]]]
    BY DEF TypeOK
  <1>7. \A s \in Slots :
          slot'[n][s] \in [job : Jobs \cup {NoJob}, state : {"none", "running"} \cup Results]
    <2> SUFFICES ASSUME NEW s \in Slots
                 PROVE  slot'[n][s] \in [job : Jobs \cup {NoJob},
                                         state : {"none", "running"} \cup Results]
      OBVIOUS
    <2>1. CASE \E j \in taken : place[j] = s
      <3>1. put(s) \in Jobs \cup {NoJob}
        BY <1>1, <1>3, <2>1
      <3>2. slot'[n][s] = [job |-> put(s), state |-> "running"]
        BY <1>4, <2>1
      <3> QED
        BY <3>1, <3>2
    <2>2. CASE ~\E j \in taken : place[j] = s
      <3>1. slot'[n][s] = slot[n][s]
        BY <1>4, <2>2
      <3> QED
        BY <1>6, <3>1
    <2> QED
      BY <2>1, <2>2
  <1>8. slot' \in [Nodes -> [Slots -> [job : Jobs \cup {NoJob},
                                      state : {"none", "running"} \cup Results]]]
    <2>1. \A m \in Nodes :
            slot'[m] \in [Slots -> [job : Jobs \cup {NoJob}, state : {"none", "running"} \cup Results]]
      BY <1>5, <1>6, <1>7
    <2> QED
      BY <1>5, <2>1
  <1>9. \A s \in Slots : \/ slot'[n][s] = slot[n][s]
                         \/ put(s) \in taken /\ slot'[n][s] = [job |-> put(s), state |-> "running"]
                              /\ place[put(s)] = s
    BY <1>3, <1>4
  <1>10. \A s, t \in Slots : slot'[n][s].job = slot'[n][t].job /\ s # t =>
           slot'[n][s] = slot[n][s] \/ slot'[n][t] = slot[n][t]
    <2> SUFFICES ASSUME NEW s \in Slots, NEW t \in Slots, slot'[n][s].job = slot'[n][t].job,
                        slot'[n][s] # slot[n][s], slot'[n][t] # slot[n][t]
                 PROVE  s = t
      OBVIOUS
    <2>1. /\ slot'[n][s] = [job |-> put(s), state |-> "running"] /\ place[put(s)] = s
          /\ slot'[n][t] = [job |-> put(t), state |-> "running"] /\ place[put(t)] = t
      BY <1>9
    <2>2. put(s) = put(t)
      BY <2>1
    <2> QED
      BY <2>1, <2>2
  <1>11. \A s \in Slots : \/ slot'[n][s] = slot[n][s]
                          \/ \E j \in taken : slot'[n][s] = [job |-> j, state |-> "running"]
    BY <1>9
  <1> QED
    BY <1>5, <1>8, <1>10, <1>11 DEF taken

-----------------------------------------------------------------------------
(* Types, slots and what the engine heard, action by action.               *)

LEMMA FaultIsBounded == TypeOK /\ Fault => faults' \in 0 .. MaxFaults
  BY AgentAssumption DEF TypeOK, Fault, AgentAssumption

LEMMA InitIsConsistent == Init => AgentInv
  <1> SUFFICES ASSUME Init PROVE AgentInv
    OBVIOUS
  <1>1. Cardinality(Slots) \in Nat /\ MaxLag \in Nat /\ LeaseTTL \in Nat /\ MaxFaults \in Nat
    BY AgentAssumption, FS_CardinalityType DEF AgentAssumption
  <1>2. /\ Unregistered \in [status : Statuses,
                             capabilities : SUBSET UNION {fact.capabilities : fact \in Facts}]
        /\ Undispatched \in [node : Nodes \cup {NoNode}, leaseIn : -MaxLag .. LeaseTTL,
                             result : Results \cup {"none"}]
        /\ Idle \in [job : Jobs \cup {NoJob}, state : {"none", "running"} \cup Results]
        /\ Undispatched.result = "none"
    BY <1>1 DEF Unregistered, Undispatched, Idle, Statuses
  <1>3. TypeOK
    <2>1. /\ token \in BOOLEAN
          /\ node \in [Nodes -> [status : Statuses,
                                 capabilities : SUBSET UNION {fact.capabilities : fact \in Facts}]]
          /\ job \in [Jobs -> [node : Nodes \cup {NoNode}, leaseIn : -MaxLag .. LeaseTTL,
                               result : Results \cup {"none"}]]
          /\ slot \in [Nodes -> [Slots -> [job : Jobs \cup {NoJob},
                                           state : {"none", "running"} \cup Results]]]
      BY <1>2 DEF Init
    <2>2. /\ queue \in [Nodes -> Seq(Jobs)]
          /\ dispatching \in [Jobs -> Nodes \cup {NoNode}]
          /\ polling \in [Nodes -> 0 .. Cardinality(Slots)]
          /\ heard \in [Nodes -> BOOLEAN]
          /\ answer \in [Nodes -> SUBSET Jobs]
          /\ told \in [Jobs -> Seq(Results)]
          /\ faults \in 0 .. MaxFaults
      BY <1>1 DEF Init
    <2> QED
      BY <2>1, <2>2 DEF TypeOK
  <1>4. /\ \A n \in Nodes, s \in Slots : slot[n][s] = Idle
        /\ \A n \in Nodes : answer[n] = {}
    BY DEF Init
  <1>5. \A j \in Jobs : told[j] = <<>> /\ job[j] = Undispatched
    BY DEF Init
  <1> QED
    BY <1>2, <1>3, <1>4, <1>5 DEF Init, AgentInv, SlotInv, AnswerInv, QueueInv, DispatchInv, HeardInv, Completed

(* An execution keeps its job, ends, or begins where its job was           *)
(* dispatched to; a job stays where it was dispatched to.                  *)
LEMMA SlotsAndJobsKeepInv ==
  ASSUME AgentInv, TypeOK', UNCHANGED <<queue, dispatching>>,
         \A j \in Jobs : /\ job'[j].node = job[j].node
                         /\ dispatching[j] # NoNode => job'[j] = job[j]
                         /\ HeardInv(j)',
         \A n \in Nodes, s \in Slots :
           \/ slot'[n][s] \in {slot[n][s], Idle}
           \/ /\ slot'[n][s].job \in Jobs /\ job[slot'[n][s].job].node = n
              /\ slot'[n][s].state \in {"running"} \cup Results,
         \A n \in Nodes : \A j \in answer'[n] : j \in answer[n] \/ job[j].node = n
  PROVE  AgentInv'
  <1>1. \A n \in Nodes, s \in Slots : SlotInv(n, s)'
    <2> SUFFICES ASSUME NEW n \in Nodes, NEW s \in Slots PROVE SlotInv(n, s)'
      OBVIOUS
    <2>1. SlotInv(n, s)
      BY DEF AgentInv
    <2> QED
      BY <2>1, IdleIsTyped DEF SlotInv, Running, Finished, Idle
  <1>2. \A n \in Nodes : QueueInv(n)' /\ AnswerInv(n)'
    BY DEF AgentInv, TypeOK, QueueInv, AnswerInv
  <1>3. \A j \in Jobs : DispatchInv(j)'
    BY DEF AgentInv, DispatchInv
  <1> QED
    BY <1>1, <1>2, <1>3 DEF AgentInv

(* A record that changes in nothing but its lease is heard as before.      *)
LEMMA SameResultsSameRecord ==
  ASSUME AgentInv, UNCHANGED told, \A j \in Jobs : job'[j].result = job[j].result
  PROVE  \A j \in Jobs : HeardInv(j)'
  BY DEF AgentInv, HeardInv, Completed

LEMMA RegistryKeepsInv ==
  ASSUME AgentInv,
         \/ CreateRegistrationToken \/ TokenExpires
         \/ \E n \in Nodes : \/ Register(n) \/ Disable(n)
                            \/ \E fact \in Facts : Heartbeat(n, fact)
  PROVE  AgentInv'
  <1>1. UNCHANGED <<transport, agents, told, faults>>
    BY DEF CreateRegistrationToken, TokenExpires, Register, Disable, Heartbeat
  <1>2. \A fact \in Facts :
          /\ fact = [status |-> fact.status, capabilities |-> fact.capabilities]
          /\ fact.status \in Statuses
          /\ fact.capabilities \in SUBSET UNION {f.capabilities : f \in Facts}
    BY AgentAssumption DEF AgentAssumption, Statuses
  <1> DEFINE Record == [status : Statuses, capabilities : SUBSET UNION {f.capabilities : f \in Facts}]
  <1>3. token' \in BOOLEAN /\ node' \in [Nodes -> Record]
    <2>1. node \in [Nodes -> Record] /\ token \in BOOLEAN
      BY DEF AgentInv, TypeOK
    <2>2. \A r \in Record : [r EXCEPT !.status = "disabled"] \in Record
      BY DEF Statuses
    <2>3. CASE CreateRegistrationToken \/ TokenExpires
      BY <2>1, <2>3 DEF CreateRegistrationToken, TokenExpires
    <2>4. CASE \E n \in Nodes : Register(n)
      <3>0. PICK n \in Nodes : Register(n)
        BY <2>4
      <3>1. PICK fact \in Facts :
              node' = [node EXCEPT ![n] = [status |-> "registering", capabilities |-> fact.capabilities]]
        BY <3>0 DEF Register
      <3>2. [status |-> "registering", capabilities |-> fact.capabilities] \in Record
        BY <1>2 DEF Statuses
      <3> HIDE DEF Record
      <3> QED
        BY <2>1, <3>0, <3>1, <3>2 DEF Register
    <2>5. CASE \E n \in Nodes : Disable(n)
      <3> HIDE DEF Record
      <3>0. PICK n \in Nodes : Disable(n)
        BY <2>5
      <3>1. node' = [node EXCEPT ![n] = [node[n] EXCEPT !.status = "disabled"]] /\ UNCHANGED token
        BY <3>0 DEF Disable
      <3> QED
        BY <2>1, <2>2, <3>1
    <2>6. CASE \E n \in Nodes : \E fact \in Facts : Heartbeat(n, fact)
      <3>1. PICK n \in Nodes, fact \in Facts : node' = [node EXCEPT ![n] = fact] /\ UNCHANGED token
        BY <2>6 DEF Heartbeat
      <3>2. fact \in Record
        BY <1>2
      <3> HIDE DEF Record
      <3> QED
        BY <2>1, <3>1, <3>2
    <2> QED
      BY <2>3, <2>4, <2>5, <2>6
  <1> QED
    BY <1>1, <1>3
       DEF AgentInv, TypeOK, transport, agents, SlotInv, AnswerInv, QueueInv, DispatchInv,
           HeardInv, Completed, Running, Finished

LEMMA DispatchKeepsInv ==
  ASSUME AgentInv, NEW j \in Jobs,
         \/ \E n \in Nodes : DispatchLookup(j, n)
         \/ \E lag \in 0 .. MaxLag : DispatchStore(j, lag)
  PROVE  AgentInv'
  <1>0. NoNode \notin Nodes
    BY AgentAssumption DEF AgentAssumption
  <1>1. TypeOK'
    <2>1. CASE \E n \in Nodes : DispatchLookup(j, n)
      <3>1. dispatching' \in [Jobs -> Nodes \cup {NoNode}]
        BY <2>1 DEF AgentInv, TypeOK, DispatchLookup
      <3> QED
        BY <2>1, <3>1 DEF AgentInv, TypeOK, DispatchLookup, registry, agents
    <2>2. CASE \E lag \in 0 .. MaxLag : DispatchStore(j, lag)
      <3>1. PICK lag \in 0 .. MaxLag : DispatchStore(j, lag)
        BY <2>2
      <3> DEFINE n == dispatching[j]
                 stored == [node |-> n, leaseIn |-> -lag, result |-> "none"]
      <3>2. n \in Nodes
        BY <3>1 DEF DispatchStore, AgentInv, TypeOK
      <3>3. stored \in [node : Nodes \cup {NoNode}, leaseIn : -MaxLag .. LeaseTTL,
                        result : Results \cup {"none"}]
        BY <3>2, AgentAssumption DEF AgentAssumption
      <3>4. /\ job' = [job EXCEPT ![j] = stored]
            /\ queue' = [queue EXCEPT ![n] = Append(queue[n], j)]
            /\ dispatching' = [dispatching EXCEPT ![j] = NoNode]
        BY <3>1, <3>2 DEF DispatchStore, AgentInv, TypeOK
      <3>5. job' \in [Jobs -> [node : Nodes \cup {NoNode}, leaseIn : -MaxLag .. LeaseTTL,
                              result : Results \cup {"none"}]]
        <4> HIDE DEF stored
        <4> QED
          BY <3>3, <3>4 DEF AgentInv, TypeOK
      <3>6. queue' \in [Nodes -> Seq(Jobs)] /\ dispatching' \in [Jobs -> Nodes \cup {NoNode}]
        <4>1. queue \in [Nodes -> Seq(Jobs)] /\ dispatching \in [Jobs -> Nodes \cup {NoNode}]
          BY DEF AgentInv, TypeOK
        <4>2. Append(queue[n], j) \in Seq(Jobs)
          BY <3>2, <4>1
        <4> QED
          BY <3>2, <3>4, <4>1, <4>2
      <3> QED
        BY <3>1, <3>5, <3>6 DEF AgentInv, TypeOK, DispatchStore, registry, agents
    <2> QED
      BY <2>1, <2>2
  <1>2. /\ UNCHANGED <<slot, answer, told>>
        /\ \A k \in Jobs : /\ job'[k].result = job[k].result
                           /\ job[k].node # NoNode => job'[k] = job[k]
                           /\ dispatching'[k] # NoNode => job'[k] = Undispatched
    <2>1. CASE \E n \in Nodes : DispatchLookup(j, n)
      BY <2>1 DEF DispatchLookup, AgentInv, TypeOK, DispatchInv, agents
    <2>2. CASE \E lag \in 0 .. MaxLag : DispatchStore(j, lag)
      <3>1. job[j] = Undispatched
        BY <2>2 DEF DispatchStore, AgentInv, DispatchInv
      <3> QED
        BY <2>2, <3>1 DEF DispatchStore, AgentInv, TypeOK, DispatchInv, Undispatched, agents
    <2> QED
      BY <2>1, <2>2
  <1>3. \A n \in Nodes : QueueInv(n)'
    <2>1. CASE \E n \in Nodes : DispatchLookup(j, n)
      BY <2>1 DEF DispatchLookup, AgentInv, QueueInv
    <2>2. CASE \E lag \in 0 .. MaxLag : DispatchStore(j, lag)
      <3>1. PICK lag \in 0 .. MaxLag : DispatchStore(j, lag)
        BY <2>2
      <3>2. /\ dispatching[j] \in Nodes
            /\ job'[j].node = dispatching[j]
            /\ queue' = [queue EXCEPT ![dispatching[j]] = Append(queue[dispatching[j]], j)]
        BY <3>1 DEF DispatchStore, AgentInv, TypeOK
      <3> SUFFICES ASSUME NEW n \in Nodes, NEW i \in DOMAIN queue'[n]
                   PROVE  job'[queue'[n][i]].node = n
        BY DEF QueueInv
      <3>3. queue \in [Nodes -> Seq(Jobs)] /\ QueueInv(n)
        BY DEF AgentInv, TypeOK
      <3>4. CASE n = dispatching[j]
        <4>1. queue'[n] = Append(queue[n], j)
          BY <3>2, <3>3, <3>4
        <4>2. (i \in DOMAIN queue[n] /\ queue'[n][i] = queue[n][i]) \/ queue'[n][i] = j
          BY <3>3, <4>1
        <4>3. CASE i \in DOMAIN queue[n] /\ queue'[n][i] = queue[n][i]
          <5>1. queue[n][i] \in Jobs /\ job[queue[n][i]].node = n
            BY <3>3, <4>3 DEF QueueInv
          <5> QED
            BY <1>0, <1>2, <4>3, <5>1
        <4>4. CASE queue'[n][i] = j
          BY <3>2, <3>4, <4>4
        <4> QED
          BY <4>2, <4>3, <4>4
      <3>5. CASE n # dispatching[j]
        <4>1. queue'[n] = queue[n]
          BY <3>2, <3>3, <3>5
        <4>2. queue[n][i] \in Jobs /\ job[queue[n][i]].node = n
          BY <3>3, <4>1 DEF QueueInv
        <4> QED
          BY <1>0, <1>2, <4>1, <4>2
      <3> QED
        BY <3>4, <3>5
    <2> QED
      BY <2>1, <2>2
  <1>4. \A n \in Nodes, s \in Slots : SlotInv(n, s)'
    <2> SUFFICES ASSUME NEW n \in Nodes, NEW s \in Slots PROVE SlotInv(n, s)'
      OBVIOUS
    <2>1. SlotInv(n, s) /\ slot'[n][s] = slot[n][s]
      BY <1>2 DEF AgentInv
    <2> QED
      BY <1>0, <1>2, <2>1 DEF SlotInv, Running, Finished
  <1>5. \A k \in Jobs : HeardInv(k)'
    BY <1>2, SameResultsSameRecord
  <1>6. \A k \in Jobs : DispatchInv(k)'
    BY <1>2 DEF DispatchInv, Undispatched
  <1>7. \A n \in Nodes : AnswerInv(n)'
    <2> SUFFICES ASSUME NEW n \in Nodes, NEW k \in answer[n] PROVE job'[k].node = n
      BY <1>2 DEF AnswerInv
    <2>1. k \in Jobs /\ job[k].node = n
      BY DEF AgentInv, TypeOK, AnswerInv
    <2>2. job'[k] = job[k]
      BY <1>0, <1>2, <2>1
    <2> QED
      BY <2>1, <2>2
  <1> QED
    BY <1>1, <1>3, <1>4, <1>5, <1>6, <1>7 DEF AgentInv

LEMMA PollKeepsInv ==
  ASSUME AgentInv, NEW n \in Nodes,
         PollLookup(n) \/ \E lag \in 0 .. MaxLag : PollLease(n, lag)
  PROVE  AgentInv'
  <1>0. TypeOK
    BY DEF AgentInv
  <1>1. CASE PollLookup(n)
    <2>1. polling' \in [Nodes -> 0 .. Cardinality(Slots)] /\ heard' \in [Nodes -> BOOLEAN]
      BY <1>0, <1>1, FreeSlotsAreFew DEF PollLookup, TypeOK
    <2>2. UNCHANGED <<registry, transport, answer, slot, told, faults>>
      BY <1>1 DEF PollLookup
    <2>3. TypeOK'
      BY <1>0, <2>1, <2>2 DEF TypeOK, registry, transport
    <2> QED
      BY <2>2, <2>3, SlotsAndJobsKeepInv, SameResultsSameRecord DEF transport
  <1>2. CASE \E lag \in 0 .. MaxLag : PollLease(n, lag)
    <2>1. PICK lag \in 0 .. MaxLag : PollLease(n, lag)
      BY <1>2
    <2> DEFINE taken == Taken(n, lag)
    <2>2. taken \subseteq Jobs /\ \A j \in taken : job[j].node = n
      BY <1>0, TakenIsOpen DEF AgentInv, QueueInv
    <2>3. LeaseTTL - lag \in -MaxLag .. LeaseTTL
      BY AgentAssumption DEF AgentAssumption
    <2>4. /\ job' = [j \in Jobs |-> IF j \in taken THEN [job[j] EXCEPT !.leaseIn = LeaseTTL - lag]
                                                 ELSE job[j]]
          /\ answer' = [answer EXCEPT ![n] = IF heard[n] THEN taken ELSE {}]
          /\ polling' = [polling EXCEPT ![n] = 0]
          /\ UNCHANGED <<registry, queue, dispatching, heard, slot, told, faults>>
      BY <2>1 DEF PollLease, Leased, Answered
    <2>5. \A j \in Jobs : /\ job'[j].node = job[j].node /\ job'[j].result = job[j].result
                          /\ job[j].node = NoNode => job'[j] = job[j]
      BY <1>0, <2>2, <2>4, AgentAssumption DEF TypeOK, AgentAssumption
    <2>6. TypeOK'
      <3>1. job' \in [Jobs -> [node : Nodes \cup {NoNode}, leaseIn : -MaxLag .. LeaseTTL,
                              result : Results \cup {"none"}]]
        BY <1>0, <2>3, <2>4 DEF TypeOK
      <3>2. polling' \in [Nodes -> 0 .. Cardinality(Slots)]
        <4>1. 0 \in 0 .. Cardinality(Slots)
          BY AgentAssumption, FS_CardinalityType DEF AgentAssumption
        <4> QED
          BY <1>0, <2>4, <4>1 DEF TypeOK
      <3>3. answer' \in [Nodes -> SUBSET Jobs]
        <4>1. (IF heard[n] THEN taken ELSE {}) \in SUBSET Jobs
          BY <2>2
        <4> HIDE DEF taken
        <4> QED
          BY <1>0, <2>4, <4>1 DEF TypeOK
      <3>4. UNCHANGED <<token, node, queue, dispatching, heard, slot, told, faults>>
        BY <2>4 DEF registry
      <3> QED
        BY <1>0, <3>1, <3>2, <3>3, <3>4 DEF TypeOK
    <2>7. \A m \in Nodes : \A j \in answer'[m] : j \in answer[m] \/ job[j].node = m
      <3> HIDE DEF taken
      <3> QED
        BY <1>0, <2>2, <2>4 DEF TypeOK
    <2>9. \A j \in Jobs : dispatching[j] # NoNode => job'[j] = job[j]
      BY <2>5 DEF AgentInv, DispatchInv, Undispatched
    <2> QED
      BY <2>4, <2>5, <2>6, <2>7, <2>9, SlotsAndJobsKeepInv, SameResultsSameRecord
  <1> QED
    BY <1>1, <1>2

LEMMA ReceiptKeepsInv ==
  ASSUME AgentInv, NEW n \in Nodes, Receive(n) \/ LoseAnswer(n)
  PROVE  AgentInv'
  <1>0. TypeOK
    BY DEF AgentInv
  <1>1. /\ heard' = [heard EXCEPT ![n] = FALSE]
        /\ answer' = [answer EXCEPT ![n] = {}]
        /\ UNCHANGED <<registry, transport, polling, told>>
    BY DEF Receive, LoseAnswer
  <1>2. /\ heard' \in [Nodes -> BOOLEAN] /\ answer' \in [Nodes -> SUBSET Jobs]
        /\ \A m \in Nodes : answer'[m] \subseteq answer[m]
    BY <1>0, <1>1 DEF TypeOK
  <1>3. faults' \in 0 .. MaxFaults
    BY <1>0, FaultIsBounded DEF Receive, LoseAnswer, TypeOK
  <1>4. /\ slot' \in [Nodes -> [Slots -> [job : Jobs \cup {NoJob},
                                          state : {"none", "running"} \cup Results]]]
        /\ \A m \in Nodes, s \in Slots :
             \/ slot'[m][s] = slot[m][s]
             \/ m = n /\ \E j \in answer[n] : slot'[m][s] = [job |-> j, state |-> "running"]
    <2>1. CASE Receive(n)
      BY <1>0, <2>1, AnswerFillsSlots
    <2>2. CASE LoseAnswer(n)
      BY <1>0, <2>2 DEF LoseAnswer, TypeOK
    <2> QED
      BY <2>1, <2>2
  <1>5. TypeOK'
    BY <1>0, <1>1, <1>2, <1>3, <1>4 DEF TypeOK, registry, transport
  <1>6. \A m \in Nodes, s \in Slots :
          \/ slot'[m][s] \in {slot[m][s], Idle}
          \/ /\ slot'[m][s].job \in Jobs /\ job[slot'[m][s].job].node = m
             /\ slot'[m][s].state \in {"running"} \cup Results
    <2> SUFFICES ASSUME NEW m \in Nodes, NEW s \in Slots, slot'[m][s] # slot[m][s]
                 PROVE  /\ slot'[m][s].job \in Jobs /\ job[slot'[m][s].job].node = m
                        /\ slot'[m][s].state = "running"
      OBVIOUS
    <2>1. PICK j \in answer[n] : slot'[m][s] = [job |-> j, state |-> "running"] /\ m = n
      BY <1>4
    <2>2. j \in Jobs /\ job[j].node = n
      BY <1>0 DEF AgentInv, AnswerInv, TypeOK
    <2> QED
      BY <2>1, <2>2
  <1> QED
    BY <1>1, <1>2, <1>5, <1>6, SlotsAndJobsKeepInv, SameResultsSameRecord DEF transport

LEMMA ExecutionKeepsInv ==
  ASSUME AgentInv, NEW n \in Nodes, NEW s \in Slots,
         \/ ReportProgress(n, s) \/ CompleteJob(n, s) \/ CompleteAgain(n, s) \/ CallbackFails(n, s)
         \/ \E result \in Results : Finish(n, s, result)
  PROVE  AgentInv'
  <1> DEFINE j == slot[n][s].job
             Record == [node : Nodes \cup {NoNode}, leaseIn : -MaxLag .. LeaseTTL,
                        result : Results \cup {"none"}]
             Slot == [job : Jobs \cup {NoJob}, state : {"none", "running"} \cup Results]
  <1>0. /\ TypeOK /\ NoNode \notin Nodes /\ "none" \notin Results
        /\ MaxLag \in Nat /\ LeaseTTL \in Nat
    BY AgentAssumption DEF AgentAssumption, AgentInv
  <1>1. Running(n, s) \/ Finished(n, s)
    BY DEF ReportProgress, CompleteJob, CompleteAgain, CallbackFails, Finish
  <1>2. j \in Jobs /\ job[j].node = n /\ (Finished(n, s) => slot[n][s].state \in Results)
    BY <1>1, BusySlots DEF Finished
  <1>3. job \in [Jobs -> Record] /\ slot \in [Nodes -> [Slots -> Slot]] /\ Idle \in Slot
    BY <1>0 DEF TypeOK, Idle
  <1>4. dispatching[j] = NoNode
    BY <1>0, <1>2 DEF AgentInv, DispatchInv, Undispatched
  <1>5. UNCHANGED <<registry, queue, dispatching, polling, heard, answer>>
    BY DEF ReportProgress, CompleteJob, CompleteAgain, CallbackFails, Finish, transport, agents
  <1>6. faults' \in 0 .. MaxFaults
    BY <1>0, FaultIsBounded
       DEF TypeOK, ReportProgress, CompleteJob, CompleteAgain, CallbackFails, Finish
  <1>7. /\ slot' \in [Nodes -> [Slots -> Slot]]
        /\ \A m \in Nodes, t \in Slots :
             \/ slot'[m][t] \in {slot[m][t], Idle}
             \/ /\ slot'[m][t].job \in Jobs /\ job[slot'[m][t].job].node = m
                /\ slot'[m][t].state \in {"running"} \cup Results
    <2>1. CASE UNCHANGED slot
      BY <1>3, <2>1
    <2>2. CASE Freed(n, s)
      <3> HIDE DEF Slot
      <3> QED
        BY <1>3, <2>2 DEF Freed
    <2>3. CASE \E result \in Results : Finish(n, s, result)
      <3>1. PICK result \in Results : slot' = [slot EXCEPT ![n][s].state = result]
        BY <2>3 DEF Finish
      <3> DEFINE over == [job |-> j, state |-> result]
      <3>2. slot' = [slot EXCEPT ![n][s] = over]
        <4>1. [slot[n][s] EXCEPT !.state = result] = over
          BY <1>3
        <4> QED
          BY <1>3, <3>1, <4>1
      <3>3. over \in Slot
        BY <1>2
      <3>4. slot'[n][s] = over /\ \A m \in Nodes, t \in Slots : <<m, t>> # <<n, s>> => slot'[m][t] = slot[m][t]
        <4> HIDE DEF Slot, over
        <4> QED
          BY <1>3, <3>2
      <3>5. slot' \in [Nodes -> [Slots -> Slot]]
        <4> HIDE DEF Slot, over
        <4> QED
          BY <1>3, <3>2, <3>3
      <3> QED
        BY <1>2, <3>4, <3>5
    <2> QED
      BY <2>1, <2>2, <2>3 DEF ReportProgress, CompleteJob, CompleteAgain, CallbackFails, agents
  <1>10. \A r \in Record, result \in Results \cup {"none"} :
           LET extended == [r EXCEPT !.leaseIn = LeaseTTL]
               done == [r EXCEPT !.result = result, !.leaseIn = 0]
           IN  /\ extended \in Record /\ extended.node = r.node /\ extended.result = r.result
               /\ done \in Record /\ done.node = r.node /\ done.result = result
    <2>1. LeaseTTL \in -MaxLag .. LeaseTTL /\ 0 \in -MaxLag .. LeaseTTL
      BY <1>0
    <2> QED
      BY <2>1
  <1>8. /\ job' \in [Jobs -> Record]
        /\ told' \in [Jobs -> Seq(Results)]
        /\ \A k \in Jobs : job'[k].node = job[k].node /\ (k # j => job'[k] = job[k])
        /\ \A k \in Jobs : HeardInv(k)'
    <2>1. told \in [Jobs -> Seq(Results)]
      BY <1>0 DEF TypeOK
    <2>2. CASE UNCHANGED <<job, told>>
      BY <1>3, <2>1, <2>2, SameResultsSameRecord
    <2>3. CASE ReportProgress(n, s)
      <3> DEFINE extended == [job[j] EXCEPT !.leaseIn = LeaseTTL]
      <3>1. job' = [job EXCEPT ![j] = extended] /\ UNCHANGED told
        BY <2>3 DEF ReportProgress
      <3>2. extended \in Record /\ extended.node = job[j].node /\ extended.result = job[j].result
        <4> HIDE DEF Record, j
        <4> QED
          BY <1>2, <1>3, <1>10
      <3> HIDE DEF extended, Record
      <3>3. \A k \in Jobs : job'[k] = IF k = j THEN extended ELSE job[k]
        BY <1>3, <3>1
      <3>4. job' \in [Jobs -> Record]
        BY <1>3, <3>1, <3>2
      <3>5. \A k \in Jobs : job'[k].result = job[k].result /\ job'[k].node = job[k].node
        BY <3>2, <3>3
      <3> QED
        BY <2>1, <3>1, <3>3, <3>4, <3>5, SameResultsSameRecord
    <2>4. CASE CompleteJob(n, s)
      <3> DEFINE result == slot[n][s].state
                 done == [job[j] EXCEPT !.result = result, !.leaseIn = 0]
      <3>1. /\ ~Completed(j) /\ result \in Results
            /\ told' = [told EXCEPT ![j] = Append(told[j], result)]
            /\ job' = [job EXCEPT ![j].result = result, ![j].leaseIn = 0]
        BY <2>4 DEF CompleteJob, Finished
      <3>2. job' = [job EXCEPT ![j] = done]
        BY <1>2, <1>3, <3>1
      <3>3. done \in Record /\ done.node = job[j].node /\ done.result = result
        <4> HIDE DEF Record, j, result
        <4> QED
          BY <1>2, <1>3, <1>10, <3>1
      <3>4. told[j] = <<>>
        BY <1>2, <3>1 DEF AgentInv, HeardInv
      <3> HIDE DEF done, Record, result, j
      <3>5. \A k \in Jobs : job'[k] = IF k = j THEN done ELSE job[k]
        BY <1>2, <1>3, <3>2
      <3>6. \A k \in Jobs : told'[k] = IF k = j THEN <<result>> ELSE told[k]
        BY <1>2, <2>1, <3>1, <3>4
      <3>7. job' \in [Jobs -> Record] /\ told' \in [Jobs -> Seq(Results)]
        <4>1. Append(told[j], result) \in Seq(Results)
          BY <1>2, <2>1, <3>1
        <4> QED
          BY <1>2, <1>3, <2>1, <3>1, <3>2, <3>3, <4>1
      <3>8. \A k \in Jobs : HeardInv(k)'
        <4> SUFFICES ASSUME NEW k \in Jobs PROVE HeardInv(k)'
          OBVIOUS
        <4>1. CASE k = j
          BY <1>0, <3>1, <3>3, <3>5, <3>6, <4>1 DEF HeardInv, Completed
        <4>2. CASE k # j
          BY <3>5, <3>6, <4>2 DEF HeardInv, Completed, AgentInv
        <4> QED
          BY <4>1, <4>2
      <3> QED
        BY <3>3, <3>5, <3>7, <3>8
    <2> QED
      BY <2>2, <2>3, <2>4 DEF CompleteAgain, CallbackFails, Finish, transport
  <1>9. TypeOK'
    BY <1>0, <1>5, <1>6, <1>7, <1>8 DEF TypeOK, registry
  <1> HIDE DEF Record, Slot, j
  <1> QED
    BY <1>4, <1>5, <1>7, <1>8, <1>9, SlotsAndJobsKeepInv

LEMMA CrashAndTickKeepInv ==
  ASSUME AgentInv, Tick \/ \E n \in Nodes : Crash(n)
  PROVE  AgentInv'
  <1>0. TypeOK
    BY DEF AgentInv
  <1>1. CASE Tick
    <2>1. MaxLag \in Nat /\ LeaseTTL \in Nat
      BY AgentAssumption DEF AgentAssumption
    <2>2. \A j \in Jobs : job[j].leaseIn # -MaxLag => job[j].leaseIn - 1 \in -MaxLag .. LeaseTTL
      BY <1>0, <2>1 DEF TypeOK
    <2>3. job' \in [Jobs -> [node : Nodes \cup {NoNode}, leaseIn : -MaxLag .. LeaseTTL,
                            result : Results \cup {"none"}]]
      BY <1>0, <1>1, <2>2 DEF TypeOK, Tick
    <2>4. \A j \in Jobs : /\ job'[j].node = job[j].node /\ job'[j].result = job[j].result
                          /\ job[j].node = NoNode => job'[j] = job[j]
      BY <1>0, <1>1 DEF Tick, TypeOK
    <2>5. UNCHANGED <<registry, queue, dispatching, agents, told, faults>>
      BY <1>1 DEF Tick
    <2>6. TypeOK'
      BY <1>0, <2>3, <2>5 DEF TypeOK, registry, agents
    <2>7. \A j \in Jobs : dispatching[j] # NoNode => job'[j] = job[j]
      BY <2>4 DEF AgentInv, DispatchInv, Undispatched
    <2> QED
      BY <2>4, <2>5, <2>6, <2>7, SlotsAndJobsKeepInv, SameResultsSameRecord DEF agents
  <1>2. CASE \E n \in Nodes : Crash(n)
    <2>1. PICK n \in Nodes : Crash(n)
      BY <1>2
    <2>2. /\ slot' = [slot EXCEPT ![n] = [s \in Slots |-> Idle]]
          /\ heard' = [heard EXCEPT ![n] = FALSE]
          /\ answer' = [answer EXCEPT ![n] = {}]
          /\ faults' \in 0 .. MaxFaults
          /\ UNCHANGED <<registry, transport, polling, told>>
      BY <1>0, <2>1, FaultIsBounded DEF Crash
    <2>3. /\ \A m \in Nodes, s \in Slots : slot'[m][s] \in {slot[m][s], Idle}
          /\ \A m \in Nodes : answer'[m] \subseteq answer[m]
          /\ answer' \in [Nodes -> SUBSET Jobs]
      BY <1>0, <2>2 DEF TypeOK
    <2>4. slot' \in [Nodes -> [Slots -> [job : Jobs \cup {NoJob},
                                        state : {"none", "running"} \cup Results]]]
      BY <1>0, <2>2 DEF TypeOK, Idle
    <2>5. TypeOK'
      BY <1>0, <2>2, <2>3, <2>4 DEF TypeOK, registry, transport
    <2> QED
      BY <2>2, <2>3, <2>5, SlotsAndJobsKeepInv, SameResultsSameRecord DEF transport
  <1> QED
    BY <1>1, <1>2

LEMMA StepKeepsInv == AgentInv /\ [Next]_vars => AgentInv'
  <1> SUFFICES ASSUME AgentInv, [Next]_vars PROVE AgentInv'
    OBVIOUS
  <1>1. CASE Next
    <2>1. CASE CreateRegistrationToken \/ TokenExpires \/ \E n \in Nodes : Register(n) \/ Disable(n)
      BY <2>1, RegistryKeepsInv
    <2>2. CASE \E j \in Jobs : \/ \E n \in Nodes : DispatchLookup(j, n)
                              \/ \E lag \in 0 .. MaxLag : DispatchStore(j, lag)
      BY <2>2, DispatchKeepsInv
    <2>3. CASE \E n \in Nodes : AgentStep(n)
      <3>1. PICK n \in Nodes : AgentStep(n)
        BY <2>3
      <3>2. CASE \E fact \in Facts : Heartbeat(n, fact)
        BY <3>2, RegistryKeepsInv
      <3>3. CASE PollLookup(n) \/ \E lag \in 0 .. MaxLag : PollLease(n, lag)
        BY <3>3, PollKeepsInv
      <3>6. CASE Receive(n) \/ LoseAnswer(n)
        BY <3>6, ReceiptKeepsInv
      <3>4. ASSUME NEW s \in Slots,
                   \/ ReportProgress(n, s) \/ CompleteJob(n, s) \/ CompleteAgain(n, s)
                   \/ CallbackFails(n, s) \/ \E result \in Results : Finish(n, s, result)
            PROVE  AgentInv'
        BY <3>4, ExecutionKeepsInv
      <3>5. CASE Crash(n)
        BY <3>5, CrashAndTickKeepInv
      <3> QED
        BY <3>1, <3>2, <3>3, <3>4, <3>5, <3>6 DEF AgentStep
    <2>4. CASE Tick
      BY <2>4, CrashAndTickKeepInv
    <2> QED
      BY <1>1, <2>1, <2>2, <2>3, <2>4 DEF Next
  <1>2. CASE UNCHANGED vars
    BY <1>2 DEF vars, registry, transport, agents, AgentInv, TypeOK, SlotInv, AnswerInv, QueueInv,
                DispatchInv, HeardInv, Completed, Running, Finished
  <1> QED
    BY <1>1, <1>2

THEOREM AgentInvariance == Spec => []AgentInv
  BY InitIsConsistent, StepKeepsInv, PTL DEF Spec

(* Every variable keeps its type: no lease is longer than its length, no   *)
(* poll asks for more than the agent can execute.                          *)
THEOREM TypeCorrectness == Spec => []TypeOK
  <1>1. AgentInv => TypeOK
    BY DEF AgentInv
  <1> QED
    BY <1>1, AgentInvariance, PTL

(* service.go:460, for any number of agents, lost answers, repeated        *)
(* reports and failing callbacks: the engine hears of a job what is        *)
(* recorded, once.                                                         *)
THEOREM OneRecordOneAnswer == Spec => []EngineHearsTheRecord
  <1>1. AgentInv => EngineHearsTheRecord
    BY DEF AgentInv, HeardInv, EngineHearsTheRecord
  <1> QED
    BY <1>1, AgentInvariance, PTL
-----------------------------------------------------------------------------
(* What a step may do to executions and records.                           *)

(* Only an answer that arrives starts executions, and it is used up.       *)
Begins(n, s) ==
  LET j == slot'[n][s].job
  IN  Receive(n) /\ j \in answer[n] /\ j \notin answer'[n]

LEMMA OnlyAnswersBegin ==
  ASSUME AgentInv, [Next]_vars
  PROVE  \A n \in Nodes, s \in Slots :
           \/ slot'[n][s] \in {slot[n][s], Idle}
           \/ slot'[n][s].job = slot[n][s].job /\ slot'[n][s].state # "running"
           \/ Begins(n, s)
  <1>0. /\ slot \in [Nodes -> [Slots -> [job : Jobs \cup {NoJob},
                                         state : {"none", "running"} \cup Results]]]
        /\ Idle.state # "running" /\ "running" \notin Results
    BY AgentAssumption, IdleIsTyped DEF AgentInv, TypeOK, AgentAssumption
  <1>1. CASE UNCHANGED slot
    BY <1>1
  <1>2. CASE \E n \in Nodes, s \in Slots : Freed(n, s)
    BY <1>0, <1>2 DEF Freed
  <1>3. CASE \E n \in Nodes, s \in Slots, result \in Results : Finish(n, s, result)
    <2>1. PICK n \in Nodes, s \in Slots, result \in Results : slot' = [slot EXCEPT ![n][s].state = result]
      BY <1>3 DEF Finish
    <2>2. /\ slot'[n][s].job = slot[n][s].job /\ slot'[n][s].state = result
          /\ \A m \in Nodes, t \in Slots : <<m, t>> # <<n, s>> => slot'[m][t] = slot[m][t]
      BY <1>0, <2>1
    <2> QED
      BY <1>0, <2>2
  <1>4. CASE \E n \in Nodes : Crash(n)
    BY <1>0, <1>4 DEF Crash
  <1>5. CASE \E n \in Nodes : Receive(n)
    <2>1. PICK n \in Nodes : Receive(n)
      BY <1>5
    <2>2. answer'[n] = {}
      BY <2>1 DEF Receive, AgentInv, TypeOK
    <2>3. /\ \A m \in Nodes \ {n} : slot'[m] = slot[m]
          /\ \A s \in Slots :
               \/ slot'[n][s] = slot[n][s]
               \/ \E j \in answer[n] : slot'[n][s] = [job |-> j, state |-> "running"]
      BY <2>1, AnswerFillsSlots DEF AgentInv
    <2>4. \A s \in Slots : slot'[n][s] = slot[n][s] \/ Begins(n, s)
      <3> SUFFICES ASSUME NEW s \in Slots, slot'[n][s] # slot[n][s] PROVE Begins(n, s)
        OBVIOUS
      <3>1. PICK j \in answer[n] : slot'[n][s] = [job |-> j, state |-> "running"]
        BY <2>3
      <3> QED
        BY <2>1, <2>2, <3>1 DEF Begins
    <2> QED
      BY <2>3, <2>4
  <1>6. \/ UNCHANGED slot
        \/ \E n \in Nodes, s \in Slots : Freed(n, s)
        \/ \E n \in Nodes, s \in Slots, result \in Results : Finish(n, s, result)
        \/ \E n \in Nodes : Crash(n)
        \/ \E n \in Nodes : Receive(n)
    BY DEF Next, AgentStep, vars, agents, CreateRegistrationToken, TokenExpires, Register, Heartbeat,
           Disable, DispatchLookup, DispatchStore, PollLookup, PollLease, ReportProgress, CompleteJob,
           CompleteAgain, CallbackFails, LoseAnswer, Tick
  <1> HIDE DEF Begins
  <1> QED
    BY <1>1, <1>2, <1>3, <1>4, <1>5, <1>6

(* Only a poll that was let in hands jobs out: jobs that are open and have *)
(* no lease, and it takes their leases.                                    *)
HandsOut(n, j) ==
  /\ polling[n] > 0
  /\ ~Completed(j)
  /\ job[j].leaseIn <= 0 /\ job'[j].leaseIn >= 1
  /\ UNCHANGED slot

LEMMA OnlyPollsHandOut ==
  ASSUME AgentInv, [Next]_vars, NEW n \in Nodes, NEW j \in answer'[n], j \notin answer[n]
  PROVE  HandsOut(n, j)
  <1>0. TypeOK
    BY DEF AgentInv
  <1>1. CASE UNCHANGED answer
    BY <1>1
  <1>2. CASE \E m \in Nodes : Receive(m) \/ LoseAnswer(m) \/ Crash(m)
    BY <1>0, <1>2 DEF Receive, LoseAnswer, Crash, TypeOK
  <1>3. CASE \E m \in Nodes, lag \in 0 .. MaxLag : PollLease(m, lag)
    <2>1. PICK m \in Nodes, lag \in 0 .. MaxLag : PollLease(m, lag)
      BY <1>3
    <2>2. m = n /\ j \in Taken(n, lag)
      BY <1>0, <2>1 DEF PollLease, Answered, TypeOK
    <2>3. j \in Jobs /\ ~Completed(j) /\ job[j].leaseIn <= -lag
      BY <1>0, <2>2, TakenIsOpen
    <2>4. MaxLag \in Nat /\ LeaseTTL \in Nat /\ LeaseTTL - lag >= 1 /\ job[j].leaseIn \in Int
      BY <1>0, <2>3, AgentAssumption DEF AgentAssumption, TypeOK
    <2>5. job'[j] = [job[j] EXCEPT !.leaseIn = LeaseTTL - lag]
      BY <2>1, <2>2, <2>3 DEF PollLease, Leased
    <2>6. job'[j].leaseIn = LeaseTTL - lag
      BY <1>0, <2>3, <2>5 DEF TypeOK
    <2>7. polling[n] > 0 /\ UNCHANGED slot
      BY <2>1, <2>2 DEF PollLease
    <2> QED
      BY <2>3, <2>4, <2>6, <2>7 DEF HandsOut
  <1> QED
    BY <1>1, <1>2, <1>3
       DEF Next, AgentStep, vars, agents, CreateRegistrationToken, TokenExpires, Register, Heartbeat,
           Disable, DispatchLookup, DispatchStore, PollLookup, ReportProgress, CompleteJob,
           CompleteAgain, CallbackFails, Finish, Tick

(* What happens to the lease of a job.                                     *)
LEMMA LeasesMove ==
  ASSUME AgentInv, [Next]_vars, NEW j \in Jobs
  PROVE  \/ job'[j] = job[j]
         \/ job[j] = Undispatched
         \/ job'[j].result = job[j].result /\ job'[j].leaseIn >= 1
         \/ Tick /\ job'[j].result = job[j].result /\ job'[j].leaseIn = job[j].leaseIn - 1
         \/ ~Completed(j) /\ Completed(j)'
  <1>0. /\ TypeOK /\ DispatchInv(j) /\ job[j].result \in Results \cup {"none"}
        /\ "none" \notin Results
        /\ LeaseTTL \in Nat /\ MaxLag \in Nat /\ LeaseTTL > MaxLag
    BY AgentAssumption DEF AgentAssumption, AgentInv, TypeOK
  <1>1. CASE UNCHANGED job
    BY <1>1
  <1>2. CASE \E k \in Jobs, lag \in 0 .. MaxLag : DispatchStore(k, lag)
    BY <1>0, <1>2 DEF DispatchStore, DispatchInv, TypeOK
  <1>3. CASE \E n \in Nodes, lag \in 0 .. MaxLag : PollLease(n, lag)
    <2>1. PICK n \in Nodes, lag \in 0 .. MaxLag : Leased(Taken(n, lag), lag)
      BY <1>3 DEF PollLease
    <2>2. LeaseTTL - lag >= 1
      BY <1>0
    <2>3. job'[j] \in {job[j], [job[j] EXCEPT !.leaseIn = LeaseTTL - lag]}
      BY <2>1 DEF Leased
    <2> QED
      BY <1>0, <2>2, <2>3 DEF TypeOK
  <1>4. CASE \E n \in Nodes, s \in Slots : ReportProgress(n, s)
    <2>1. PICK n \in Nodes, s \in Slots : job' = [job EXCEPT ![slot[n][s].job].leaseIn = LeaseTTL]
      BY <1>4 DEF ReportProgress
    <2>2. job'[j] \in {job[j], [job[j] EXCEPT !.leaseIn = LeaseTTL]}
      BY <1>0, <2>1 DEF TypeOK
    <2> QED
      BY <1>0, <2>2 DEF TypeOK
  <1>5. CASE \E n \in Nodes, s \in Slots : CompleteJob(n, s)
    <2>1. PICK n \in Nodes, s \in Slots : CompleteJob(n, s)
      BY <1>5
    <2> DEFINE k == slot[n][s].job
               result == slot[n][s].state
    <2>2. /\ ~Completed(k) /\ result \in Results
          /\ job' = [job EXCEPT ![k].result = result, ![k].leaseIn = 0]
      BY <2>1 DEF CompleteJob, Finished
    <2> HIDE DEF k, result
    <2>3. CASE j # k
      BY <1>0, <2>2, <2>3 DEF TypeOK
    <2>4. CASE j = k
      BY <1>0, <2>2, <2>4 DEF TypeOK, Completed
    <2> QED
      BY <2>3, <2>4
  <1>6. CASE Tick
    BY <1>0, <1>6 DEF Tick, TypeOK
  <1> QED
    BY <1>1, <1>2, <1>3, <1>4, <1>5, <1>6
       DEF Next, AgentStep, vars, transport, CreateRegistrationToken, TokenExpires, Register, Heartbeat,
           Disable, DispatchLookup, PollLookup, CompleteAgain, CallbackFails, Finish, Crash, Receive, LoseAnswer

(* service.go:379 and :418, for any number of agents, jobs and faults: a   *)
(* job that is over keeps its result and is in no further answer; what     *)
(* still begins comes from an answer given before, once per answer.        *)
THEOREM OverJobsAreNotHandedOut == Spec => OverIsNotHandedOut
  <1> DEFINE Kept(j) ==
        /\ job'[j].result = job[j].result
        /\ \A n \in Nodes : j \in answer'[n] => j \in answer[n]
        /\ \A n \in Nodes, s \in Slots : slot'[n][s].job = j /\ slot[n][s].job # j =>
             /\ j \in answer[n] /\ j \notin answer'[n]
             /\ \A t \in Slots \ {s} : slot'[n][t].job = j => slot[n][t].job = j
  <1>1. AgentInv /\ [Next]_vars => [\A j \in Jobs : Completed(j) => Kept(j)]_vars
    <2> SUFFICES ASSUME AgentInv, [Next]_vars, NEW j \in Jobs, Completed(j) PROVE Kept(j)
      OBVIOUS
    <2>1. job'[j].result = job[j].result
      BY LeasesMove DEF Completed, Undispatched
    <2>2. \A n \in Nodes : j \in answer'[n] => j \in answer[n]
      BY OnlyPollsHandOut DEF HandsOut
    <2>3. ASSUME NEW n \in Nodes, NEW s \in Slots, slot'[n][s].job = j, slot[n][s].job # j
          PROVE  /\ j \in answer[n] /\ j \notin answer'[n]
                 /\ \A t \in Slots \ {s} : slot'[n][t].job = j => slot[n][t].job = j
      <3>1. Begins(n, s)
        BY <2>3, OnlyAnswersBegin, IdleIsTyped, AgentAssumption DEF AgentAssumption
      <3>2. \A t \in Slots \ {s} : slot'[n][t].job = j => slot'[n][t] = slot[n][t]
        BY <2>3, <3>1, AnswerFillsSlots DEF Begins, AgentInv
      <3> QED
        BY <2>3, <3>1, <3>2 DEF Begins
    <2> QED
      BY <2>1, <2>2, <2>3
  <1>2. Spec => [][\A j \in Jobs : Completed(j) => Kept(j)]_vars
    BY <1>1, AgentInvariance, PTL DEF Spec
  <1> QED
    BY <1>2 DEF OverIsNotHandedOut

(* agentnode/service.go:340, for any number of agents and jobs.            *)
THEOREM DisabledStaysOutOfWork == Spec => DisabledIsOutOfWork
  <1> DEFINE Out(n) ==
        /\ node'[n].status = "disabled"
        /\ polling[n] = 0 => polling'[n] = 0 /\ answer'[n] \subseteq answer[n]
        /\ \A s \in Slots : slot'[n][s].state = "running" =>
             Running(n, s) \/ slot'[n][s].job \in answer[n]
  <1>1. AgentInv /\ [Next]_vars => [\A n \in Nodes : node[n].status = "disabled" => Out(n)]_vars
    <2> SUFFICES ASSUME AgentInv, [Next]_vars, NEW n \in Nodes, node[n].status = "disabled"
                 PROVE  Out(n)
      OBVIOUS
    <2>1. node[n] # Unregistered /\ ~Schedulable(n)
      BY DEF Unregistered, Schedulable
    <2>2. DOMAIN node = Nodes /\ DOMAIN polling = Nodes
          /\ \A m \in Nodes : node[m] = [status |-> node[m].status, capabilities |-> node[m].capabilities]
      BY DEF AgentInv, TypeOK
    <2>3. UNCHANGED node \/ \E m \in Nodes : Register(m) \/ Disable(m) \/ \E fact \in Facts : Heartbeat(m, fact)
      BY DEF Next, AgentStep, vars, registry, CreateRegistrationToken, TokenExpires, DispatchLookup,
             DispatchStore, PollLookup, PollLease, ReportProgress, CompleteJob, CompleteAgain,
             CallbackFails, Receive, LoseAnswer, Finish, Crash, Tick
    <2>4. UNCHANGED polling \/ \E m \in Nodes : PollLookup(m) \/ \E lag \in 0 .. MaxLag : PollLease(m, lag)
      BY DEF Next, AgentStep, vars, agents, CreateRegistrationToken, TokenExpires, Register, Heartbeat,
             Disable, DispatchLookup, DispatchStore, ReportProgress, CompleteJob, CompleteAgain,
             CallbackFails, Receive, LoseAnswer, Finish, Crash, Tick
    <2>5. node'[n].status = "disabled"
      BY <2>1, <2>2, <2>3 DEF Register, Disable, Heartbeat
    <2>6. polling[n] = 0 => polling'[n] = 0
      BY <2>1, <2>2, <2>4 DEF PollLookup, PollLease
    <2>7. polling[n] = 0 => answer'[n] \subseteq answer[n]
      BY OnlyPollsHandOut DEF HandsOut
    <2>8. \A s \in Slots : slot'[n][s].state = "running" => Running(n, s) \/ slot'[n][s].job \in answer[n]
      BY OnlyAnswersBegin, IdleIsTyped DEF Begins, Running
    <2> QED
      BY <2>5, <2>6, <2>7, <2>8
  <1>2. Spec => [][\A n \in Nodes : node[n].status = "disabled" => Out(n)]_vars
    BY <1>1, AgentInvariance, PTL DEF Spec
  <1> QED
    BY <1>2 DEF DisabledIsOutOfWork
-----------------------------------------------------------------------------
(* One execution per open job, when agents are timely.                     *)

(* While an open job is executed its lease is running.                     *)
LeaseInv(n, s) ==
  Running(n, s) /\ ~Completed(slot[n][s].job) => job[slot[n][s].job].leaseIn >= 1

(* So it is while an answer is on its way to its agent, which executes     *)
(* nothing of what it is about to be given.                                *)
PromiseInv(n) ==
  \A j \in answer[n] : ~Completed(j) =>
    job[j].leaseIn >= 1 /\ \A s \in Slots : Running(n, s) => slot[n][s].job # j

(* Executions of one open job in one agent are in one slot.                *)
OneSlotInv(n, s, t) ==
  Running(n, s) /\ slot[n][s] = slot[n][t] /\ ~Completed(slot[n][s].job) => s = t

TimelyInv ==
  /\ AgentInv
  /\ \A n \in Nodes, s \in Slots : LeaseInv(n, s)
  /\ \A n \in Nodes : PromiseInv(n)
  /\ \A n \in Nodes, s, t \in Slots : OneSlotInv(n, s, t)

(* What a timely agent has in hand keeps its lease.                        *)
LEMMA InHandKeepsLease ==
  ASSUME Timely, TimelyInv, [Next]_vars, NEW n \in Nodes, NEW j \in InHand(n), job'[j].result = "none"
  PROVE  ~Completed(j) /\ job'[j].leaseIn >= 1
  <1>1. /\ j \in Jobs /\ job[j].node = n /\ job[j].leaseIn \in Int
        /\ ~Completed(j) => job[j].leaseIn >= 1
    <2>1. CASE j \in answer[n]
      BY <2>1, AgentAssumption
         DEF TimelyInv, AgentInv, TypeOK, AnswerInv, PromiseInv, AgentAssumption
    <2>2. CASE \E s \in Slots : Running(n, s) /\ slot[n][s].job = j
      <3>1. PICK s \in Slots : Running(n, s) /\ slot[n][s].job = j
        BY <2>2
      <3>2. j \in Jobs /\ job[j].node = n
        BY <3>1, BusySlots DEF TimelyInv
      <3> QED
        BY <3>1, <3>2, AgentAssumption DEF TimelyInv, AgentInv, TypeOK, LeaseInv, AgentAssumption
    <2> QED
      BY <2>1, <2>2 DEF InHand
  <1>2. job[j] # Undispatched
    BY <1>1, AgentAssumption DEF Undispatched, AgentAssumption
  <1>3. \/ job'[j] = job[j]
        \/ job'[j].result = job[j].result /\ job'[j].leaseIn >= 1
        \/ Tick /\ job'[j].result = job[j].result /\ job'[j].leaseIn = job[j].leaseIn - 1
    BY <1>1, <1>2, LeasesMove DEF TimelyInv, Completed
  <1>4. ~Completed(j)
    BY <1>3 DEF Completed
  <1>5. Tick => job[j].leaseIn > 1
    BY <1>4 DEF Tick
  <1> QED
    BY <1>1, <1>3, <1>4, <1>5

LEMMA TimelyStep ==
  ASSUME Timely, TimelyInv, [Next]_vars
  PROVE  TimelyInv'
  <1>0. /\ AgentInv /\ AgentInv'
        /\ \A n \in Nodes, s \in Slots : LeaseInv(n, s)
        /\ \A n \in Nodes : PromiseInv(n)
        /\ \A n \in Nodes, s, t \in Slots : OneSlotInv(n, s, t)
    BY StepKeepsInv DEF TimelyInv
  (* What is executed afterwards was executed in the same place or was in  *)
  (* an answer that has arrived.                                           *)
  <1>1. ASSUME NEW n \in Nodes, NEW s \in Slots, Running(n, s)'
        PROVE  /\ slot'[n][s].job \in InHand(n)
               /\ slot'[n][s] = slot[n][s] \/ Begins(n, s)
    <2>1. slot'[n][s] # Idle /\ slot'[n][s].state = "running"
      BY <1>1, IdleIsTyped DEF Running
    <2>2. slot'[n][s] = slot[n][s] \/ Begins(n, s)
      BY <1>0, <2>1, OnlyAnswersBegin
    <2> QED
      BY <2>1, <2>2 DEF Begins, InHand, Running
  <1>2. \A n \in Nodes, s \in Slots : LeaseInv(n, s)'
    <2> SUFFICES ASSUME NEW n \in Nodes, NEW s \in Slots, Running(n, s)', ~Completed(slot[n][s].job)'
                 PROVE  job'[slot'[n][s].job].leaseIn >= 1
      BY DEF LeaseInv
    <2> DEFINE j == slot'[n][s].job
    <2>1. j \in InHand(n) /\ job'[j].result = "none"
      BY <1>1 DEF Completed
    <2> HIDE DEF j
    <2>2. job'[j].leaseIn >= 1
      BY <2>1, InHandKeepsLease
    <2> QED
      BY <2>2 DEF j
  <1>3. \A n \in Nodes : PromiseInv(n)'
    <2> SUFFICES ASSUME NEW n \in Nodes, NEW j \in answer'[n], ~Completed(j)'
                 PROVE  /\ job'[j].leaseIn >= 1
                        /\ \A s \in Slots : Running(n, s)' => slot'[n][s].job # j
      BY DEF PromiseInv
    <2>1. CASE j \in answer[n]
      <3>1. j \in InHand(n)
        BY <2>1 DEF InHand
      <3>2. ~Completed(j) /\ job'[j].leaseIn >= 1
        BY <3>1, InHandKeepsLease DEF Completed
      <3>3. \A s \in Slots : Running(n, s)' => slot'[n][s].job # j
        BY <1>0, <1>1, <2>1, <3>2 DEF PromiseInv, Running, Begins
      <3> QED
        BY <3>2, <3>3
    <2>2. CASE j \notin answer[n]
      <3>1. HandsOut(n, j)
        BY <1>0, <2>2, OnlyPollsHandOut
      <3>2. j \in Jobs /\ job[j].leaseIn \in Int
        BY <1>0, AgentAssumption DEF AgentInv, TypeOK, AgentAssumption
      <3>3. \A s \in Slots : Running(n, s) => slot[n][s].job # j
        BY <1>0, <3>1, <3>2 DEF HandsOut, LeaseInv
      <3> QED
        BY <3>1, <3>3 DEF HandsOut, Running
    <2> QED
      BY <2>1, <2>2
  <1>4. \A n \in Nodes, s, t \in Slots : OneSlotInv(n, s, t)'
    <2> SUFFICES ASSUME NEW n \in Nodes, NEW s \in Slots, NEW t \in Slots, s # t,
                        Running(n, s)', slot'[n][s] = slot'[n][t], ~Completed(slot[n][s].job)'
                 PROVE  FALSE
      BY DEF OneSlotInv
    <2>1. Running(n, t)' /\ ~Completed(slot[n][t].job)'
      BY DEF Running, Completed
    <2>2. ~Completed(slot'[n][s].job)
      <3> DEFINE j == slot'[n][s].job
      <3>1. j \in InHand(n) /\ job'[j].result = "none"
        BY <1>1 DEF Completed
      <3> HIDE DEF j
      <3>2. ~Completed(j)
        BY <3>1, InHandKeepsLease
      <3> QED
        BY <3>2 DEF j
    <2>3. slot'[n][s] = slot[n][s] \/ slot'[n][t] = slot[n][t]
      BY <1>0, <1>1, AnswerFillsSlots DEF Begins, AgentInv
    <2>4. CASE slot'[n][s] = slot[n][s] /\ slot'[n][t] = slot[n][t]
      BY <1>0, <2>2, <2>4 DEF OneSlotInv, Running
    <2>5. CASE slot'[n][s] # slot[n][s] \/ slot'[n][t] # slot[n][t]
      BY <1>0, <1>1, <2>1, <2>2, <2>3, <2>5 DEF Begins, PromiseInv, Running
    <2> QED
      BY <2>4, <2>5
  <1> QED
    BY <1>0, <1>2, <1>3, <1>4 DEF TimelyInv

LEMMA TimelyInit == Init => TimelyInv
  <1> SUFFICES ASSUME Init PROVE TimelyInv
    OBVIOUS
  <1>1. /\ \A n \in Nodes, s \in Slots : ~Running(n, s)
        /\ \A n \in Nodes : answer[n] = {}
    BY IdleIsTyped DEF Init, Running
  <1> QED
    BY <1>1, InitIsConsistent DEF TimelyInv, LeaseInv, PromiseInv, OneSlotInv

LEMMA TimelyInvSuffices == TimelyInv => OneExecutionPerOpenJob
  <1> SUFFICES ASSUME TimelyInv, NEW j \in Jobs, ~Completed(j)
               PROVE  Cardinality({at \in Nodes \X Slots :
                        slot[at[1]][at[2]] = [job |-> j, state |-> "running"]}) <= 1
    BY DEF OneExecutionPerOpenJob
  <1> DEFINE execution == [job |-> j, state |-> "running"]
             all == {at \in Nodes \X Slots : slot[at[1]][at[2]] = execution}
  <1>1. \A n \in Nodes, s \in Slots : slot[n][s] = execution =>
          Running(n, s) /\ job[j].node = n /\ slot[n][s].job = j
    <2>1. execution.job = j /\ execution.state = "running" /\ execution # Idle
      BY IdleIsTyped
    <2> HIDE DEF execution
    <2> QED
      BY <2>1 DEF TimelyInv, AgentInv, SlotInv, Running
  <1>2. \A n, m \in Nodes, s, t \in Slots :
          slot[n][s] = execution /\ slot[m][t] = execution => n = m /\ s = t
    <2> HIDE DEF execution
    <2> QED
      BY <1>1 DEF TimelyInv, OneSlotInv
  <1> SUFFICES Cardinality(all) <= 1
    OBVIOUS
  <1> HIDE DEF execution
  <1>3. CASE all = {}
    <2> HIDE DEF all
    <2> QED
      BY <1>3, FS_EmptySet
  <1>4. CASE all # {}
    <2>1. PICK at : at \in all
      BY <1>4
    <2>2. all = {at}
      <3> SUFFICES ASSUME NEW bt \in all PROVE bt = at
        BY <2>1
      <3>1. at = <<at[1], at[2]>> /\ bt = <<bt[1], bt[2]>>
        BY <2>1
      <3>2. /\ at[1] \in Nodes /\ at[2] \in Slots /\ slot[at[1]][at[2]] = execution
            /\ bt[1] \in Nodes /\ bt[2] \in Slots /\ slot[bt[1]][bt[2]] = execution
        BY <2>1
      <3> QED
        BY <1>2, <3>1, <3>2
    <2> HIDE DEF all
    <2>3. Cardinality(all) = 1
      BY <2>2, FS_Singleton
    <2> QED
      BY <2>3
  <1> QED
    BY <1>3, <1>4

(* service.go:385, for any number of agents, jobs, slots, lost answers and *)
(* crashes: agents that report progress in time never execute an open job  *)
(* twice at once.                                                          *)
THEOREM TimelyAgentsDoNotOverlap ==
  ASSUME Timely
  PROVE  Spec => []OneExecutionPerOpenJob
  <1>1. TimelyInv /\ [Next]_vars => TimelyInv'
    BY TimelyStep
  <1> QED
    BY <1>1, TimelyInit, TimelyInvSuffices, PTL DEF Spec
=============================================================================
