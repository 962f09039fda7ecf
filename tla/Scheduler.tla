----------------------------- MODULE Scheduler ------------------------------
(***************************************************************************)
(* The workers of internal/scheduler on top of the job queue.  A worker    *)
(* runs RunOnce in a loop: it claims a batch, then starts, executes and    *)
(* reports the claims one after the other, renewing the lease of the one   *)
(* it executes.  Its calls reach the store with the time it read before    *)
(* each of them, and it goes by their answers alone.  The planner, the     *)
(* reaper and the users who schedule and cancel jobs act beside it.        *)
(***************************************************************************)
EXTENDS JobQueue

CONSTANTS
  Crashes,       \* workers may crash and be restarted under the same id
  StoreFaults,   \* a call may fail with an error, before or after it took effect
  Timely         \* leases are renewed in time: RenewInterval < LeaseTTL, prompt calls

ASSUME SchedulerAssumption ==
  /\ IsFiniteSet(Jobs)
  /\ Crashes \in BOOLEAN /\ StoreFaults \in BOOLEAN /\ Timely \in BOOLEAN

(* worker[w].batch: the claims w has in hand, first the one it deals with; *)
(* a claim is the job and the number of its attempt.  renewLost: renewErr  *)
(* holds an error.                                                         *)
VARIABLE worker

schedulerVars == <<jobs, attempts, worker>>

Phases   == {"idle", "next", "executing", "returned", "down"}
ClaimsOf == [job : Jobs, no : Nat]

NotRunning == [phase |-> "idle", batch |-> << >>, renewLost |-> FALSE]

InHand(w)  == {worker[w].batch[i] : i \in 1 .. Len(worker[w].batch)}
Current(w) == worker[w].batch[1]
In(w, phase) == worker[w].phase = phase

SchedulerInit == Init /\ worker = [w \in Workers |-> NotRunning]

-----------------------------------------------------------------------------
(* RunOnce.                                                                *)

(* A batch comes back in claim order, each claim with its attempt.         *)
InClaimOrder(order) == \A i, k \in DOMAIN order : i < k => ~Precedes(order[k], order[i])
ClaimsIn(order) == [i \in DOMAIN order |-> [job |-> order[i], no |-> jobs[order[i]].count + 1]]

PollWhileBusy(w, lag) ==                                                   \* mutant
  /\ In(w, "idle") \/ In(w, "next")
  /\ \E batch \in SUBSET Jobs : \E order \in SetToSeqs(batch) :
       /\ ClaimBatch(w, lag, batch)
       /\ worker' = [worker EXCEPT ![w].phase = "next", ![w].batch = @ \o ClaimsIn(order)]

Poll(w, lag) ==
  /\ In(w, "idle")
  /\ \E batch \in SUBSET Jobs : \E order \in SetToSeqs(batch) :
       /\ ClaimBatch(w, lag, batch)
       /\ InClaimOrder(order)
       /\ worker' = [worker EXCEPT ![w] =
            [phase |-> "next", batch |-> ClaimsIn(order), renewLost |-> FALSE]]

(* A batch whose answer is lost is in nobody's hands.                      *)
LosePoll(w, lag) == StoreFaults /\ In(w, "idle") /\ Claim(w, lag) /\ UNCHANGED worker

(* On to the next claim of the batch, whatever became of this one.         *)
Advance(w) ==
  worker' = [worker EXCEPT ![w] =
    IF Len(@.batch) = 1 THEN NotRunning
    ELSE [phase |-> "next", batch |-> Tail(@.batch), renewLost |-> FALSE]]

Start(w, lag) ==
  /\ In(w, "next")
  /\ MarkRunning(Current(w).job, w, lag)
  /\ worker' = [worker EXCEPT ![w].phase = "executing"]

(* MarkRunning returned an error: the claim is dropped.                    *)
FailToStart(w, lag) ==
  /\ In(w, "next")
  /\ \/ ~MayStart(Current(w).job, w, lag) /\ UNCHANGED vars
     \/ StoreFaults /\ (UNCHANGED vars \/ MarkRunning(Current(w).job, w, lag))
  /\ Advance(w)

(* renewLoop.  An error ends the loop, but not the execution: execCtx is   *)
(* only cancelled once Execute has returned.                               *)
RenewLease(w, lag) ==
  /\ In(w, "executing") /\ ~worker[w].renewLost
  /\ Heartbeat(Current(w).job, w, lag)
  /\ UNCHANGED worker

FailToRenew(w, lag) ==
  /\ In(w, "executing") /\ ~worker[w].renewLost
  /\ \/ ~MayReport(Current(w).job, w, lag) /\ UNCHANGED vars
     \/ StoreFaults /\ (UNCHANGED vars \/ Heartbeat(Current(w).job, w, lag))
  /\ worker' = [worker EXCEPT ![w].renewLost = TRUE]

Return(w) ==
  /\ In(w, "executing")
  /\ worker' = [worker EXCEPT ![w].phase = "returned"]
  /\ UNCHANGED vars

CancelEveryRenewal(w, lag) ==                                              \* mutant
  /\ In(w, "executing") /\ ~worker[w].renewLost
  /\ UNCHANGED vars
  /\ worker' = [worker EXCEPT ![w].phase = "returned", ![w].renewLost = TRUE]

(* cancel() reaches a heartbeat that is under way: the PostgreSQL store    *)
(* gives its context to the driver, which fails the call.  The in-memory   *)
(* store ignores the context.                                              *)
ReturnDuringRenewal(w, lag) ==
  /\ PostgresStore
  /\ In(w, "executing") /\ ~worker[w].renewLost
  /\ UNCHANGED vars \/ Heartbeat(Current(w).job, w, lag)
  /\ worker' = [worker EXCEPT ![w].phase = "returned", ![w].renewLost = TRUE]

Report(w, lag, result, retryable, delay) ==
  /\ In(w, "returned") /\ ~worker[w].renewLost
  /\ Complete(Current(w).job, w, lag, result, retryable, delay)
  /\ Advance(w)

(* A lost renewal, or an error from Complete: the result is dropped.       *)
Drop(w, lag) ==
  /\ In(w, "returned")
  /\ worker[w].renewLost \/ StoreFaults \/ ~MayReport(Current(w).job, w, lag)
  /\ UNCHANGED vars
  /\ Advance(w)

(* An idle worker that stops has nothing to lose.                          *)
Crash(w) ==
  /\ Crashes
  /\ ~In(w, "idle") /\ ~In(w, "down")
  /\ worker' = [worker EXCEPT ![w] = [NotRunning EXCEPT !.phase = "down"]]
  /\ UNCHANGED vars

Restart(w) ==
  /\ In(w, "down")
  /\ worker' = [worker EXCEPT ![w] = NotRunning]
  /\ UNCHANGED vars

-----------------------------------------------------------------------------
(* The other callers.                                                      *)
Plan(j, age)      == EnsurePlanned(j, age) /\ UNCHANGED worker
Submit(j, runIn)  == Schedule(j, runIn) /\ UNCHANGED worker
Withdraw(j)       == Cancel(j) /\ UNCHANGED worker
Recover(lag)      == Reap(lag) /\ UNCHANGED worker

(* The lease w holds for the claim c.                                      *)
Holds(w, c) == jobs[c.job].owner = w /\ jobs[c.job].count = c.no

Pass ==
  /\ Timely => \A w \in Workers :
       worker[w].batch # << >> /\ Holds(w, Current(w)) => jobs[Current(w).job].expireIn > 1
  /\ Tick
  /\ UNCHANGED worker

WorkerStep(w) ==
  \/ \E lag \in Lags : \/ Poll(w, lag) \/ LosePoll(w, lag)
                       \/ Start(w, lag) \/ FailToStart(w, lag)
                       \/ RenewLease(w, lag) \/ FailToRenew(w, lag)
                       \/ ReturnDuringRenewal(w, lag)
                       \/ Drop(w, lag)
  \/ \E lag \in Lags, result \in ReportedResults, retryable \in BOOLEAN,
        delay \in RetryDelays : Report(w, lag, result, retryable, delay)
  \/ Return(w)
  \/ Crash(w)
  \/ Restart(w)

SchedulerNext ==
  \/ \E w \in Workers : WorkerStep(w)
  \/ \E j \in Jobs, d \in StartDelays : Submit(j, d)
  \/ \E j \in Jobs, age \in Lags : Plan(j, age)
  \/ \E j \in Jobs : Withdraw(j)
  \/ \E lag \in Lags : Recover(lag)
  \/ Pass

SchedulerSpec == SchedulerInit /\ [][SchedulerNext]_schedulerVars

(* A worker polls again and again, Execute returns, RunOnce goes on to its *)
(* end, a crashed worker is restarted, the reaper and the clock run.  No   *)
(* renewal need ever succeed and no job need ever be reported.             *)
SchedulerFairness ==
  /\ \A w \in Workers :
       /\ WF_schedulerVars(\E lag \in Lags : Poll(w, lag))
       /\ WF_schedulerVars(\E lag \in Lags : Start(w, lag) \/ FailToStart(w, lag))
       /\ WF_schedulerVars(Return(w))
       /\ WF_schedulerVars(\/ \E lag \in Lags : Drop(w, lag)
                           \/ \E lag \in Lags, result \in ReportedResults,
                                 retryable \in BOOLEAN, delay \in RetryDelays :
                                Report(w, lag, result, retryable, delay))
       /\ WF_schedulerVars(Restart(w))
  /\ WF_schedulerVars(\E lag \in Lags : Recover(lag))
  /\ WF_schedulerVars(Pass)

FairSchedulerSpec == SchedulerSpec /\ SchedulerFairness

-----------------------------------------------------------------------------
SchedulerTypeOK ==
  /\ worker \in [Workers -> [phase : Phases, batch : Seq(ClaimsOf), renewLost : BOOLEAN]]
  /\ \A w \in Workers : worker[w].batch = << >> <=> In(w, "idle") \/ In(w, "down")

(* The store knows a lease by the worker's id alone: MarkRunning,          *)
(* Heartbeat and Complete carry no attempt number.  That is enough: if the *)
(* job a worker has in hand is leased to that worker, it is leased for     *)
(* this very claim, so a late call never starts, renews or ends a later    *)
(* attempt of the same worker.                                             *)
OwnerHoldsItsClaim ==
  \A w \in Workers : \A c \in InHand(w) :
    jobs[c.job].status \in Leased /\ jobs[c.job].owner = w => c.no = jobs[c.job].count

(* An attempt belongs to one worker: it is recorded under the id of the    *)
(* worker that has it in hand, so no two workers run the same attempt      *)
(* ("concurrent claims by several replicas are not consumed twice",        *)
(* doc/AI系统开发规划.md).                                                 *)
ClaimsAreRecorded ==
  \A w \in Workers : \A c \in InHand(w) :
    c.no \in 1 .. Len(attempts[c.job]) /\ attempts[c.job][c.no].worker = w

(* A live lease is in the hands of its owner: whenever a worker gives up   *)
(* a claim without reporting it, it has lost the lease.  ("Lease-renewal   *)
(* failures take precedence because the worker may have lost ownership",   *)
(* worker.go.)  For workers that do not crash and a store that answers.    *)
LiveLeaseIsInHand ==
  \A j \in Jobs :
    jobs[j].status \in Leased /\ LeaseActive(jobs[j], 0) =>
      [job |-> j, no |-> jobs[j].count] \in InHand(jobs[j].owner)

(* A running worker keeps the lease of every claim it has in hand until it *)
(* reports the claim or the job is cancelled: the reaper recovers the      *)
(* leases of crashed workers only (ReapParams, service.go; "avoid being    *)
(* reaped while healthy work is still in progress", worker.go).            *)
HealthyWorkKeepsItsLease ==
  \A w \in Workers : \A c \in InHand(w) :
    Holds(w, c) \/ jobs[c.job].status = "cancelled"

(* The comment of worker.go:108 taken of a whole batch: while a worker      *)
(* executes a job whose lease it renews, none of its other claims is       *)
(* reaped.                                                                 *)
BatchKeepsItsLeases ==
  \A w \in Workers : In(w, "executing") /\ Holds(w, Current(w)) =>
    \A c \in InHand(w) : Holds(w, c) \/ jobs[c.job].status = "cancelled"

(* A job is executed by one worker at a time ("LeaseService guarantees     *)
(* mutual exclusion of a task among workers", doc/一期GA详细设计.md).      *)
OneExecutorPerJob ==
  \A v, w \in Workers :
    In(v, "executing") /\ In(w, "executing") /\ Current(v).job = Current(w).job => v = w

(* Every job that is created comes to an end, whatever is executed twice,  *)
(* lost, dropped or crashed on the way.                                    *)
EveryJobEnds ==
  \A j \in Jobs : (jobs[j].status # "absent") ~> (jobs[j].status \in Final)
=============================================================================
