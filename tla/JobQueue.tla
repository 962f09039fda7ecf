------------------------------ MODULE JobQueue ------------------------------
(***************************************************************************)
(* The job queue of the control plane: the jobs and job_attempts facts of  *)
(* internal/domain/job, changed only by the repository operations of       *)
(* internal/application/command/jobs (in-memory store) and                 *)
(* internal/repository/postgres/jobstore (PostgreSQL store).  Each         *)
(* operation runs under one mutex, or in one transaction that locks the    *)
(* job row, so each is one action.  The callers are unconstrained here:    *)
(* any worker may send any call about any job at any time, as a late or    *)
(* repeated call from a worker that lost its lease would be.               *)
(*                                                                         *)
(* Time.  A call carries the time its caller read before it reached the    *)
(* store; that time is lag ticks old, 0 <= lag <= MaxLag.  Instants are    *)
(* kept relative to the present: expireIn is LeaseExpireAt - now and runIn *)
(* is NextRunAt - now, so Tick lowers both.  Below -MaxLag no call can     *)
(* tell two instants apart, and both stop there.                           *)
(***************************************************************************)
EXTENDS Integers, Sequences, FiniteSets, SequencesExt

CONSTANTS
  Jobs,            \* jobs that may be created, one per idempotency key
  Workers,         \* worker ids
  NoWorker,        \* the empty lease_owner
  Priority,        \* Priority[j]: smaller runs first
  MaxAttempts,     \* MaxAttempts[j]: the retry budget fixed at creation
  MaxJobs,         \* jobs one Claim may take
  ReapLimit,       \* leases one ReapExpired may recover
  LeaseTTL,        \* length of a lease, in ticks
  StartDelays,     \* NextRunAt - now of a job being scheduled
  RetryDelays,     \* RetryDelay a caller may pass to Complete; 0 asks for the policy
  PolicyDelay(_),  \* BackoffPolicy.Delay, by attempt count
  MaxLag,          \* how old the time in a call may be
  PostgresStore    \* TRUE for the PostgreSQL store, FALSE for the in-memory one

ASSUME JobQueueAssumption ==
  /\ NoWorker \notin Workers
  /\ Priority \in [Jobs -> Int]
  /\ MaxAttempts \in [Jobs -> Nat \ {0}]
  /\ MaxJobs \in Nat \ {0}
  /\ ReapLimit \in Nat \ {0}
  /\ LeaseTTL \in Nat \ {0}
  /\ StartDelays \subseteq Int
  /\ RetryDelays \subseteq Int
  /\ \A j \in Jobs : \A n \in 0 .. MaxAttempts[j] : PolicyDelay(n) \in Nat
  /\ MaxLag \in Nat
  /\ PostgresStore \in BOOLEAN

VARIABLES
  jobs,            \* jobs[j]: the jobs row
  attempts         \* attempts[j]: the job_attempts rows, oldest first

vars == <<jobs, attempts>>

ClaimableAfterTimeout == {"pending", "retry", "timed_out"}               \* mutant
Claimable == {"pending", "retry"}
Leased    == {"claimed", "running"}
Final     == {"succeeded", "failed", "cancelled", "timed_out"}
Statuses  == {"absent"} \cup Claimable \cup Leased \cup Final

OpenResults   == {"started", "heartbeating"}
ClosedResults == {"succeeded", "failed", "timed_out", "abandoned"}
(* What a caller may report; any other result counts as "started" does.    *)
ReportedResults == ClosedResults \cup {"started"}

Job == [status : Statuses, owner : Workers \cup {NoWorker},
        expireIn : Int, runIn : Int, count : Nat]
Attempt == [worker : Workers, result : OpenResults \cup ClosedResults]

Lags == 0 .. MaxLag
AtLeast(floor, t) == IF t < floor THEN floor ELSE t

-----------------------------------------------------------------------------
(* The job record: predicates and the changes the domain methods make.     *)

Due(r, lag)          == r.runIn <= -lag
LeaseActive(r, lag)  == r.owner # NoWorker /\ r.expireIn > -lag
ExpiresEarly(r, lag) == r.owner # NoWorker /\ r.expireIn <= 1 - lag        \* mutant
LeaseExpired(r, lag) == r.owner # NoWorker /\ r.expireIn <= -lag
CanRetryOnceMore(j, r) == r.count <= MaxAttempts[j]                        \* mutant
CanRetry(j, r)       == r.count < MaxAttempts[j]

RequireLeaseOwner(r, w, lag) == r.owner = w /\ LeaseActive(r, lag)

ClearLease(r) == [r EXCEPT !.owner = NoWorker, !.expireIn = 0]

ClaimUncounted(r, w, lag) ==                                               \* mutant
  [r EXCEPT !.status = "claimed", !.owner = w, !.expireIn = LeaseTTL - lag]

ClaimFor(r, w, lag) ==
  [r EXCEPT !.status = "claimed", !.owner = w,
            !.expireIn = LeaseTTL - lag, !.count = @ + 1]

Renew(r, lag) == [r EXCEPT !.expireIn = LeaseTTL - lag]

FinishAs(r, status) == [ClearLease(r) EXCEPT !.status = status]

ScheduleRetry(r, delay, lag) ==
  [ClearLease(r) EXCEPT !.status = "retry", !.runIn = delay - lag]

(* A failed or timed out job goes back to the queue when its budget lasts  *)
(* and the delay is legal; otherwise the error is dropped and the job      *)
(* keeps its final status.                                                 *)
RetryIfPossible(j, r, delay, lag) ==
  IF /\ r.status \in {"failed", "timed_out"} /\ CanRetry(j, r) /\ delay >= 0
  THEN ScheduleRetry(r, delay, lag) ELSE r

-----------------------------------------------------------------------------
(* The attempt records of one job.                                         *)

IsOpen(a) == a.result \in OpenResults

FirstAttempt(s, w) == IF s = << >> THEN 0 ELSE 1                          \* mutant

(* The newest open attempt, 0 when there is none or when it belongs to a   *)
(* worker other than w; w = NoWorker accepts every worker.                 *)
ActiveAttempt(s, w) ==
  LET i == SelectLastInSeq(s, IsOpen)
  IN  IF i # 0 /\ (w = NoWorker \/ s[i].worker = w) THEN i ELSE 0

SetResult(s, i, result) == [s EXCEPT ![i].result = result]

NewAttempt(w) == [worker |-> w, result |-> "started"]

-----------------------------------------------------------------------------
Init ==
  /\ jobs = [j \in Jobs |-> [status |-> "absent", owner |-> NoWorker,
                             expireIn |-> 0, runIn |-> 0, count |-> 0]]
  /\ attempts = [j \in Jobs |-> << >>]

(* job.New and the insert.  A second insert under the same idempotency key *)
(* is refused (Create) or returns the stored job (EnsurePlanned).          *)
Insert(j, runIn) ==
  /\ jobs[j].status = "absent"
  /\ jobs' = [jobs EXCEPT ![j].status = "pending", ![j].runIn = AtLeast(-MaxLag, runIn)]
  /\ UNCHANGED attempts

Schedule(j, runIn) == runIn \in StartDelays /\ Insert(j, runIn)

(* A planned job runs from its slot, the current time rounded down.        *)
EnsurePlanned(j, age) == age \in Lags /\ Insert(j, -age)

(* Claim order: priority, then next_run_at; ties are left open.            *)
Precedes(j, k) ==
  \/ Priority[j] < Priority[k]
  \/ Priority[j] = Priority[k] /\ jobs[j].runIn < jobs[k].runIn

(* FOR UPDATE SKIP LOCKED passes over rows that other calls are changing.  *)
Locked(candidates) == IF PostgresStore THEN SUBSET candidates ELSE {{}}

(* batch is what a query ORDER BY ... LIMIT n over candidates returns.     *)
IsFirst(n, batch, candidates, Before(_, _)) ==
  /\ Cardinality(batch) = IF Cardinality(candidates) < n THEN Cardinality(candidates) ELSE n
  /\ \A j \in batch, k \in candidates \ batch : ~Before(k, j)

Ready(lag) == {j \in Jobs : jobs[j].status \in Claimable /\ Due(jobs[j], lag)}

ClaimBatch(w, lag, batch) ==
  /\ batch # {}
  /\ \E locked \in Locked(Ready(lag)) :
       LET free == {j \in Ready(lag) \ locked : ~LeaseActive(jobs[j], lag)}
       IN  batch \subseteq free /\ IsFirst(MaxJobs, batch, free, Precedes)
  /\ jobs' = [j \in Jobs |-> IF j \in batch THEN ClaimFor(jobs[j], w, lag) ELSE jobs[j]]
  /\ attempts' = [j \in Jobs |-> IF j \in batch THEN Append(attempts[j], NewAttempt(w))
                                                ELSE attempts[j]]

Claim(w, lag) == \E batch \in SUBSET Jobs : ClaimBatch(w, lag, batch)

(* What MarkRunning, Heartbeat and Complete require, or return an error.   *)
MayStart(j, w, lag) ==
  /\ ActiveAttempt(attempts[j], w) # 0
  /\ RequireLeaseOwner(jobs[j], w, lag)
  /\ jobs[j].status = "claimed"

MayReport(j, w, lag) ==
  /\ jobs[j].status \in Leased
  /\ RequireLeaseOwner(jobs[j], w, lag)
  /\ ActiveAttempt(attempts[j], w) # 0

MarkRunning(j, w, lag) ==
  /\ MayStart(j, w, lag)
  /\ jobs' = [jobs EXCEPT ![j].status = "running"]
  /\ UNCHANGED attempts

Heartbeat(j, w, lag) ==
  /\ MayReport(j, w, lag)
  /\ jobs' = [jobs EXCEPT ![j] = Renew(@, lag)]
  /\ attempts' = [attempts EXCEPT ![j] = SetResult(@, ActiveAttempt(@, w), "heartbeating")]

(* What a completion makes of the job, and of the attempt, by the result   *)
(* the worker reports; a result it does not know counts as failed.         *)
JobOutcomeAsReported(result) == result                                    \* mutant
AbandonedIsFailed(result) == IF result \in {"succeeded", "timed_out"} THEN result
                             ELSE "failed"                                \* mutant
JobOutcome(result) ==
  CASE result = "succeeded" -> "succeeded"
    [] result \in {"timed_out", "abandoned"} -> "timed_out"
    [] OTHER -> "failed"
AttemptOutcome(result) == IF result \in ClosedResults THEN result ELSE "failed"

(* With no delay of its own the service reads the job, outside the store's *)
(* lock, and takes the policy's delay for the attempt count it read.       *)
CompletionDelays(j, delay) ==
  IF delay # 0 THEN {delay} ELSE {PolicyDelay(n) : n \in 0 .. jobs[j].count}

Complete(j, w, lag, result, retryable, delay) ==
  LET done == FinishAs(jobs[j], JobOutcome(result))
  IN  /\ MayReport(j, w, lag)
      /\ \E d \in CompletionDelays(j, delay) :
           jobs' = [jobs EXCEPT ![j] =
                      IF retryable THEN RetryIfPossible(j, done, d, lag) ELSE done]
      /\ attempts' = [attempts EXCEPT ![j] =
                        SetResult(@, ActiveAttempt(@, w), AttemptOutcome(result))]

CancelRowOnly(j) ==                                                        \* mutant
  /\ jobs[j].status \in Claimable \cup Leased
  /\ jobs' = [jobs EXCEPT ![j] = FinishAs(@, "cancelled")]
  /\ UNCHANGED attempts

(* Cancel closes the lease holder's attempt before it looks at the status. *)
Cancel(j) ==
  LET i == ActiveAttempt(attempts[j], jobs[j].owner)
  IN  /\ jobs[j].status # "absent"
      /\ attempts' = IF i = 0 THEN attempts
                     ELSE [attempts EXCEPT ![j] = SetResult(@, i, "abandoned")]
      /\ jobs' = IF jobs[j].status \in Claimable \cup Leased
                 THEN [jobs EXCEPT ![j] = FinishAs(@, "cancelled")] ELSE jobs

ExpiredRunning(lag) ==                                                     \* mutant
  {j \in Jobs : jobs[j].status = "running" /\ LeaseExpired(jobs[j], lag)}

Expired(lag) == {j \in Jobs : jobs[j].status \in Leased /\ LeaseExpired(jobs[j], lag)}

ExpiresBefore(j, k) == jobs[j].expireIn < jobs[k].expireIn

ReapedJob(j, lag) ==
  RetryIfPossible(j, FinishAs(jobs[j], "timed_out"), PolicyDelay(jobs[j].count), lag)

(* A lease lost before MarkRunning leaves an abandoned attempt, one lost   *)
(* during execution a timed out one.                                       *)
ReapedResult(j) == IF jobs[j].status = "claimed" THEN "abandoned" ELSE "timed_out"

(* One pass of the reaper.  A lease without its attempt would end the pass *)
(* with an error after some of the others were stored.                     *)
Reap(lag) ==
  \E batch \in SUBSET Expired(lag), locked \in Locked(Expired(lag)) :
    LET sound == {j \in batch : ActiveAttempt(attempts[j], jobs[j].owner) # 0}
    IN  /\ batch \subseteq Expired(lag) \ locked
        /\ IsFirst(ReapLimit, batch, Expired(lag) \ locked, ExpiresBefore)
        /\ \E done \in IF sound = batch THEN {batch} ELSE SUBSET sound :
             /\ jobs' = [j \in Jobs |-> IF j \in done THEN ReapedJob(j, lag) ELSE jobs[j]]
             /\ attempts' = [j \in Jobs |->
                  IF j \in done
                  THEN SetResult(attempts[j], ActiveAttempt(attempts[j], jobs[j].owner),
                                 ReapedResult(j))
                  ELSE attempts[j]]

(* Time passes.                                                            *)
Later(r) ==
  [r EXCEPT !.expireIn = IF r.owner = NoWorker THEN @ ELSE AtLeast(-MaxLag, @ - 1),
            !.runIn = IF r.status \in Claimable THEN AtLeast(-MaxLag, @ - 1) ELSE @]

Tick ==
  /\ jobs' = [j \in Jobs |-> Later(jobs[j])]
  /\ UNCHANGED attempts

Next ==
  \/ \E j \in Jobs, d \in StartDelays : Schedule(j, d)
  \/ \E j \in Jobs, age \in Lags : EnsurePlanned(j, age)
  \/ \E w \in Workers, lag \in Lags : Claim(w, lag)
  \/ \E j \in Jobs, w \in Workers, lag \in Lags : MarkRunning(j, w, lag)
  \/ \E j \in Jobs, w \in Workers, lag \in Lags : Heartbeat(j, w, lag)
  \/ \E j \in Jobs, w \in Workers, lag \in Lags,
        result \in ReportedResults, retryable \in BOOLEAN, delay \in RetryDelays :
       Complete(j, w, lag, result, retryable, delay)
  \/ \E j \in Jobs : Cancel(j)
  \/ \E lag \in Lags : Reap(lag)
  \/ Tick

Spec == Init /\ [][Next]_vars

-----------------------------------------------------------------------------
(* Every job row and attempt row has its type.                             *)
TypeOK ==
  /\ jobs \in [Jobs -> Job]
  /\ attempts \in [Jobs -> Seq(Attempt)]

(* A lease and an open attempt are two rows of two tables that must stand  *)
(* for the same execution: a job is leased exactly while its newest        *)
(* attempt is open, that attempt is the lease holder's, and every older    *)
(* one is closed.  Claim, Complete, Cancel and ReapExpired each change     *)
(* both rows; a path that changed only one would leave a lease the reaper  *)
(* cannot recover, or an attempt nobody can close.                         *)
LeaseIsOneOpenAttempt ==
  \A j \in Jobs :
    LET s == attempts[j]
        n == Len(s)
    IN  /\ \A i \in 1 .. n - 1 : ~IsOpen(s[i])
        /\ jobs[j].status \in Leased => n > 0 /\ IsOpen(s[n]) /\ s[n].worker = jobs[j].owner
        /\ jobs[j].status \notin Leased => jobs[j].owner = NoWorker /\ (n > 0 => ~IsOpen(s[n]))

(* The attempt count, the history and the retry budget agree, whichever of *)
(* Claim, Complete and ReapExpired touched the job: no execution goes      *)
(* unrecorded and a job in the queue always has an attempt left.           *)
BudgetIsKept ==
  \A j \in Jobs :
    /\ Len(attempts[j]) = jobs[j].count
    /\ jobs[j].count <= MaxAttempts[j]
    /\ jobs[j].status \in Claimable => jobs[j].count < MaxAttempts[j]
    /\ jobs[j].status \in {"absent", "pending"} => jobs[j].count = 0

(* The job's final status is the result of its last attempt, and only the  *)
(* last attempt of a succeeded job succeeded: no retry follows a success,  *)
(* and no late report rewrites an outcome.                                 *)
OutcomeIsLastResult ==
  \A j \in Jobs :
    LET s == attempts[j]
        n == Len(s)
        last == s[n].result
    IN  /\ \A i \in 1 .. n : s[i].result = "succeeded" => i = n /\ jobs[j].status = "succeeded"
        /\ jobs[j].status = "succeeded" => n > 0 /\ last = "succeeded"
        /\ jobs[j].status = "failed"    => n > 0 /\ last = "failed"
        /\ jobs[j].status = "timed_out" => n > 0 /\ last \in {"timed_out", "abandoned"}
        /\ jobs[j].status = "retry"     => n > 0

(* "Terminal jobs will never be claimed again by the scheduler."           *)
(* (status.go): nothing changes a job that is over, nor its history.       *)
FinalIsForever ==
  [][\A j \in Jobs : jobs[j].status \in Final =>
       /\ jobs'[j].status = jobs[j].status
       /\ jobs'[j].owner = NoWorker
       /\ attempts'[j] = attempts[j]]_vars

(* "Terminal attempts are immutable historical records." (status.go): an   *)
(* operation adds at most one attempt and never rewrites a closed one or   *)
(* moves an open one to another worker.                                    *)
HistoryOnlyGrows ==
  [][\A j \in Jobs :
       /\ Len(attempts'[j]) \in {Len(attempts[j]), Len(attempts[j]) + 1}
       /\ \A i \in 1 .. Len(attempts[j]) :
            /\ attempts'[j][i].worker = attempts[j][i].worker
            /\ ~IsOpen(attempts[j][i]) => attempts'[j][i] = attempts[j][i]]_vars

-----------------------------------------------------------------------------
(* The queue as JobLifecycle sees it.                                      *)
StageOf(status) ==
  CASE status = "absent"      -> "none"
    [] status \in Claimable   -> "queued"
    [] status \in Leased      -> "held"
    [] OTHER                  -> "over"

RunsOf(s) ==
  [i \in 1 .. Len(s) |->
     [worker |-> s[i].worker, result |-> IF IsOpen(s[i]) THEN "open" ELSE s[i].result]]

LifeOf == [j \in Jobs |-> [stage |-> StageOf(jobs[j].status), runs |-> RunsOf(attempts[j])]]

Lifecycle == INSTANCE JobLifecycle WITH life <- LifeOf

(* The queue implements its abstract specification: with clocks, leases,   *)
(* batches, stale calls and partial reaper passes, a job still lives the   *)
(* life JobLifecycle describes.                                            *)
ImplementsLifecycle == Lifecycle!LifecycleSpec
=============================================================================
