--------------------------- MODULE JobQueueProofs ---------------------------
(***************************************************************************)
(* Proofs about JobQueue, for every set of jobs and workers, every budget, *)
(* lease length, delay, lag and batch size.                                *)
(*                                                                         *)
(* Every operation changes each job, with its attempts, in one of the few  *)
(* ways that Change lists (lemma NextIsChange).  What is proved is a fact  *)
(* about one job, so it is enough that each Change preserves or respects   *)
(* it.  JobInv is what makes this work: the lookup of the active attempt   *)
(* finds the newest attempt exactly when the job is leased.                *)
(***************************************************************************)
EXTENDS JobQueue, SequenceTheorems, TLAPS

(* The inductive invariant: types, leases, budgets and outcomes together.  *)
QueueInv == TypeOK /\ LeaseIsOneOpenAttempt /\ BudgetIsKept /\ OutcomeIsLastResult

(* The same, of one job with row r and attempts s.                         *)
LeaseInv(r, s) ==
  /\ \A i \in 1 .. Len(s) - 1 : ~IsOpen(s[i])
  /\ r.status \in Leased =>
       Len(s) > 0 /\ IsOpen(s[Len(s)]) /\ s[Len(s)].worker = r.owner
  /\ r.status \notin Leased => r.owner = NoWorker /\ (Len(s) > 0 => ~IsOpen(s[Len(s)]))

BudgetInv(j, r, s) ==
  /\ Len(s) = r.count
  /\ r.count <= MaxAttempts[j]
  /\ r.status \in Claimable => r.count < MaxAttempts[j]
  /\ r.status \in {"absent", "pending"} => r.count = 0

OutcomeInv(r, s) ==
  /\ \A i \in 1 .. Len(s) : s[i].result = "succeeded" => i = Len(s) /\ r.status = "succeeded"
  /\ r.status = "succeeded" => Len(s) > 0 /\ s[Len(s)].result = "succeeded"
  /\ r.status = "failed"    => Len(s) > 0 /\ s[Len(s)].result = "failed"
  /\ r.status = "timed_out" => Len(s) > 0 /\ s[Len(s)].result \in {"timed_out", "abandoned"}
  /\ r.status = "retry"     => Len(s) > 0

JobInv(j, r, s) ==
  r \in Job /\ s \in Seq(Attempt) /\ LeaseInv(r, s) /\ BudgetInv(j, r, s) /\ OutcomeInv(r, s)

(* The ways an operation changes one job: from row r and attempts s to q   *)
(* and t.                                                                  *)
Requeue(r, e) == [ClearLease(r) EXCEPT !.status = "retry", !.runIn = e]

Close(j, r, s, q, t) ==
  \E o \in ClosedResults :
    /\ r.status \in Leased
    /\ t = SetResult(s, Len(s), o)
    /\ \/ q = FinishAs(r, JobOutcome(o))
       \/ o # "succeeded" /\ CanRetry(j, r) /\ \E e \in Int : q = Requeue(r, e)
       \/ o = "abandoned" /\ q = FinishAs(r, "cancelled")

Change(j, r, s, q, t) ==
  \/ q = r /\ t = s
  \/ q = Later(r) /\ t = s
  \/ r.status = "absent" /\ t = s
     /\ \E d \in Int : q = [r EXCEPT !.status = "pending", !.runIn = d]
  \/ \E w \in Workers, lag \in Lags :
       r.status \in Claimable /\ q = ClaimFor(r, w, lag) /\ t = Append(s, NewAttempt(w))
  \/ r.status = "claimed" /\ q = [r EXCEPT !.status = "running"] /\ t = s
  \/ \E lag \in Lags :
       r.status \in Leased /\ q = Renew(r, lag) /\ t = SetResult(s, Len(s), "heartbeating")
  \/ Close(j, r, s, q, t)
  \/ r.status \in Claimable /\ q = FinishAs(r, "cancelled") /\ t = s

-----------------------------------------------------------------------------
(* The invariant is the conjunction of the jobs' own invariants.           *)
LEMMA InvIsPerJob ==
  QueueInv <=> /\ jobs = [j \in Jobs |-> jobs[j]]
               /\ attempts = [j \in Jobs |-> attempts[j]]
               /\ \A j \in Jobs : JobInv(j, jobs[j], attempts[j])
  <1>1. QueueInv => /\ jobs = [j \in Jobs |-> jobs[j]]
                    /\ attempts = [j \in Jobs |-> attempts[j]]
                    /\ \A j \in Jobs : JobInv(j, jobs[j], attempts[j])
    BY DEF QueueInv, TypeOK, LeaseIsOneOpenAttempt, BudgetIsKept, OutcomeIsLastResult,
           JobInv, LeaseInv, BudgetInv, OutcomeInv
  <1>2. ASSUME jobs = [j \in Jobs |-> jobs[j]],
               attempts = [j \in Jobs |-> attempts[j]],
               \A j \in Jobs : JobInv(j, jobs[j], attempts[j])
        PROVE  QueueInv
    <2>1. TypeOK
      BY <1>2 DEF TypeOK, JobInv
    <2>2. LeaseIsOneOpenAttempt
      BY <1>2 DEF LeaseIsOneOpenAttempt, JobInv, LeaseInv
    <2>3. BudgetIsKept
      BY <1>2 DEF BudgetIsKept, JobInv, BudgetInv
    <2>4. OutcomeIsLastResult
      BY <1>2 DEF OutcomeIsLastResult, JobInv, OutcomeInv
    <2>5. QED
      BY <2>1, <2>2, <2>3, <2>4 DEF QueueInv
  <1>3. QED
    BY <1>1, <1>2

(* The lookup of the active attempt, under the invariant.                  *)
LEMMA ActiveAttemptIsLast ==
  ASSUME NEW j \in Jobs, NEW r, NEW s, JobInv(j, r, s), NEW w \in Workers \cup {NoWorker}
  PROVE  /\ ActiveAttempt(s, w) # 0 =>
              r.status \in Leased /\ ActiveAttempt(s, w) = Len(s) /\ (w = NoWorker \/ w = r.owner)
         /\ r.status \in Leased => ActiveAttempt(s, r.owner) = Len(s)
  <1> DEFINE I == {i \in 1 .. Len(s) : IsOpen(s[i])}
  <1>1. Len(s) \in Nat
    BY DEF JobInv
  <1>2. CASE r.status \in Leased
    <2>1. I = {Len(s)} /\ Len(s) > 0 /\ s[Len(s)].worker = r.owner
      BY <1>1, <1>2 DEF JobInv, LeaseInv
    <2>2. SelectLastInSeq(s, IsOpen) = Len(s)
      <3>1. Max(I) = Len(s)
        BY <2>1, <1>1 DEF Max
      <3>2. QED
        BY <2>1, <3>1 DEF SelectLastInSeq
    <2>3. QED
      BY <1>1, <1>2, <2>1, <2>2 DEF ActiveAttempt
  <1>3. CASE r.status \notin Leased
    <2>1. I = {}
      BY <1>1, <1>3 DEF JobInv, LeaseInv
    <2>2. SelectLastInSeq(s, IsOpen) = 0
      BY <2>1 DEF SelectLastInSeq
    <2>3. QED
      BY <1>3, <2>2 DEF ActiveAttempt
  <1>4. QED
    BY <1>2, <1>3
(* The fields of a row, and the rows the domain methods make.              *)
LEMMA RowFields ==
  ASSUME NEW r \in Job
  PROVE  /\ r.status \in Statuses /\ r.owner \in Workers \cup {NoWorker}
         /\ r.expireIn \in Int /\ r.runIn \in Int /\ r.count \in Nat
  BY DEF Job

LEMMA LaterRow ==
  ASSUME NEW r \in Job, MaxLag \in Nat
  PROVE  /\ Later(r) \in Job
         /\ Later(r).status = r.status /\ Later(r).owner = r.owner /\ Later(r).count = r.count
  <1> DEFINE e == IF r.owner = NoWorker THEN r.expireIn ELSE AtLeast(-MaxLag, r.expireIn - 1)
             d == IF r.status \in Claimable THEN AtLeast(-MaxLag, r.runIn - 1) ELSE r.runIn
  <1>1. e \in Int /\ d \in Int
    BY RowFields DEF AtLeast
  <1>2. Later(r) = [[r EXCEPT !.expireIn = e] EXCEPT !.runIn = d]
    BY DEF Later, Job
  <1> HIDE DEF e, d
  <1>3. QED
    BY <1>1, <1>2, RowFields DEF Job

LEMMA ClaimRow ==
  ASSUME NEW r \in Job, NEW w \in Workers, NEW lag \in Lags, MaxLag \in Nat, LeaseTTL \in Nat
  PROVE  /\ ClaimFor(r, w, lag) \in Job
         /\ ClaimFor(r, w, lag).status = "claimed" /\ ClaimFor(r, w, lag).owner = w
         /\ ClaimFor(r, w, lag).count = r.count + 1
  <1>1. LeaseTTL - lag \in Int /\ r.count + 1 \in Nat /\ "claimed" \in Statuses
    BY RowFields DEF Lags, Statuses, Leased
  <1>2. QED
    BY <1>1, RowFields DEF ClaimFor, Job

LEMMA ClearedRow ==
  ASSUME NEW r \in Job
  PROVE  /\ ClearLease(r) \in Job
         /\ ClearLease(r).owner = NoWorker /\ ClearLease(r).count = r.count
  <1> DEFINE q == [r EXCEPT !.owner = NoWorker]
  <1>1. q \in Job /\ q.count = r.count /\ q.owner = NoWorker
    BY RowFields DEF Job
  <1>2. ClearLease(r) = [q EXCEPT !.expireIn = 0]
    BY DEF ClearLease
  <1> HIDE DEF q
  <1>3. QED
    BY <1>1, <1>2, RowFields DEF Job

LEMMA FinishRow ==
  ASSUME NEW r \in Job, NEW o \in Final
  PROVE  /\ FinishAs(r, o) \in Job
         /\ FinishAs(r, o).status = o /\ FinishAs(r, o).owner = NoWorker
         /\ FinishAs(r, o).count = r.count
  <1>1. o \in Statuses
    BY DEF Statuses
  <1>2. QED
    BY <1>1, ClearedRow DEF FinishAs, Job

LEMMA RequeueRow ==
  ASSUME NEW r \in Job, NEW e \in Int
  PROVE  /\ Requeue(r, e) \in Job
         /\ Requeue(r, e).status = "retry" /\ Requeue(r, e).owner = NoWorker
         /\ Requeue(r, e).count = r.count
  <1>1. "retry" \in Statuses
    BY DEF Statuses, Claimable
  <1>2. QED
    BY <1>1, ClearedRow DEF Requeue, Job

(* The attempts after one of them got a result.                            *)
LEMMA SetResultSeq ==
  ASSUME NEW s \in Seq(Attempt), NEW i \in 1 .. Len(s), NEW o \in OpenResults \cup ClosedResults
  PROVE  /\ SetResult(s, i, o) \in Seq(Attempt)
         /\ Len(SetResult(s, i, o)) = Len(s)
         /\ SetResult(s, i, o)[i].worker = s[i].worker
         /\ SetResult(s, i, o)[i].result = o
         /\ \A k \in 1 .. Len(s) : k # i => SetResult(s, i, o)[k] = s[k]
  <1> DEFINE a == [s[i] EXCEPT !.result = o]
  <1>1. s[i] \in Attempt
    OBVIOUS
  <1>2. a \in Attempt /\ a.worker = s[i].worker /\ a.result = o
    BY <1>1 DEF Attempt
  <1>3. SetResult(s, i, o) = [s EXCEPT ![i] = a]
    BY DEF SetResult
  <1> HIDE DEF a
  <1>4. QED
    BY <1>2, <1>3, ExceptSeq

(* The same of the newest one.                                             *)
LEMMA SetLastResult ==
  ASSUME NEW s \in Seq(Attempt), Len(s) > 0, NEW o \in OpenResults \cup ClosedResults,
         NEW t, t = SetResult(s, Len(s), o)
  PROVE  /\ t \in Seq(Attempt) /\ Len(t) = Len(s)
         /\ t[Len(t)].worker = s[Len(s)].worker /\ t[Len(t)].result = o
         /\ \A k \in 1 .. Len(s) - 1 : t[k] = s[k]
  <1>1. Len(s) \in Nat /\ Len(s) \in 1 .. Len(s)
    OBVIOUS
  <1>2. /\ t \in Seq(Attempt) /\ Len(t) = Len(s)
        /\ t[Len(s)].worker = s[Len(s)].worker /\ t[Len(s)].result = o
        /\ \A k \in 1 .. Len(s) : k # Len(s) => t[k] = s[k]
    BY <1>1, SetResultSeq
  <1>3. QED
    BY <1>1, <1>2

(* No change breaks a job's invariant.                                     *)
LEMMA ChangeKeepsInv ==
  ASSUME NEW j \in Jobs, NEW r, NEW s, NEW q, NEW t,
         JobInv(j, r, s), Change(j, r, s, q, t)
  PROVE  JobInv(j, q, t)
  <1>0. /\ r \in Job /\ s \in Seq(Attempt) /\ Len(s) \in Nat
        /\ MaxAttempts[j] \in Nat \ {0} /\ MaxLag \in Nat /\ LeaseTTL \in Nat
        /\ LeaseInv(r, s) /\ BudgetInv(j, r, s) /\ OutcomeInv(r, s)
    BY JobQueueAssumption DEF JobInv, JobQueueAssumption
  <1>1. CASE q = r /\ t = s
    BY <1>1
  <1>2. CASE q = Later(r) /\ t = s
    <2>1. q \in Job /\ q.status = r.status /\ q.owner = r.owner /\ q.count = r.count
      BY <1>0, <1>2, LaterRow
    <2>2. QED
      BY <1>0, <1>2, <2>1 DEF JobInv, LeaseInv, BudgetInv, OutcomeInv
  <1>3. CASE r.status = "absent" /\ t = s
             /\ \E d \in Int : q = [r EXCEPT !.status = "pending", !.runIn = d]
    <2>1. q \in Job /\ q.status = "pending" /\ q.owner = r.owner /\ q.count = r.count
      BY <1>0, <1>3 DEF Job, Statuses, Claimable
    <2>2. QED
      BY <1>0, <1>3, <2>1 DEF JobInv, LeaseInv, BudgetInv, OutcomeInv, Leased, Claimable
  <1>4. ASSUME NEW w \in Workers, NEW lag \in Lags,
               r.status \in Claimable, q = ClaimFor(r, w, lag), t = Append(s, NewAttempt(w))
        PROVE  JobInv(j, q, t)
    <2>1. /\ q \in Job /\ q.status = "claimed" /\ q.owner = w /\ q.count = r.count + 1
          /\ r.count \in Nat
      BY <1>0, <1>4, ClaimRow, RowFields
    <2>2. /\ t \in Seq(Attempt) /\ Len(t) = Len(s) + 1
          /\ t[Len(t)] = NewAttempt(w)
          /\ \A i \in 1 .. Len(s) : t[i] = s[i]
      BY <1>0, <1>4 DEF NewAttempt, Attempt, OpenResults
    <2>3. r.status \notin Leased /\ r.status \notin Final
      BY <1>4 DEF Claimable, Leased, Final
    <2>4. LeaseInv(q, t)
      BY <1>0, <2>1, <2>2, <2>3 DEF LeaseInv, NewAttempt, IsOpen, OpenResults, Leased
    <2>5. BudgetInv(j, q, t)
      BY <1>0, <1>4, <2>1, <2>2 DEF BudgetInv, Claimable
    <2>6. OutcomeInv(q, t)
      BY <1>0, <2>1, <2>2, <2>3 DEF OutcomeInv, NewAttempt, Final
    <2>7. QED
      BY <2>1, <2>2, <2>4, <2>5, <2>6 DEF JobInv
  <1>5. CASE r.status = "claimed" /\ q = [r EXCEPT !.status = "running"] /\ t = s
    <2>1. q \in Job /\ q.status = "running" /\ q.owner = r.owner /\ q.count = r.count
      BY <1>0, <1>5 DEF Job, Statuses, Leased
    <2>2. QED
      BY <1>0, <1>5, <2>1 DEF JobInv, LeaseInv, BudgetInv, OutcomeInv, Leased, Claimable
  <1>6. ASSUME NEW lag \in Lags,
               r.status \in Leased, q = Renew(r, lag), t = SetResult(s, Len(s), "heartbeating")
        PROVE  JobInv(j, q, t)
    <2>1. q \in Job /\ q.status = r.status /\ q.owner = r.owner /\ q.count = r.count
      BY <1>0, <1>6 DEF Renew, Job, Lags
    <2>2. Len(s) > 0
      BY <1>0, <1>6 DEF LeaseInv
    <2>3. "heartbeating" \in OpenResults \cup ClosedResults
      BY DEF OpenResults
    <2>4. /\ t \in Seq(Attempt) /\ Len(t) = Len(s)
          /\ t[Len(t)].worker = s[Len(s)].worker /\ t[Len(t)].result = "heartbeating"
          /\ \A i \in 1 .. Len(s) - 1 : t[i] = s[i]
      BY <1>0, <1>6, <2>2, <2>3, SetLastResult
    <2>5. LeaseInv(q, t)
      BY <1>0, <1>6, <2>1, <2>2, <2>4 DEF LeaseInv, IsOpen, OpenResults
    <2>6. BudgetInv(j, q, t)
      BY <1>0, <2>1, <2>4 DEF BudgetInv
    <2>7. OutcomeInv(q, t)
      BY <1>0, <1>6, <2>1, <2>2, <2>4 DEF OutcomeInv, Leased
    <2>8. QED
      BY <2>1, <2>4, <2>5, <2>6, <2>7 DEF JobInv
  <1>7. CASE Close(j, r, s, q, t)
    <2>1. PICK o \in ClosedResults :
            /\ r.status \in Leased
            /\ t = SetResult(s, Len(s), o)
            /\ \/ q = FinishAs(r, JobOutcome(o))
               \/ o # "succeeded" /\ CanRetry(j, r) /\ \E e \in Int : q = Requeue(r, e)
               \/ o = "abandoned" /\ q = FinishAs(r, "cancelled")
      BY <1>7 DEF Close
    <2>2. Len(s) > 0
      BY <1>0, <2>1 DEF LeaseInv
    <2>4. /\ t \in Seq(Attempt) /\ Len(t) = Len(s) /\ Len(t) > 0
          /\ t[Len(t)].result = o
          /\ \A i \in 1 .. Len(s) - 1 : t[i] = s[i]
      BY <1>0, <2>1, <2>2, SetLastResult
    <2>5. ~IsOpen(t[Len(t)])
      BY <2>1, <2>4 DEF IsOpen, OpenResults, ClosedResults
    <2>6. /\ q \in Job /\ q.owner = NoWorker /\ q.count = r.count
          /\ \/ q.status = JobOutcome(o)
             \/ o # "succeeded" /\ r.count < MaxAttempts[j] /\ q.status = "retry"
             \/ o = "abandoned" /\ q.status = "cancelled"
      <3>1. JobOutcome(o) \in Final /\ "cancelled" \in Final
        BY <2>1 DEF JobOutcome, Final, ClosedResults
      <3>2. CASE q = FinishAs(r, JobOutcome(o))
        BY <1>0, <3>1, <3>2, FinishRow
      <3>3. CASE o # "succeeded" /\ CanRetry(j, r) /\ \E e \in Int : q = Requeue(r, e)
        BY <1>0, <3>3, RequeueRow DEF CanRetry
      <3>4. CASE o = "abandoned" /\ q = FinishAs(r, "cancelled")
        BY <1>0, <3>1, <3>4, FinishRow
      <3>5. QED
        BY <2>1, <3>2, <3>3, <3>4
    <2>7. q.status \notin Leased /\ q.status # "pending" /\ q.status # "absent"
      BY <2>1, <2>6 DEF JobOutcome, Leased, ClosedResults
    <2>8. LeaseInv(q, t)
      BY <1>0, <2>1, <2>4, <2>5, <2>6, <2>7 DEF LeaseInv, IsOpen
    <2>9. BudgetInv(j, q, t)
      <3>1. q.status \in Claimable => q.status = "retry" /\ r.count < MaxAttempts[j]
        BY <2>1, <2>6 DEF JobOutcome, Claimable, ClosedResults
      <3>2. QED
        BY <1>0, <2>4, <2>6, <2>7, <3>1 DEF BudgetInv
    <2>10. OutcomeInv(q, t)
      <3>1. \A i \in 1 .. Len(s) - 1 : t[i].result # "succeeded"
        BY <1>0, <2>1, <2>4 DEF OutcomeInv
      <3>2. q.status = "succeeded" <=> o = "succeeded"
        BY <2>1, <2>6 DEF JobOutcome, ClosedResults
      <3>3. /\ q.status = "failed" => o = "failed"
            /\ q.status = "timed_out" => o \in {"timed_out", "abandoned"}
        BY <2>1, <2>6 DEF JobOutcome, ClosedResults
      <3>4. QED
        BY <1>0, <2>4, <3>1, <3>2, <3>3 DEF OutcomeInv
    <2>11. QED
      BY <2>4, <2>6, <2>8, <2>9, <2>10 DEF JobInv
  <1>8. CASE r.status \in Claimable /\ q = FinishAs(r, "cancelled") /\ t = s
    <2>1. q \in Job /\ q.status = "cancelled" /\ q.owner = NoWorker /\ q.count = r.count
      BY <1>0, <1>8, FinishRow DEF Final
    <2>2. QED
      BY <1>0, <1>8, <2>1
         DEF JobInv, LeaseInv, BudgetInv, OutcomeInv, Leased, Claimable
  <1>9. QED
    BY <1>1, <1>2, <1>3, <1>4, <1>5, <1>6, <1>7, <1>8 DEF Change
-----------------------------------------------------------------------------
(* A completion or a reaper pass leaves the row finished or requeued.      *)
LEMMA RetryIsRequeue ==
  ASSUME NEW j, NEW r, NEW o \in {"failed", "timed_out"}, NEW delay \in Int, NEW lag \in Lags,
         MaxLag \in Nat, r \in Job
  PROVE  \/ RetryIfPossible(j, FinishAs(r, o), delay, lag) = FinishAs(r, o)
         \/ CanRetry(j, r) /\ \E e \in Int :
              RetryIfPossible(j, FinishAs(r, o), delay, lag) = Requeue(r, e)
  <1> DEFINE f == FinishAs(r, o)
  <1>1. f \in Job /\ f.count = r.count
    BY FinishRow DEF Final
  <1>2. ScheduleRetry(f, delay, lag) = Requeue(r, delay - lag)
    BY <1>1 DEF ScheduleRetry, Requeue, FinishAs, ClearLease, Job
  <1>3. delay - lag \in Int
    BY DEF Lags
  <1>4. CanRetry(j, f) <=> CanRetry(j, r)
    BY <1>1 DEF CanRetry
  <1> HIDE DEF f
  <1>5. QED
    BY <1>2, <1>3, <1>4 DEF RetryIfPossible, f

(* Every operation changes every job in one of the listed ways.            *)
LEMMA NextIsChange ==
  ASSUME QueueInv, [Next]_vars
  PROVE  /\ jobs' = [j \in Jobs |-> jobs'[j]]
         /\ attempts' = [j \in Jobs |-> attempts'[j]]
         /\ \A j \in Jobs : Change(j, jobs[j], attempts[j], jobs'[j], attempts'[j])
  <1> DEFINE Goal == /\ jobs' = [j \in Jobs |-> jobs'[j]]
                     /\ attempts' = [j \in Jobs |-> attempts'[j]]
                     /\ \A j \in Jobs : Change(j, jobs[j], attempts[j], jobs'[j], attempts'[j])
  <1>0. /\ jobs = [j \in Jobs |-> jobs[j]] /\ attempts = [j \in Jobs |-> attempts[j]]
        /\ \A j \in Jobs : JobInv(j, jobs[j], attempts[j])
        /\ \A j \in Jobs : jobs[j] \in Job
        /\ MaxLag \in Nat /\ NoWorker \notin Workers
        /\ StartDelays \subseteq Int /\ RetryDelays \subseteq Int
    BY InvIsPerJob, JobQueueAssumption DEF JobQueueAssumption, JobInv
  <1>1. ASSUME NEW j \in Jobs, NEW d \in Int, Insert(j, d)
        PROVE  Goal
    <2>1. AtLeast(-MaxLag, d) \in Int
      BY <1>0 DEF AtLeast
    <2>2. jobs'[j] = [jobs[j] EXCEPT !.status = "pending", !.runIn = AtLeast(-MaxLag, d)]
      BY <1>0, <1>1 DEF Insert
    <2>3. QED
      BY <1>0, <1>1, <2>1, <2>2 DEF Insert, Change
  <1>2. ASSUME NEW w \in Workers, NEW lag \in Lags, Claim(w, lag)
        PROVE  Goal
    <2>1. PICK batch \in SUBSET Jobs : ClaimBatch(w, lag, batch)
      BY <1>2 DEF Claim
    <2>2. \A j \in batch : jobs[j].status \in Claimable
      BY <2>1 DEF ClaimBatch, Ready
    <2>3. QED
      BY <1>0, <2>1, <2>2 DEF ClaimBatch, Change
  <1>3. ASSUME NEW j \in Jobs, NEW w \in Workers, NEW lag \in Lags, MarkRunning(j, w, lag)
        PROVE  Goal
    BY <1>0, <1>3 DEF MarkRunning, MayStart, Change
  <1>4. ASSUME NEW j \in Jobs, NEW w \in Workers, NEW lag \in Lags, Heartbeat(j, w, lag)
        PROVE  Goal
    <2>1. ActiveAttempt(attempts[j], w) = Len(attempts[j])
      BY <1>0, <1>4, ActiveAttemptIsLast DEF Heartbeat, MayReport
    <2>2. QED
      BY <1>0, <1>4, <2>1 DEF Heartbeat, MayReport, Change
  <1>5. ASSUME NEW j \in Jobs, NEW w \in Workers, NEW lag \in Lags,
               NEW result \in ReportedResults, NEW retryable \in BOOLEAN,
               NEW delay \in RetryDelays, Complete(j, w, lag, result, retryable, delay)
        PROVE  Goal
    <2>1. ActiveAttempt(attempts[j], w) = Len(attempts[j]) /\ jobs[j].status \in Leased
      BY <1>0, <1>5, ActiveAttemptIsLast DEF Complete, MayReport
    <2> DEFINE o == AttemptOutcome(result)
               done == FinishAs(jobs[j], JobOutcome(result))
    <2>2. o \in ClosedResults /\ JobOutcome(result) = JobOutcome(o)
      BY DEF AttemptOutcome, JobOutcome, ClosedResults, ReportedResults
    <2>3. PICK d \in CompletionDelays(j, delay) :
            jobs' = [jobs EXCEPT ![j] =
                       IF retryable THEN RetryIfPossible(j, done, d, lag) ELSE done]
      BY <1>5 DEF Complete
    <2>4. d \in Int
      BY <1>0, JobQueueAssumption, delay \in Int, <2>3
         DEF CompletionDelays, JobQueueAssumption, JobInv, BudgetInv, Job
    <2>5. \/ jobs'[j] = done
          \/ o # "succeeded" /\ CanRetry(j, jobs[j])
             /\ \E e \in Int : jobs'[j] = Requeue(jobs[j], e)
      <3>1. CASE JobOutcome(result) \in {"failed", "timed_out"}
        <4>1. o # "succeeded"
          BY <3>1 DEF AttemptOutcome, JobOutcome, ClosedResults
        <4>2. jobs'[j] = done \/ jobs'[j] = RetryIfPossible(j, done, d, lag)
          BY <1>0, <2>3
        <4>3. QED
          BY <1>0, <2>4, <3>1, <4>1, <4>2, RetryIsRequeue
      <3>2. CASE JobOutcome(result) = "succeeded"
        <4>1. done.status = "succeeded"
          BY <1>0, <3>2, FinishRow DEF Final
        <4>2. RetryIfPossible(j, done, d, lag) = done
          BY <4>1 DEF RetryIfPossible
        <4>3. QED
          BY <1>0, <2>3, <4>2
      <3>3. QED
        BY <3>1, <3>2 DEF JobOutcome
    <2>6. Close(j, jobs[j], attempts[j], jobs'[j], attempts'[j])
      <3>1. attempts'[j] = SetResult(attempts[j], Len(attempts[j]), o)
        BY <1>0, <1>5, <2>1 DEF Complete
      <3>2. QED
        BY <2>1, <2>2, <2>5, <3>1 DEF Close
    <2>7. \A k \in Jobs : k # j => jobs'[k] = jobs[k] /\ attempts'[k] = attempts[k]
      BY <1>0, <1>5, <2>3 DEF Complete
    <2>8. jobs' = [k \in Jobs |-> jobs'[k]] /\ attempts' = [k \in Jobs |-> attempts'[k]]
      BY <1>0, <1>5, <2>3 DEF Complete
    <2>9. QED
      BY <2>6, <2>7, <2>8 DEF Change
  <1>6. ASSUME NEW j \in Jobs, Cancel(j)
        PROVE  Goal
    <2> DEFINE i == ActiveAttempt(attempts[j], jobs[j].owner)
    <2>0. jobs[j].owner \in Workers \cup {NoWorker}
      BY <1>0 DEF Job
    <2>1. CASE jobs[j].status \in Leased
      <3>1. i = Len(attempts[j]) /\ Len(attempts[j]) # 0
        BY <1>0, <2>1, ActiveAttemptIsLast DEF JobInv, LeaseInv
      <3>2. /\ attempts' = [attempts EXCEPT ![j] = SetResult(@, Len(attempts[j]), "abandoned")]
            /\ jobs' = [jobs EXCEPT ![j] = FinishAs(@, "cancelled")]
        BY <1>6, <2>1, <3>1 DEF Cancel
      <3>3. Close(j, jobs[j], attempts[j], jobs'[j], attempts'[j])
        BY <1>0, <2>1, <3>2 DEF Close, ClosedResults
      <3>4. QED
        BY <1>0, <3>2, <3>3 DEF Change
    <2>2. CASE jobs[j].status \notin Leased
      <3>1. i = 0
        BY <1>0, <2>0, <2>2, ActiveAttemptIsLast
      <3>2. attempts' = attempts
        BY <1>6, <3>1 DEF Cancel
      <3>3. CASE jobs[j].status \in Claimable
        BY <1>0, <1>6, <3>2, <3>3 DEF Cancel, Change
      <3>4. CASE jobs[j].status \notin Claimable
        BY <1>0, <1>6, <2>2, <3>2, <3>4 DEF Cancel, Change
      <3>5. QED
        BY <3>3, <3>4
    <2>3. QED
      BY <2>1, <2>2
  <1>7. ASSUME NEW lag \in Lags, Reap(lag)
        PROVE  Goal
    <2>1. PICK done \in SUBSET Expired(lag) :
            /\ jobs' = [j \in Jobs |-> IF j \in done THEN ReapedJob(j, lag) ELSE jobs[j]]
            /\ attempts' = [j \in Jobs |->
                 IF j \in done
                 THEN SetResult(attempts[j], ActiveAttempt(attempts[j], jobs[j].owner),
                                ReapedResult(j))
                 ELSE attempts[j]]
      BY <1>7 DEF Reap
    <2>2. ASSUME NEW j \in done
          PROVE  Close(j, jobs[j], attempts[j], jobs'[j], attempts'[j])
      <3>0. j \in Jobs /\ jobs[j].status \in Leased
        BY <2>1, <2>2 DEF Expired
      <3>1. ActiveAttempt(attempts[j], jobs[j].owner) = Len(attempts[j])
        BY <1>0, <3>0, NoWorker \in Workers \cup {NoWorker}, ActiveAttemptIsLast
      <3>2. /\ jobs'[j] = ReapedJob(j, lag)
            /\ attempts'[j] = SetResult(attempts[j], Len(attempts[j]), ReapedResult(j))
        BY <2>1, <2>2, <3>0, <3>1
      <3>3. /\ ReapedResult(j) \in ClosedResults /\ ReapedResult(j) # "succeeded"
            /\ JobOutcome(ReapedResult(j)) = "timed_out"
        BY DEF ReapedResult, ClosedResults, JobOutcome
      <3>4. PolicyDelay(jobs[j].count) \in Int
        BY <1>0, <3>0, JobQueueAssumption DEF JobQueueAssumption, JobInv, BudgetInv, Job
      <3>5. \/ jobs'[j] = FinishAs(jobs[j], "timed_out")
            \/ CanRetry(j, jobs[j]) /\ \E e \in Int : jobs'[j] = Requeue(jobs[j], e)
        BY <1>0, <3>0, <3>2, <3>4, RetryIsRequeue DEF ReapedJob
      <3>6. QED
        BY <3>0, <3>2, <3>3, <3>5 DEF Close
    <2>3. \A j \in Jobs : j \notin done => jobs'[j] = jobs[j] /\ attempts'[j] = attempts[j]
      BY <2>1
    <2>4. QED
      BY <2>1, <2>2, <2>3 DEF Change
  <1>8. ASSUME Tick
        PROVE  Goal
    BY <1>0, <1>8 DEF Tick, Change
  <1>9. ASSUME UNCHANGED vars
        PROVE  Goal
    BY <1>0, <1>9 DEF vars, Change
  <1> HIDE DEF Goal
  <1>10. ASSUME NEW j \in Jobs, NEW d \in StartDelays, Schedule(j, d)
         PROVE  Goal
    BY <1>0, <1>1, <1>10 DEF Schedule
  <1>11. ASSUME NEW j \in Jobs, NEW age \in Lags, EnsurePlanned(j, age)
         PROVE  Goal
    BY <1>1, <1>11, -age \in Int DEF EnsurePlanned, Lags
  <1>12. Goal
    BY <1>2, <1>3, <1>4, <1>5, <1>6, <1>7, <1>8, <1>9, <1>10, <1>11 DEF Next
  <1>13. QED
    BY <1>12 DEF Goal

-----------------------------------------------------------------------------
(* QueueInv holds in every reachable state.                                *)
LEMMA InitInv == Init => QueueInv
  <1> SUFFICES ASSUME Init PROVE QueueInv
    OBVIOUS
  <1>1. jobs = [j \in Jobs |-> jobs[j]] /\ attempts = [j \in Jobs |-> attempts[j]]
    BY DEF Init
  <1>2. ASSUME NEW j \in Jobs
        PROVE  JobInv(j, jobs[j], attempts[j])
    <2>1. /\ jobs[j] \in Job /\ jobs[j].status = "absent" /\ jobs[j].owner = NoWorker
          /\ jobs[j].count = 0 /\ attempts[j] = << >>
      BY DEF Init, Job, Statuses
    <2>2. MaxAttempts[j] \in Nat \ {0}
      BY JobQueueAssumption DEF JobQueueAssumption
    <2>3. QED
      BY <2>1, <2>2 DEF JobInv, LeaseInv, BudgetInv, OutcomeInv, Leased, Claimable
  <1>3. QED
    BY <1>1, <1>2, InvIsPerJob

LEMMA NextInv == QueueInv /\ [Next]_vars => QueueInv'
  <1> SUFFICES ASSUME QueueInv, [Next]_vars PROVE QueueInv'
    OBVIOUS
  <1>1. \A j \in Jobs : JobInv(j, jobs[j], attempts[j])
    BY InvIsPerJob
  <1>2. /\ jobs' = [j \in Jobs |-> jobs'[j]] /\ attempts' = [j \in Jobs |-> attempts'[j]]
        /\ \A j \in Jobs : JobInv(j, jobs'[j], attempts'[j])
    BY <1>1, NextIsChange, ChangeKeepsInv
  <1>3. QED
    <2>1. TypeOK'
      BY <1>2 DEF TypeOK, JobInv
    <2>2. LeaseIsOneOpenAttempt'
      BY <1>2 DEF LeaseIsOneOpenAttempt, JobInv, LeaseInv
    <2>3. BudgetIsKept'
      BY <1>2 DEF BudgetIsKept, JobInv, BudgetInv
    <2>4. OutcomeIsLastResult'
      BY <1>2 DEF OutcomeIsLastResult, JobInv, OutcomeInv
    <2>5. QED
      BY <2>1, <2>2, <2>3, <2>4 DEF QueueInv

THEOREM QueueInvariant == Spec => []QueueInv
  <1>1. QED
    BY InitInv, NextInv, PTL DEF Spec

(* Every row has its type (job.Job, job.Attempt).                          *)
THEOREM TypeCorrectness == Spec => []TypeOK
  <1>1. QueueInv => TypeOK
    BY DEF QueueInv
  <1>2. QED
    BY <1>1, QueueInvariant, PTL

(* A lease stands for exactly one open attempt, the lease holder's, through *)
(* Claim, Complete, Cancel and ReapExpired.                                *)
THEOREM LeaseCorrectness == Spec => []LeaseIsOneOpenAttempt
  <1>1. QueueInv => LeaseIsOneOpenAttempt
    BY DEF QueueInv
  <1>2. QED
    BY <1>1, QueueInvariant, PTL

(* No sequence of Claim, Complete and ReapExpired overruns MaxAttempts or  *)
(* leaves a queued job without an attempt.                                 *)
THEOREM BudgetCorrectness == Spec => []BudgetIsKept
  <1>1. QueueInv => BudgetIsKept
    BY DEF QueueInv
  <1>2. QED
    BY <1>1, QueueInvariant, PTL

(* A final job's status is the result of its last attempt (completeLocked, *)
(* completeJob, ReapExpired).                                              *)
THEOREM OutcomeCorrectness == Spec => []OutcomeIsLastResult
  <1>1. QueueInv => OutcomeIsLastResult
    BY DEF QueueInv
  <1>2. QED
    BY <1>1, QueueInvariant, PTL

-----------------------------------------------------------------------------
(* What a change may do to a job that is over, and to closed attempts.     *)
LEMMA ChangeKeepsFinal ==
  ASSUME NEW j \in Jobs, NEW r, NEW s, NEW q, NEW t,
         JobInv(j, r, s), Change(j, r, s, q, t), r.status \in Final
  PROVE  q.status = r.status /\ q.owner = NoWorker /\ t = s
  <1>1. r \in Job /\ MaxLag \in Nat /\ r.owner = NoWorker
    BY JobQueueAssumption DEF JobInv, JobQueueAssumption, LeaseInv, Leased, Final
  <1>2. r.status \notin Claimable /\ r.status \notin Leased
        /\ r.status # "absent" /\ r.status # "claimed"
    BY DEF Final, Claimable, Leased
  <1>3. (q = r \/ q = Later(r)) /\ t = s
    BY <1>2 DEF Change, Close
  <1>4. QED
    BY <1>1, <1>3, LaterRow

LEMMA ChangeExtendsHistory ==
  ASSUME NEW j \in Jobs, NEW r, NEW s, NEW q, NEW t,
         JobInv(j, r, s), Change(j, r, s, q, t)
  PROVE  /\ Len(t) \in {Len(s), Len(s) + 1}
         /\ \A i \in 1 .. Len(s) :
              t[i].worker = s[i].worker /\ (~IsOpen(s[i]) => t[i] = s[i])
  <1>1. s \in Seq(Attempt) /\ Len(s) \in Nat /\ LeaseInv(r, s)
    BY DEF JobInv
  <1>2. CASE t = s
    BY <1>1, <1>2
  <1>3. ASSUME NEW w \in Workers, t = Append(s, NewAttempt(w))
        PROVE  /\ Len(t) = Len(s) + 1
               /\ \A i \in 1 .. Len(s) : t[i] = s[i]
    BY <1>1, <1>3
  <1>4. ASSUME NEW o \in OpenResults \cup ClosedResults,
               r.status \in Leased, t = SetResult(s, Len(s), o)
        PROVE  /\ Len(t) = Len(s)
               /\ \A i \in 1 .. Len(s) :
                    t[i].worker = s[i].worker /\ (~IsOpen(s[i]) => t[i] = s[i])
    <2>1. Len(s) > 0 /\ IsOpen(s[Len(s)])
      BY <1>1, <1>4 DEF LeaseInv
    <2>2. /\ Len(t) = Len(s) /\ t[Len(s)].worker = s[Len(s)].worker
          /\ \A i \in 1 .. Len(s) - 1 : t[i] = s[i]
      BY <1>1, <1>4, <2>1, SetLastResult
    <2>3. QED
      BY <1>1, <2>1, <2>2
  <1>5. \/ t = s
        \/ \E w \in Workers : t = Append(s, NewAttempt(w))
        \/ \E o \in OpenResults \cup ClosedResults :
             r.status \in Leased /\ t = SetResult(s, Len(s), o)
    BY DEF Change, Close, OpenResults
  <1>6. QED
    BY <1>2, <1>3, <1>4, <1>5

(* "Terminal jobs will never be claimed again by the scheduler."           *)
(* (status.go), nor completed, cancelled or reaped.                        *)
THEOREM FinalJobsStayFinal == Spec => FinalIsForever
  <1> DEFINE A == \A j \in Jobs : jobs[j].status \in Final =>
                    /\ jobs'[j].status = jobs[j].status
                    /\ jobs'[j].owner = NoWorker
                    /\ attempts'[j] = attempts[j]
  <1>1. QueueInv /\ [Next]_vars => A
    <2> SUFFICES ASSUME QueueInv, [Next]_vars, NEW j \in Jobs, jobs[j].status \in Final
                 PROVE  /\ jobs'[j].status = jobs[j].status
                        /\ jobs'[j].owner = NoWorker
                        /\ attempts'[j] = attempts[j]
      OBVIOUS
    <2>1. QED
      BY InvIsPerJob, NextIsChange, ChangeKeepsFinal
  <1>2. QED
    BY <1>1, QueueInvariant, PTL DEF Spec, FinalIsForever

(* "Terminal attempts are immutable historical records." (status.go)       *)
THEOREM HistoryIsImmutable == Spec => HistoryOnlyGrows
  <1> DEFINE A == \A j \in Jobs :
                    /\ Len(attempts'[j]) \in {Len(attempts[j]), Len(attempts[j]) + 1}
                    /\ \A i \in 1 .. Len(attempts[j]) :
                         /\ attempts'[j][i].worker = attempts[j][i].worker
                         /\ ~IsOpen(attempts[j][i]) => attempts'[j][i] = attempts[j][i]
  <1>1. QueueInv /\ [Next]_vars => A
    BY InvIsPerJob, NextIsChange, ChangeExtendsHistory
  <1>2. QED
    BY <1>1, QueueInvariant, PTL DEF Spec, HistoryOnlyGrows

-----------------------------------------------------------------------------
(* The job as JobLifecycle sees it, from its row and attempts.             *)
RunOf(a) == [worker |-> a.worker, result |-> IF IsOpen(a) THEN "open" ELSE a.result]
LifeAt(r, s) == [stage |-> StageOf(r.status), runs |-> RunsOf(s)]

LEMMA RunsOfSeq ==
  ASSUME NEW s \in Seq(Attempt)
  PROVE  /\ RunsOf(s) = [i \in 1 .. Len(s) |-> RunOf(s[i])]
         /\ RunsOf(s) \in Seq({RunOf(a) : a \in Attempt})
         /\ Len(RunsOf(s)) = Len(s)
  <1>1. RunsOf(s) = [i \in 1 .. Len(s) |-> RunOf(s[i])]
    BY DEF RunsOf, RunOf
  <1>2. Len(s) \in Nat /\ \A i \in 1 .. Len(s) : s[i] \in Attempt
    OBVIOUS
  <1> HIDE DEF RunOf
  <1>3. \A i \in 1 .. Len(s) : RunOf(s[i]) \in {RunOf(a) : a \in Attempt}
    BY <1>2
  <1>4. QED
    BY <1>1, <1>2, <1>3

(* A claim appends one open run, a closed attempt ends the newest run.     *)
LEMMA RunsOfAppend ==
  ASSUME NEW s \in Seq(Attempt), NEW w \in Workers
  PROVE  RunsOf(Append(s, NewAttempt(w))) =
           Append(RunsOf(s), [worker |-> w, result |-> "open"])
  <1> DEFINE t == Append(s, NewAttempt(w))
             u == Append(RunsOf(s), [worker |-> w, result |-> "open"])
  <1>1. NewAttempt(w) \in Attempt /\ RunOf(NewAttempt(w)) = [worker |-> w, result |-> "open"]
    BY DEF NewAttempt, Attempt, RunOf, IsOpen, OpenResults
  <1>2. /\ t \in Seq(Attempt) /\ Len(t) = Len(s) + 1 /\ Len(s) \in Nat
        /\ t[Len(s) + 1] = NewAttempt(w) /\ \A i \in 1 .. Len(s) : t[i] = s[i]
    BY <1>1
  <1>3. RunsOf(t) = [i \in 1 .. Len(s) + 1 |-> RunOf(t[i])]
    BY <1>2, RunsOfSeq
  <1>4. /\ Len(RunsOf(s)) = Len(s) /\ RunsOf(s) \in Seq({RunOf(a) : a \in Attempt})
        /\ \A i \in 1 .. Len(s) : RunsOf(s)[i] = RunOf(s[i])
    BY RunsOfSeq
  <1>5. /\ u = [i \in 1 .. Len(s) + 1 |-> u[i]]
        /\ u[Len(s) + 1] = [worker |-> w, result |-> "open"]
        /\ \A i \in 1 .. Len(s) : u[i] = RunsOf(s)[i]
    BY <1>2, <1>4
  <1> HIDE DEF t, u
  <1>6. \A i \in 1 .. Len(s) + 1 : RunOf(t[i]) = u[i]
    <2> SUFFICES ASSUME NEW i \in 1 .. Len(s) + 1 PROVE RunOf(t[i]) = u[i]
      OBVIOUS
    <2>1. CASE i = Len(s) + 1
      BY <1>1, <1>2, <1>5, <2>1
    <2>2. CASE i \in 1 .. Len(s)
      BY <1>2, <1>4, <1>5, <2>2
    <2>3. QED
      BY <1>2, <2>1, <2>2
  <1>7. RunsOf(t) = u
    BY <1>3, <1>5, <1>6
  <1>8. QED
    BY <1>7 DEF t, u

LEMMA RunsOfClose ==
  ASSUME NEW s \in Seq(Attempt), Len(s) > 0, NEW o \in ClosedResults
  PROVE  RunsOf(SetResult(s, Len(s), o)) = Lifecycle!Ended(RunsOf(s), o)
  <1> SUFFICES ASSUME NEW t, t = SetResult(s, Len(s), o)
               PROVE  RunsOf(t) = Lifecycle!Ended(RunsOf(s), o)
    OBVIOUS
  <1> DEFINE u == Lifecycle!Ended(RunsOf(s), o)
             e == RunOf(t[Len(s)])
  <1>1. /\ t \in Seq(Attempt) /\ Len(t) = Len(s) /\ Len(s) \in Nat
        /\ t[Len(s)].worker = s[Len(s)].worker /\ t[Len(s)].result = o
        /\ \A i \in 1 .. Len(s) - 1 : t[i] = s[i]
    BY SetLastResult
  <1>2. RunsOf(t) = [i \in 1 .. Len(s) |-> RunOf(t[i])]
    BY <1>1, RunsOfSeq
  <1>3. /\ RunsOf(s) = [i \in 1 .. Len(s) |-> RunOf(s[i])]
        /\ Len(RunsOf(s)) = Len(s)
    BY RunsOfSeq
  <1>4. RunOf(t[Len(s)]) = [RunOf(s[Len(s)]) EXCEPT !.result = o]
    BY <1>1 DEF RunOf, IsOpen, OpenResults, ClosedResults
  <1>5. u = [RunsOf(s) EXCEPT ![Len(s)] = e]
    <2>1. RunsOf(s)[Len(s)] = RunOf(s[Len(s)])
      BY <1>1, <1>3
    <2>2. u = [RunsOf(s) EXCEPT ![Len(s)] = [RunsOf(s)[Len(s)] EXCEPT !.result = o]]
      BY <1>3 DEF Lifecycle!Ended
    <2>3. QED
      BY <1>4, <2>1, <2>2
  <1>6. \A i \in 1 .. Len(s) - 1 : RunOf(t[i]) = RunOf(s[i])
    BY <1>1
  <1> HIDE DEF u
  <1>7. RunsOf(t) = u
    <2>1. RunsOf(t) = [i \in 1 .. Len(s) |-> IF i = Len(s) THEN e ELSE RunOf(s[i])]
      BY <1>1, <1>2, <1>6
    <2> HIDE DEF e
    <2>2. u = [i \in 1 .. Len(s) |-> IF i = Len(s) THEN e ELSE RunOf(s[i])]
      BY <1>3, <1>5
    <2>3. QED
      BY <2>1, <2>2
  <1>8. QED
    BY <1>7 DEF u

(* A heartbeat is invisible: the newest run stays open.                    *)
LEMMA RunsOfHeartbeat ==
  ASSUME NEW s \in Seq(Attempt), Len(s) > 0, IsOpen(s[Len(s)])
  PROVE  RunsOf(SetResult(s, Len(s), "heartbeating")) = RunsOf(s)
  <1> SUFFICES ASSUME NEW t, t = SetResult(s, Len(s), "heartbeating")
               PROVE  RunsOf(t) = RunsOf(s)
    OBVIOUS
  <1>1. /\ t \in Seq(Attempt) /\ Len(t) = Len(s) /\ Len(s) \in Nat
        /\ t[Len(s)].worker = s[Len(s)].worker /\ t[Len(s)].result = "heartbeating"
        /\ \A i \in 1 .. Len(s) - 1 : t[i] = s[i]
    BY SetLastResult DEF OpenResults
  <1>2. RunOf(t[Len(s)]) = RunOf(s[Len(s)])
    BY <1>1 DEF RunOf, IsOpen, OpenResults
  <1>3. \A i \in 1 .. Len(s) : RunOf(t[i]) = RunOf(s[i])
    BY <1>1, <1>2
  <1>4. QED
    BY <1>1, <1>3, RunsOfSeq

(* Every change is a step of the job's life, or leaves it as it was.       *)
LEMMA ChangeIsStep ==
  ASSUME NEW j \in Jobs, NEW r, NEW s, NEW q, NEW t,
         JobInv(j, r, s), Change(j, r, s, q, t)
  PROVE  LifeAt(q, t) = LifeAt(r, s) \/ Lifecycle!Step(j, LifeAt(r, s), LifeAt(q, t))
  <1>0. /\ r \in Job /\ s \in Seq(Attempt) /\ Len(s) \in Nat /\ MaxLag \in Nat
        /\ LeaseTTL \in Nat
        /\ LeaseInv(r, s) /\ BudgetInv(j, r, s)
    BY JobQueueAssumption DEF JobInv, JobQueueAssumption
  <1>10. /\ RunsOf(s) = [i \in 1 .. Len(s) |-> RunOf(s[i])]
         /\ Len(RunsOf(s)) = Len(s)
    BY <1>0, RunsOfSeq
  <1>1. CASE q = r /\ t = s
    BY <1>1
  <1>2. CASE q = Later(r) /\ t = s
    BY <1>0, <1>2, LaterRow DEF LifeAt
  <1>3. CASE r.status = "absent" /\ t = s
             /\ \E d \in Int : q = [r EXCEPT !.status = "pending", !.runIn = d]
    <2>1. q.status = "pending" /\ Len(s) = 0
      BY <1>0, <1>3 DEF Job, BudgetInv
    <2>2. RunsOf(t) = << >>
      BY <1>3, <1>10, <2>1
    <2>3. StageOf(r.status) = "none" /\ StageOf(q.status) = "queued"
      BY <1>3, <2>1 DEF StageOf, Claimable, Leased
    <2>4. QED
      BY <2>2, <2>3 DEF LifeAt, Lifecycle!Step, Lifecycle!Submitted
  <1>4. ASSUME NEW w \in Workers, NEW lag \in Lags,
               r.status \in Claimable, q = ClaimFor(r, w, lag), t = Append(s, NewAttempt(w))
        PROVE  Lifecycle!Step(j, LifeAt(r, s), LifeAt(q, t))
    <2>1. q.status = "claimed"
      BY <1>0, <1>4, ClaimRow
    <2>2. Len(RunsOf(s)) < MaxAttempts[j]
      BY <1>0, <1>4, <1>10 DEF BudgetInv
    <2>3. StageOf(r.status) = "queued" /\ StageOf(q.status) = "held"
      BY <1>4, <2>1 DEF StageOf, Claimable, Leased
    <2>4. QED
      BY <1>0, <1>4, <2>2, <2>3, RunsOfAppend DEF LifeAt, Lifecycle!Step, Lifecycle!Granted
  <1>5. CASE r.status = "claimed" /\ q = [r EXCEPT !.status = "running"] /\ t = s
    BY <1>0, <1>5 DEF LifeAt, StageOf, Job, Claimable, Leased
  <1>6. ASSUME NEW lag \in Lags,
               r.status \in Leased, q = Renew(r, lag), t = SetResult(s, Len(s), "heartbeating")
        PROVE  LifeAt(q, t) = LifeAt(r, s)
    <2>1. q.status = r.status
      BY <1>0, <1>6 DEF Renew, Job
    <2>2. QED
      BY <1>0, <1>6, <2>1, RunsOfHeartbeat DEF LifeAt, LeaseInv
  <1>7. CASE Close(j, r, s, q, t)
    <2>1. PICK o \in ClosedResults :
            /\ r.status \in Leased
            /\ t = SetResult(s, Len(s), o)
            /\ \/ q = FinishAs(r, JobOutcome(o))
               \/ o # "succeeded" /\ CanRetry(j, r) /\ \E e \in Int : q = Requeue(r, e)
               \/ o = "abandoned" /\ q = FinishAs(r, "cancelled")
      BY <1>7 DEF Close
    <2>2. /\ LifeAt(r, s) = [stage |-> "held", runs |-> RunsOf(s)]
          /\ RunsOf(t) = Lifecycle!Ended(RunsOf(s), o)
          /\ o \in Lifecycle!Results
      BY <1>0, <2>1, RunsOfClose
         DEF LifeAt, StageOf, Claimable, Leased, LeaseInv, ClosedResults, Lifecycle!Results
    <2>3. CASE o # "succeeded" /\ CanRetry(j, r) /\ \E e \in Int : q = Requeue(r, e)
      <3>1. q.status = "retry" /\ Len(RunsOf(s)) < MaxAttempts[j]
        BY <1>0, <1>10, <2>3, RequeueRow DEF CanRetry, BudgetInv
      <3>2. LifeAt(q, t) = [stage |-> "queued", runs |-> Lifecycle!Ended(RunsOf(s), o)]
        BY <2>2, <3>1 DEF LifeAt, StageOf, Claimable, Leased
      <3>3. QED
        BY <2>2, <2>3, <3>1, <3>2 DEF Lifecycle!Step, Lifecycle!Requeued
    <2>4. CASE q = FinishAs(r, JobOutcome(o)) \/ q = FinishAs(r, "cancelled")
      <3>1. q.status \in Final
        BY <1>0, <2>1, <2>4, FinishRow DEF Final, JobOutcome, ClosedResults
      <3>2. LifeAt(q, t) = [stage |-> "over", runs |-> Lifecycle!Ended(RunsOf(s), o)]
        BY <2>2, <3>1 DEF LifeAt, StageOf, Claimable, Leased, Final
      <3>3. QED
        BY <2>2, <3>2 DEF Lifecycle!Step, Lifecycle!Concluded
    <2>5. QED
      BY <2>1, <2>3, <2>4
  <1>8. CASE r.status \in Claimable /\ q = FinishAs(r, "cancelled") /\ t = s
    <2>1. q.status = "cancelled"
      BY <1>0, <1>8, FinishRow DEF Final
    <2>2. QED
      BY <1>8, <2>1
         DEF LifeAt, StageOf, Claimable, Leased, Lifecycle!Step, Lifecycle!Withdrawn
  <1>9. QED
    BY <1>1, <1>2, <1>3, <1>4, <1>5, <1>6, <1>7, <1>8 DEF Change

(* The repository operations, with their clocks, leases, batches, stale    *)
(* calls and partial reaper passes, implement JobLifecycle.                *)
THEOREM QueueImplementsLifecycle == Spec => ImplementsLifecycle
  <1>1. Init => Lifecycle!LifecycleInit
    <2> SUFFICES ASSUME Init PROVE Lifecycle!LifecycleInit
      OBVIOUS
    <2>1. ASSUME NEW j \in Jobs
          PROVE  LifeOf[j] = [stage |-> "none", runs |-> << >>]
      <3>1. jobs[j].status = "absent" /\ attempts[j] = << >> /\ Len(attempts[j]) = 0
        BY DEF Init
      <3>2. RunsOf(attempts[j]) = << >>
        BY <3>1 DEF RunsOf
      <3>3. QED
        BY <3>1, <3>2 DEF LifeOf, StageOf, Claimable, Leased
    <2>2. QED
      BY <2>1 DEF LifeOf, Lifecycle!LifecycleInit
  <1>2. QueueInv /\ [Next]_vars => [Lifecycle!LifecycleNext]_LifeOf
    <2> SUFFICES ASSUME QueueInv, [Next]_vars
                 PROVE  Lifecycle!LifecycleNext
      OBVIOUS
    <2>1. \A j \in Jobs : /\ LifeOf[j] = LifeAt(jobs[j], attempts[j])
                          /\ LifeOf'[j] = LifeAt(jobs'[j], attempts'[j])
      BY DEF LifeOf, LifeAt
    <2>2. \A j \in Jobs : LifeOf'[j] = LifeOf[j] \/ Lifecycle!Step(j, LifeOf[j], LifeOf'[j])
      BY <2>1, InvIsPerJob, NextIsChange, ChangeIsStep
    <2>3. QED
      BY <2>2 DEF Lifecycle!LifecycleNext
  <1>3. QED
    BY <1>1, <1>2, QueueInvariant, PTL
       DEF Spec, ImplementsLifecycle, Lifecycle!LifecycleSpec
=============================================================================
