-------------------------- MODULE SchedulerProofs ---------------------------
(***************************************************************************)
(* Proofs about Scheduler, for every finite set of jobs, every set of      *)
(* workers and every budget, batch size, lease length and lag, with and    *)
(* without crashes, store faults and timely renewals.                      *)
(*                                                                         *)
(* The scheduler changes the queue only through the queue's operations, so *)
(* what is proved of the queue holds of the scheduler (lemma QueueSteps).  *)
(* A claim in hand then stays good because only its holder could make the  *)
(* store record a later attempt under its id, and it never claims with a   *)
(* claim in hand (lemma OldClaimStaysGood).                                *)
(***************************************************************************)
EXTENDS Scheduler, JobQueueProofs, FiniteSetTheorems

(* The invariant, of one claim c in the hands of w.                        *)
GoodClaim(w, c) ==
  /\ c \in ClaimsOf
  /\ jobs[c.job].status \in Leased /\ jobs[c.job].owner = w => c.no = jobs[c.job].count
  /\ c.no \in 1 .. Len(attempts[c.job])
  /\ attempts[c.job][c.no].worker = w

HandsInv ==
  /\ QueueInv
  /\ SchedulerTypeOK
  /\ \A w \in Workers : \A c \in InHand(w) : GoodClaim(w, c)

-----------------------------------------------------------------------------
(* Every scheduler step is a step of the queue, or none.                   *)
LEMMA WorkerStepIsQueueStep ==
  ASSUME NEW w \in Workers, WorkerStep(w), worker[w].batch # << >> => Current(w).job \in Jobs,
         SchedulerTypeOK
  PROVE  [Next]_vars
  <1>1. ASSUME NEW lag \in Lags, Poll(w, lag) \/ LosePoll(w, lag)
        PROVE  Next
    BY <1>1 DEF Poll, LosePoll, Claim, Next
  <1>2. In(w, "next") \/ In(w, "executing") \/ In(w, "returned") => Current(w).job \in Jobs
    BY DEF SchedulerTypeOK, In
  <1>3. ASSUME NEW lag \in Lags, Start(w, lag) \/ FailToStart(w, lag)
        PROVE  [Next]_vars
    BY <1>2, <1>3 DEF Start, FailToStart, Next
  <1>4. ASSUME NEW lag \in Lags, RenewLease(w, lag) \/ FailToRenew(w, lag)
        PROVE  [Next]_vars
    BY <1>2, <1>4 DEF RenewLease, FailToRenew, Next
  <1>5. ASSUME NEW lag \in Lags, ReturnDuringRenewal(w, lag) \/ Drop(w, lag)
        PROVE  [Next]_vars
    BY <1>2, <1>5 DEF ReturnDuringRenewal, Drop, Next
  <1>6. ASSUME NEW lag \in Lags, NEW result \in ReportedResults, NEW retryable \in BOOLEAN,
               NEW delay \in RetryDelays, Report(w, lag, result, retryable, delay)
        PROVE  [Next]_vars
    BY <1>2, <1>6 DEF Report, Next
  <1>7. ASSUME Return(w) \/ Crash(w) \/ Restart(w)
        PROVE  UNCHANGED vars
    BY <1>7 DEF Return, Crash, Restart
  <1>8. QED
    BY <1>1, <1>3, <1>4, <1>5, <1>6, <1>7 DEF WorkerStep

LEMMA StepIsQueueStep ==
  ASSUME SchedulerTypeOK, [SchedulerNext]_schedulerVars
  PROVE  [Next]_vars
  <1>1. ASSUME NEW w \in Workers, WorkerStep(w)
        PROVE  [Next]_vars
    <2>1. worker[w].batch # << >> => Current(w).job \in Jobs
      <3>1. worker[w].batch \in Seq(ClaimsOf)
        BY DEF SchedulerTypeOK
      <3>2. worker[w].batch # << >> => worker[w].batch[1] \in ClaimsOf
        BY <3>1
      <3>3. QED
        BY <3>2 DEF Current, ClaimsOf
    <2>2. QED
      BY <1>1, <2>1, WorkerStepIsQueueStep
  <1>2. ASSUME \/ \E j \in Jobs, d \in StartDelays : Submit(j, d)
               \/ \E j \in Jobs, age \in Lags : Plan(j, age)
               \/ \E j \in Jobs : Withdraw(j)
               \/ \E lag \in Lags : Recover(lag)
               \/ Pass
        PROVE  Next
    BY <1>2 DEF Submit, Plan, Withdraw, Recover, Pass, Next
  <1>3. ASSUME UNCHANGED schedulerVars
        PROVE  UNCHANGED vars
    BY <1>3 DEF schedulerVars, vars
  <1>4. QED
    BY <1>1, <1>2, <1>3 DEF SchedulerNext

-----------------------------------------------------------------------------
(* No operation but a claim makes a history longer.                        *)
LEMMA SetResultDomain ==
  ASSUME NEW s, NEW i, NEW result
  PROVE  DOMAIN SetResult(s, i, result) = DOMAIN s
  BY DEF SetResult

LEMMA OnlyClaimsGrow ==
  ASSUME TypeOK, NEW j \in Jobs,
         \/ UNCHANGED vars
         \/ \E k \in Jobs, d \in Int : Insert(k, d)
         \/ \E k \in Jobs, w \in Workers, lag \in Lags :
              MarkRunning(k, w, lag) \/ Heartbeat(k, w, lag)
         \/ \E k \in Jobs, w \in Workers, lag \in Lags,
               result \in ReportedResults, retryable \in BOOLEAN, delay \in RetryDelays :
              Complete(k, w, lag, result, retryable, delay)
         \/ \E k \in Jobs : Cancel(k)
         \/ \E lag \in Lags : Reap(lag)
         \/ Tick
  PROVE  DOMAIN attempts'[j] = DOMAIN attempts[j]
  <1>0. attempts = [k \in Jobs |-> attempts[k]]
    BY DEF TypeOK
  <1>1. ASSUME NEW k \in Jobs, NEW w \in Workers, NEW lag \in Lags,
               MarkRunning(k, w, lag) \/ Heartbeat(k, w, lag)
        PROVE  DOMAIN attempts'[j] = DOMAIN attempts[j]
    BY <1>0, <1>1, SetResultDomain DEF MarkRunning, Heartbeat
  <1>2. ASSUME NEW k \in Jobs, NEW w \in Workers, NEW lag \in Lags,
               NEW result \in ReportedResults, NEW retryable \in BOOLEAN,
               NEW delay \in RetryDelays, Complete(k, w, lag, result, retryable, delay)
        PROVE  DOMAIN attempts'[j] = DOMAIN attempts[j]
    BY <1>0, <1>2, SetResultDomain DEF Complete
  <1>3. ASSUME NEW k \in Jobs, Cancel(k)
        PROVE  DOMAIN attempts'[j] = DOMAIN attempts[j]
    BY <1>0, <1>3, SetResultDomain DEF Cancel
  <1>4. ASSUME NEW lag \in Lags, Reap(lag)
        PROVE  DOMAIN attempts'[j] = DOMAIN attempts[j]
    <2>1. attempts'[j] = attempts[j] \/ \E i, r : attempts'[j] = SetResult(attempts[j], i, r)
      BY <1>4 DEF Reap
    <2>2. QED
      BY <2>1, SetResultDomain
  <1>5. ASSUME \/ UNCHANGED vars \/ Tick
               \/ \E k \in Jobs, d \in Int : Insert(k, d)
        PROVE  attempts' = attempts
    BY <1>5 DEF vars, Tick, Insert
  <1>6. QED
    BY <1>1, <1>2, <1>3, <1>4, <1>5

LEMMA SameDomainSameLen ==
  ASSUME NEW s \in Seq(Attempt), NEW t \in Seq(Attempt), DOMAIN s = DOMAIN t
  PROVE  Len(s) = Len(t)
  <1>1. Len(s) \in Nat /\ Len(t) \in Nat /\ 1 .. Len(s) = 1 .. Len(t)
    OBVIOUS
  <1>2. QED
    BY <1>1

(* A claim in hand stays good while nothing is claimed for its holder.     *)
LEMMA OldClaimStaysGood ==
  ASSUME QueueInv, QueueInv', [Next]_vars, NEW w \in Workers, NEW c, GoodClaim(w, c),
         \/ Len(attempts'[c.job]) = Len(attempts[c.job])
         \/ attempts'[c.job][Len(attempts'[c.job])].worker # w
  PROVE  GoodClaim(w, c)'
  <1> DEFINE j == c.job
             s == attempts[j]
             t == attempts'[j]
  <1>1. j \in Jobs /\ c \in ClaimsOf /\ c.no \in Nat
    BY DEF GoodClaim, ClaimsOf
  <1>2. JobInv(j, jobs[j], s) /\ JobInv(j, jobs'[j], t)
    <2>1. JobInv(j, jobs[j], s)
      BY <1>1, InvIsPerJob
    <2>2. JobInv(j, jobs'[j], t)
      BY <1>1, <2>1, NextIsChange, ChangeKeepsInv
    <2>3. QED
      BY <2>1, <2>2
  <1>3. /\ Len(t) \in {Len(s), Len(s) + 1}
        /\ \A i \in 1 .. Len(s) :
             t[i].worker = s[i].worker /\ (~IsOpen(s[i]) => t[i] = s[i])
    BY <1>1, <1>2, NextIsChange, ChangeExtendsHistory
  <1>4. Len(s) \in Nat /\ Len(t) \in Nat
    BY <1>2 DEF JobInv
  <1>5. c.no \in 1 .. Len(s) /\ s[c.no].worker = w
    BY DEF GoodClaim
  <1>6. c.no \in 1 .. Len(t) /\ t[c.no].worker = w
    BY <1>3, <1>4, <1>5
  <1>7. ASSUME jobs'[j].status \in Leased, jobs'[j].owner = w
        PROVE  c.no = jobs'[j].count
    <2>1. Len(t) > 0 /\ IsOpen(t[Len(t)]) /\ t[Len(t)].worker = w /\ Len(t) = jobs'[j].count
      BY <1>2, <1>7 DEF JobInv, LeaseInv, BudgetInv
    <2>2. Len(t) = Len(s)
      BY <2>1
    <2>3. IsOpen(s[Len(s)]) /\ s[Len(s)].worker = w
      BY <1>3, <1>4, <2>1, <2>2
    <2>4. jobs[j].status \in Leased /\ jobs[j].owner = w /\ jobs[j].count = Len(s)
      BY <1>2, <1>4, <2>1, <2>2, <2>3 DEF JobInv, LeaseInv, BudgetInv
    <2>5. c.no = jobs[j].count
      BY <2>4 DEF GoodClaim
    <2>6. QED
      BY <2>1, <2>2, <2>4, <2>5
  <1>8. QED
    BY <1>1, <1>6, <1>7 DEF GoodClaim

-----------------------------------------------------------------------------
(* What a step that claims nothing does to the workers.                    *)
WorkerType == [phase : Phases, batch : Seq(ClaimsOf), renewLost : BOOLEAN]

Fits(x) == x \in WorkerType /\ (x.batch = << >> <=> x.phase \in {"idle", "down"})

LEMMA TypeIsPerWorker ==
  SchedulerTypeOK <=> worker = [w \in Workers |-> worker[w]] /\ \A w \in Workers : Fits(worker[w])
  BY DEF SchedulerTypeOK, Fits, WorkerType, In

LEMMA StoppedFits == Fits(NotRunning) /\ Fits([NotRunning EXCEPT !.phase = "down"])
  <1>1. << >> \in Seq(ClaimsOf)
    BY EmptySeq
  <1>2. QED
    BY <1>1 DEF Fits, NotRunning, WorkerType, Phases

LEMMA BusyFits ==
  ASSUME NEW x, Fits(x), x.batch # << >>, NEW p \in {"executing", "returned"}, NEW b \in BOOLEAN
  PROVE  /\ Fits([[x EXCEPT !.phase = p] EXCEPT !.renewLost = b])
         /\ [[x EXCEPT !.phase = p] EXCEPT !.renewLost = b].batch = x.batch
  <1> DEFINE y == [x EXCEPT !.phase = p]
             z == [y EXCEPT !.renewLost = b]
  <1>1. y \in WorkerType /\ y.batch = x.batch /\ y.phase = p
    BY DEF Fits, WorkerType, Phases
  <1> HIDE DEF y
  <1>2. z \in WorkerType /\ z.batch = x.batch /\ z.phase = p
    BY <1>1 DEF WorkerType
  <1> HIDE DEF z
  <1>3. Fits(z)
    BY <1>2 DEF Fits
  <1>4. QED
    BY <1>2, <1>3 DEF z, y

(* Worker w goes from state x to y and gets no new claim.                  *)
Shrinks(x, y) ==
  /\ Fits(y)
  /\ \/ y.batch = x.batch
     \/ y.batch = << >>
     \/ x.batch # << >> /\ y.batch = Tail(x.batch)

LEMMA ShrinksHands ==
  ASSUME SchedulerTypeOK, NEW w \in Workers, NEW y, Shrinks(worker[w], y),
         worker' = [worker EXCEPT ![w] = y]
  PROVE  SchedulerTypeOK' /\ \A v \in Workers : InHand(v)' \subseteq InHand(v)
  <1>1. /\ worker = [v \in Workers |-> worker[v]] /\ \A v \in Workers : Fits(worker[v])
    BY TypeIsPerWorker
  <1>2. /\ worker' = [v \in Workers |-> worker'[v]]
        /\ \A v \in Workers : Fits(worker'[v])
        /\ worker'[w] = y /\ \A v \in Workers : v # w => worker'[v] = worker[v]
    BY <1>1 DEF Shrinks
  <1>3. SchedulerTypeOK'
    BY <1>2 DEF SchedulerTypeOK, Fits, WorkerType, In
  <1>4. ASSUME NEW v \in Workers
        PROVE  InHand(v)' \subseteq InHand(v)
    <2>1. CASE v # w
      BY <1>2, <2>1 DEF InHand
    <2>2. CASE v = w
      <3> DEFINE a == worker[w].batch
                 b == y.batch
      <3>1. a \in Seq(ClaimsOf) /\ b \in Seq(ClaimsOf)
        BY <1>1 DEF Fits, WorkerType, Shrinks
      <3>2. b = a \/ b = << >> \/ (a # << >> /\ b = Tail(a))
        BY DEF Shrinks
      <3> HIDE DEF a, b
      <3>3. \A i \in 1 .. Len(b) : \E k \in 1 .. Len(a) : b[i] = a[k]
        <4>1. CASE b = a \/ b = << >>
          BY <3>1, <4>1
        <4>2. CASE a # << >> /\ b = Tail(a)
          <5>1. Len(b) = Len(a) - 1 /\ \A i \in 1 .. Len(b) : b[i] = a[i + 1]
            BY <3>1, <4>2
          <5>2. \A i \in 1 .. Len(b) : i + 1 \in 1 .. Len(a)
            BY <3>1, <5>1
          <5>3. QED
            BY <5>1, <5>2
        <4>3. QED
          BY <3>2, <4>1, <4>2
      <3>4. InHand(w) = {a[i] : i \in 1 .. Len(a)} /\ InHand(w)' = {b[i] : i \in 1 .. Len(b)}
        BY <1>2 DEF InHand, a, b
      <3>5. QED
        BY <2>2, <3>3, <3>4
    <2>3. QED
      BY <2>1, <2>2
  <1>5. QED
    BY <1>3, <1>4

(* Advance drops the current claim.                                        *)
LEMMA TailOfLong ==
  ASSUME NEW b \in Seq(ClaimsOf), b # << >>, Len(b) # 1
  PROVE  Tail(b) \in Seq(ClaimsOf) /\ Tail(b) # << >>
  <1>1. Len(b) \in Nat /\ Len(b) # 0
    BY EmptySeq
  <1>2. Tail(b) \in Seq(ClaimsOf) /\ Len(Tail(b)) = Len(b) - 1
    BY <1>1
  <1>3. Len(Tail(b)) # 0
    BY <1>1, <1>2
  <1>4. QED
    BY <1>2, <1>3, EmptySeq

LEMMA AdvanceHands ==
  ASSUME SchedulerTypeOK, NEW w \in Workers, worker[w].batch # << >>, Advance(w)
  PROVE  SchedulerTypeOK' /\ \A v \in Workers : InHand(v)' \subseteq InHand(v)
  <1> DEFINE x == worker[w]
             y == IF Len(x.batch) = 1 THEN NotRunning
                  ELSE [phase |-> "next", batch |-> Tail(x.batch), renewLost |-> FALSE]
  <1>1. worker = [v \in Workers |-> worker[v]] /\ Fits(x)
    BY TypeIsPerWorker
  <1>2. worker' = [worker EXCEPT ![w] = y]
    BY <1>1 DEF Advance
  <1>3. Shrinks(x, y)
    <2>1. CASE Len(x.batch) = 1
      <3>1. y = NotRunning /\ y.batch = << >>
        BY <2>1 DEF NotRunning
      <3>2. QED
        BY <3>1, StoppedFits DEF Shrinks
    <2>2. CASE Len(x.batch) # 1
      <3>1. Tail(x.batch) \in Seq(ClaimsOf) /\ Tail(x.batch) # << >>
        BY <1>1, <2>2, TailOfLong DEF Fits, WorkerType
      <3>2. y.batch = Tail(x.batch) /\ Fits(y)
        BY <2>2, <3>1 DEF Fits, WorkerType, Phases
      <3>3. QED
        BY <3>2 DEF Shrinks
    <2>3. QED
      BY <2>1, <2>2
  <1> HIDE DEF y
  <1>4. QED
    BY <1>2, <1>3, ShrinksHands

(* The steps other than polls leave every claim in hand or drop it.        *)
LEMMA OtherStepsKeepHands ==
  ASSUME SchedulerTypeOK, TypeOK, [SchedulerNext]_schedulerVars,
         ~\E w \in Workers, lag \in Lags : Poll(w, lag) \/ LosePoll(w, lag)
  PROVE  /\ SchedulerTypeOK' /\ \A v \in Workers : InHand(v)' \subseteq InHand(v)
         /\ \A j \in Jobs : DOMAIN attempts'[j] = DOMAIN attempts[j]
  <1> DEFINE Hands == SchedulerTypeOK' /\ \A v \in Workers : InHand(v)' \subseteq InHand(v)
             Lengths == \A j \in Jobs : DOMAIN attempts'[j] = DOMAIN attempts[j]
  <1>0. worker = [v \in Workers |-> worker[v]] /\ \A v \in Workers : Fits(worker[v])
    BY TypeIsPerWorker
  <1>1. ASSUME UNCHANGED worker
        PROVE  Hands
    BY <1>1 DEF SchedulerTypeOK, In, InHand
  <1>2. ASSUME NEW w \in Workers,
               In(w, "next") \/ In(w, "executing") \/ In(w, "returned")
        PROVE  /\ worker[w].batch # << >> /\ Current(w).job \in Jobs
               /\ \A p \in {"executing", "returned"}, b \in BOOLEAN :
                    Shrinks(worker[w], [[worker[w] EXCEPT !.phase = p] EXCEPT !.renewLost = b])
    <2>1. worker[w].batch \in Seq(ClaimsOf) /\ worker[w].batch # << >>
      BY <1>0, <1>2 DEF Fits, WorkerType, In
    <2>2. worker[w].batch[1] \in ClaimsOf
      BY <2>1
    <2>3. ASSUME NEW p \in {"executing", "returned"}, NEW b \in BOOLEAN
          PROVE  Shrinks(worker[w], [[worker[w] EXCEPT !.phase = p] EXCEPT !.renewLost = b])
      BY <1>0, <2>1, <2>3, BusyFits DEF Shrinks
    <2>4. QED
      BY <2>1, <2>2, <2>3 DEF Current, ClaimsOf
  <1>3. ASSUME NEW w \in Workers, NEW lag \in Lags, Start(w, lag)
        PROVE  Hands /\ Lengths
    <2> DEFINE y == [[worker[w] EXCEPT !.phase = "executing"] EXCEPT !.renewLost = worker[w].renewLost]
    <2>1. In(w, "next") /\ MarkRunning(Current(w).job, w, lag)
      BY <1>3 DEF Start
    <2>2. worker' = [worker EXCEPT ![w] = y]
      BY <1>0, <1>3 DEF Start, Fits, WorkerType
    <2>3. Shrinks(worker[w], y)
      BY <1>0, <1>2, <2>1 DEF Fits, WorkerType
    <2> HIDE DEF y
    <2>4. Hands
      BY <2>2, <2>3, ShrinksHands
    <2>5. QED
      BY <1>2, <2>1, <2>4, OnlyClaimsGrow
  <1>4. ASSUME NEW w \in Workers, NEW lag \in Lags, FailToStart(w, lag)
        PROVE  Hands /\ Lengths
    <2>1. In(w, "next") /\ Advance(w)
          /\ (UNCHANGED vars \/ MarkRunning(Current(w).job, w, lag))
      BY <1>4 DEF FailToStart
    <2>2. Hands
      BY <1>2, <2>1, AdvanceHands
    <2>3. QED
      BY <1>2, <2>1, <2>2, OnlyClaimsGrow
  <1>5. ASSUME NEW w \in Workers, NEW lag \in Lags, RenewLease(w, lag)
        PROVE  Hands /\ Lengths
    BY <1>1, <1>2, <1>5, OnlyClaimsGrow DEF RenewLease
  <1>6. ASSUME NEW w \in Workers, NEW lag \in Lags,
               FailToRenew(w, lag) \/ ReturnDuringRenewal(w, lag) \/ Return(w)
        PROVE  Hands /\ Lengths
    <2>1. In(w, "executing") /\ (UNCHANGED vars \/ Heartbeat(Current(w).job, w, lag))
      BY <1>6 DEF FailToRenew, ReturnDuringRenewal, Return
    <2>2. PICK p \in {"executing", "returned"}, b \in BOOLEAN :
            worker' = [worker EXCEPT ![w] =
                         [[worker[w] EXCEPT !.phase = p] EXCEPT !.renewLost = b]]
      <3>1. CASE FailToRenew(w, lag)
        <4>1. worker' = [worker EXCEPT ![w] =
                [[worker[w] EXCEPT !.phase = "executing"] EXCEPT !.renewLost = TRUE]]
          BY <1>0, <2>1, <3>1 DEF FailToRenew, Fits, WorkerType, In
        <4>2. QED
          BY <4>1
      <3>2. CASE ReturnDuringRenewal(w, lag)
        BY <1>0, <3>2 DEF ReturnDuringRenewal, Fits, WorkerType
      <3>3. CASE Return(w)
        <4>1. worker[w].renewLost \in BOOLEAN
          BY <1>0 DEF Fits, WorkerType
        <4>2. worker' = [worker EXCEPT ![w] =
                [[worker[w] EXCEPT !.phase = "returned"] EXCEPT !.renewLost = worker[w].renewLost]]
          BY <1>0, <3>3 DEF Return, Fits, WorkerType
        <4>3. QED
          BY <4>1, <4>2
      <3>4. QED
        BY <1>6, <3>1, <3>2, <3>3
    <2> DEFINE y == [[worker[w] EXCEPT !.phase = p] EXCEPT !.renewLost = b]
    <2>3. Shrinks(worker[w], y) /\ worker' = [worker EXCEPT ![w] = y]
      BY <1>2, <2>1, <2>2
    <2> HIDE DEF y
    <2>4. Hands
      BY <2>3, ShrinksHands
    <2>5. QED
      BY <1>2, <2>1, <2>4, OnlyClaimsGrow
  <1>7. ASSUME NEW w \in Workers, NEW lag \in Lags, NEW result \in ReportedResults,
               NEW retryable \in BOOLEAN, NEW delay \in RetryDelays,
               Report(w, lag, result, retryable, delay)
        PROVE  Hands /\ Lengths
    <2>1. In(w, "returned") /\ Advance(w)
          /\ Complete(Current(w).job, w, lag, result, retryable, delay)
      BY <1>7 DEF Report
    <2>2. Hands
      BY <1>2, <2>1, AdvanceHands
    <2>3. QED
      BY <1>2, <2>1, <2>2, OnlyClaimsGrow
  <1>8. ASSUME NEW w \in Workers, NEW lag \in Lags, Drop(w, lag)
        PROVE  Hands /\ Lengths
    BY <1>2, <1>8, AdvanceHands, OnlyClaimsGrow DEF Drop
  <1>9. ASSUME NEW w \in Workers, Crash(w) \/ Restart(w)
        PROVE  Hands /\ Lengths
    <2>1. PICK y : worker' = [worker EXCEPT ![w] = y] /\ Shrinks(worker[w], y)
      <3>1. Shrinks(worker[w], NotRunning) /\ Shrinks(worker[w], [NotRunning EXCEPT !.phase = "down"])
        BY StoppedFits DEF Shrinks, NotRunning
      <3>2. QED
        BY <1>9, <3>1 DEF Crash, Restart
    <2>2. UNCHANGED vars
      BY <1>9 DEF Crash, Restart
    <2>3. QED
      BY <2>1, <2>2, ShrinksHands, OnlyClaimsGrow
  <1>10. ASSUME NEW j \in Jobs,
                \/ \E d \in StartDelays : Submit(j, d)
                \/ \E age \in Lags : Plan(j, age)
                \/ Withdraw(j)
         PROVE  Hands /\ Lengths
    <2>1. UNCHANGED worker
      BY <1>10 DEF Submit, Plan, Withdraw
    <2>2. Cancel(j) \/ \E d \in Int : Insert(j, d)
      <3>1. StartDelays \subseteq Int
        BY JobQueueAssumption DEF JobQueueAssumption
      <3>2. \A age \in Lags : -age \in Int
        BY DEF Lags
      <3>3. QED
        BY <1>10, <3>1, <3>2 DEF Submit, Schedule, Plan, EnsurePlanned, Withdraw
    <2>3. QED
      BY <1>1, <2>1, <2>2, OnlyClaimsGrow
  <1>11. ASSUME (\E lag \in Lags : Recover(lag)) \/ Pass
         PROVE  Hands /\ Lengths
    BY <1>1, <1>11, OnlyClaimsGrow DEF Recover, Pass
  <1>12. ASSUME UNCHANGED schedulerVars
         PROVE  Hands /\ Lengths
    BY <1>1, <1>12, OnlyClaimsGrow DEF schedulerVars, vars
  <1> HIDE DEF Hands, Lengths
  <1>13. ASSUME NEW w \in Workers, WorkerStep(w)
         PROVE  Hands /\ Lengths
    <2>1. ASSUME NEW lag \in Lags, ~Poll(w, lag) /\ ~LosePoll(w, lag),
                 \/ Poll(w, lag) \/ LosePoll(w, lag)
                 \/ Start(w, lag) \/ FailToStart(w, lag)
                 \/ RenewLease(w, lag) \/ FailToRenew(w, lag)
                 \/ ReturnDuringRenewal(w, lag) \/ Drop(w, lag)
          PROVE  Hands /\ Lengths
      BY <1>3, <1>4, <1>5, <1>6, <1>8, <2>1
    <2>2. \A lag \in Lags : ~Poll(w, lag) /\ ~LosePoll(w, lag)
      OBVIOUS
    <2>3. 0 \in Lags
      BY JobQueueAssumption DEF JobQueueAssumption, Lags
    <2>4. QED
      BY <1>6, <1>7, <1>9, <1>13, <2>1, <2>2, <2>3 DEF WorkerStep
  <1>14. Hands /\ Lengths
    BY <1>10, <1>11, <1>12, <1>13 DEF SchedulerNext
  <1>15. QED
    BY <1>14 DEF Hands, Lengths

-----------------------------------------------------------------------------
(* A poll by w: the new claims are good.                                   *)
LEMMA PollHands ==
  ASSUME HandsInv, QueueInv', NEW w \in Workers, NEW lag \in Lags, Poll(w, lag)
  PROVE  SchedulerTypeOK' /\ \A c \in InHand(w)' : GoodClaim(w, c)'
  <1>0. PICK batch \in SUBSET Jobs : \E order \in SetToSeqs(batch) :
          /\ ClaimBatch(w, lag, batch)
          /\ worker' = [worker EXCEPT ![w] =
               [phase |-> "next", batch |-> ClaimsIn(order), renewLost |-> FALSE]]
    BY DEF Poll
  <1>1. PICK order \in SetToSeqs(batch) :
          /\ ClaimBatch(w, lag, batch)
          /\ worker' = [worker EXCEPT ![w] =
               [phase |-> "next", batch |-> ClaimsIn(order), renewLost |-> FALSE]]
    BY <1>0
  <1> DEFINE n == Cardinality(batch)
             b == ClaimsIn(order)
             y == [phase |-> "next", batch |-> b, renewLost |-> FALSE]
  <1>2. n \in Nat /\ n # 0 /\ order \in [1 .. n -> batch]
    <2>1. IsFiniteSet(batch)
      BY SchedulerAssumption, FS_Subset DEF SchedulerAssumption
    <2>2. batch # {}
      BY <1>1 DEF ClaimBatch
    <2>3. order \in [1 .. n -> batch]
      BY DEF SetToSeqs
    <2>4. QED
      BY <2>1, <2>2, <2>3, FS_CardinalityType, FS_EmptySet
  <1>3. \A j \in Jobs : jobs[j] \in Job /\ attempts[j] \in Seq(Attempt)
                       /\ Len(attempts[j]) = jobs[j].count /\ jobs[j].count \in Nat
    BY DEF HandsInv, QueueInv, TypeOK, BudgetIsKept, Job
  <1>4. \A i \in 1 .. n : /\ order[i] \in batch /\ order[i] \in Jobs
                          /\ b[i] = [job |-> order[i], no |-> jobs[order[i]].count + 1]
                          /\ b[i] \in ClaimsOf
    BY <1>2, <1>3 DEF ClaimsIn, ClaimsOf
  <1>5. b \in Seq(ClaimsOf) /\ Len(b) = n /\ b # << >>
    <2>1. b = [i \in 1 .. n |-> b[i]]
      BY <1>2 DEF ClaimsIn
    <2> HIDE DEF b, n
    <2>2. b \in [1 .. n -> ClaimsOf]
      BY <1>4, <2>1
    <2>3. b \in Seq(ClaimsOf) /\ Len(b) = n
      BY <1>2, <2>2
    <2>4. QED
      BY <1>2, <2>3, EmptySeq
  <1> HIDE DEF n, b
  <1>6. SchedulerTypeOK'
    <2>1. Fits(y)
      BY <1>5 DEF Fits, WorkerType, Phases
    <2>2. worker = [v \in Workers |-> worker[v]] /\ \A v \in Workers : Fits(worker[v])
      BY TypeIsPerWorker DEF HandsInv
    <2> HIDE DEF y
    <2>3. worker' = [v \in Workers |-> worker'[v]] /\ \A v \in Workers : Fits(worker'[v])
      BY <1>1, <2>1, <2>2 DEF y, b
    <2>4. QED
      BY <2>3 DEF SchedulerTypeOK, Fits, WorkerType, In
  <1>7. ASSUME NEW c \in InHand(w)'
        PROVE  GoodClaim(w, c)'
    <2>1. PICK i \in 1 .. n : c = b[i]
      <3>1. worker = [v \in Workers |-> worker[v]]
        BY DEF HandsInv, SchedulerTypeOK
      <3>2. worker'[w].batch = b
        BY <1>1, <3>1 DEF b
      <3>3. QED
        BY <1>5, <3>2 DEF InHand
    <2> DEFINE j == order[i]
               s == attempts[j]
    <2>2. j \in batch /\ j \in Jobs /\ c.job = j /\ c.no = jobs[j].count + 1 /\ c \in ClaimsOf
      <3>1. j \in batch /\ j \in Jobs /\ c \in ClaimsOf
        BY <1>4, <2>1
      <3>2. c = [job |-> j, no |-> jobs[j].count + 1]
        BY <1>4, <2>1
      <3>3. QED
        BY <3>1, <3>2
    <2>3. jobs'[j] = ClaimFor(jobs[j], w, lag) /\ attempts'[j] = Append(s, NewAttempt(w))
      BY <1>1, <2>2 DEF ClaimBatch
    <2>4. jobs'[j].count = jobs[j].count + 1
      BY <1>3, <2>2, <2>3, ClaimRow, JobQueueAssumption DEF JobQueueAssumption
    <2>5. s \in Seq(Attempt) /\ Len(s) = jobs[j].count /\ jobs[j].count \in Nat
      BY <1>3, <2>2
    <2>6. /\ Len(attempts'[j]) = Len(s) + 1
          /\ attempts'[j][Len(s) + 1] = NewAttempt(w)
      BY <2>3, <2>5
    <2>7. c.no \in 1 .. Len(attempts'[j]) /\ attempts'[j][c.no].worker = w
      BY <2>2, <2>5, <2>6 DEF NewAttempt
    <2>8. c.no = jobs'[c.job].count
      BY <2>2, <2>4
    <2>9. c.no \in 1 .. Len(attempts'[c.job]) /\ attempts'[c.job][c.no].worker = w
      BY <2>2, <2>7
    <2>10. c \in ClaimsOf
      BY <2>2
    <2> HIDE DEF j, s
    <2>11. QED
      BY <2>8, <2>9, <2>10 DEF GoodClaim
  <1>8. QED
    BY <1>6, <1>7

(* A claim call for w leaves the claims in other hands good.               *)
LEMMA ClaimLeavesOthers ==
  ASSUME QueueInv, QueueInv', [Next]_vars, NEW w \in Workers, NEW lag \in Lags, Claim(w, lag),
         NEW v \in Workers, v # w, NEW c, GoodClaim(v, c)
  PROVE  GoodClaim(v, c)'
  <1> DEFINE s == attempts[c.job]
  <1>1. PICK batch \in SUBSET Jobs : ClaimBatch(w, lag, batch)
    BY DEF Claim
  <1>2. c.job \in Jobs /\ s \in Seq(Attempt)
    BY DEF GoodClaim, ClaimsOf, QueueInv, TypeOK
  <1>3. attempts'[c.job] = s \/ attempts'[c.job] = Append(s, NewAttempt(w))
    BY <1>1, <1>2 DEF ClaimBatch
  <1>4. \/ Len(attempts'[c.job]) = Len(s)
        \/ attempts'[c.job][Len(attempts'[c.job])].worker # v
    <2>1. CASE attempts'[c.job] = s
      BY <2>1
    <2>2. CASE attempts'[c.job] = Append(s, NewAttempt(w))
      <3>1. attempts'[c.job][Len(attempts'[c.job])] = NewAttempt(w)
        BY <1>2, <2>2
      <3>2. QED
        BY <3>1 DEF NewAttempt
    <2>3. QED
      BY <1>3, <2>1, <2>2
  <1>5. QED
    BY <1>4, OldClaimStaysGood

-----------------------------------------------------------------------------
LEMMA InitHands == SchedulerInit => HandsInv
  <1> SUFFICES ASSUME SchedulerInit PROVE HandsInv
    OBVIOUS
  <1>1. QueueInv
    BY InitInv DEF SchedulerInit
  <1>2. \A w \in Workers : worker[w] = NotRunning /\ worker[w].batch = << >>
    BY DEF SchedulerInit, NotRunning
  <1>3. SchedulerTypeOK
    BY <1>2, StoppedFits, TypeIsPerWorker DEF SchedulerInit
  <1>4. \A w \in Workers : InHand(w) = {}
    BY <1>2 DEF InHand
  <1>5. QED
    BY <1>1, <1>3, <1>4 DEF HandsInv

LEMMA NextHands == HandsInv /\ [SchedulerNext]_schedulerVars => HandsInv'
  <1> SUFFICES ASSUME HandsInv, [SchedulerNext]_schedulerVars PROVE HandsInv'
    OBVIOUS
  <1>1. [Next]_vars /\ QueueInv /\ QueueInv'
    BY StepIsQueueStep, NextInv DEF HandsInv
  <1>2. SchedulerTypeOK /\ \A w \in Workers : \A c \in InHand(w) : GoodClaim(w, c)
    BY DEF HandsInv
  <1>3. ASSUME NEW w \in Workers, In(w, "idle")
        PROVE  InHand(w) = {}
    <2>1. worker[w].batch = << >>
      BY <1>2, <1>3 DEF SchedulerTypeOK
    <2>2. QED
      BY <2>1 DEF InHand
  <1>4. ASSUME NEW w \in Workers, NEW lag \in Lags, Poll(w, lag)
        PROVE  HandsInv'
    <2>1. SchedulerTypeOK' /\ \A c \in InHand(w)' : GoodClaim(w, c)'
      BY <1>1, <1>4, PollHands
    <2>2. ASSUME NEW v \in Workers, v # w, NEW c \in InHand(v)'
          PROVE  GoodClaim(v, c)'
      <3>1. c \in InHand(v)
        BY <1>4, <2>2 DEF Poll, InHand
      <3>2. Claim(w, lag)
        BY <1>4 DEF Poll, Claim
      <3>3. QED
        BY <1>1, <1>2, <2>2, <3>1, <3>2, ClaimLeavesOthers
    <2>3. QED
      BY <1>1, <2>1, <2>2 DEF HandsInv
  <1>5. ASSUME NEW w \in Workers, NEW lag \in Lags, LosePoll(w, lag)
        PROVE  HandsInv'
    <2>1. SchedulerTypeOK' /\ \A v \in Workers : InHand(v)' = InHand(v)
      BY <1>2, <1>5 DEF LosePoll, SchedulerTypeOK, In, InHand
    <2>2. InHand(w) = {} /\ Claim(w, lag)
      BY <1>3, <1>5 DEF LosePoll
    <2>3. ASSUME NEW v \in Workers, NEW c \in InHand(v)
          PROVE  GoodClaim(v, c)'
      BY <1>1, <1>2, <2>2, <2>3, ClaimLeavesOthers
    <2>4. QED
      BY <1>1, <2>1, <2>3 DEF HandsInv
  <1>6. ASSUME ~\E w \in Workers, lag \in Lags : Poll(w, lag) \/ LosePoll(w, lag)
        PROVE  HandsInv'
    <2>1. /\ SchedulerTypeOK' /\ \A v \in Workers : InHand(v)' \subseteq InHand(v)
          /\ \A j \in Jobs : DOMAIN attempts'[j] = DOMAIN attempts[j]
      BY <1>1, <1>2, <1>6, OtherStepsKeepHands DEF QueueInv
    <2>2. ASSUME NEW v \in Workers, NEW c \in InHand(v)'
          PROVE  GoodClaim(v, c)'
      <3>1. GoodClaim(v, c) /\ c.job \in Jobs
        BY <1>2, <2>1 DEF GoodClaim, ClaimsOf
      <3>2. attempts[c.job] \in Seq(Attempt) /\ attempts'[c.job] \in Seq(Attempt)
        BY <1>1, <3>1 DEF QueueInv, TypeOK
      <3>3. Len(attempts'[c.job]) = Len(attempts[c.job])
        BY <2>1, <3>1, <3>2, SameDomainSameLen
      <3>4. QED
        BY <1>1, <3>1, <3>3, OldClaimStaysGood
    <2>3. QED
      BY <1>1, <2>1, <2>2 DEF HandsInv
  <1>7. QED
    BY <1>4, <1>5, <1>6

THEOREM HandsInvariant == SchedulerSpec => []HandsInv
  <1>1. QED
    BY InitHands, NextHands, PTL DEF SchedulerSpec

(* The workers, with the planner, the reaper and the users, use the queue  *)
(* only through its operations, so all that is proved of the queue, its    *)
(* abstract specification included, holds of the scheduler.                *)
THEOREM QueueSteps == SchedulerSpec => Spec
  <1>1. SchedulerInit => Init
    BY DEF SchedulerInit
  <1>2. HandsInv /\ [SchedulerNext]_schedulerVars => [Next]_vars
    BY StepIsQueueStep DEF HandsInv
  <1>3. QED
    BY <1>1, <1>2, HandsInvariant, PTL DEF SchedulerSpec, Spec

(* Worker ids are enough to tell executions apart: a worker that owns the  *)
(* lease of a job it has in hand owns it for that very attempt             *)
(* (requireLeaseOwner, RunOnce).                                           *)
THEOREM LeaseOwnerIsFenced == SchedulerSpec => []OwnerHoldsItsClaim
  <1>1. HandsInv => OwnerHoldsItsClaim
    BY DEF HandsInv, GoodClaim, OwnerHoldsItsClaim
  <1>2. QED
    BY <1>1, HandsInvariant, PTL

(* Two workers never run the same attempt (Claim, RunOnce).                *)
THEOREM AttemptsAreNotShared == SchedulerSpec => []ClaimsAreRecorded
  <1>1. HandsInv => ClaimsAreRecorded
    BY DEF HandsInv, GoodClaim, ClaimsAreRecorded
  <1>2. QED
    BY <1>1, HandsInvariant, PTL

(* The typing of the workers (RunOnce, renewLoop).                         *)
THEOREM WorkerTypeCorrectness == SchedulerSpec => []SchedulerTypeOK
  <1>1. HandsInv => SchedulerTypeOK
    BY DEF HandsInv
  <1>2. QED
    BY <1>1, HandsInvariant, PTL

-----------------------------------------------------------------------------
(* Workers that renew in time.  A claim in hand is of the newest attempt,  *)
(* and unless the job was cancelled its lease is there and not over, so    *)
(* neither the reaper nor a claim touches the job.                         *)
Guarded(r) == r.status = "cancelled" \/ (r.status \in Leased /\ r.expireIn > 0)

KeptClaim(w, c) ==
  /\ Guarded(jobs[c.job])
  /\ c.no = jobs[c.job].count
  /\ jobs[c.job].status \in Leased => jobs[c.job].owner = w

KeptInv ==
  /\ HandsInv
  /\ \A w \in Workers : Len(worker[w].batch) <= 1 /\ \A c \in InHand(w) : KeptClaim(w, c)

(* The row of a job whose claim is kept, before and after a step.          *)
Keeps(r, q) ==
  /\ Guarded(q) /\ q.count = r.count
  /\ q.status \in Leased => r.status \in Leased /\ q.owner = r.owner

LEMMA FinishKeeps ==
  ASSUME NEW r \in Job
  PROVE  Keeps(r, FinishAs(r, "cancelled"))
  <1>1. /\ FinishAs(r, "cancelled").status = "cancelled"
        /\ FinishAs(r, "cancelled").count = r.count
    BY FinishRow DEF Final
  <1>2. QED
    BY <1>1 DEF Keeps, Guarded, Leased

(* The steps that leave the lease of j to its holder.                      *)
Leaves(j) ==
  \/ UNCHANGED vars
  \/ \E k \in Jobs, d \in Int : Insert(k, d)
  \/ \E w \in Workers, lag \in Lags : Claim(w, lag)
  \/ \E k \in Jobs, w \in Workers, lag \in Lags :
       MarkRunning(k, w, lag) \/ Heartbeat(k, w, lag)
  \/ \E k \in Jobs \ {j}, w \in Workers, lag \in Lags,
        result \in ReportedResults, retryable \in BOOLEAN, delay \in RetryDelays :
       Complete(k, w, lag, result, retryable, delay)
  \/ \E k \in Jobs : Cancel(k)
  \/ \E lag \in Lags : Reap(lag)

LEMMA OthersKeepLeases ==
  ASSUME MaxLag < LeaseTTL, QueueInv, NEW j \in Jobs, Guarded(jobs[j]),
         Leaves(j)
  PROVE  Keeps(jobs[j], jobs'[j])
  <1> DEFINE r == jobs[j]
             q == jobs'[j]
  <1>0. /\ jobs = [k \in Jobs |-> jobs[k]] /\ r \in Job
        /\ MaxLag \in Nat /\ LeaseTTL \in Nat /\ \A lag \in Lags : lag \in 0 .. MaxLag
    BY JobQueueAssumption DEF QueueInv, TypeOK, JobQueueAssumption, Lags
  <1>1. r.status \notin Claimable /\ r.status # "absent" /\ (r.status = "claimed" => r.status \in Leased)
    BY DEF Guarded, Claimable, Leased
  <1>2. Keeps(r, r)
    BY DEF Keeps
  <1>3. ASSUME UNCHANGED vars
        PROVE  q = r
    BY <1>3 DEF vars
  <1>4. ASSUME NEW k \in Jobs, NEW d \in Int, Insert(k, d)
        PROVE  q = r
    <2>1. k # j
      BY <1>1, <1>4 DEF Insert
    <2>2. QED
      BY <1>0, <1>4, <2>1 DEF Insert
  <1>5. ASSUME NEW w \in Workers, NEW lag \in Lags, Claim(w, lag)
        PROVE  q = r
    <2>1. PICK batch \in SUBSET Jobs : ClaimBatch(w, lag, batch)
      BY <1>5 DEF Claim
    <2>2. j \notin batch
      BY <1>1, <2>1 DEF ClaimBatch, Ready
    <2>3. QED
      BY <2>1, <2>2 DEF ClaimBatch
  <1>6. ASSUME NEW k \in Jobs, NEW w \in Workers, NEW lag \in Lags, MarkRunning(k, w, lag)
        PROVE  Keeps(r, q)
    <2>1. CASE k # j
      BY <1>0, <1>2, <1>6, <2>1 DEF MarkRunning
    <2>2. CASE k = j
      <3>1. q = [r EXCEPT !.status = "running"] /\ r.status = "claimed"
        BY <1>0, <1>6, <2>2 DEF MarkRunning, MayStart
      <3>2. /\ q.status = "running" /\ q.owner = r.owner /\ q.count = r.count
            /\ q.expireIn = r.expireIn
        BY <1>0, <3>1 DEF Job
      <3>3. QED
        BY <3>1, <3>2 DEF Keeps, Guarded, Leased
    <2>3. QED
      BY <2>1, <2>2
  <1>7. ASSUME NEW k \in Jobs, NEW w \in Workers, NEW lag \in Lags, Heartbeat(k, w, lag)
        PROVE  Keeps(r, q)
    <2>1. CASE k # j
      BY <1>0, <1>2, <1>7, <2>1 DEF Heartbeat
    <2>2. CASE k = j
      <3>1. q = Renew(r, lag) /\ r.status \in Leased
        BY <1>0, <1>7, <2>2 DEF Heartbeat, MayReport
      <3>2. /\ q.status = r.status /\ q.owner = r.owner /\ q.count = r.count
            /\ q.expireIn = LeaseTTL - lag
        BY <1>0, <3>1 DEF Job, Renew
      <3>3. LeaseTTL - lag > 0
        BY <1>0
      <3>4. QED
        BY <3>1, <3>2, <3>3 DEF Keeps, Guarded
    <2>3. QED
      BY <2>1, <2>2
  <1>8. ASSUME NEW k \in Jobs \ {j}, NEW w \in Workers, NEW lag \in Lags,
               NEW result \in ReportedResults, NEW retryable \in BOOLEAN,
               NEW delay \in RetryDelays, Complete(k, w, lag, result, retryable, delay)
        PROVE  q = r
    BY <1>0, <1>8 DEF Complete
  <1>9. ASSUME NEW k \in Jobs, Cancel(k)
        PROVE  Keeps(r, q)
    <2>1. q = r \/ q = FinishAs(r, "cancelled")
      BY <1>0, <1>9 DEF Cancel
    <2>2. QED
      BY <1>0, <1>2, <2>1, FinishKeeps
  <1>10. ASSUME NEW lag \in Lags, Reap(lag)
         PROVE  q = r
    <2>1. j \notin Expired(lag)
      <3>1. ~ (r.expireIn <= -lag) \/ r.status \notin Leased
        BY <1>0, RowFields DEF Guarded, Leased
      <3>2. QED
        BY <3>1 DEF Expired, LeaseExpired
    <2>2. QED
      BY <1>10, <2>1 DEF Reap
  <1>11. QED
    BY <1>2, <1>3, <1>4, <1>5, <1>6, <1>7, <1>8, <1>9, <1>10 DEF Leaves

(* The worker w moves alone, and a step that is no poll leaves its claims, *)
(* drops them all, or drops the current one.                               *)
LEMMA StepOnBatches ==
  ASSUME SchedulerTypeOK, NEW w \in Workers, WorkerStep(w)
  PROVE  /\ \A v \in Workers \ {w} : worker'[v] = worker[v]
         /\ \/ worker'[w].batch = worker[w].batch
            \/ worker'[w].batch = << >>
            \/ worker[w].batch # << >> /\ Advance(w)
            \/ In(w, "idle") /\ \E lag \in Lags : Poll(w, lag)
  <1> DEFINE Goal == /\ \A v \in Workers \ {w} : worker'[v] = worker[v]
                     /\ \/ worker'[w].batch = worker[w].batch
                        \/ worker'[w].batch = << >>
                        \/ worker[w].batch # << >> /\ Advance(w)
                        \/ In(w, "idle") /\ \E lag \in Lags : Poll(w, lag)
  <1>0. /\ worker = [v \in Workers |-> worker[v]] /\ Fits(worker[w])
        /\ In(w, "next") \/ In(w, "executing") \/ In(w, "returned") => worker[w].batch # << >>
    BY TypeIsPerWorker DEF Fits, In
  <1>1. ASSUME NEW lag \in Lags, Poll(w, lag)
        PROVE  Goal
    BY <1>0, <1>1 DEF Poll
  <1>2. ASSUME In(w, "next") \/ In(w, "executing") \/ In(w, "returned"), Advance(w)
        PROVE  Goal
    BY <1>0, <1>2 DEF Advance
  <1>3. ASSUME NEW p \in Phases, NEW b \in BOOLEAN,
               worker' = [worker EXCEPT ![w] = [[worker[w] EXCEPT !.phase = p] EXCEPT !.renewLost = b]]
        PROVE  Goal
    BY <1>0, <1>3 DEF Fits, WorkerType
  <1>4. ASSUME UNCHANGED worker
        PROVE  Goal
    BY <1>0, <1>4
  <1>5. ASSUME NEW lag \in Lags, Start(w, lag)
        PROVE  Goal
    <2>1. worker' = [worker EXCEPT ![w] =
            [[worker[w] EXCEPT !.phase = "executing"] EXCEPT !.renewLost = worker[w].renewLost]]
      BY <1>0, <1>5 DEF Start, Fits, WorkerType
    <2>2. worker[w].renewLost \in BOOLEAN /\ "executing" \in Phases
      BY <1>0 DEF Fits, WorkerType, Phases
    <2>3. QED
      BY <1>3, <2>1, <2>2
  <1>6. ASSUME NEW lag \in Lags, FailToRenew(w, lag)
        PROVE  Goal
    <2>1. worker' = [worker EXCEPT ![w] =
            [[worker[w] EXCEPT !.phase = worker[w].phase] EXCEPT !.renewLost = TRUE]]
      BY <1>0, <1>6 DEF FailToRenew, Fits, WorkerType
    <2>2. worker[w].phase \in Phases
      BY <1>0 DEF Fits, WorkerType
    <2>3. QED
      BY <1>3, <2>1, <2>2
  <1>7. ASSUME Return(w)
        PROVE  Goal
    <2>1. worker' = [worker EXCEPT ![w] =
            [[worker[w] EXCEPT !.phase = "returned"] EXCEPT !.renewLost = worker[w].renewLost]]
      BY <1>0, <1>7 DEF Return, Fits, WorkerType
    <2>2. worker[w].renewLost \in BOOLEAN /\ "returned" \in Phases
      BY <1>0 DEF Fits, WorkerType, Phases
    <2>3. QED
      BY <1>3, <2>1, <2>2
  <1>8. ASSUME NEW lag \in Lags, ReturnDuringRenewal(w, lag)
        PROVE  Goal
    <2>1. worker' = [worker EXCEPT ![w] =
            [[worker[w] EXCEPT !.phase = "returned"] EXCEPT !.renewLost = TRUE]]
      BY <1>0, <1>8 DEF ReturnDuringRenewal, Fits, WorkerType
    <2>2. QED
      BY <1>3, <2>1 DEF Phases
  <1>9. ASSUME Crash(w) \/ Restart(w)
        PROVE  Goal
    <2>1. worker'[w].batch = << >> /\ \A v \in Workers \ {w} : worker'[v] = worker[v]
      BY <1>0, <1>9 DEF Crash, Restart, NotRunning
    <2>2. QED
      BY <2>1
  <1>10. ASSUME NEW lag \in Lags, FailToStart(w, lag) \/ Drop(w, lag)
         PROVE  Goal
    BY <1>2, <1>10 DEF FailToStart, Drop
  <1>11. ASSUME NEW lag \in Lags, NEW result \in ReportedResults, NEW retryable \in BOOLEAN,
                NEW delay \in RetryDelays, Report(w, lag, result, retryable, delay)
         PROVE  Goal
    BY <1>2, <1>11 DEF Report
  <1>12. ASSUME NEW lag \in Lags, RenewLease(w, lag) \/ LosePoll(w, lag)
         PROVE  Goal
    BY <1>4, <1>12 DEF RenewLease, LosePoll
  <1> HIDE DEF Goal
  <1>13. Goal
    BY <1>1, <1>5, <1>6, <1>7, <1>8, <1>9, <1>10, <1>11, <1>12 DEF WorkerStep
  <1>14. QED
    BY <1>13 DEF Goal

(* Only a report of j, and the clock, may take the lease of j from its     *)
(* holder.                                                                 *)
LEMMA StepLeaves ==
  ASSUME SchedulerTypeOK, [SchedulerNext]_schedulerVars, ~Pass, NEW j \in Jobs,
         ~\E w \in Workers, lag \in Lags, result \in ReportedResults, retryable \in BOOLEAN,
             delay \in RetryDelays :
            Current(w).job = j /\ Report(w, lag, result, retryable, delay)
  PROVE  Leaves(j)
  <1>1. ASSUME NEW w \in Workers, In(w, "next") \/ In(w, "executing") \/ In(w, "returned")
        PROVE  Current(w).job \in Jobs
    <2>1. worker[w].batch \in Seq(ClaimsOf) /\ worker[w].batch # << >>
      BY <1>1 DEF SchedulerTypeOK, In
    <2>2. worker[w].batch[1] \in ClaimsOf
      BY <2>1
    <2>3. QED
      BY <2>2 DEF Current, ClaimsOf
  <1>2. ASSUME NEW w \in Workers, NEW lag \in Lags, Poll(w, lag) \/ LosePoll(w, lag)
        PROVE  Leaves(j)
    <2>1. Claim(w, lag)
      BY <1>2 DEF Poll, LosePoll, Claim
    <2>2. QED
      BY <2>1 DEF Leaves
  <1>3. ASSUME NEW w \in Workers, NEW lag \in Lags, Start(w, lag) \/ FailToStart(w, lag)
        PROVE  Leaves(j)
    <2>1. In(w, "next") /\ (UNCHANGED vars \/ MarkRunning(Current(w).job, w, lag))
      BY <1>3 DEF Start, FailToStart
    <2>2. QED
      BY <1>1, <2>1 DEF Leaves
  <1>4. ASSUME NEW w \in Workers, NEW lag \in Lags,
               RenewLease(w, lag) \/ FailToRenew(w, lag) \/ ReturnDuringRenewal(w, lag)
        PROVE  Leaves(j)
    <2>1. In(w, "executing") /\ (UNCHANGED vars \/ Heartbeat(Current(w).job, w, lag))
      BY <1>4 DEF RenewLease, FailToRenew, ReturnDuringRenewal
    <2>2. QED
      BY <1>1, <2>1 DEF Leaves
  <1>5. ASSUME NEW w \in Workers, NEW lag \in Lags, NEW result \in ReportedResults,
               NEW retryable \in BOOLEAN, NEW delay \in RetryDelays,
               Report(w, lag, result, retryable, delay)
        PROVE  Leaves(j)
    <2>1. In(w, "returned") /\ Complete(Current(w).job, w, lag, result, retryable, delay)
      BY <1>5 DEF Report
    <2>2. Current(w).job \in Jobs \ {j}
      BY <1>1, <1>5, <2>1
    <2>3. QED
      BY <2>1, <2>2 DEF Leaves
  <1>6. ASSUME \/ \E w \in Workers : Return(w) \/ Crash(w) \/ Restart(w) \/ \E lag \in Lags : Drop(w, lag)
               \/ UNCHANGED schedulerVars
        PROVE  Leaves(j)
    <2>1. UNCHANGED vars
      BY <1>6 DEF Return, Crash, Restart, Drop, schedulerVars, vars
    <2>2. QED
      BY <2>1 DEF Leaves
  <1>7. ASSUME \/ \E k \in Jobs : Withdraw(k) \/ (\E d \in StartDelays : Submit(k, d))
                                  \/ \E age \in Lags : Plan(k, age)
               \/ \E lag \in Lags : Recover(lag)
        PROVE  Leaves(j)
    <2>1. StartDelays \subseteq Int /\ \A age \in Lags : -age \in Int
      BY JobQueueAssumption DEF JobQueueAssumption, Lags
    <2>2. \/ \E k \in Jobs : Cancel(k) \/ \E d \in Int : Insert(k, d)
          \/ \E lag \in Lags : Reap(lag)
      BY <1>7, <2>1 DEF Withdraw, Submit, Schedule, Plan, EnsurePlanned, Recover
    <2>3. QED
      BY <2>2 DEF Leaves
  <1>8. ASSUME NEW w \in Workers, WorkerStep(w)
        PROVE  Leaves(j)
    BY <1>2, <1>3, <1>4, <1>5, <1>6, <1>8 DEF WorkerStep
  <1>9. QED
    BY <1>6, <1>7, <1>8 DEF SchedulerNext

(* A worker with one claim has none when it goes on.                       *)
LEMMA AdvanceEmpties ==
  ASSUME SchedulerTypeOK, NEW w \in Workers, worker[w].batch # << >>,
         Len(worker[w].batch) <= 1, Advance(w)
  PROVE  worker'[w].batch = << >>
  <1>1. worker = [v \in Workers |-> worker[v]] /\ worker[w].batch \in Seq(ClaimsOf)
    BY DEF SchedulerTypeOK
  <1>2. Len(worker[w].batch) = 1
    <2> DEFINE n == Len(worker[w].batch)
    <2>1. n \in Nat \ {0} /\ n <= 1
      BY <1>1, EmptySeq
    <2> HIDE DEF n
    <2>2. n = 1
      BY <2>1
    <2>3. QED
      BY <2>2 DEF n
  <1>3. worker'[w] = NotRunning
    BY <1>1, <1>2 DEF Advance
  <1>4. QED
    BY <1>3 DEF NotRunning

(* The claims of a batch of one are kept when they are made.               *)
LEMMA PollKeeps ==
  ASSUME MaxJobs = 1, MaxLag < LeaseTTL, HandsInv,
         NEW w \in Workers, NEW lag \in Lags, Poll(w, lag)
  PROVE  Len(worker'[w].batch) <= 1 /\ \A c \in InHand(w)' : KeptClaim(w, c)'
  <1>1. PICK batch \in SUBSET Jobs : \E order \in SetToSeqs(batch) :
          /\ ClaimBatch(w, lag, batch)
          /\ worker' = [worker EXCEPT ![w] =
               [phase |-> "next", batch |-> ClaimsIn(order), renewLost |-> FALSE]]
    BY DEF Poll
  <1>2. PICK order \in SetToSeqs(batch) :
          /\ ClaimBatch(w, lag, batch)
          /\ worker' = [worker EXCEPT ![w] =
               [phase |-> "next", batch |-> ClaimsIn(order), renewLost |-> FALSE]]
    BY <1>1
  <1> DEFINE n == Cardinality(batch)
             b == ClaimsIn(order)
  <1>3. n \in Nat /\ n <= 1 /\ order \in [1 .. n -> batch]
    <2>1. IsFiniteSet(batch) /\ order \in [1 .. n -> batch]
      BY SchedulerAssumption, FS_Subset DEF SchedulerAssumption, SetToSeqs
    <2>2. PICK locked \in Locked(Ready(lag)) :
            LET free == {j \in Ready(lag) \ locked : ~LeaseActive(jobs[j], lag)}
            IN  batch \subseteq free /\ IsFirst(MaxJobs, batch, free, Precedes)
      BY <1>2 DEF ClaimBatch
    <2> DEFINE free == {j \in Ready(lag) \ locked : ~LeaseActive(jobs[j], lag)}
    <2>3. IsFiniteSet(free)
      <3>1. free \subseteq Jobs
        BY DEF Ready
      <3>2. QED
        BY <3>1, SchedulerAssumption, FS_Subset DEF SchedulerAssumption
    <2>4. n = IF Cardinality(free) < 1 THEN Cardinality(free) ELSE 1
      BY <2>2 DEF IsFirst
    <2> HIDE DEF free, n
    <2>5. QED
      BY <2>1, <2>3, <2>4, FS_CardinalityType
  <1>4. /\ worker'[w].batch = b /\ b = [i \in 1 .. n |-> b[i]] /\ Len(b) = n
        /\ \A i \in 1 .. n : order[i] \in batch /\ b[i] = [job |-> order[i], no |-> jobs[order[i]].count + 1]
    <2>1. worker = [v \in Workers |-> worker[v]]
      BY DEF HandsInv, SchedulerTypeOK
    <2>2. worker'[w].batch = b
      BY <1>2, <2>1
    <2>3. b = [i \in 1 .. n |-> [job |-> order[i], no |-> jobs[order[i]].count + 1]]
      BY <1>3 DEF ClaimsIn
    <2> HIDE DEF b, n
    <2>4. QED
      BY <1>3, <2>2, <2>3
  <1> HIDE DEF b, n
  <1>5. ASSUME NEW c \in InHand(w)'
        PROVE  KeptClaim(w, c)'
    <2>1. PICK i \in 1 .. n : c = b[i]
      BY <1>4 DEF InHand
    <2>2. c.job = order[i] /\ order[i] \in batch /\ c.no = jobs[order[i]].count + 1
      BY <1>4, <2>1
    <2> DEFINE r == jobs[c.job]
               q == jobs'[c.job]
    <2>3. c.job \in batch /\ c.no = r.count + 1 /\ r \in Job
      BY <2>2 DEF HandsInv, QueueInv, TypeOK
    <2>4. q = ClaimFor(r, w, lag)
      BY <1>2, <2>3 DEF ClaimBatch
    <2>5. /\ MaxLag \in Nat /\ LeaseTTL \in Nat /\ lag \in 0 .. MaxLag
      BY JobQueueAssumption DEF JobQueueAssumption, Lags
    <2>6. q.status = "claimed" /\ q.owner = w /\ q.count = r.count + 1
      BY <2>3, <2>4, <2>5, ClaimRow
    <2>7. q.expireIn = LeaseTTL - lag
      BY <2>3, <2>4 DEF ClaimFor, Job
    <2> HIDE DEF r, q
    <2>8. Guarded(q)
      BY <2>5, <2>6, <2>7 DEF Guarded, Leased
    <2>9. QED
      BY <2>3, <2>6, <2>8 DEF KeptClaim, q, r
  <1>6. QED
    BY <1>3, <1>4, <1>5

(* The clock: leases are renewed before their last tick.                   *)
LEMMA PassKeeps ==
  ASSUME Timely, KeptInv, Pass, NEW w \in Workers, NEW c \in InHand(w)
  PROVE  KeptClaim(w, c)'
  <1> DEFINE r == jobs[c.job]
             q == jobs'[c.job]
  <1>1. c = Current(w) /\ worker[w].batch # << >>
    <2>1. worker[w].batch \in Seq(ClaimsOf) /\ Len(worker[w].batch) <= 1
      BY DEF KeptInv, HandsInv, SchedulerTypeOK
    <2>2. PICK i \in 1 .. Len(worker[w].batch) : c = worker[w].batch[i]
      BY DEF InHand
    <2>3. Len(worker[w].batch) \in Nat /\ i = 1
      BY <2>1
    <2>4. worker[w].batch # << >>
      BY <2>1, <2>2, <2>3, EmptySeq
    <2>5. QED
      BY <2>2, <2>3, <2>4 DEF Current
  <1>2. KeptClaim(w, c) /\ c.job \in Jobs /\ r \in Job /\ MaxLag \in Nat /\ NoWorker \notin Workers
    BY JobQueueAssumption
    DEF KeptInv, HandsInv, GoodClaim, ClaimsOf, QueueInv, TypeOK, JobQueueAssumption
  <1>3. q = Later(r)
    BY <1>2 DEF Pass, Tick
  <1>4. q.status = r.status /\ q.owner = r.owner /\ q.count = r.count
    BY <1>2, <1>3, LaterRow
  <1>5. ASSUME r.status \in Leased
        PROVE  q.expireIn > 0
    <2>1. r.owner = w /\ r.count = c.no
      BY <1>2, <1>5 DEF KeptClaim
    <2>2. r.expireIn > 1
      BY <1>1, <2>1 DEF Pass, Holds
    <2>3. q.expireIn = AtLeast(-MaxLag, r.expireIn - 1)
      BY <1>2, <1>3, <2>1 DEF Later, Job
    <2>4. r.expireIn \in Int
      BY <1>2, RowFields
    <2>5. QED
      BY <1>2, <2>2, <2>3, <2>4 DEF AtLeast
  <1>6. QED
    BY <1>2, <1>4, <1>5 DEF KeptClaim, Guarded

LEMMA KeptNext ==
  ASSUME Timely, MaxJobs = 1, MaxLag < LeaseTTL, KeptInv, [SchedulerNext]_schedulerVars
  PROVE  KeptInv'
  <1>0. HandsInv' /\ HandsInv /\ SchedulerTypeOK /\ QueueInv
    BY NextHands DEF KeptInv, HandsInv
  <1>1. ASSUME NEW v \in Workers
        PROVE  Len(worker'[v].batch) <= 1 /\ \A c \in InHand(v)' : KeptClaim(v, c)'
    <2>1. \/ worker'[v].batch = worker[v].batch
          \/ worker'[v].batch = << >>
          \/ \E lag \in Lags : Poll(v, lag)
      <3>1. ASSUME NEW w \in Workers, WorkerStep(w)
            PROVE  \/ worker'[v].batch = worker[v].batch
                   \/ worker'[v].batch = << >>
                   \/ \E lag \in Lags : Poll(v, lag)
        <4>1. Len(worker[w].batch) <= 1
          BY DEF KeptInv
        <4>2. QED
          BY <1>0, <3>1, <4>1, StepOnBatches, AdvanceEmpties
      <3>2. ASSUME UNCHANGED worker
            PROVE  worker'[v].batch = worker[v].batch
        BY <3>2
      <3>3. QED
        BY <3>1, <3>2 DEF SchedulerNext, schedulerVars, Submit, Plan, Withdraw, Recover, Pass
    <2>2. CASE worker'[v].batch = worker[v].batch
      <3>1. Len(worker'[v].batch) <= 1 /\ InHand(v)' = InHand(v)
        BY <2>2 DEF KeptInv, InHand
      <3>2. ASSUME NEW c \in InHand(v)
            PROVE  KeptClaim(v, c)'
        <4>1. KeptClaim(v, c) /\ c.job \in Jobs /\ Guarded(jobs[c.job])
          BY <3>2 DEF KeptInv, HandsInv, GoodClaim, ClaimsOf, KeptClaim
        <4>2. CASE Pass
          BY <3>2, <4>2, PassKeeps
        <4>3. ASSUME NEW w \in Workers, NEW lag \in Lags, NEW result \in ReportedResults,
                     NEW retryable \in BOOLEAN, NEW delay \in RetryDelays,
                     Current(w).job = c.job, Report(w, lag, result, retryable, delay)
              PROVE  FALSE
          <5>1. jobs[c.job].status \in Leased /\ jobs[c.job].owner = w
            BY <4>3 DEF Report, Complete, MayReport, RequireLeaseOwner
          <5>2. w = v
            BY <4>1, <5>1 DEF KeptClaim
          <5>3. worker[v].batch # << >> /\ Len(worker[v].batch) <= 1
            BY <1>0, <4>3, <5>2 DEF Report, SchedulerTypeOK, In, KeptInv
          <5>4. worker'[v].batch = << >>
            BY <1>0, <4>3, <5>2, <5>3, AdvanceEmpties DEF Report
          <5>5. QED
            BY <2>2, <5>3, <5>4
        <4>4. CASE ~Pass
          <5>1. Leaves(c.job)
            BY <1>0, <4>1, <4>3, <4>4, StepLeaves
          <5>2. Keeps(jobs[c.job], jobs'[c.job])
            BY <1>0, <4>1, <5>1, OthersKeepLeases
          <5>3. QED
            BY <4>1, <5>2 DEF Keeps, KeptClaim
        <4>5. QED
          BY <4>2, <4>4
      <3>3. QED
        BY <3>1, <3>2
    <2>3. CASE worker'[v].batch = << >>
      BY <2>3 DEF InHand
    <2>4. ASSUME NEW lag \in Lags, Poll(v, lag)
          PROVE  Len(worker'[v].batch) <= 1 /\ \A c \in InHand(v)' : KeptClaim(v, c)'
      BY <1>0, <2>4, PollKeeps
    <2>5. QED
      BY <2>1, <2>2, <2>3, <2>4
  <1>2. QED
    BY <1>0, <1>1 DEF KeptInv

LEMMA KeptInit == SchedulerInit => KeptInv
  <1> SUFFICES ASSUME SchedulerInit PROVE KeptInv
    OBVIOUS
  <1>1. \A w \in Workers : worker[w].batch = << >> /\ InHand(w) = {}
    BY DEF SchedulerInit, NotRunning, InHand
  <1>2. QED
    BY <1>1, InitHands DEF KeptInv

(* Workers that take one job at a time and renew its lease in time keep    *)
(* the lease until they report the job or it is cancelled (renewLoop,      *)
(* ReapExpired): over either store, whatever crashes and whichever other   *)
(* calls fail.  The lease must be longer than a call may be late.          *)
THEOREM HealthyWorkIsNotReaped ==
  ASSUME Timely, MaxJobs = 1, MaxLag < LeaseTTL
  PROVE  SchedulerSpec => []HealthyWorkKeepsItsLease
  <1>1. KeptInv /\ [SchedulerNext]_schedulerVars => KeptInv'
    BY KeptNext
  <1>2. KeptInv => HealthyWorkKeepsItsLease
    BY DEF KeptInv, KeptClaim, Guarded, HealthyWorkKeepsItsLease, Holds
  <1>3. QED
    BY <1>1, <1>2, KeptInit, PTL DEF SchedulerSpec

(* Such workers never execute a job at the same time (Claim, RunOnce): not *)
(* even when one goes on with a job that was cancelled under it.           *)
THEOREM TimelyWorkersExcludeEachOther ==
  ASSUME Timely, MaxJobs = 1, MaxLag < LeaseTTL
  PROVE  SchedulerSpec => []OneExecutorPerJob
  <1>1. KeptInv /\ [SchedulerNext]_schedulerVars => KeptInv'
    BY KeptNext
  <1>2. KeptInv => OneExecutorPerJob
    <2> SUFFICES ASSUME KeptInv, NEW v \in Workers, NEW w \in Workers,
                        In(v, "executing"), In(w, "executing"), Current(v).job = Current(w).job
                 PROVE  v = w
      BY DEF OneExecutorPerJob
    <2>1. ASSUME NEW x \in Workers, In(x, "executing")
          PROVE  Current(x) \in InHand(x) /\ GoodClaim(x, Current(x)) /\ KeptClaim(x, Current(x))
      <3>1. worker[x].batch \in Seq(ClaimsOf) /\ worker[x].batch # << >>
        BY <2>1 DEF KeptInv, HandsInv, SchedulerTypeOK, In
      <3>2. 1 \in 1 .. Len(worker[x].batch)
        BY <3>1, EmptySeq
      <3>3. Current(x) \in InHand(x)
        BY <3>2 DEF InHand, Current
      <3>4. QED
        BY <3>3 DEF KeptInv, HandsInv
    <2>2. /\ GoodClaim(v, Current(v)) /\ KeptClaim(v, Current(v))
          /\ GoodClaim(w, Current(w)) /\ KeptClaim(w, Current(w))
      BY <2>1
    <2>3. Current(v).no = Current(w).no
      BY <2>2 DEF KeptClaim
    <2>4. QED
      BY <2>2, <2>3 DEF GoodClaim
  <1>3. QED
    BY <1>1, <1>2, KeptInit, PTL DEF SchedulerSpec

-----------------------------------------------------------------------------
(* Workers that neither crash nor lose an answer.  A worker knows at least *)
(* as much as the store: its claims are of different jobs, a claim it has  *)
(* not started is still claimed while it holds the lease, once a renewal   *)
(* was lost the lease is over, and every live lease it has is in hand.     *)
FreshClaim(w, i, c) ==
  Holds(w, c) =>
    /\ i # 1 \/ In(w, "next") => jobs[c.job].status = "claimed"
    /\ i = 1 /\ worker[w].renewLost => ~ (jobs[c.job].expireIn > 0)

Distinct(b) == \A i, k \in 1 .. Len(b) : b[i].job = b[k].job => i = k

Lively(w) ==
  /\ Distinct(worker[w].batch)
  /\ \A i \in 1 .. Len(worker[w].batch) : FreshClaim(w, i, worker[w].batch[i])
  /\ \A j \in Jobs : jobs[j].owner = w /\ jobs[j].expireIn > 0 =>
       [job |-> j, no |-> jobs[j].count] \in InHand(w)

LiveInv == HandsInv /\ \A w \in Workers : Lively(w)

(* The steps that neither grant a lease nor start nor renew one, and what  *)
(* they do to a row: a lease that is left is the one there was.            *)
Fading ==
  \/ UNCHANGED vars
  \/ \E k \in Jobs, d \in Int : Insert(k, d)
  \/ \E k \in Jobs, w \in Workers, lag \in Lags,
        result \in ReportedResults, retryable \in BOOLEAN, delay \in RetryDelays :
       Complete(k, w, lag, result, retryable, delay)
  \/ \E k \in Jobs : Cancel(k)
  \/ \E lag \in Lags : Reap(lag)
  \/ Tick

Fades(r, q) ==
  q.status \in Leased =>
    /\ q.status = r.status /\ q.owner = r.owner /\ q.count = r.count
    /\ q.expireIn > 0 => r.expireIn > 0

LEMMA EndedFades ==
  ASSUME NEW j, NEW r \in Job, NEW q, NEW o \in Final, NEW d, NEW lag,
         q = FinishAs(r, o) \/ q = RetryIfPossible(j, FinishAs(r, o), d, lag)
  PROVE  q.status \notin Leased
  <1>1. FinishAs(r, o).status = o /\ FinishAs(r, o) \in Job /\ o \notin Leased
    BY FinishRow DEF Final, Leased
  <1>2. ScheduleRetry(FinishAs(r, o), d, lag).status = "retry"
    BY <1>1 DEF ScheduleRetry, ClearLease, Job
  <1>3. QED
    BY <1>1, <1>2 DEF RetryIfPossible, Leased

LEMMA FadingFades ==
  ASSUME QueueInv, Fading, NEW j \in Jobs
  PROVE  Fades(jobs[j], jobs'[j])
  <1> DEFINE r == jobs[j]
             q == jobs'[j]
  <1>0. /\ jobs = [k \in Jobs |-> jobs[k]] /\ r \in Job /\ MaxLag \in Nat
        /\ r.owner \in Workers \cup {NoWorker} /\ r.expireIn \in Int
    BY JobQueueAssumption, RowFields DEF QueueInv, TypeOK, JobQueueAssumption
  <1>1. Fades(r, r)
    BY DEF Fades
  <1>2. ASSUME NEW k \in Jobs, NEW d \in Int, Insert(k, d)
        PROVE  Fades(r, q)
    <2>1. CASE k # j
      BY <1>0, <1>1, <1>2, <2>1 DEF Insert
    <2>2. CASE k = j
      <3>1. q = [r EXCEPT !.status = "pending", !.runIn = AtLeast(-MaxLag, d)]
        BY <1>0, <1>2, <2>2 DEF Insert
      <3>2. q.status = "pending"
        BY <1>0, <3>1 DEF Job
      <3>3. QED
        BY <3>2 DEF Fades, Leased
    <2>3. QED
      BY <2>1, <2>2
  <1>3. ASSUME NEW k \in Jobs, NEW w \in Workers, NEW lag \in Lags,
               NEW result \in ReportedResults, NEW retryable \in BOOLEAN,
               NEW delay \in RetryDelays, Complete(k, w, lag, result, retryable, delay)
        PROVE  Fades(r, q)
    <2>1. CASE k # j
      BY <1>0, <1>1, <1>3, <2>1 DEF Complete
    <2>2. CASE k = j
      <3> DEFINE o == JobOutcome(result)
      <3>1. o \in Final
        BY DEF JobOutcome, Final
      <3>2. \E d : q = FinishAs(r, o) \/ q = RetryIfPossible(j, FinishAs(r, o), d, lag)
        BY <1>0, <1>3, <2>2 DEF Complete
      <3> HIDE DEF o
      <3>3. q.status \notin Leased
        BY <1>0, <3>1, <3>2, EndedFades
      <3>4. QED
        BY <3>3 DEF Fades
    <2>3. QED
      BY <2>1, <2>2
  <1>4. ASSUME NEW k \in Jobs, Cancel(k)
        PROVE  Fades(r, q)
    <2>1. q = r \/ q = FinishAs(r, "cancelled")
      BY <1>0, <1>4 DEF Cancel
    <2>2. FinishAs(r, "cancelled").status = "cancelled"
      BY <1>0, FinishRow DEF Final
    <2>3. QED
      BY <1>1, <2>1, <2>2 DEF Fades, Leased
  <1>5. ASSUME NEW lag \in Lags, Reap(lag)
        PROVE  Fades(r, q)
    <2>1. q = r \/ q = ReapedJob(j, lag)
      BY <1>5 DEF Reap
    <2>2. ReapedJob(j, lag).status \notin Leased
      BY <1>0, EndedFades DEF ReapedJob, Final
    <2>3. QED
      BY <1>1, <2>1, <2>2 DEF Fades
  <1>6. ASSUME Tick
        PROVE  Fades(r, q)
    <2>1. q = Later(r)
      BY <1>6 DEF Tick
    <2>2. q.status = r.status /\ q.owner = r.owner /\ q.count = r.count
      BY <1>0, <2>1, LaterRow
    <2>3. q.expireIn = IF r.owner = NoWorker THEN r.expireIn ELSE AtLeast(-MaxLag, r.expireIn - 1)
      BY <1>0, <2>1 DEF Later, Job
    <2>4. q.expireIn > 0 => r.expireIn > 0
      BY <1>0, <2>3 DEF AtLeast
    <2>5. QED
      BY <2>2, <2>4 DEF Fades
  <1>7. ASSUME UNCHANGED vars
        PROVE  q = r
    BY <1>7 DEF vars
  <1>8. QED
    BY <1>1, <1>2, <1>3, <1>4, <1>5, <1>6, <1>7 DEF Fading

(* A holder whose call is refused has lost the lease.                      *)
LEMMA RefusedIsOver ==
  ASSUME QueueInv, NEW j \in Jobs, NEW w \in Workers, NEW lag \in Lags,
         jobs[j].status \in Leased, jobs[j].owner = w,
         ~MayReport(j, w, lag) \/ (jobs[j].status = "claimed" /\ ~MayStart(j, w, lag))
  PROVE  ~ (jobs[j].expireIn > 0)
  <1>1. JobInv(j, jobs[j], attempts[j])
    BY InvIsPerJob
  <1>2. ActiveAttempt(attempts[j], w) # 0
    <2>1. ActiveAttempt(attempts[j], w) = Len(attempts[j])
      BY <1>1, ActiveAttemptIsLast
    <2>2. QED
      BY <1>1, <2>1 DEF JobInv, LeaseInv
  <1>3. ~LeaseActive(jobs[j], lag)
    BY <1>2 DEF MayReport, MayStart, RequireLeaseOwner
  <1>4. NoWorker \notin Workers /\ lag \in Nat /\ jobs[j].expireIn \in Int
    BY <1>1, JobQueueAssumption, RowFields DEF JobInv, JobQueueAssumption, Lags
  <1>5. QED
    BY <1>3, <1>4 DEF LeaseActive

LEMMA BatchInHand ==
  ASSUME HandsInv, NEW w \in Workers, NEW i \in 1 .. Len(worker[w].batch)
  PROVE  /\ worker[w].batch[i] \in InHand(w)
         /\ GoodClaim(w, worker[w].batch[i])
         /\ worker[w].batch[i].job \in Jobs
  BY DEF InHand, HandsInv, GoodClaim, ClaimsOf

LEMMA OwnedIsLeased ==
  ASSUME QueueInv, NEW j \in Jobs, NEW w \in Workers, jobs[j].owner = w
  PROVE  jobs[j].status \in Leased
  BY JobQueueAssumption DEF QueueInv, LeaseIsOneOpenAttempt, JobQueueAssumption

(* No lease is granted to w, started or renewed.                           *)
Spares(w) ==
  \A j \in Jobs : jobs'[j].owner = w =>
    /\ jobs[j].owner = w
    /\ jobs'[j].status = jobs[j].status /\ jobs'[j].count = jobs[j].count
    /\ jobs'[j].expireIn > 0 => jobs[j].expireIn > 0

LEMMA FadingSpares ==
  ASSUME QueueInv, QueueInv', Fading, NEW w \in Workers
  PROVE  Spares(w)
  <1> SUFFICES ASSUME NEW j \in Jobs, jobs'[j].owner = w
               PROVE  /\ jobs[j].owner = w
                      /\ jobs'[j].status = jobs[j].status /\ jobs'[j].count = jobs[j].count
                      /\ jobs'[j].expireIn > 0 => jobs[j].expireIn > 0
    BY DEF Spares
  <1>1. jobs'[j].status \in Leased
    BY JobQueueAssumption DEF QueueInv, LeaseIsOneOpenAttempt, JobQueueAssumption
  <1>2. QED
    BY <1>1, FadingFades DEF Fades

(* A worker that keeps its claims stays lively while its leases fade.      *)
LEMMA LivelyStays ==
  ASSUME HandsInv, NEW w \in Workers, Lively(w), Spares(w),
         worker'[w].batch = worker[w].batch,
         In(w, "next")' => In(w, "next"),
         worker'[w].renewLost =>
           \/ worker[w].renewLost
           \/ Holds(w, Current(w)) => ~ (jobs[Current(w).job].expireIn > 0)
  PROVE  Lively(w)'
  <1>1. ASSUME NEW i \in 1 .. Len(worker[w].batch)
        PROVE  FreshClaim(w, i, worker[w].batch[i])'
    <2>0. PICK c : c = worker[w].batch[i]
      OBVIOUS
    <2>1. c.job \in Jobs /\ FreshClaim(w, i, c)
      BY <2>0, BatchInHand DEF Lively
    <2>2. i = 1 => c = Current(w)
      BY <2>0 DEF Current
    <2>3. FreshClaim(w, i, c)'
      BY <2>1, <2>2 DEF FreshClaim, Holds, Spares
    <2>4. worker'[w].batch[i] = c
      BY <2>0
    <2>5. QED
      BY <2>3, <2>4 DEF FreshClaim, Holds
  <1>2. InHand(w)' = InHand(w)
    BY DEF InHand
  <1>3. QED
    BY <1>1, <1>2 DEF Lively, Spares

(* A worker whose hands are empty and that owns no live lease.             *)
LEMMA EmptyIsLively ==
  ASSUME NEW w \in Workers, worker[w].batch = << >>,
         \A j \in Jobs : jobs[j].owner = w => ~ (jobs[j].expireIn > 0)
  PROVE  Lively(w)
  BY DEF Lively, Distinct, InHand

(* A worker goes on to its next claim once the lease of this one is over.  *)
LEMMA LivelyAdvances ==
  ASSUME HandsInv, NEW w \in Workers, Lively(w), Spares(w), Advance(w),
         worker[w].batch # << >>,
         NEW c, c = Current(w),
         jobs'[c.job].owner = w /\ jobs'[c.job].count = c.no => ~ (jobs'[c.job].expireIn > 0)
  PROVE  Lively(w)'
  <1>1. PICK b \in Seq(ClaimsOf) : b = worker[w].batch
    BY DEF HandsInv, SchedulerTypeOK
  <1>2. PICK n \in Nat : n = Len(b) /\ n # 0
    BY <1>1, EmptySeq
  <1>3. PICK t : t = worker'[w].batch
    OBVIOUS
  <1>4. /\ t \in Seq(ClaimsOf) /\ Len(t) = n - 1
        /\ \A i \in 1 .. n - 1 : t[i] = b[i + 1]
        /\ worker'[w].renewLost = FALSE
    <2>1. worker = [v \in Workers |-> worker[v]]
      BY DEF HandsInv, SchedulerTypeOK
    <2>2. worker'[w] = IF n = 1 THEN NotRunning
                       ELSE [phase |-> "next", batch |-> Tail(b), renewLost |-> FALSE]
      BY <1>1, <1>2, <2>1 DEF Advance
    <2>3. CASE n = 1
      BY <1>3, <2>2, <2>3 DEF NotRunning
    <2>4. CASE n # 1
      <3>1. t = Tail(b) /\ worker'[w].renewLost = FALSE
        BY <1>3, <2>2, <2>4
      <3>2. QED
        BY <1>1, <1>2, <3>1
    <2>5. QED
      BY <2>3, <2>4
  <1>5. /\ \A i \in 1 .. n : b[i].job \in Jobs /\ FreshClaim(w, i, b[i])
        /\ Distinct(b) /\ c = b[1]
    BY <1>1, <1>2, BatchInHand DEF Lively, Current
  <1>6. Distinct(t)
    BY <1>2, <1>4, <1>5 DEF Distinct
  <1>7. ASSUME NEW i \in 1 .. Len(t)
        PROVE  FreshClaim(w, i, t[i])'
    <2>1. PICK k \in 1 .. n : k = i + 1 /\ k # 1 /\ b[k] = t[i]
      BY <1>2, <1>4
    <2>2. PICK d : d = t[i] /\ d.job \in Jobs /\ FreshClaim(w, k, d)
      BY <1>5, <2>1
    <2>3. jobs'[d.job].owner = w /\ jobs'[d.job].count = d.no => jobs'[d.job].status = "claimed"
      BY <2>1, <2>2 DEF Spares, FreshClaim, Holds
    <2>4. QED
      BY <1>3, <1>4, <2>2, <2>3 DEF FreshClaim, Holds
  <1>8. ASSUME NEW j \in Jobs, jobs'[j].owner = w, jobs'[j].expireIn > 0
        PROVE  [job |-> j, no |-> jobs'[j].count] \in InHand(w)'
    <2>1. jobs[j].owner = w /\ jobs[j].expireIn > 0 /\ jobs'[j].count = jobs[j].count
      BY <1>8 DEF Spares
    <2>2. PICK k \in 1 .. n : b[k] = [job |-> j, no |-> jobs'[j].count]
      BY <1>1, <1>2, <2>1 DEF Lively, InHand
    <2>3. k # 1
      BY <1>5, <1>8, <2>2
    <2>4. k - 1 \in 1 .. n - 1 /\ t[k - 1] = b[k]
      BY <1>2, <1>4, <2>3
    <2>5. QED
      BY <1>3, <1>4, <2>2, <2>4 DEF InHand
  <1>9. QED
    BY <1>3, <1>6, <1>7, <1>8 DEF Lively

(* A poll: the leases w is granted are the claims it takes in hand.        *)
LEMMA LivelyPolls ==
  ASSUME LiveInv, NEW w \in Workers, NEW lag \in Lags, Poll(w, lag)
  PROVE  Lively(w)'
  <1>1. PICK batch \in SUBSET Jobs : \E order \in SetToSeqs(batch) :
          /\ ClaimBatch(w, lag, batch)
          /\ worker' = [worker EXCEPT ![w] =
               [phase |-> "next", batch |-> ClaimsIn(order), renewLost |-> FALSE]]
    BY DEF Poll
  <1>2. PICK order \in SetToSeqs(batch) :
          /\ ClaimBatch(w, lag, batch)
          /\ worker' = [worker EXCEPT ![w] =
               [phase |-> "next", batch |-> ClaimsIn(order), renewLost |-> FALSE]]
    BY <1>1
  <1>3. PICK n \in Nat : n = Cardinality(batch) /\ order \in [1 .. n -> batch]
    <2>1. IsFiniteSet(batch)
      BY SchedulerAssumption, FS_Subset DEF SchedulerAssumption
    <2>2. QED
      BY <2>1, FS_CardinalityType DEF SetToSeqs
  <1>4. /\ \A i, k \in 1 .. n : order[i] = order[k] => i = k
        /\ \A j \in batch : \E i \in 1 .. n : order[i] = j
    <2>1. \A i, k \in 1 .. n : i # k => order[i] # order[k]
      BY <1>3 DEF SetToSeqs
    <2>2. order \in Injection(1 .. n, batch)
      BY <1>3, <2>1 DEF Injection, IsInjective
    <2>3. IsFiniteSet(batch) /\ Cardinality(1 .. n) = n
      BY SchedulerAssumption, FS_Subset, FS_Interval DEF SchedulerAssumption
    <2>4. order \in Surjection(1 .. n, batch)
      BY <1>3, <2>2, <2>3, FS_Injection
    <2>5. \A j \in batch : \E i \in 1 .. n : order[i] = j
      BY <2>4 DEF Surjection
    <2>6. QED
      BY <2>1, <2>5
  <1>5. PICK b : b = worker'[w].batch
    OBVIOUS
  <1>6. \A j \in Jobs : jobs[j] \in Job /\ jobs[j].count \in Nat
    BY DEF LiveInv, HandsInv, QueueInv, TypeOK, Job
  <1>7. b \in Seq(ClaimsOf) /\ Len(b) = n /\ worker'[w].renewLost = FALSE
        /\ \A i \in 1 .. n : b[i] = [job |-> order[i], no |-> jobs[order[i]].count + 1]
    <2>1. worker = [v \in Workers |-> worker[v]]
      BY DEF LiveInv, HandsInv, SchedulerTypeOK
    <2>2. b = ClaimsIn(order) /\ worker'[w].renewLost = FALSE
      BY <1>2, <1>5, <2>1
    <2>3. b = [i \in 1 .. n |-> [job |-> order[i], no |-> jobs[order[i]].count + 1]]
      BY <1>3, <2>2 DEF ClaimsIn
    <2>4. \A i \in 1 .. n : [job |-> order[i], no |-> jobs[order[i]].count + 1] \in ClaimsOf
      BY <1>3, <1>6 DEF ClaimsOf
    <2>5. b \in [1 .. n -> ClaimsOf]
      BY <2>3, <2>4
    <2>6. b \in Seq(ClaimsOf) /\ Len(b) = n
      BY <1>3, <2>5
    <2>7. QED
      BY <2>2, <2>3, <2>6
  <1>8. \A j \in batch : /\ jobs'[j].status = "claimed"
                         /\ jobs'[j].count = jobs[j].count + 1
    BY <1>2, <1>6, ClaimRow, JobQueueAssumption DEF ClaimBatch, JobQueueAssumption
  <1>9. Distinct(b)
    BY <1>4, <1>7 DEF Distinct
  <1>10. ASSUME NEW i \in 1 .. Len(b)
         PROVE  FreshClaim(w, i, b[i])'
    <2>1. order[i] \in batch /\ b[i].job = order[i]
      BY <1>3, <1>7
    <2>2. jobs'[b[i].job].status = "claimed"
      BY <1>8, <2>1
    <2>3. QED
      BY <1>5, <1>7, <2>2 DEF FreshClaim, Holds
  <1>11. ASSUME NEW j \in Jobs, jobs'[j].owner = w, jobs'[j].expireIn > 0
         PROVE  [job |-> j, no |-> jobs'[j].count] \in InHand(w)'
    <2>1. j \in batch
      <3>1. worker[w].batch = << >>
        BY DEF LiveInv, HandsInv, SchedulerTypeOK, Poll
      <3>2. InHand(w) = {}
        BY <3>1 DEF InHand
      <3>3. j \notin batch => jobs'[j] = jobs[j]
        BY <1>2 DEF ClaimBatch
      <3>4. QED
        BY <1>11, <3>2, <3>3 DEF LiveInv, Lively
    <2>2. PICK i \in 1 .. n : order[i] = j
      BY <1>4, <2>1
    <2>3. b[i] = [job |-> j, no |-> jobs'[j].count]
      BY <1>7, <1>8, <2>1, <2>2
    <2>4. QED
      BY <1>5, <1>7, <2>3 DEF InHand
  <1>12. QED
    BY <1>5, <1>9, <1>10, <1>11 DEF Lively

(* A worker starts its current claim or renews its lease.                  *)
LEMMA LivelyHolds ==
  ASSUME HandsInv, NEW w \in Workers, Lively(w), worker[w].batch # << >>,
         NEW j, j = Current(w).job,
         \A k \in Jobs \ {j} : jobs'[k] = jobs[k],
         jobs[j].status \in Leased, jobs[j].owner = w, jobs'[j].count = jobs[j].count,
         worker'[w].batch = worker[w].batch, ~ In(w, "next")',
         worker'[w].renewLost => worker[w].renewLost /\ jobs'[j].expireIn = jobs[j].expireIn
  PROVE  Lively(w)'
  <1>1. PICK b \in Seq(ClaimsOf) : b = worker[w].batch
    BY DEF HandsInv, SchedulerTypeOK
  <1>2. 1 \in 1 .. Len(b)
    BY <1>1, EmptySeq
  <1>3. /\ \A i \in 1 .. Len(b) : b[i].job \in Jobs /\ FreshClaim(w, i, b[i])
        /\ Distinct(b) /\ j = b[1].job /\ GoodClaim(w, b[1])
    BY <1>1, <1>2, BatchInHand DEF Lively, Current
  <1>4. ASSUME NEW i \in 1 .. Len(b)
        PROVE  FreshClaim(w, i, b[i])'
    <2>1. CASE i = 1
      <3>1. PICK c : c = b[i] /\ c.job = j /\ FreshClaim(w, i, c)
        BY <1>3, <2>1
      <3>2. ~ (i # 1 \/ In(w, "next")')
        BY <2>1
      <3>3. FreshClaim(w, i, c)'
        BY <3>1, <3>2 DEF FreshClaim, Holds
      <3>4. QED
        BY <3>1, <3>3
    <2>2. CASE i # 1
      <3>1. b[i].job \in Jobs \ {j}
        BY <1>2, <1>3, <2>2 DEF Distinct
      <3>2. QED
        BY <1>3, <2>2, <3>1 DEF FreshClaim, Holds
    <2>3. QED
      BY <2>1, <2>2
  <1>5. ASSUME NEW k \in Jobs, jobs'[k].owner = w, jobs'[k].expireIn > 0
        PROVE  [job |-> k, no |-> jobs'[k].count] \in InHand(w)'
    <2>1. InHand(w)' = InHand(w)
      BY DEF InHand
    <2>2. CASE k = j
      <3>1. b[1] = [job |-> j, no |-> jobs[j].count]
        BY <1>3 DEF GoodClaim, ClaimsOf
      <3>2. QED
        BY <1>1, <1>2, <2>1, <2>2, <3>1 DEF InHand
    <2>3. CASE k # j
      BY <1>5, <2>1, <2>3 DEF Lively
    <2>4. QED
      BY <2>2, <2>3
  <1>6. QED
    BY <1>1, <1>3, <1>4, <1>5 DEF Lively

(* The steps of a worker give no lease to another.                         *)
LEMMA GrantsSpareOthers ==
  ASSUME QueueInv, NEW w \in Workers, NEW lag \in Lags,
         NEW j, Claim(w, lag) \/ MarkRunning(j, w, lag) \/ Heartbeat(j, w, lag),
         NEW v \in Workers, v # w
  PROVE  Spares(v)
  <1> SUFFICES ASSUME NEW k \in Jobs
               PROVE  jobs'[k] = jobs[k] \/ jobs'[k].owner = w
    BY DEF Spares
  <1>1. jobs = [i \in Jobs |-> jobs[i]] /\ jobs[k] \in Job
    BY DEF QueueInv, TypeOK
  <1>2. CASE Claim(w, lag)
    BY <1>1, <1>2, ClaimRow, JobQueueAssumption DEF Claim, ClaimBatch, JobQueueAssumption
  <1>3. CASE MarkRunning(j, w, lag)
    BY <1>1, <1>3 DEF MarkRunning, MayStart, RequireLeaseOwner, Job
  <1>4. CASE Heartbeat(j, w, lag)
    BY <1>1, <1>4 DEF Heartbeat, MayReport, RequireLeaseOwner, Renew, Job
  <1>5. QED
    BY <1>2, <1>3, <1>4

LEMMA StepIsOwn ==
  ASSUME SchedulerTypeOK, NEW w \in Workers, WorkerStep(w), NEW v \in Workers, v # w
  PROVE  worker'[v] = worker[v]
  <1>1. worker = [x \in Workers |-> worker[x]]
    BY DEF SchedulerTypeOK
  <1>2. QED
    BY <1>1 DEF WorkerStep, Poll, LosePoll, Start, FailToStart, RenewLease, FailToRenew,
                ReturnDuringRenewal, Drop, Report, Return, Crash, Restart, Advance

(* A worker that owns the lease of its current claim, and a refusal.       *)
LEMMA CurrentIsFresh ==
  ASSUME LiveInv, NEW w \in Workers, ~ In(w, "idle"), ~ In(w, "down")
  PROVE  /\ worker[w].batch # << >> /\ Current(w).job \in Jobs
         /\ Current(w) \in InHand(w)
         /\ FreshClaim(w, 1, Current(w))
  <1>1. PICK b \in Seq(ClaimsOf) : b = worker[w].batch /\ b # << >>
    BY DEF LiveInv, HandsInv, SchedulerTypeOK
  <1>2. 1 \in 1 .. Len(b)
    BY <1>1, EmptySeq
  <1>3. QED
    BY <1>1, <1>2, BatchInHand DEF LiveInv, Lively, Current

(* A claim is given up once it is reported, or its lease is over.          *)
LEMMA GivenUpIsOver ==
  ASSUME LiveInv, ~ StoreFaults, NEW w \in Workers, NEW lag \in Lags, UNCHANGED vars,
         FailToStart(w, lag) \/ Drop(w, lag) \/ FailToRenew(w, lag),
         Holds(w, Current(w))
  PROVE  ~ (jobs[Current(w).job].expireIn > 0)
  <1>1. PICK j \in Jobs : j = Current(w).job
    BY CurrentIsFresh DEF FailToStart, Drop, FailToRenew, In
  <1>2. /\ jobs[j].owner = w /\ QueueInv
        /\ FreshClaim(w, 1, Current(w)) /\ jobs[j].status \in Leased
    BY <1>1, CurrentIsFresh, OwnedIsLeased
    DEF FailToStart, Drop, FailToRenew, In, Holds, LiveInv, HandsInv
  <1>3. CASE ~ MayReport(j, w, lag)
    BY <1>2, <1>1, <1>3, RefusedIsOver
  <1>4. CASE In(w, "next") /\ ~ MayStart(j, w, lag)
    BY <1>2, <1>1, <1>4, RefusedIsOver DEF FreshClaim
  <1>5. CASE worker[w].renewLost
    BY <1>1, <1>2, <1>5 DEF FreshClaim
  <1>6. QED
    BY <1>1, <1>3, <1>4, <1>5 DEF FailToStart, Drop, FailToRenew

LEMMA ReportedIsOver ==
  ASSUME LiveInv, HandsInv', NEW w \in Workers, NEW lag \in Lags,
         NEW result \in ReportedResults, NEW retryable \in BOOLEAN, NEW delay \in RetryDelays,
         Report(w, lag, result, retryable, delay)
  PROVE  jobs'[Current(w).job].owner # w
  <1>1. PICK j \in Jobs : j = Current(w).job
    BY CurrentIsFresh DEF Report, In
  <1>2. jobs = [k \in Jobs |-> jobs[k]] /\ jobs[j] \in Job
    BY DEF LiveInv, HandsInv, QueueInv, TypeOK
  <1>3. JobOutcome(result) \in Final
    BY DEF JobOutcome, Final
  <1>4. \E d : \/ jobs'[j] = FinishAs(jobs[j], JobOutcome(result))
               \/ jobs'[j] = RetryIfPossible(j, FinishAs(jobs[j], JobOutcome(result)), d, lag)
    BY <1>1, <1>2 DEF Report, Complete
  <1>5. jobs'[j].status \notin Leased
    BY <1>2, <1>3, <1>4, EndedFades
  <1>6. jobs'[j].owner = NoWorker
    BY <1>5 DEF HandsInv, QueueInv, LeaseIsOneOpenAttempt
  <1>7. QED
    BY <1>1, <1>6, JobQueueAssumption DEF JobQueueAssumption

(* The worker that takes a step stays lively.                              *)
GivesUp(w)  == \E lag \in Lags : FailToStart(w, lag) \/ Drop(w, lag)
HandsIn(w)  == \E lag \in Lags, result \in ReportedResults, retryable \in BOOLEAN,
                  delay \in RetryDelays : Report(w, lag, result, retryable, delay)

LEMMA LivelyAdvancesOn ==
  ASSUME LiveInv, HandsInv', ~ StoreFaults, NEW w \in Workers, GivesUp(w) \/ HandsIn(w)
  PROVE  (\A v \in Workers : Spares(v)) /\ Lively(w)'
  <1>1. Fading
    BY CurrentIsFresh DEF GivesUp, HandsIn, FailToStart, Drop, Report, In, Fading
  <1>2. \A v \in Workers : Spares(v)
    BY <1>1, FadingSpares DEF LiveInv, HandsInv
  <1>3. PICK c \in InHand(w) : c = Current(w) /\ worker[w].batch # << >> /\ c.job \in Jobs
    BY CurrentIsFresh DEF GivesUp, HandsIn, FailToStart, Drop, Report, In
  <1>4. Advance(w)
    BY DEF GivesUp, HandsIn, FailToStart, Drop, Report
  <1>5. jobs'[c.job].owner = w /\ jobs'[c.job].count = c.no => ~ (jobs'[c.job].expireIn > 0)
    <2>1. CASE HandsIn(w)
      BY <1>3, <2>1, ReportedIsOver DEF HandsIn
    <2>2. CASE GivesUp(w)
      <3>1. PICK lag \in Lags : FailToStart(w, lag) \/ Drop(w, lag)
        BY <2>2 DEF GivesUp
      <3>2. UNCHANGED vars
        BY <3>1 DEF FailToStart, Drop
      <3>3. jobs' = jobs
        BY <3>2 DEF vars
      <3>4. QED
        BY <1>3, <3>1, <3>2, <3>3, GivenUpIsOver DEF Holds
    <2>3. QED
      BY <2>1, <2>2
  <1>6. Lively(w)'
    BY <1>2, <1>3, <1>4, <1>5, LivelyAdvances DEF LiveInv
  <1>7. QED
    BY <1>2, <1>6

LEMMA LivelyStepOf ==
  ASSUME LiveInv, HandsInv', ~ Crashes, ~ StoreFaults, ~ PostgresStore,
         NEW w \in Workers, WorkerStep(w)
  PROVE  (\A v \in Workers \ {w} : Spares(v)) /\ Lively(w)'
  <1>0. /\ HandsInv /\ QueueInv /\ QueueInv' /\ Lively(w)
        /\ worker = [v \in Workers |-> worker[v]]
    BY DEF LiveInv, HandsInv, SchedulerTypeOK
  <1>1. ASSUME NEW lag \in Lags, Poll(w, lag)
        PROVE  (\A v \in Workers \ {w} : Spares(v)) /\ Lively(w)'
    <2>1. Claim(w, lag)
      BY <1>1 DEF Poll, Claim
    <2>2. QED
      BY <1>0, <1>1, <2>1, GrantsSpareOthers, LivelyPolls
  <1>2. ASSUME NEW lag \in Lags, Start(w, lag)
        PROVE  (\A v \in Workers \ {w} : Spares(v)) /\ Lively(w)'
    <2>1. PICK j \in Jobs : j = Current(w).job /\ worker[w].batch # << >>
      BY <1>2, CurrentIsFresh DEF Start, In
    <2>2. /\ MarkRunning(j, w, lag) /\ jobs[j].status \in Leased /\ jobs[j].owner = w
          /\ jobs[j] \in Job /\ jobs = [k \in Jobs |-> jobs[k]]
      BY <1>0, <1>2, <2>1
      DEF Start, MarkRunning, MayStart, RequireLeaseOwner, Leased, QueueInv, TypeOK
    <2>3. /\ \A k \in Jobs \ {j} : jobs'[k] = jobs[k]
          /\ jobs'[j] = [jobs[j] EXCEPT !.status = "running"]
      BY <2>2 DEF MarkRunning
    <2>4. jobs'[j].count = jobs[j].count /\ jobs'[j].expireIn = jobs[j].expireIn
      BY <2>2, <2>3 DEF Job
    <2>5. /\ worker'[w].batch = worker[w].batch /\ ~ In(w, "next")'
          /\ worker'[w].renewLost = worker[w].renewLost
      BY <1>0, <1>2 DEF Start, In, HandsInv, SchedulerTypeOK
    <2>6. Lively(w)'
      BY <1>0, <2>1, <2>2, <2>3, <2>4, <2>5, LivelyHolds
    <2>7. QED
      BY <1>0, <2>2, <2>6, GrantsSpareOthers
  <1>3. ASSUME NEW lag \in Lags, RenewLease(w, lag)
        PROVE  (\A v \in Workers \ {w} : Spares(v)) /\ Lively(w)'
    <2>1. PICK j \in Jobs : j = Current(w).job /\ worker[w].batch # << >>
      BY <1>3, CurrentIsFresh DEF RenewLease, In
    <2>2. /\ Heartbeat(j, w, lag) /\ jobs[j].status \in Leased /\ jobs[j].owner = w
          /\ jobs[j] \in Job /\ jobs = [k \in Jobs |-> jobs[k]]
      BY <1>0, <1>3, <2>1
      DEF RenewLease, Heartbeat, MayReport, RequireLeaseOwner, QueueInv, TypeOK
    <2>3. /\ \A k \in Jobs \ {j} : jobs'[k] = jobs[k]
          /\ jobs'[j] = Renew(jobs[j], lag)
      BY <2>2 DEF Heartbeat
    <2>4. jobs'[j].count = jobs[j].count
      BY <2>2, <2>3 DEF Job, Renew
    <2>5. /\ worker'[w].batch = worker[w].batch /\ ~ In(w, "next")'
          /\ ~ worker'[w].renewLost
      BY <1>3 DEF RenewLease, In
    <2>6. Lively(w)'
      BY <1>0, <2>1, <2>2, <2>3, <2>4, <2>5, LivelyHolds
    <2>7. QED
      BY <1>0, <2>2, <2>6, GrantsSpareOthers
  <1>4. ASSUME NEW lag \in Lags, FailToRenew(w, lag)
        PROVE  (\A v \in Workers \ {w} : Spares(v)) /\ Lively(w)'
    <2>1. UNCHANGED vars
      BY <1>4 DEF FailToRenew
    <2>2. \A v \in Workers : Spares(v)
      BY <1>0, <2>1, FadingSpares DEF Fading
    <2>3. Holds(w, Current(w)) => ~ (jobs[Current(w).job].expireIn > 0)
      BY <1>4, <2>1, GivenUpIsOver
    <2>4. worker'[w].batch = worker[w].batch /\ ~ In(w, "next")'
      BY <1>0, <1>4 DEF FailToRenew, In, HandsInv, SchedulerTypeOK
    <2>5. QED
      BY <1>0, <2>2, <2>3, <2>4, LivelyStays
  <1>5. ASSUME Return(w) \/ Restart(w)
        PROVE  (\A v \in Workers \ {w} : Spares(v)) /\ Lively(w)'
    <2>1. UNCHANGED vars
      BY <1>5 DEF Return, Restart
    <2>2. \A v \in Workers : Spares(v)
      BY <1>0, <2>1, FadingSpares DEF Fading
    <2>3. /\ worker'[w].batch = worker[w].batch /\ ~ In(w, "next")'
          /\ worker'[w].renewLost => worker[w].renewLost
      <3>1. CASE Return(w)
        BY <1>0, <3>1 DEF Return, In, HandsInv, SchedulerTypeOK
      <3>2. CASE Restart(w)
        <4>1. worker'[w] = NotRunning /\ worker[w].batch = << >>
          BY <1>0, <3>2 DEF Restart, In, HandsInv, SchedulerTypeOK
        <4>2. QED
          BY <4>1 DEF NotRunning, In
      <3>3. QED
        BY <1>5, <3>1, <3>2
    <2>4. QED
      BY <1>0, <2>2, <2>3, LivelyStays
  <1>6. ASSUME GivesUp(w) \/ HandsIn(w)
        PROVE  (\A v \in Workers \ {w} : Spares(v)) /\ Lively(w)'
    BY <1>6, LivelyAdvancesOn
  <1>7. QED
    BY <1>1, <1>2, <1>3, <1>4, <1>5, <1>6
    DEF WorkerStep, LosePoll, ReturnDuringRenewal, Crash, GivesUp, HandsIn

LEMMA LiveNext ==
  ASSUME ~ Crashes, ~ StoreFaults, ~ PostgresStore, LiveInv, [SchedulerNext]_schedulerVars
  PROVE  LiveInv'
  <1>1. /\ HandsInv /\ HandsInv' /\ QueueInv /\ QueueInv' /\ SchedulerTypeOK
        /\ \A w \in Workers : Lively(w)
    BY NextHands DEF LiveInv, HandsInv
  <1>2. ASSUME NEW v \in Workers, Spares(v), worker'[v] = worker[v]
        PROVE  Lively(v)'
    BY <1>1, <1>2, LivelyStays DEF In
  <1>3. ASSUME NEW w \in Workers, WorkerStep(w), NEW v \in Workers
        PROVE  Lively(v)'
    BY <1>1, <1>2, <1>3, LivelyStepOf, StepIsOwn
  <1>4. ASSUME Fading, UNCHANGED worker, NEW v \in Workers
        PROVE  Lively(v)'
    BY <1>1, <1>2, <1>4, FadingSpares
  <1>5. (\E w \in Workers : WorkerStep(w)) \/ (Fading /\ UNCHANGED worker)
    <2>1. StartDelays \subseteq Int /\ \A age \in Lags : -age \in Int
      BY JobQueueAssumption DEF JobQueueAssumption, Lags
    <2>2. QED
      BY <2>1 DEF SchedulerNext, schedulerVars, vars, Fading, Submit, Schedule, Plan,
                  EnsurePlanned, Withdraw, Recover, Pass
  <1>6. QED
    BY <1>1, <1>3, <1>4, <1>5 DEF LiveInv

(* A live lease is in the hands of its owner, whatever the batch size and  *)
(* whether or not leases are renewed in time (RunOnce, renewLoop), for     *)
(* workers that do not crash and a store whose answers arrive.             *)
THEOREM LiveLeasesAreInHand ==
  ASSUME ~ Crashes, ~ StoreFaults, ~ PostgresStore
  PROVE  SchedulerSpec => []LiveLeaseIsInHand
  <1>1. SchedulerInit => LiveInv
    <2> SUFFICES ASSUME SchedulerInit PROVE LiveInv
      OBVIOUS
    <2>1. \A j \in Jobs : jobs[j].owner = NoWorker
      BY DEF SchedulerInit, Init
    <2>2. \A w \in Workers : worker[w].batch = << >> /\ w # NoWorker
      BY JobQueueAssumption DEF SchedulerInit, NotRunning, JobQueueAssumption
    <2>3. QED
      BY <2>1, <2>2, EmptyIsLively, InitHands DEF LiveInv
  <1>2. LiveInv /\ [SchedulerNext]_schedulerVars => LiveInv'
    BY LiveNext
  <1>3. LiveInv => LiveLeaseIsInHand
    <2> SUFFICES ASSUME LiveInv, NEW j \in Jobs, LeaseActive(jobs[j], 0)
                 PROVE  [job |-> j, no |-> jobs[j].count] \in InHand(jobs[j].owner)
      BY DEF LiveLeaseIsInHand
    <2>1. jobs[j].owner \in Workers /\ jobs[j].expireIn \in Int
      BY RowFields DEF LiveInv, HandsInv, QueueInv, TypeOK, LeaseActive
    <2>2. jobs[j].expireIn > 0
      BY <2>1 DEF LeaseActive
    <2>3. QED
      BY <2>1, <2>2 DEF LiveInv, Lively
  <1>4. QED
    BY <1>1, <1>2, <1>3, PTL DEF SchedulerSpec
=============================================================================
