------------------------ MODULE IssueWorkflowProofs -------------------------
(***************************************************************************)
(* Proofs about IssueWorkflow, for any number of executors and challenges, *)
(* whatever crashes, overlaps and fails.                                   *)
(*                                                                         *)
(* An execution acts on what it has read, and others may have moved the    *)
(* stores since.  The invariant says what an execution still knows of them *)
(* (Knows), and the proof is that the stores only move in ways that leave  *)
(* that true (Grows): an issued workflow stays issued, a valid challenge   *)
(* stays valid, one that is cleaned up never comes back.                   *)
(***************************************************************************)
EXTENDS IssueWorkflow, SequenceTheorems, WellFoundedInduction, TLAPS

PendingTodos == {<<"presenting", "presented", "propagating">>, <<"presenting", "presented", "ready">>,
                 <<"presented", "propagating">>, <<"presented", "ready">>,
                 <<"propagating">>, <<"ready">>}
ProcessingTodos == {<<"verifying">>, <<"valid">>, <<"invalid", "cleanup_pending">>,
                    <<"cleanup_pending">>, <<"cleaned">>, <<"cleanup_failed">>}

Gone == {"cleanup_pending", "cleaned", "cleanup_failed"}
LoopSteps == {"present", "propagation", "write", "notify", "poll", "cleanup"}

(* An execution in one of the loops, given the challenges ch and the       *)
(* material pub: it has passed over nothing that is not valid.             *)
LoopKnows(x, ch, pub) ==
  x.step \in LoopSteps =>
    /\ x.stage \in {"challenge_pending", "challenge_processing"}
    /\ x.at \in 1 .. Challenges
    /\ x.step \in {"present", "propagation"} => x.stage = "challenge_pending"
    /\ x.step \in {"notify", "poll", "cleanup"} => x.stage = "challenge_processing"
    /\ Len(x.list) = Challenges
    /\ x.stage = "challenge_processing" =>
         /\ \A i \in 1 .. Challenges : x.list[i] = "valid" => ch[i] = "valid"
         /\ ~x.waits => \A i \in 1 .. x.at - 1 : ch[i] = "valid"
    /\ x.step = "present" => x.todo \in {<<"presented", "propagating">>, <<"presented", "ready">>}
    /\ x.step = "write" => x.todo \in IF x.stage = "challenge_pending" THEN PendingTodos
                                                                      ELSE ProcessingTodos
    /\ x.step = "write" /\ x.todo \in {<<"presented", "propagating">>, <<"presented", "ready">>} =>
         x.at \in pub \/ ch[x.at] \in Gone
    /\ x.step = "cleanup" => ch[x.at] \in Gone

(* An execution out of them.                                               *)
StageKnows(x, fl, ch, as) ==
  /\ x.stage \in {"challenge_pending", "challenge_processing", "challenge_valid", "finalizing", "issued"}
       => ch # << >>
  /\ x.stage = "issued" \/ x.step \in {"persist", "link", "complete"} => fl = "issued"
  /\ x.step = "schedule" => x.stage # "none"
  /\ x.step = "persist" => x.at = 0
  /\ x.step = "link" => as.versions = 1 /\ x.at \in 0 .. Challenges - 1 /\ 1 .. x.at \subseteq as.linked
  /\ x.step = "complete" => as.versions = 1 /\ as.linked = 1 .. Challenges
  /\ x.step = "validate" => ch # << >> /\ \A i \in 1 .. Challenges : ch[i] = "valid"

Knows(x) == LoopKnows(x, challenge, published) /\ StageKnows(x, flow, challenge, asset)

FlowInv ==
  flow \in {"challenge_pending", "challenge_processing", "challenge_valid", "finalizing", "issued"}
    => challenge # << >>

WorkInv ==
  /\ TypeOK
  /\ FlowInv
  /\ CompletedMeansIssued
  /\ IssuedMeansValid
  /\ PresentedMeansPublished
  /\ \A e \in Executors : Knows(exec[e])

-----------------------------------------------------------------------------

LEMMA Constants ==
  /\ Challenges \in Nat \ {0} /\ MaxAttempts \in Nat \ {0} /\ MaxFaults \in Nat
  /\ Nobody \notin Executors /\ ChallengeTypes \subseteq {"http-01", "dns-01"}
  BY WorkflowAssumption DEF WorkflowAssumption

LEMMA Least ==
  ASSUME NEW S, S \subseteq Nat, S # {}
  PROVE  \E k \in S : \A m \in S : k <= m
  <1>1. PICK k \in S : \A m \in S : ~ (<<m, k>> \in OpToRel(<, Nat))
    BY NatLessThanWellFounded, WFMin
  <1>2. \A m \in S : ~ (m < k)
    BY <1>1 DEF OpToRel
  <1> QED
    BY <1>2

LEMMA EmptyTodo == << >> \in Seq(ChallengeStatuses)
  BY EmptySeq

LEMMA TodosAreTyped ==
  /\ PendingTodos \subseteq Seq(ChallengeStatuses)
  /\ ProcessingTodos \subseteq Seq(ChallengeStatuses)
  <1>1. /\ {"presenting", "presented", "propagating", "ready", "verifying", "valid", "invalid",
            "cleanup_pending", "cleaned", "cleanup_failed"} \subseteq ChallengeStatuses
    BY DEF ChallengeStatuses
  <1> QED
    BY <1>1 DEF PendingTodos, ProcessingTodos

LEMMA TodosGoOn ==
  /\ \A t \in PendingTodos :
       /\ Head(t) \in {"presenting", "presented", "propagating", "ready"}
       /\ Head(t) = "presenting" =>
            Tail(t) \in {<<"presented", "propagating">>, <<"presented", "ready">>}
       /\ Head(t) = "presented" =>
            /\ t \in {<<"presented", "propagating">>, <<"presented", "ready">>}
            /\ Tail(t) \in PendingTodos \ {<<"presented", "propagating">>, <<"presented", "ready">>}
  /\ \A t \in ProcessingTodos :
       /\ Head(t) \in {"verifying", "valid", "invalid", "cleanup_pending", "cleaned", "cleanup_failed"}
       /\ Head(t) = "invalid" => Tail(t) = <<"cleanup_pending">>
       /\ Head(t) # "invalid" => Tail(t) = << >>
  BY DEF PendingTodos, ProcessingTodos

LEMMA ExecutingIs ==
  ASSUME NEW job \in JobKeys, NEW step \in Steps, NEW stage \in FlowStatuses
  PROVE  /\ Executing(job, step, stage) \in Execution
         /\ Executing(job, step, stage).job = job /\ Executing(job, step, stage).step = step
         /\ Executing(job, step, stage).stage = stage /\ Executing(job, step, stage).at = 0
         /\ Executing(job, step, stage).waits = FALSE
         /\ Executing(job, step, stage).list = << >> /\ Executing(job, step, stage).todo = << >>
  BY EmptyTodo DEF Executing, Idle, Execution

(* An execution that goes on out of the loops.                             *)
LEMMA ExecutingKnows ==
  ASSUME NEW job \in JobKeys, NEW step \in Steps \ (LoopSteps \cup {"link", "complete"}),
         NEW stage \in FlowStatuses, NEW ch, NEW pub, NEW fl, NEW as,
         stage \in {"challenge_pending", "challenge_processing", "challenge_valid", "finalizing",
                    "issued"} => ch # << >>,
         stage = "issued" \/ step = "persist" => fl = "issued",
         step = "schedule" => stage # "none",
         step = "validate" => ch # << >> /\ \A i \in 1 .. Challenges : ch[i] = "valid"
  PROVE  /\ LoopKnows(Executing(job, step, stage), ch, pub)
         /\ StageKnows(Executing(job, step, stage), fl, ch, as)
  <1> DEFINE x == Executing(job, step, stage)
  <1>1. x.step = step /\ x.stage = stage /\ x.at = 0
    BY DEF Executing, Idle
  <1> HIDE DEF x
  <1>2. LoopKnows(x, ch, pub)
    BY <1>1 DEF LoopKnows
  <1>3. StageKnows(x, fl, ch, as)
    BY <1>1 DEF StageKnows
  <1> QED
    BY <1>2, <1>3 DEF x

LEMMA ReturnedKnows ==
  ASSUME NEW job \in JobKeys, NEW step \in {"over", "retry", "fail request"}, NEW ch, NEW pub, NEW fl, NEW as
  PROVE  /\ Executing(job, step, "none") \in Execution
         /\ LoopKnows(Executing(job, step, "none"), ch, pub)
         /\ StageKnows(Executing(job, step, "none"), fl, ch, as)
  <1>1. step \in Steps \ (LoopSteps \cup {"link", "complete"}) /\ step \in Steps /\ "none" \in FlowStatuses
    BY DEF Steps, LoopSteps, FlowStatuses
  <1>2. Executing(job, step, "none") \in Execution
    BY <1>1, ExecutingIs
  <1> QED
    BY <1>1, <1>2, ExecutingKnows

(* Turning to the next challenge keeps what is known: all that was passed  *)
(* over is valid, or the execution waits.                                  *)
LEMMA TurnToKnows ==
  ASSUME NEW x \in Execution, NEW ch \in Seq(ChallengeStatuses), NEW pub, NEW fl, NEW as,
         Len(ch) = Challenges, Len(x.list) = Challenges,
         x.stage \in {"challenge_pending", "challenge_processing"},
         challengeType \in {"none"} \cup ChallengeTypes,
         NEW i \in 1 .. Challenges + 1,
         x.stage = "challenge_processing" =>
           /\ \A j \in 1 .. Challenges : x.list[j] = "valid" => ch[j] = "valid"
           /\ ~x.waits => \A j \in 1 .. i - 1 : ch[j] = "valid"
  PROVE  /\ TurnTo(x, i) \in Execution
         /\ LoopKnows(TurnTo(x, i), ch, pub)
         /\ StageKnows(TurnTo(x, i), fl, ch, as)
  <1>0. /\ {"process", "validate"} \subseteq Steps \ (LoopSteps \cup {"link", "complete"})
        /\ {"process", "validate"} \subseteq Steps
    BY DEF Steps, LoopSteps
  <1> DEFINE open == {k \in i .. Len(x.list) : x.list[k] \notin Settled(x.stage)}
             k    == CHOOSE k \in open : \A m \in open : k <= m
             last == IF x.stage = "challenge_pending" THEN "process" ELSE "validate"
             status == x.list[k]
             turned == [x EXCEPT !.at = k, !.step = CallFor(x.stage, status), !.todo = WayFrom(x.stage, status)]
  <1>1. /\ x.list \in Seq(ChallengeStatuses) /\ x.job \in JobKeys /\ x.stage \in FlowStatuses
        /\ x.waits \in BOOLEAN /\ x.at \in Nat /\ Challenges \in Nat \ {0} /\ ch # << >>
    BY Constants DEF Execution
  <1>2. TurnTo(x, i) = CASE open # {} /\ CallFor(x.stage, status) = "over" -> Executing(x.job, "over", "none")
                         [] open # {} /\ CallFor(x.stage, status) # "over" -> turned
                         [] open = {} /\ x.waits -> Executing(x.job, "retry", "none")
                         [] OTHER -> Executing(x.job, last, x.stage)
    BY DEF TurnTo
  <1>3. CASE open # {}
    <2>1. k \in open /\ \A m \in open : k <= m
      <3>1. open \subseteq Nat
        BY <1>1
      <3>2. \E n \in open : \A m \in open : n <= m
        BY <1>3, <3>1, Least
      <3> QED
        BY <3>2
    <2> HIDE DEF k
    <2>2. k \in i .. Challenges /\ \A j \in i .. k - 1 : x.list[j] \in Settled(x.stage)
      BY <1>1, <2>1
    <2>3. status \in ChallengeStatuses
      BY <1>1, <2>2, ElementOfSeq
    <2> HIDE DEF open, status, turned
    <2>4. CASE CallFor(x.stage, status) = "over"
      <3>1. TurnTo(x, i) = Executing(x.job, "over", "none")
        BY <1>2, <1>3, <2>4
      <3> QED
        BY <1>1, <3>1, ReturnedKnows
    <2>5. CASE CallFor(x.stage, status) # "over"
      <3>1. TurnTo(x, i) = turned
        BY <1>2, <1>3, <2>5
      <3>2. /\ CallFor(x.stage, status) \in {"propagation", "write", "notify", "poll"}
            /\ CallFor(x.stage, status) \in {"propagation", "write"} => x.stage = "challenge_pending"
            /\ CallFor(x.stage, status) \in {"notify", "poll"} => x.stage = "challenge_processing"
            /\ CallFor(x.stage, status) = "write" =>
                 WayFrom(x.stage, status) \in PendingTodos \ {<<"presented", "propagating">>,
                                                              <<"presented", "ready">>}
            /\ WayFrom(x.stage, status) \in PendingTodos \cup {<< >>}
        BY <2>5 DEF CallFor, WayFrom, PendingTodos
      <3>3. WayFrom(x.stage, status) \in Seq(ChallengeStatuses)
        BY <3>2, TodosAreTyped, EmptyTodo
      <3>4. /\ turned.at = k /\ turned.step = CallFor(x.stage, status) /\ turned.stage = x.stage
            /\ turned.todo = WayFrom(x.stage, status) /\ turned.list = x.list /\ turned.waits = x.waits
            /\ turned \in Execution
        <4>1. CallFor(x.stage, status) \in Steps /\ k \in Nat
          <5>1. k \in Nat
            BY <1>1, <2>2
          <5>2. {"propagation", "write", "notify", "poll"} \subseteq Steps
            BY DEF Steps
          <5> QED
            BY <3>2, <5>1, <5>2
        <4> DEFINE c == CallFor(x.stage, status)
                   w == WayFrom(x.stage, status)
        <4>2. c \in Steps /\ w \in Seq(ChallengeStatuses) /\ turned = [x EXCEPT !.at = k, !.step = c, !.todo = w]
          BY <3>3, <4>1 DEF turned
        <4> HIDE DEF c, w
        <4>3. /\ turned \in Execution
              /\ turned.at = k /\ turned.step = c /\ turned.todo = w
              /\ turned.job = x.job /\ turned.stage = x.stage
              /\ turned.list = x.list /\ turned.waits = x.waits
          <5>1. x \in Execution /\ k \in Nat
            BY <4>1
          <5>2. c \in Steps /\ w \in Seq(ChallengeStatuses)
            BY <4>2
          <5>3. turned = [x EXCEPT !.at = k, !.step = c, !.todo = w]
            BY <4>2
          <5> QED
            BY ONLY <5>1, <5>2, <5>3 DEF Execution
        <4> QED
          BY <4>3 DEF c, w
      <3> HIDE DEF turned
      <3>5. x.stage = "challenge_processing" /\ ~x.waits => \A j \in 1 .. k - 1 : ch[j] = "valid"
        <4> SUFFICES ASSUME x.stage = "challenge_processing", ~x.waits, NEW j \in 1 .. k - 1
                     PROVE  ch[j] = "valid"
          OBVIOUS
        <4>1. CASE j < i
          BY <4>1
        <4>2. CASE j >= i
          <5>1. x.list[j] = "valid" /\ j \in 1 .. Challenges
            BY <1>1, <2>2, <4>2 DEF Settled
          <5> QED
            BY <5>1
        <4> QED
          BY <1>1, <2>2, <4>1, <4>2
      <3>6. k \in 1 .. Challenges
        BY <1>1, <2>2
      <3>7. LoopKnows(turned, ch, pub)
        BY <3>2, <3>4, <3>5, <3>6 DEF LoopKnows
      <3>8. StageKnows(turned, fl, ch, as)
        BY <1>1, <3>2, <3>4 DEF StageKnows
      <3> QED
        BY <3>1, <3>4, <3>7, <3>8
    <2> QED
      BY <2>4, <2>5
  <1>4. CASE open = {}
    <2>1. CASE x.waits
      <3>1. TurnTo(x, i) = Executing(x.job, "retry", "none")
        BY <1>2, <1>4, <2>1
      <3> QED
        BY <1>1, <3>1, ReturnedKnows
    <2>2. CASE ~x.waits
      <3>1. TurnTo(x, i) = Executing(x.job, last, x.stage)
        BY <1>2, <1>4, <2>2
      <3>2. x.stage = "challenge_processing" => \A j \in 1 .. Challenges : ch[j] = "valid"
        <4>1. \A j \in i .. Challenges : x.list[j] \in Settled(x.stage)
          BY <1>4
        <4> QED
          BY <1>1, <2>2, <4>1 DEF Settled
      <3> QED
        <4>1. last \in {"process", "validate"} /\ (last = "validate" => x.stage = "challenge_processing")
          OBVIOUS
        <4> HIDE DEF last
        <4>2. Executing(x.job, last, x.stage) \in Execution
          BY <1>0, <1>1, <4>1, ExecutingIs
        <4>3. /\ last \in Steps \ (LoopSteps \cup {"link", "complete"})
              /\ last # "persist" /\ last # "schedule" /\ x.stage # "issued"
              /\ last = "validate" => \A j \in 1 .. Challenges : ch[j] = "valid"
          BY <1>0, <3>2, <4>1
        <4>4. /\ LoopKnows(Executing(x.job, last, x.stage), ch, pub)
              /\ StageKnows(Executing(x.job, last, x.stage), fl, ch, as)
          BY <1>1, <4>3, ExecutingKnows
        <4> QED
          BY <3>1, <4>2, <4>4
    <2> QED
      BY <2>1, <2>2
  <1> QED
    BY <1>3, <1>4

-----------------------------------------------------------------------------
(* How the stores move, and that what an execution knows outlives it.      *)

Grows ==
  /\ flow = "issued" => flow' = "issued"
  /\ challenge # << >> =>
       /\ challenge' # << >>
       /\ \A i \in 1 .. Challenges : /\ challenge[i] = "valid" => challenge'[i] = "valid"
                                     /\ challenge[i] \in Gone => challenge'[i] \in Gone
                                     /\ i \in published => i \in published' \/ challenge'[i] \in Gone
  /\ asset.versions = 1 => asset'.versions = 1
  /\ asset.linked \subseteq asset'.linked /\ asset'.linked \subseteq 1 .. Challenges

LEMMA KnowledgeStays ==
  ASSUME NEW x \in Execution, Knows(x), Grows
  PROVE  Knows(x)'
  <1>1. LoopKnows(x, challenge, published) /\ StageKnows(x, flow, challenge, asset)
    BY DEF Knows
  <1>2. StageKnows(x, flow', challenge', asset')
    <2>1. x.step = "validate" => challenge' # << >> /\ \A i \in 1 .. Challenges : challenge'[i] = "valid"
      BY <1>1 DEF StageKnows, Grows
    <2>2. x.step = "complete" => asset'.versions = 1 /\ asset'.linked = 1 .. Challenges
      BY <1>1 DEF StageKnows, Grows
    <2>3. x.step = "link" => asset'.versions = 1 /\ x.at \in 0 .. Challenges - 1 /\ 1 .. x.at \subseteq asset'.linked
      BY <1>1 DEF StageKnows, Grows
    <2> QED
      BY <1>1, <2>1, <2>2, <2>3 DEF StageKnows, Grows
  <1>3. LoopKnows(x, challenge', published')
    <2> SUFFICES ASSUME x.step \in LoopSteps PROVE LoopKnows(x, challenge', published')
      BY DEF LoopKnows
    <2>1. /\ challenge # << >> /\ x.at \in 1 .. Challenges
          /\ x.stage \in {"challenge_pending", "challenge_processing"}
      BY <1>1 DEF LoopKnows, StageKnows
    <2>2. \A i \in 1 .. Challenges : /\ challenge[i] = "valid" => challenge'[i] = "valid"
                                     /\ challenge[i] \in Gone => challenge'[i] \in Gone
                                     /\ i \in published => i \in published' \/ challenge'[i] \in Gone
      BY <2>1 DEF Grows
    <2>3. x.stage = "challenge_processing" =>
            /\ \A i \in 1 .. Challenges : x.list[i] = "valid" => challenge'[i] = "valid"
            /\ ~x.waits => \A i \in 1 .. x.at - 1 : challenge'[i] = "valid"
      <3>1. 1 .. x.at - 1 \subseteq 1 .. Challenges
        BY <2>1, Constants
      <3> QED
        BY <1>1, <2>2, <3>1 DEF LoopKnows
    <2>4. x.step = "write" /\ x.todo \in {<<"presented", "propagating">>, <<"presented", "ready">>} =>
            x.at \in published' \/ challenge'[x.at] \in Gone
      BY <1>1, <2>1, <2>2 DEF LoopKnows
    <2>5. x.step = "cleanup" => challenge'[x.at] \in Gone
      BY <1>1, <2>1, <2>2 DEF LoopKnows
    <2> QED
      BY <1>1, <2>3, <2>4, <2>5 DEF LoopKnows
  <1> QED
    BY <1>2, <1>3 DEF Knows

(* Executor e goes on as y.                                                *)
LEMMA OthersKnow ==
  ASSUME WorkInv, NEW e \in Executors, NEW y \in Execution, exec' = [exec EXCEPT ![e] = y],
         Grows, Knows(y)'
  PROVE  exec' \in [Executors -> Execution] /\ \A d \in Executors : Knows(exec[d])'
  <1>1. exec \in [Executors -> Execution]
    BY DEF WorkInv, TypeOK
  <1>2. exec' \in [Executors -> Execution] /\ exec'[e] = y /\ \A d \in Executors \ {e} : exec'[d] = exec[d]
    BY <1>1
  <1>3. Knows(exec[e])'
    BY <1>2 DEF Knows
  <1>4. ASSUME NEW d \in Executors \ {e} PROVE Knows(exec[d])'
    <2>1. PICK z \in Execution : z = exec[d]
      BY <1>1
    <2>2. Knows(z)
      BY <2>1 DEF WorkInv
    <2>3. Knows(z)'
      BY <2>2, KnowledgeStays
    <2> QED
      BY <1>2, <2>1, <2>3 DEF Knows
  <1> QED
    BY <1>2, <1>3, <1>4

JobsType == [JobKeys -> JobStates]

LEMMA NothingMoves ==
  ASSUME WorkInv, UNCHANGED <<flow, challenge, published, asset>>
  PROVE  Grows /\ FlowInv' /\ IssuedMeansValid' /\ PresentedMeansPublished'
  BY DEF WorkInv, TypeOK, Grows, FlowInv, IssuedMeansValid, PresentedMeansPublished

(* A step of executor e that leaves what the workflow has stored.          *)
LEMMA AdvanceKeepsInv ==
  ASSUME WorkInv, NEW e \in Executors, NEW y \in Execution, exec' = [exec EXCEPT ![e] = y], Knows(y),
         UNCHANGED <<challengeType, flow, challenge, published, asset, submitter>>,
         request' \in RequestStatuses,
         request' = "completed" => request = "completed" \/ (asset.versions = 1 /\ asset.linked = 1 .. Challenges),
         jobs' \in JobsType, faults' \in 0 .. MaxFaults
  PROVE  WorkInv'
  <1>1. Grows /\ FlowInv' /\ IssuedMeansValid' /\ PresentedMeansPublished'
    BY NothingMoves
  <1>2. Knows(y)'
    BY DEF Knows
  <1>3. exec' \in [Executors -> Execution] /\ \A d \in Executors : Knows(exec[d])'
    BY <1>1, <1>2, OthersKnow
  <1>4. TypeOK'
    BY <1>3 DEF WorkInv, TypeOK, JobsType
  <1>5. CompletedMeansIssued'
    BY DEF WorkInv, CompletedMeansIssued
  <1> QED
    BY <1>1, <1>3, <1>4, <1>5 DEF WorkInv

(* A step of nobody: the submitter's and the reaper's.                     *)
LEMMA ElsewhereKeepsInv ==
  ASSUME WorkInv, UNCHANGED <<flow, challenge, published, asset, exec>>,
         request' \in RequestStatuses, request' = "completed" => request = "completed",
         challengeType' \in {"none"} \cup ChallengeTypes,
         jobs' \in JobsType, submitter' \in {"idle", "schedule", "accept"}, faults' \in 0 .. MaxFaults
  PROVE  WorkInv'
  <1>1. Grows /\ FlowInv' /\ IssuedMeansValid' /\ PresentedMeansPublished'
    BY NothingMoves
  <1>2. \A d \in Executors : Knows(exec[d])'
    BY DEF WorkInv, Knows
  <1>3. TypeOK' /\ CompletedMeansIssued'
    BY DEF WorkInv, TypeOK, JobsType, CompletedMeansIssued
  <1> QED
    BY <1>1, <1>2, <1>3 DEF WorkInv

-----------------------------------------------------------------------------
(* The jobs and the submitter.                                             *)

LEMMA FaultsAreBounded == ASSUME WorkInv, Fault PROVE faults' \in 0 .. MaxFaults
  BY Constants DEF WorkInv, TypeOK, Fault

LEMMA JobsAreTyped ==
  ASSUME WorkInv, NEW k \in JobKeys
  PROVE  Ensured(k) \in JobsType /\ \A again \in BOOLEAN : Released(k, again) \in JobsType
  BY DEF WorkInv, TypeOK, JobsType, JobStates, Ensured, Released

LEMMA SubmitKeepsInv ==
  ASSUME WorkInv, Create \/ SubmitStep \/ LoseSubmitter \/ Resubmit \/ \E k \in JobKeys : Reap(k)
  PROVE  WorkInv'
  <1>0. /\ request \in RequestStatuses /\ jobs \in JobsType /\ submitter \in {"idle", "schedule", "accept"}
        /\ faults \in 0 .. MaxFaults /\ challengeType \in {"none"} \cup ChallengeTypes /\ "start" \in JobKeys
    BY DEF WorkInv, TypeOK, JobsType, JobKeys
  <1>1. CASE Create
    BY <1>0, <1>1, ElsewhereKeepsInv DEF Create, RequestStatuses
  <1>2. CASE ScheduleStart \/ Resubmit
    BY <1>0, <1>2, JobsAreTyped, ElsewhereKeepsInv DEF ScheduleStart, Resubmit
  <1>3. CASE AcceptRequest
    BY <1>0, <1>3, ElsewhereKeepsInv DEF AcceptRequest, RequestStatuses
  <1>4. CASE LoseSubmitter
    BY <1>0, <1>4, FaultsAreBounded, ElsewhereKeepsInv DEF LoseSubmitter, stores
  <1>5. CASE \E k \in JobKeys : Reap(k)
    <2>1. PICK k \in JobKeys : Reap(k)
      BY <1>5
    <2>2. faults' \in 0 .. MaxFaults
      BY <1>0, <2>1, FaultsAreBounded DEF Reap
    <2> QED
      BY <1>0, <2>1, <2>2, JobsAreTyped, ElsewhereKeepsInv DEF Reap
  <1> QED
    BY <1>1, <1>2, <1>3, <1>4, <1>5 DEF SubmitStep

-----------------------------------------------------------------------------
(* Executions that read, call an adapter, or write only the request.       *)

QuietSteps == Steps \ (LoopSteps \cup {"persist", "link", "complete", "validate", "schedule"})

(* Going on with all that is remembered, out of the loops.                 *)
LEMMA GoKnows ==
  ASSUME WorkInv, NEW e \in Executors, NEW step \in QuietSteps, NEW y, y = [exec[e] EXCEPT !.step = step]
  PROVE  y \in Execution /\ Knows(y)
  <1>1. exec[e] \in Execution /\ Knows(exec[e])
    BY DEF WorkInv, TypeOK
  <1>2. y \in Execution /\ y.step = step /\ y.stage = exec[e].stage /\ y.at = exec[e].at
    BY <1>1 DEF Execution, QuietSteps
  <1>3. LoopKnows(y, challenge, published)
    BY <1>2 DEF LoopKnows, QuietSteps
  <1>4. StageKnows(y, flow, challenge, asset)
    BY <1>1, <1>2 DEF Knows, StageKnows, QuietSteps
  <1> QED
    BY <1>2, <1>3, <1>4 DEF Knows

(* Going on, out of the loops, with no more than a stage.                  *)
LEMMA GoOnKnows ==
  ASSUME WorkInv, NEW e \in Executors, NEW step \in QuietSteps \cup {"schedule"}, NEW stage \in FlowStatuses,
         step = "schedule" => stage # "none",
         stage \in {"challenge_pending", "challenge_processing", "challenge_valid", "finalizing", "issued"}
           => challenge # << >>,
         stage = "issued" => flow = "issued"
  PROVE  /\ Executing(exec[e].job, step, stage) \in Execution
         /\ Knows(Executing(exec[e].job, step, stage))
  <1>1. exec[e].job \in JobKeys
    BY DEF WorkInv, TypeOK, Execution
  <1>2. /\ step \in Steps \ (LoopSteps \cup {"link", "complete"}) /\ step \in Steps
        /\ step # "persist" /\ step # "validate"
    BY DEF QuietSteps, Steps, LoopSteps
  <1>3. Executing(exec[e].job, step, stage) \in Execution
    BY <1>1, <1>2, ExecutingIs
  <1>4. /\ LoopKnows(Executing(exec[e].job, step, stage), challenge, published)
        /\ StageKnows(Executing(exec[e].job, step, stage), flow, challenge, asset)
    BY <1>1, <1>2, ExecutingKnows
  <1> QED
    BY <1>3, <1>4 DEF Knows

LEMMA StepNames ==
  /\ {"idle", "request", "accept", "run", "workflow", "order", "record", "challenges",
      "flow", "list", "process", "finalizing", "finalize", "download", "issue", "reject", "give up",
      "fail request", "over", "retry"} \subseteq QuietSteps
  /\ QuietSteps \subseteq Steps /\ "none" \in FlowStatuses
  BY DEF QuietSteps, Steps, LoopSteps, FlowStatuses

LEMMA ReturnKnows ==
  ASSUME WorkInv, NEW e \in Executors, NEW how \in QuietSteps
  PROVE  Executing(exec[e].job, how, "none") \in Execution /\ Knows(Executing(exec[e].job, how, "none"))
  <1>1. how # "schedule"
    BY DEF QuietSteps
  <1> QED
    BY <1>1, StepNames, GoOnKnows

(* A quiet step, or a failed call: nothing of the workflow moves.          *)
LEMMA QuietKeepsInv ==
  ASSUME WorkInv, NEW e \in Executors,
         \/ \E step \in QuietSteps : Go(e, step)
         \/ \E how \in QuietSteps : Return(e, how),
         UNCHANGED <<challengeType, flow, challenge, published, asset, submitter>>,
         request' \in RequestStatuses, request' = "completed" => request = "completed",
         jobs' \in JobsType, faults' \in 0 .. MaxFaults
  PROVE  WorkInv'
  <1>1. PICK y \in Execution : exec' = [exec EXCEPT ![e] = y] /\ Knows(y)
    <2>1. CASE \E step \in QuietSteps : Go(e, step)
      <3>1. PICK step \in QuietSteps : Go(e, step)
        BY <2>1
      <3> DEFINE y == [exec[e] EXCEPT !.step = step]
      <3>2. exec' = [exec EXCEPT ![e] = y]
        BY <3>1 DEF Go, WorkInv, TypeOK
      <3>3. y \in Execution /\ Knows(y)
        BY GoKnows
      <3> QED
        BY <3>2, <3>3
    <2>2. CASE \E how \in QuietSteps : Return(e, how)
      BY <2>2, ReturnKnows DEF Return, GoOn
    <2> QED
      BY <2>1, <2>2
  <1> QED
    BY <1>1, AdvanceKeepsInv

LEMMA FailsKeepsInv ==
  ASSUME WorkInv, NEW e \in Executors, NEW call, Fails(e, call), UNCHANGED <<stores, submitter>>
  PROVE  WorkInv'
  <1>1. UNCHANGED <<challengeType, flow, challenge, published, asset, submitter, request, jobs>>
    BY DEF stores
  <1>2. request \in RequestStatuses /\ jobs \in JobsType /\ faults \in 0 .. MaxFaults
    BY DEF WorkInv, TypeOK, JobsType
  <1>3. faults' \in 0 .. MaxFaults
    BY <1>2, FaultsAreBounded DEF Fails
  <1>4. Return(e, "retry") \/ Go(e, "give up")
    BY DEF Fails
  <1> QED
    BY <1>1, <1>2, <1>3, <1>4, StepNames, QuietKeepsInv

LEMMA MoveRequestKeepsInv ==
  ASSUME WorkInv, NEW e \in Executors, NEW status \in {"accepted", "running", "failed"}, NEW next \in QuietSteps,
         MoveRequest(e, status, next),
         UNCHANGED <<challengeType, flow, challenge, published, asset, jobs, submitter, faults>>
  PROVE  WorkInv'
  <1>1. request \in RequestStatuses /\ jobs \in JobsType /\ faults \in 0 .. MaxFaults
    BY DEF WorkInv, TypeOK, JobsType
  <1>2. /\ request' \in RequestStatuses
        /\ request' = "completed" => request = "completed"
        /\ Go(e, next) \/ Return(e, "over")
    BY <1>1 DEF MoveRequest, RequestStatuses
  <1> QED
    BY <1>1, <1>2, StepNames, QuietKeepsInv

LEMMA ReadsKeepInv ==
  ASSUME WorkInv, NEW e \in Executors,
         \/ \E k \in JobKeys : Take(e, k)
         \/ Report(e) \/ Crash(e) \/ ReadRequest(e) \/ ReadFlow(e) \/ ScheduleNext(e)
  PROVE  WorkInv'
  <1>0. /\ request \in RequestStatuses /\ jobs \in JobsType /\ faults \in 0 .. MaxFaults
        /\ flow \in FlowStatuses /\ exec[e] \in Execution /\ Knows(exec[e]) /\ FlowInv
    BY DEF WorkInv, TypeOK, JobsType
  <1>1. CASE \E k \in JobKeys : Take(e, k)
    <2>1. PICK k \in JobKeys : Take(e, k)
      BY <1>1
    <2> DEFINE step == IF k = "start" THEN "request" ELSE "flow"
    <2>2. step \in Steps \ (LoopSteps \cup {"link", "complete"}) /\ step \in Steps /\ "none" \in FlowStatuses
          /\ step # "persist" /\ step # "validate" /\ step # "schedule"
      BY DEF Steps, LoopSteps, FlowStatuses
    <2>3. /\ exec' = [exec EXCEPT ![e] = Executing(k, step, "none")]
          /\ UNCHANGED <<challengeType, flow, challenge, published, asset, submitter, request, faults>>
      BY <2>1 DEF Take
    <2>4. jobs' \in JobsType
      BY <1>0, <2>1, Constants DEF Take, JobsType, JobStates
    <2> HIDE DEF step
    <2>5. Executing(k, step, "none") \in Execution /\ Knows(Executing(k, step, "none"))
      BY <2>2, ExecutingIs, ExecutingKnows DEF Knows
    <2> QED
      BY <1>0, <2>3, <2>4, <2>5, AdvanceKeepsInv
  <1>2. Idle \in Execution /\ Knows(Idle)
    BY EmptyTodo DEF Idle, Execution, JobKeys, Steps, FlowStatuses, Knows, LoopKnows, LoopSteps, StageKnows
  <1>3. CASE Report(e)
    <2>1. jobs' \in JobsType
      <3>1. exec[e].job \in JobKeys /\ (exec[e].step = "retry") \in BOOLEAN
        BY <1>0 DEF Execution
      <3> QED
        BY <1>0, <1>3, <3>1, JobsAreTyped DEF Report
    <2>2. /\ exec' = [exec EXCEPT ![e] = Idle]
          /\ UNCHANGED <<challengeType, flow, challenge, published, asset, submitter, request, faults>>
      BY <1>3 DEF Report
    <2> QED
      BY <1>0, <1>2, <2>1, <2>2, AdvanceKeepsInv
  <1>4. CASE Crash(e)
    <2>1. /\ exec' = [exec EXCEPT ![e] = Idle] /\ faults' \in 0 .. MaxFaults
          /\ UNCHANGED <<challengeType, flow, challenge, published, asset, submitter, request, jobs>>
      BY <1>4, FaultsAreBounded DEF Crash, stores
    <2> QED
      BY <1>0, <1>2, <2>1, AdvanceKeepsInv
  <1>5. CASE ReadRequest(e)
    <2>1. /\ \E step \in {"accept", "run", "workflow"} : Go(e, step)
          /\ UNCHANGED <<challengeType, flow, challenge, published, asset, submitter, request, jobs, faults>>
      BY <1>5 DEF ReadRequest, stores
    <2> QED
      BY <1>0, <2>1, StepNames, QuietKeepsInv
  <1>6. CASE ReadFlow(e)
    <2>1. /\ exec' = [exec EXCEPT ![e] = Executing(exec[e].job, "list", flow)]
          /\ UNCHANGED <<challengeType, flow, challenge, published, asset, submitter, request, jobs, faults>>
      BY <1>6 DEF ReadFlow, stores, GoOn
    <2>2. Executing(exec[e].job, "list", flow) \in Execution /\ Knows(Executing(exec[e].job, "list", flow))
      BY <1>0, StepNames, GoOnKnows DEF FlowInv
    <2> QED
      BY <1>0, <2>1, <2>2, AdvanceKeepsInv
  <1>7. CASE ScheduleNext(e)
    <2>1. exec[e].stage \in JobKeys
      BY <1>0, <1>7 DEF Execution, FlowStatuses, JobKeys, ScheduleNext, At, Knows, StageKnows
    <2>2. jobs' \in JobsType /\ faults' \in 0 .. MaxFaults
      BY <1>0, <1>7, <2>1, JobsAreTyped, FaultsAreBounded DEF ScheduleNext
    <2>3. /\ Return(e, "over")
          /\ UNCHANGED <<challengeType, flow, challenge, published, asset, submitter, request>>
      BY <1>7 DEF ScheduleNext
    <2> QED
      BY <1>0, <2>2, <2>3, StepNames, QuietKeepsInv
  <1> QED
    BY <1>1, <1>3, <1>4, <1>5, <1>6, <1>7

LEMMA CallsKeepInv ==
  ASSUME WorkInv, NEW e \in Executors,
         \/ CreateOrder(e) \/ FinalizeOrder(e) \/ Download(e)
         \/ MarkAccepted(e) \/ MarkRunning(e) \/ FailRequest(e) \/ MarkCompleted(e)
  PROVE  WorkInv'
  <1>0. /\ request \in RequestStatuses /\ jobs \in JobsType /\ faults \in 0 .. MaxFaults
        /\ Knows(exec[e])
    BY DEF WorkInv, TypeOK, JobsType
  <1>1. CASE CreateOrder(e) \/ FinalizeOrder(e) \/ Download(e)
    <2>1. /\ UNCHANGED <<stores, submitter>>
          /\ \/ (\E step \in {"record", "download", "issue"} : Go(e, step)) /\ UNCHANGED faults
             \/ \E call \in AdapterCalls : Fails(e, call)
      BY <1>1 DEF CreateOrder, FinalizeOrder, Download, AdapterCalls
    <2>2. CASE \E call \in AdapterCalls : Fails(e, call)
      BY <2>1, <2>2, FailsKeepsInv
    <2>3. CASE (\E step \in {"record", "download", "issue"} : Go(e, step)) /\ UNCHANGED faults
      <3>1. UNCHANGED <<challengeType, flow, challenge, published, asset, submitter, request, jobs>>
        BY <2>1 DEF stores
      <3> QED
        BY <1>0, <2>3, <3>1, StepNames, QuietKeepsInv
    <2> QED
      BY <2>1, <2>2, <2>3
  <1>2. CASE MarkAccepted(e) \/ MarkRunning(e) \/ FailRequest(e)
    <2>1. PICK status \in {"accepted", "running", "failed"}, next \in QuietSteps : MoveRequest(e, status, next)
      BY <1>2, StepNames DEF MarkAccepted, MarkRunning, FailRequest
    <2>2. UNCHANGED <<challengeType, flow, challenge, published, asset, jobs, submitter, faults>>
      BY <1>2 DEF MarkAccepted, MarkRunning, FailRequest
    <2> QED
      BY <2>1, <2>2, MoveRequestKeepsInv
  <1>3. CASE MarkCompleted(e)
    <2>1. asset.versions = 1 /\ asset.linked = 1 .. Challenges
      BY <1>0, <1>3 DEF MarkCompleted, At, Knows, StageKnows
    <2>2. /\ request' \in RequestStatuses
          /\ \E step \in {"over"} : Go(e, step) \/ Return(e, step)
          /\ UNCHANGED <<challengeType, flow, challenge, published, asset, jobs, submitter, faults>>
      BY <1>0, <1>3 DEF MarkCompleted, MoveRequest, RequestStatuses
    <2>3. PICK y \in Execution : exec' = [exec EXCEPT ![e] = y] /\ Knows(y)
      <3>1. CASE Go(e, "over")
        <4>1. exec' = [exec EXCEPT ![e] = [exec[e] EXCEPT !.step = "over"]]
          BY <3>1 DEF Go, WorkInv, TypeOK
        <4> QED
          BY <4>1, StepNames, GoKnows
      <3>2. CASE Return(e, "over")
        BY <3>2, StepNames, ReturnKnows DEF Return, GoOn
      <3> QED
        BY <2>2, <3>1, <3>2
    <2> QED
      BY <1>0, <2>1, <2>2, <2>3, AdvanceKeepsInv
  <1> QED
    BY <1>1, <1>2, <1>3

-----------------------------------------------------------------------------
(* Transitions of the workflow.                                            *)

(* Executor e moves the workflow and goes on as y.                         *)
LEMMA FlowKeepsInv ==
  ASSUME WorkInv, NEW e \in Executors, NEW y \in Execution, exec' = [exec EXCEPT ![e] = y], Knows(y)',
         UNCHANGED <<challengeType, request, challenge, published, asset, jobs, submitter, faults>>,
         flow' \in FlowStatuses, flow = "issued" => flow' = "issued",
         FlowInv', IssuedMeansValid'
  PROVE  WorkInv'
  <1>1. Grows
    BY DEF Grows, WorkInv, TypeOK
  <1>2. exec' \in [Executors -> Execution] /\ \A d \in Executors : Knows(exec[d])'
    BY <1>1, OthersKnow
  <1>3. TypeOK' /\ CompletedMeansIssued' /\ PresentedMeansPublished'
    BY <1>2 DEF WorkInv, TypeOK, CompletedMeansIssued, PresentedMeansPublished
  <1> QED
    BY <1>2, <1>3 DEF WorkInv

LEMMA MovesOfFlow ==
  /\ \A stage \in FlowMoves(flow) :
       /\ stage \in FlowStatuses \ {"none", "created"}
       /\ flow # "issued"
       /\ stage = "order_pending" => flow = "created"
       /\ stage = "challenge_pending" => flow = "order_pending"
       /\ stage = "challenge_processing" => flow = "challenge_pending"
       /\ stage = "challenge_valid" => flow = "challenge_processing"
       /\ stage = "finalizing" => flow = "challenge_valid"
       /\ stage = "issued" => flow = "finalizing"
  BY DEF FlowMoves, FlowStatuses, Stages

(* The challenges of a workflow that has some are 1 .. Challenges.         *)
LEMMA ChallengesAre ==
  ASSUME TypeOK
  PROVE  /\ DOMAIN challenge \subseteq 1 .. Challenges
         /\ challenge # << >> => DOMAIN challenge = 1 .. Challenges /\ Len(challenge) = Challenges
         /\ \A i \in DOMAIN challenge : challenge[i] \in ChallengeStatuses
  <1>1. /\ challenge \in Seq(ChallengeStatuses) /\ Len(challenge) \in {0, Challenges}
        /\ Challenges \in Nat \ {0}
    BY Constants DEF TypeOK
  <1>2. /\ DOMAIN challenge = 1 .. Len(challenge) /\ challenge \in [1 .. Len(challenge) -> ChallengeStatuses]
        /\ Len(challenge) \in Nat
    BY <1>1, LenProperties
  <1>3. challenge # << >> => Len(challenge) # 0
    BY <1>1, EmptySeq
  <1>4. 1 .. Len(challenge) \subseteq 1 .. Challenges
    <2> DEFINE n == Len(challenge)
    <2>1. n \in {0, Challenges}
      BY <1>1
    <2>2. Challenges \in Nat
      BY <1>1
    <2> HIDE DEF n
    <2>3. 1 .. n \subseteq 1 .. Challenges
      BY ONLY <2>1, <2>2
    <2> QED
      BY <2>3 DEF n
  <1>5. challenge # << >> => Len(challenge) = Challenges
    BY <1>1, <1>3
  <1>6. \A i \in 1 .. Len(challenge) : challenge[i] \in ChallengeStatuses
    BY <1>1, ElementOfSeq
  <1> QED
    BY <1>2, <1>4, <1>5, <1>6

(* EnterStage into a stage that wants no more than what is there.          *)
LEMMA EnterKeepsInv ==
  ASSUME WorkInv, NEW e \in Executors, NEW stage \in FlowStatuses, NEW next \in QuietSteps \cup {"schedule"},
         EnterStage(e, stage, next),
         UNCHANGED <<challengeType, request, challenge, published, asset, jobs, submitter, faults>>,
         stage \in {"order_pending", "challenge_processing", "challenge_valid", "finalizing", "issued"},
         stage = "challenge_valid" => \A i \in DOMAIN challenge : challenge[i] = "valid"
  PROVE  WorkInv'
  <1>1. CASE stage \in FlowMoves(flow)
    <2>1. flow' = stage /\ exec' = [exec EXCEPT ![e] = Executing(exec[e].job, next, stage)]
      BY <1>1 DEF EnterStage, GoOn
    <2>2. FlowInv'
      BY <1>1, <2>1, MovesOfFlow DEF WorkInv, FlowInv
    <2>3. IssuedMeansValid'
      BY <1>1, <2>1, MovesOfFlow DEF WorkInv, IssuedMeansValid
    <2>4. exec[e].job \in JobKeys
      BY DEF WorkInv, TypeOK, Execution
    <2>5. next \in Steps \ (LoopSteps \cup {"link", "complete"}) /\ next \in Steps
          /\ next # "persist" /\ next # "validate"
      BY DEF QuietSteps, Steps, LoopSteps
    <2>6. Executing(exec[e].job, next, stage) \in Execution
      BY <2>4, <2>5, ExecutingIs
    <2>7. stage # "order_pending" => challenge' # << >>
      BY <2>1, <2>2 DEF FlowInv
    <2>8. /\ LoopKnows(Executing(exec[e].job, next, stage), challenge', published')
          /\ StageKnows(Executing(exec[e].job, next, stage), flow', challenge', asset')
      <3> DEFINE ch == challenge'
                 fl == flow'
      <3>1. /\ stage \in {"challenge_pending", "challenge_processing", "challenge_valid", "finalizing", "issued"}
                 => ch # << >>
            /\ stage = "issued" => fl = "issued"
            /\ stage # "none"
        BY <2>1, <2>7
      <3> HIDE DEF ch, fl
      <3>2. /\ LoopKnows(Executing(exec[e].job, next, stage), ch, published')
            /\ StageKnows(Executing(exec[e].job, next, stage), fl, ch, asset')
        BY <2>4, <2>5, <3>1, ExecutingKnows
      <3> QED
        BY <3>2 DEF ch, fl
    <2> DEFINE y == Executing(exec[e].job, next, stage)
    <2>9. PICK z \in Execution : z = y
      BY <2>6
    <2>10. Knows(z)'
      BY <2>8, <2>9 DEF Knows
    <2>11. flow' \in FlowStatuses /\ (flow = "issued" => flow' = "issued")
      BY <1>1, <2>1, MovesOfFlow
    <2> QED
      BY <2>1, <2>2, <2>3, <2>9, <2>10, <2>11, FlowKeepsInv
  <1>2. CASE stage \notin FlowMoves(flow)
    <2>1. UNCHANGED flow /\ Return(e, "over")
      BY <1>2 DEF EnterStage
    <2>2. request \in RequestStatuses /\ jobs \in JobsType /\ faults \in 0 .. MaxFaults
      BY DEF WorkInv, TypeOK, JobsType
    <2> QED
      BY <2>1, <2>2, StepNames, QuietKeepsInv
  <1> QED
    BY <1>1, <1>2

LEMMA StagesKeepInv ==
  ASSUME WorkInv, NEW e \in Executors,
         \/ EnsureWorkflow(e) \/ RecordOrder(e) \/ StartProcessing(e) \/ MarkValid(e)
         \/ StartFinalizing(e) \/ MarkIssued(e) \/ RejectWorkflow(e) \/ GiveUp(e)
  PROVE  WorkInv'
  <1>0. /\ request \in RequestStatuses /\ jobs \in JobsType /\ faults \in 0 .. MaxFaults
        /\ flow \in FlowStatuses /\ exec[e] \in Execution /\ Knows(exec[e]) /\ TypeOK
        /\ FlowInv /\ IssuedMeansValid
    BY DEF WorkInv, TypeOK, JobsType
  <1>1. CASE RecordOrder(e) \/ StartProcessing(e) \/ MarkValid(e) \/ StartFinalizing(e) \/ MarkIssued(e)
    <2>1. PICK stage \in {"order_pending", "challenge_processing", "challenge_valid", "finalizing", "issued"},
               next \in {"challenges", "schedule", "finalize"} :
            /\ EnterStage(e, stage, next)
            /\ stage = "challenge_valid" => At(e, "validate")
      BY <1>1 DEF RecordOrder, StartProcessing, MarkValid, StartFinalizing, MarkIssued
    <2>2. stage = "challenge_valid" => \A i \in DOMAIN challenge : challenge[i] = "valid"
      BY <1>0, <2>1, ChallengesAre DEF At, Knows, StageKnows
    <2>3. stage \in FlowStatuses /\ next \in QuietSteps \cup {"schedule"}
      BY <2>1, StepNames DEF FlowStatuses, Stages
    <2>4. UNCHANGED <<challengeType, request, challenge, published, asset, jobs, submitter, faults>>
      BY <1>1 DEF RecordOrder, StartProcessing, MarkValid, StartFinalizing, MarkIssued
    <2> QED
      BY <2>1, <2>2, <2>3, <2>4, EnterKeepsInv
  <1>2. CASE EnsureWorkflow(e)
    <2>1. /\ flow' = IF flow = "none" THEN "created" ELSE flow
          /\ UNCHANGED <<challengeType, request, challenge, published, asset, jobs, submitter, faults>>
      BY <1>2 DEF EnsureWorkflow
    <2>2. FlowInv' /\ IssuedMeansValid' /\ flow' \in FlowStatuses /\ flow' # "none"
          /\ (flow = "issued" => flow' = "issued")
      BY <1>0, <2>1 DEF FlowInv, IssuedMeansValid, FlowStatuses, Stages
    <2>3. PICK next \in QuietSteps \cup {"schedule"} :
            exec' = [exec EXCEPT ![e] = Executing(exec[e].job, next, flow')]
      BY <1>2, StepNames DEF EnsureWorkflow, GoOn
    <2>4. PICK z \in Execution : z = Executing(exec[e].job, next, flow') /\ Knows(z)'
      <3>1. PICK stage \in FlowStatuses : stage = flow'
        BY <2>2
      <3>2. next \in Steps \ (LoopSteps \cup {"link", "complete"}) /\ next \in Steps
            /\ next # "persist" /\ next # "validate"
        BY DEF QuietSteps, Steps, LoopSteps
      <3>3. exec[e].job \in JobKeys
        BY <1>0 DEF Execution
      <3>4. Executing(exec[e].job, next, stage) \in Execution
        BY <3>2, <3>3, ExecutingIs
      <3>5. /\ stage \in {"challenge_pending", "challenge_processing", "challenge_valid", "finalizing", "issued"}
                 => challenge # << >>
            /\ stage # "none"
        BY <2>1, <2>2, <3>1 DEF FlowInv
      <3>6. /\ LoopKnows(Executing(exec[e].job, next, stage), challenge, published)
            /\ StageKnows(Executing(exec[e].job, next, stage), stage, challenge, asset)
        BY <3>2, <3>3, <3>5, ExecutingKnows
      <3> QED
        BY <2>1, <3>1, <3>4, <3>6 DEF Knows
    <2> QED
      BY <2>1, <2>2, <2>3, <2>4, FlowKeepsInv
  <1>3. CASE RejectWorkflow(e) \/ GiveUp(e)
    <2>1. /\ UNCHANGED <<challengeType, request, challenge, published, asset, jobs, submitter, faults>>
          /\ flow' = flow \/ (flow' = "failed" /\ "failed" \in FlowMoves(flow))
      BY <1>3 DEF RejectWorkflow, GiveUp
    <2>2. FlowInv' /\ IssuedMeansValid' /\ flow' \in FlowStatuses /\ (flow = "issued" => flow' = "issued")
      BY <1>0, <2>1, MovesOfFlow DEF FlowInv, IssuedMeansValid
    <2>3. PICK step \in {"over", "fail request"} :
            exec' = [exec EXCEPT ![e] = Executing(exec[e].job, step, "none")]
      BY <1>3 DEF RejectWorkflow, GiveUp, GoOn, Return
    <2>4. PICK z \in Execution : z = Executing(exec[e].job, step, "none") /\ Knows(z)'
      <3>1. exec[e].job \in JobKeys
        BY <1>0 DEF Execution
      <3>2. step \in {"over", "retry", "fail request"}
        BY <2>3
      <3>3. /\ Executing(exec[e].job, step, "none") \in Execution
            /\ LoopKnows(Executing(exec[e].job, step, "none"), challenge', published')
            /\ StageKnows(Executing(exec[e].job, step, "none"), flow', challenge', asset')
        BY <3>1, <3>2, ReturnedKnows
      <3> QED
        BY <3>3 DEF Knows
    <2> QED
      BY <2>1, <2>2, <2>3, <2>4, FlowKeepsInv
  <1> QED
    BY <1>1, <1>2, <1>3

-----------------------------------------------------------------------------
(* The certificate and its domains.                                        *)

LEMMA AssetKeepsInv ==
  ASSUME WorkInv, NEW e \in Executors, PersistVersion(e) \/ LinkDomain(e)
  PROVE  WorkInv'
  <1>0. /\ exec[e] \in Execution /\ Knows(exec[e]) /\ TypeOK /\ CompletedMeansIssued
        /\ StageKnows(exec[e], flow, challenge, asset)
        /\ asset \in [versions : Nat, linked : SUBSET (1 .. Challenges)]
        /\ Challenges \in Nat \ {0}
    BY Constants DEF WorkInv, TypeOK, Knows
  <1>1. CASE Fails(e, "persist") /\ PersistVersion(e) /\ UNCHANGED asset
    BY <1>1, FailsKeepsInv DEF PersistVersion, stores
  <1>2. CASE Fails(e, "link") /\ LinkDomain(e) /\ UNCHANGED asset
    BY <1>2, FailsKeepsInv DEF LinkDomain, stores
  <1>3. ASSUME NEW y \in Execution, exec' = [exec EXCEPT ![e] = y], Knows(y)', flow = "issued",
               asset' \in [versions : Nat, linked : SUBSET (1 .. Challenges)],
               asset'.versions = 1, asset.linked \subseteq asset'.linked,
               UNCHANGED <<challengeType, request, flow, challenge, published, jobs, submitter, faults>>
        PROVE  WorkInv'
    <2>1. Grows
      BY <1>0, <1>3 DEF Grows
    <2>2. exec' \in [Executors -> Execution] /\ \A d \in Executors : Knows(exec[d])'
      BY <1>3, <2>1, OthersKnow
    <2>3. TypeOK'
      BY <1>0, <1>3, <2>2 DEF TypeOK
    <2>4. CompletedMeansIssued'
      <3>1. request = "completed" => asset'.linked = 1 .. Challenges
        BY <1>0, <1>3 DEF CompletedMeansIssued
      <3> QED
        BY <1>3, <3>1 DEF CompletedMeansIssued
    <2>5. FlowInv' /\ IssuedMeansValid' /\ PresentedMeansPublished'
      BY <1>3 DEF WorkInv, FlowInv, IssuedMeansValid, PresentedMeansPublished
    <2> QED
      BY <2>2, <2>3, <2>4, <2>5 DEF WorkInv
  <1>4. CASE Go(e, "link") /\ PersistVersion(e)
    <2>1. /\ exec[e].step = "persist" /\ exec[e].at = 0 /\ flow = "issued"
          /\ UNCHANGED <<challengeType, request, flow, challenge, published, jobs, submitter>>
      BY <1>0, <1>4 DEF PersistVersion, At, StageKnows
    <2> DEFINE x == exec[e]
    <2>2. CASE UNCHANGED faults /\ asset' = [asset EXCEPT !.versions = IF @ = 0 THEN 1 ELSE @]
      <3>1. /\ asset' \in [versions : Nat, linked : SUBSET (1 .. Challenges)]
            /\ asset'.versions = 1 /\ asset'.linked = asset.linked
        BY <1>0, <2>2 DEF CompletedMeansIssued
      <3>2. PICK y \in Execution : /\ exec' = [exec EXCEPT ![e] = y]
                                   /\ y.step = "link" /\ y.at = 0 /\ y.stage = x.stage
        <4>1. [x EXCEPT !.step = "link"] \in Execution
          BY <1>0 DEF Execution, Steps
        <4>2. exec' = [exec EXCEPT ![e] = [x EXCEPT !.step = "link"]]
          BY <1>0, <1>4 DEF Go, TypeOK
        <4>3. /\ [x EXCEPT !.step = "link"].step = "link" /\ [x EXCEPT !.step = "link"].at = 0
              /\ [x EXCEPT !.step = "link"].stage = x.stage
          BY <1>0, <2>1 DEF Execution
        <4> QED
          BY <4>1, <4>2, <4>3
      <3>3. LoopKnows(y, challenge', published')
        BY <3>2 DEF LoopKnows, LoopSteps
      <3>4. StageKnows(y, flow', challenge', asset')
        BY <1>0, <2>1, <3>1, <3>2 DEF StageKnows
      <3>5. Knows(y)'
        BY <3>3, <3>4 DEF Knows
      <3> QED
        BY <1>3, <2>1, <2>2, <3>1, <3>2, <3>5
    <2>3. CASE Fails(e, "persist") /\ UNCHANGED asset
      BY <1>1, <1>4, <2>3
    <2> QED
      BY <1>4, <2>2, <2>3 DEF PersistVersion
  <1>5. CASE LinkDomain(e) /\ ~(Fails(e, "link") /\ UNCHANGED asset)
    <2> DEFINE x == exec[e]
               i == x.at + 1
               step == IF i = Challenges THEN "complete" ELSE "link"
    <2>1. /\ x.step = "link" /\ flow = "issued" /\ asset.versions = 1
          /\ x.at \in 0 .. Challenges - 1 /\ 1 .. x.at \subseteq asset.linked
      BY <1>0, <1>5 DEF LinkDomain, At, StageKnows
    <2>2. /\ asset' = [asset EXCEPT !.linked = @ \cup {i}]
          /\ exec' = [exec EXCEPT ![e].at = i, ![e].step = step]
          /\ UNCHANGED <<challengeType, request, flow, challenge, published, jobs, submitter, faults>>
      BY <1>5 DEF LinkDomain
    <2>3. i \in 1 .. Challenges /\ 1 .. i \subseteq 1 .. x.at \cup {i}
      BY <1>0, <2>1
    <2>4. /\ asset' \in [versions : Nat, linked : SUBSET (1 .. Challenges)]
          /\ asset'.versions = 1 /\ asset.linked \subseteq asset'.linked /\ 1 .. i \subseteq asset'.linked
      BY <1>0, <2>1, <2>2, <2>3
    <2>5. PICK y \in Execution : /\ exec' = [exec EXCEPT ![e] = y]
                                 /\ y.step = step /\ y.at = i /\ y.stage = x.stage
      <3>1. step \in Steps /\ i \in Nat
        BY <2>3 DEF Steps
      <3> HIDE DEF step, i
      <3>2. [x EXCEPT !.at = i, !.step = step] \in Execution
        BY <1>0, <3>1 DEF Execution
      <3>3. exec' = [exec EXCEPT ![e] = [x EXCEPT !.at = i, !.step = step]]
        BY <1>0, <2>2 DEF TypeOK
      <3>4. /\ [x EXCEPT !.at = i, !.step = step].step = step /\ [x EXCEPT !.at = i, !.step = step].at = i
            /\ [x EXCEPT !.at = i, !.step = step].stage = x.stage
        BY <1>0 DEF Execution
      <3> QED
        BY <3>2, <3>3, <3>4
    <2>6. /\ step \in {"link", "complete"}
          /\ step = "link" => i \in 0 .. Challenges - 1
          /\ step = "complete" => i = Challenges
      BY <1>0, <2>3
    <2> HIDE DEF step
    <2>7. LoopKnows(y, challenge', published')
      BY <2>5, <2>6 DEF LoopKnows, LoopSteps
    <2>8. step = "complete" => asset'.linked = 1 .. Challenges
      BY <2>4, <2>6
    <2> HIDE DEF i
    <2>9. StageKnows(y, flow', challenge', asset')
      BY <1>0, <2>1, <2>2, <2>4, <2>5, <2>6, <2>8 DEF StageKnows
    <2>10. Knows(y)'
      BY <2>7, <2>9 DEF Knows
    <2> QED
      BY <1>3, <2>1, <2>2, <2>4, <2>5, <2>10
  <1> QED
    BY <1>1, <1>2, <1>4, <1>5 DEF PersistVersion

-----------------------------------------------------------------------------
(* The challenges.                                                         *)

LEMMA ListKeepsInv ==
  ASSUME WorkInv, NEW e \in Executors, ListChallenges(e)
  PROVE  WorkInv'
  <1>0. /\ request \in RequestStatuses /\ jobs \in JobsType /\ faults \in 0 .. MaxFaults
        /\ exec[e] \in Execution /\ Knows(exec[e]) /\ TypeOK
        /\ StageKnows(exec[e], flow, challenge, asset)
    BY DEF WorkInv, TypeOK, JobsType, Knows
  <1>1. UNCHANGED <<challengeType, request, flow, challenge, published, asset, jobs, submitter, faults>>
    BY DEF ListChallenges, stores
  <1> DEFINE x == exec[e]
  <1>2. exec[e].job \in JobKeys /\ exec[e].stage \in FlowStatuses
    BY <1>0 DEF Execution
  <1>3. CASE x.stage \in {"challenge_pending", "challenge_processing"}
    <2> DEFINE z == [x EXCEPT !.list = challenge]
    <2>1. exec' = [exec EXCEPT ![e] = TurnTo(z, 1)]
      BY <1>0, <1>3 DEF ListChallenges, TypeOK
    <2>2. challenge \in Seq(ChallengeStatuses)
      BY <1>0 DEF TypeOK
    <2>3. z \in Execution /\ z.list = challenge /\ z.stage = x.stage /\ z.waits = x.waits
      BY <1>0, <2>2 DEF Execution
    <2>4. Len(challenge) = Challenges
      BY <1>0, <1>3, ChallengesAre DEF StageKnows
    <2>5. challengeType \in {"none"} \cup ChallengeTypes /\ 1 \in 1 .. Challenges + 1
      BY <1>0, Constants DEF TypeOK
    <2> HIDE DEF z
    <2>6. /\ TurnTo(z, 1) \in Execution
          /\ LoopKnows(TurnTo(z, 1), challenge, published)
          /\ StageKnows(TurnTo(z, 1), flow, challenge, asset)
      <3>1. z.stage \in {"challenge_pending", "challenge_processing"} /\ Len(z.list) = Challenges
        BY <1>3, <2>3, <2>4
      <3>2. \A j \in 1 .. Challenges : z.list[j] = "valid" => challenge[j] = "valid"
        BY <2>3
      <3>3. \A j \in 1 .. 1 - 1 : challenge[j] = "valid"
        OBVIOUS
      <3> QED
        BY <2>2, <2>3, <2>4, <2>5, <3>1, <3>2, <3>3, TurnToKnows
    <2>7. Knows(TurnTo(z, 1))
      BY <2>6 DEF Knows
    <2> QED
      BY <1>0, <1>1, <2>1, <2>6, <2>7, AdvanceKeepsInv
  <1>4. CASE x.stage \in {"challenge_valid", "finalizing"}
    <2>1. PICK step \in {"finalizing", "finalize"} : exec' = [exec EXCEPT ![e] = Executing(x.job, step, x.stage)]
      BY <1>0, <1>4 DEF ListChallenges, TypeOK
    <2>2. Executing(x.job, step, x.stage) \in Execution /\ Knows(Executing(x.job, step, x.stage))
      BY <1>0, <1>2, <1>4, StepNames, GoOnKnows DEF StageKnows
    <2> QED
      BY <1>0, <1>1, <2>1, <2>2, AdvanceKeepsInv
  <1>5. CASE x.stage = "issued"
    <2>1. exec' = [exec EXCEPT ![e] = Executing(x.job, "persist", x.stage)]
      BY <1>0, <1>5 DEF ListChallenges, TypeOK
    <2>2. "persist" \in Steps \ (LoopSteps \cup {"link", "complete"}) /\ "persist" \in Steps
      BY DEF Steps, LoopSteps
    <2>3. flow = "issued" /\ challenge # << >>
      BY <1>0, <1>5 DEF StageKnows
    <2>4. Executing(x.job, "persist", x.stage) \in Execution
      BY <1>2, <2>2, ExecutingIs
    <2>5. Knows(Executing(x.job, "persist", x.stage))
      BY <1>2, <2>2, <2>3, ExecutingKnows DEF Knows
    <2> QED
      BY <1>0, <1>1, <2>1, <2>4, <2>5, AdvanceKeepsInv
  <1>6. CASE x.stage \notin {"challenge_pending", "challenge_processing", "challenge_valid", "finalizing", "issued"}
    <2>1. exec' = [exec EXCEPT ![e] = Executing(x.job, "over", "none")]
      BY <1>0, <1>6 DEF ListChallenges, TypeOK
    <2> QED
      BY <1>0, <1>1, <2>1, StepNames, ReturnKnows, AdvanceKeepsInv
  <1> QED
    BY <1>3, <1>4, <1>5, <1>6

(* What an execution in a loop knows, spelled out.                         *)
LEMMA InTheLoop ==
  ASSUME WorkInv, NEW e \in Executors, exec[e].step \in LoopSteps
  PROVE  /\ exec[e] \in Execution /\ exec[e].job \in JobKeys
         /\ exec[e].stage \in {"challenge_pending", "challenge_processing"}
         /\ exec[e].at \in 1 .. Challenges /\ Len(exec[e].list) = Challenges
         /\ challenge # << >> /\ DOMAIN challenge = 1 .. Challenges /\ Len(challenge) = Challenges
         /\ challenge \in Seq(ChallengeStatuses) /\ challengeType \in {"none"} \cup ChallengeTypes
         /\ exec[e].stage = "challenge_processing" =>
              /\ \A i \in 1 .. Challenges : exec[e].list[i] = "valid" => challenge[i] = "valid"
              /\ ~exec[e].waits => \A i \in 1 .. exec[e].at - 1 : challenge[i] = "valid"
         /\ LoopKnows(exec[e], challenge, published) /\ StageKnows(exec[e], flow, challenge, asset)
  <1>1. /\ exec[e] \in Execution /\ TypeOK
        /\ LoopKnows(exec[e], challenge, published) /\ StageKnows(exec[e], flow, challenge, asset)
    BY DEF WorkInv, TypeOK, Knows
  <1>2. /\ exec[e].stage \in {"challenge_pending", "challenge_processing"}
        /\ exec[e].at \in 1 .. Challenges /\ Len(exec[e].list) = Challenges
        /\ exec[e].stage = "challenge_processing" =>
             /\ \A i \in 1 .. Challenges : exec[e].list[i] = "valid" => challenge[i] = "valid"
             /\ ~exec[e].waits => \A i \in 1 .. exec[e].at - 1 : challenge[i] = "valid"
    BY <1>1 DEF LoopKnows
  <1>3. challenge # << >>
    BY <1>1, <1>2 DEF StageKnows
  <1>4. DOMAIN challenge = 1 .. Challenges /\ Len(challenge) = Challenges
    BY <1>1, <1>3, ChallengesAre
  <1>5. challenge \in Seq(ChallengeStatuses) /\ challengeType \in {"none"} \cup ChallengeTypes
    BY <1>1 DEF TypeOK
  <1>6. exec[e].job \in JobKeys
    BY <1>1 DEF Execution
  <1> QED
    BY <1>1, <1>2, <1>3, <1>4, <1>5, <1>6

(* The next turn, the challenges being ch by then.                         *)
LEMMA NextTurnKnows ==
  ASSUME WorkInv, NEW e \in Executors, exec[e].step \in LoopSteps, NEW waits \in BOOLEAN,
         NEW ch \in Seq(ChallengeStatuses), Len(ch) = Challenges, NEW pub, NEW fl, NEW as,
         exec[e].stage = "challenge_processing" =>
           /\ \A i \in 1 .. Challenges : challenge[i] = "valid" => ch[i] = "valid"
           /\ ~waits => ch[exec[e].at] = "valid",
         NextTurn(e, waits)
  PROVE  \E y \in Execution : /\ exec' = [exec EXCEPT ![e] = y]
                              /\ LoopKnows(y, ch, pub) /\ StageKnows(y, fl, ch, as)
  <1> DEFINE x == exec[e]
             z == [x EXCEPT !.waits = x.waits \/ waits, !.todo = << >>]
  <1>1. exec' = [exec EXCEPT ![e] = TurnTo(z, z.at + 1)]
    BY DEF NextTurn
  <1>2. x \in Execution /\ x.stage \in {"challenge_pending", "challenge_processing"}
        /\ x.at \in 1 .. Challenges /\ Len(x.list) = Challenges
        /\ challengeType \in {"none"} \cup ChallengeTypes /\ Challenges \in Nat \ {0}
    BY InTheLoop, Constants
  <1>3. /\ z \in Execution /\ z.list = x.list /\ z.stage = x.stage /\ z.at = x.at
        /\ z.waits = (x.waits \/ waits)
    BY <1>2, EmptyTodo DEF Execution
  <1> HIDE DEF z
  <1>4. z.stage = "challenge_processing" =>
          /\ \A j \in 1 .. Challenges : z.list[j] = "valid" => ch[j] = "valid"
          /\ ~z.waits => \A j \in 1 .. x.at : ch[j] = "valid"
    <2> SUFFICES ASSUME x.stage = "challenge_processing"
                 PROVE  /\ \A j \in 1 .. Challenges : x.list[j] = "valid" => ch[j] = "valid"
                        /\ ~x.waits /\ ~waits => \A j \in 1 .. x.at : ch[j] = "valid"
      BY <1>3
    <2>1. /\ \A i \in 1 .. Challenges : x.list[i] = "valid" => challenge[i] = "valid"
          /\ ~x.waits => \A i \in 1 .. x.at - 1 : challenge[i] = "valid"
          /\ \A i \in 1 .. Challenges : challenge[i] = "valid" => ch[i] = "valid"
      BY InTheLoop
    <2>2. \A j \in 1 .. x.at : j = x.at \/ j \in 1 .. x.at - 1
      BY <1>2
    <2>3. 1 .. x.at - 1 \subseteq 1 .. Challenges
      BY <1>2
    <2> QED
      BY <2>1, <2>2, <2>3
  <1>5. /\ TurnTo(z, x.at + 1) \in Execution
        /\ LoopKnows(TurnTo(z, x.at + 1), ch, pub)
        /\ StageKnows(TurnTo(z, x.at + 1), fl, ch, as)
    <2>1. z.stage \in {"challenge_pending", "challenge_processing"} /\ Len(z.list) = Challenges
      BY <1>2, <1>3
    <2> DEFINE n == x.at + 1
    <2>3. n \in 1 .. Challenges + 1 /\ n - 1 = x.at
      <3>1. x.at \in 1 .. Challenges /\ Challenges \in Nat
        BY <1>2
      <3> QED
        BY ONLY <3>1
    <2> HIDE DEF n
    <2>4. z.stage = "challenge_processing" =>
            /\ \A j \in 1 .. Challenges : z.list[j] = "valid" => ch[j] = "valid"
            /\ ~z.waits => \A j \in 1 .. n - 1 : ch[j] = "valid"
      BY <1>4, <2>3
    <2>5. z \in Execution /\ challengeType \in {"none"} \cup ChallengeTypes
      BY <1>2, <1>3
    <2>6. /\ TurnTo(z, n) \in Execution
          /\ LoopKnows(TurnTo(z, n), ch, pub)
          /\ StageKnows(TurnTo(z, n), fl, ch, as)
      BY <2>1, <2>3, <2>4, <2>5, TurnToKnows
    <2> QED
      BY <2>6 DEF n
  <1> QED
    BY <1>1, <1>3, <1>5

(* An execution that goes on in the loop with other statuses to write.     *)
Moves(e, todo, step) == exec' = [exec EXCEPT ![e].todo = todo, ![e].step = step]

LEMMA MovedTo ==
  ASSUME WorkInv, NEW e \in Executors, NEW todo \in Seq(ChallengeStatuses), NEW step \in Steps,
         Moves(e, todo, step)
  PROVE  \E y \in Execution :
           /\ exec' = [exec EXCEPT ![e] = y]
           /\ y.todo = todo /\ y.step = step /\ y.at = exec[e].at /\ y.stage = exec[e].stage
           /\ y.list = exec[e].list /\ y.waits = exec[e].waits
  <1> DEFINE x == exec[e]
             y == [x EXCEPT !.todo = todo, !.step = step]
  <1>1. x \in Execution /\ exec \in [Executors -> Execution]
    BY DEF WorkInv, TypeOK
  <1>2. exec' = [exec EXCEPT ![e] = y]
    BY <1>1 DEF Moves
  <1>3. /\ y \in Execution
        /\ y.todo = todo /\ y.step = step /\ y.at = x.at /\ y.stage = x.stage
        /\ y.list = x.list /\ y.waits = x.waits
    BY <1>1 DEF Execution
  <1> HIDE DEF y
  <1> QED
    BY <1>2, <1>3

Presented == {<<"presented", "propagating">>, <<"presented", "ready">>}

LEMMA WriteKnows ==
  ASSUME WorkInv, NEW e \in Executors, exec[e].step \in LoopSteps, NEW todo, Write(e, todo), NEW pub,
         todo \in (IF exec[e].stage = "challenge_pending" THEN PendingTodos ELSE ProcessingTodos) \ Presented
  PROVE  \E y \in Execution : /\ exec' = [exec EXCEPT ![e] = y]
                              /\ LoopKnows(y, challenge, pub) /\ StageKnows(y, flow, challenge, asset)
  <1>1. todo \in Seq(ChallengeStatuses)
    BY TodosAreTyped
  <1>2. "write" \in Steps
    BY DEF Steps
  <1>3. Moves(e, todo, "write")
    BY DEF Write, Moves
  <1>4. PICK y \in Execution :
           /\ exec' = [exec EXCEPT ![e] = y]
           /\ y.todo = todo /\ y.step = "write" /\ y.at = exec[e].at /\ y.stage = exec[e].stage
           /\ y.list = exec[e].list /\ y.waits = exec[e].waits
    BY <1>1, <1>2, <1>3, MovedTo
  <1>5. /\ y.stage \in {"challenge_pending", "challenge_processing"} /\ y.at \in 1 .. Challenges
        /\ Len(y.list) = Challenges /\ challenge # << >>
        /\ y.stage = "challenge_processing" =>
             /\ \A i \in 1 .. Challenges : y.list[i] = "valid" => challenge[i] = "valid"
             /\ ~y.waits => \A i \in 1 .. y.at - 1 : challenge[i] = "valid"
    BY <1>4, InTheLoop
  <1>6. LoopKnows(y, challenge, pub)
    BY <1>4, <1>5 DEF LoopKnows, Presented
  <1>7. StageKnows(y, flow, challenge, asset)
    BY <1>4, <1>5 DEF StageKnows
  <1> QED
    BY <1>4, <1>6, <1>7

(* Executor e changes what is published and goes on as y.                  *)
LEMMA PublishKeepsInv ==
  ASSUME WorkInv, NEW e \in Executors, NEW y \in Execution, exec' = [exec EXCEPT ![e] = y],
         LoopKnows(y, challenge, published'), StageKnows(y, flow, challenge, asset),
         UNCHANGED <<challengeType, request, flow, challenge, asset, jobs, submitter, faults>>,
         published' \subseteq 1 .. Challenges,
         \A i \in published \ published' : i \in 1 .. Challenges => challenge[i] \in Gone
  PROVE  WorkInv'
  <1>1. Grows
    BY DEF WorkInv, TypeOK, Grows
  <1>2. Knows(y)'
    BY DEF Knows
  <1>3. exec' \in [Executors -> Execution] /\ \A d \in Executors : Knows(exec[d])'
    BY <1>1, <1>2, OthersKnow
  <1>4. TypeOK'
    BY <1>3 DEF WorkInv, TypeOK
  <1>5. PresentedMeansPublished'
    <2> SUFFICES ASSUME NEW i \in DOMAIN challenge,
                        challenge[i] \in {"presented", "propagating", "ready", "verifying", "valid"}
                 PROVE  i \in published'
      BY DEF PresentedMeansPublished
    <2>1. i \in published /\ i \in 1 .. Challenges
      BY ChallengesAre DEF WorkInv, PresentedMeansPublished
    <2>2. challenge[i] \notin Gone
      BY DEF Gone
    <2> QED
      BY <2>1, <2>2
  <1>6. CompletedMeansIssued' /\ FlowInv' /\ IssuedMeansValid'
    BY DEF WorkInv, CompletedMeansIssued, FlowInv, IssuedMeansValid
  <1> QED
    BY <1>3, <1>4, <1>5, <1>6 DEF WorkInv

LEMMA LoopCallsKeepInv ==
  ASSUME WorkInv, NEW e \in Executors,
         Present(e) \/ CheckPropagation(e) \/ NotifyReady(e) \/ PollAuthorization(e) \/ Cleanup(e)
  PROVE  WorkInv'
  <1>0. /\ request \in RequestStatuses /\ jobs \in JobsType /\ faults \in 0 .. MaxFaults
        /\ published \subseteq 1 .. Challenges
    BY DEF WorkInv, TypeOK, JobsType
  <1>1. exec[e].step \in LoopSteps
    BY DEF Present, CheckPropagation, NotifyReady, PollAuthorization, Cleanup, At, LoopSteps
  <1> DEFINE x == exec[e]
  <1>2. x.step \in {"present", "propagation"} => x.stage = "challenge_pending"
    BY <1>1, InTheLoop DEF LoopKnows
  <1>3. x.step \in {"notify", "poll", "cleanup"} => x.stage = "challenge_processing"
    BY <1>1, InTheLoop DEF LoopKnows
  <1>4. ASSUME NEW call, Fails(e, call), UNCHANGED <<stores, submitter>> PROVE WorkInv'
    BY <1>4, FailsKeepsInv
  <1>5. ASSUME NEW todo, Write(e, todo),
               todo \in (IF x.stage = "challenge_pending" THEN PendingTodos ELSE ProcessingTodos) \ Presented,
               UNCHANGED <<stores, submitter, faults>>
        PROVE  WorkInv'
    <2>1. PICK y \in Execution : /\ exec' = [exec EXCEPT ![e] = y]
                                 /\ LoopKnows(y, challenge, published)
                                 /\ StageKnows(y, flow, challenge, asset)
      BY <1>1, <1>5, WriteKnows
    <2>2. UNCHANGED <<challengeType, request, flow, challenge, published, asset, jobs, submitter, faults>>
      BY <1>5 DEF stores
    <2> QED
      BY <1>0, <2>1, <2>2, AdvanceKeepsInv DEF Knows
  <1>6. ASSUME NotYet(e), UNCHANGED <<stores, submitter>> PROVE WorkInv'
    <2>1. faults' \in 0 .. MaxFaults
      BY <1>6, FaultsAreBounded DEF NotYet
    <2>2. challenge \in Seq(ChallengeStatuses) /\ Len(challenge) = Challenges
      BY <1>1, InTheLoop
    <2>3. PICK y \in Execution : /\ exec' = [exec EXCEPT ![e] = y]
                                 /\ LoopKnows(y, challenge, published)
                                 /\ StageKnows(y, flow, challenge, asset)
      BY <1>1, <1>6, <2>2, NextTurnKnows DEF NotYet
    <2>4. UNCHANGED <<challengeType, request, flow, challenge, published, asset, jobs, submitter>>
      BY <1>6 DEF stores
    <2> QED
      BY <1>0, <2>1, <2>3, <2>4, AdvanceKeepsInv DEF Knows
  <1>7. /\ <<"ready">> \in PendingTodos \ Presented
        /\ {<<"verifying">>, <<"valid">>, <<"invalid", "cleanup_pending">>, <<"cleaned">>, <<"cleanup_failed">>}
             \subseteq ProcessingTodos \ Presented
    BY DEF PendingTodos, ProcessingTodos, Presented
  <1>8. CASE CheckPropagation(e)
    <2>1. x.stage = "challenge_pending" /\ UNCHANGED <<stores, submitter>>
      BY <1>2, <1>8 DEF CheckPropagation, At
    <2>2. CASE Write(e, <<"ready">>) /\ UNCHANGED faults
      BY <1>5, <1>7, <2>1, <2>2
    <2> QED
      BY <1>4, <1>6, <1>8, <2>1, <2>2 DEF CheckPropagation
  <1>9. CASE NotifyReady(e)
    <2>1. x.stage = "challenge_processing" /\ UNCHANGED <<stores, submitter>>
      BY <1>3, <1>9 DEF NotifyReady, At
    <2>2. CASE Write(e, <<"verifying">>) /\ UNCHANGED faults
      BY <1>5, <1>7, <2>1, <2>2
    <2> QED
      BY <1>4, <1>9, <2>1, <2>2 DEF NotifyReady
  <1>10. CASE PollAuthorization(e)
    <2>1. x.stage = "challenge_processing" /\ UNCHANGED <<stores, submitter>>
      BY <1>3, <1>10 DEF PollAuthorization, At
    <2>2. CASE (Write(e, <<"valid">>) \/ Write(e, <<"invalid", "cleanup_pending">>)) /\ UNCHANGED faults
      BY <1>5, <1>7, <2>1, <2>2
    <2>3. CASE Return(e, "over") /\ UNCHANGED faults
      <3>1. faults \in 0 .. MaxFaults
        BY <1>0
      <3> QED
        BY <1>0, <2>1, <2>3, <3>1, StepNames, QuietKeepsInv DEF stores
    <2> QED
      BY <1>4, <1>6, <1>10, <2>1, <2>2, <2>3 DEF PollAuthorization
  <1>11. CASE Cleanup(e)
    <2>1. /\ x.stage = "challenge_processing" /\ challenge[x.at] \in Gone
          /\ UNCHANGED <<challengeType, request, flow, challenge, asset, jobs, submitter, faults>>
      BY <1>1, <1>3, <1>11, InTheLoop DEF Cleanup, At, LoopKnows
    <2>2. PICK todo \in {<<"cleaned">>, <<"cleanup_failed">>} :
            Write(e, todo) /\ published' \in {published, published \ {x.at}}
      BY <1>11 DEF Cleanup
    <2>3. PICK y \in Execution : /\ exec' = [exec EXCEPT ![e] = y]
                                 /\ LoopKnows(y, challenge, published')
                                 /\ StageKnows(y, flow, challenge, asset)
      BY <1>1, <1>7, <2>1, <2>2, WriteKnows
    <2>4. /\ published' \subseteq 1 .. Challenges
          /\ \A i \in published \ published' : i \in 1 .. Challenges => challenge[i] \in Gone
      BY <1>0, <2>1, <2>2
    <2> QED
      BY <2>1, <2>3, <2>4, PublishKeepsInv
  <1>12. CASE Present(e)
    <2>1. CASE Fails(e, "present") /\ UNCHANGED published
      BY <1>4, <1>12, <2>1 DEF Present, stores
    <2>2. CASE published' = published \cup {x.at} /\ Go(e, "write") /\ UNCHANGED faults
      <3>1. /\ x.step = "present" /\ x.stage = "challenge_pending" /\ x.at \in 1 .. Challenges
            /\ x.todo \in Presented /\ x \in Execution
            /\ UNCHANGED <<challengeType, request, flow, challenge, asset, jobs, submitter, faults>>
        BY <1>1, <1>2, <1>12, <2>2, InTheLoop DEF Present, At, LoopKnows, Presented
      <3> DEFINE y == [x EXCEPT !.step = "write"]
      <3>2. /\ y \in Execution /\ y.step = "write" /\ y.stage = x.stage /\ y.at = x.at
            /\ y.todo = x.todo /\ y.list = x.list /\ y.waits = x.waits
        BY <3>1 DEF Execution, Steps
      <3>3. exec' = [exec EXCEPT ![e] = y]
        BY <2>2 DEF Go, WorkInv, TypeOK
      <3> HIDE DEF y
      <3>4. Presented \subseteq PendingTodos
        BY DEF Presented, PendingTodos
      <3>5. LoopKnows(y, challenge, published')
        BY <1>1, <2>2, <3>1, <3>2, <3>4, InTheLoop DEF LoopKnows
      <3>6. StageKnows(y, flow, challenge, asset)
        BY <1>1, <3>1, <3>2, InTheLoop DEF StageKnows
      <3>7. published' \subseteq 1 .. Challenges /\ published \ published' = {}
        BY <1>0, <2>2, <3>1
      <3> QED
        BY <3>1, <3>2, <3>3, <3>5, <3>6, <3>7, PublishKeepsInv
    <2> QED
      BY <1>12, <2>1, <2>2 DEF Present
  <1> QED
    BY <1>8, <1>9, <1>10, <1>11, <1>12

(* Executor e writes a challenge and goes on as y.                         *)
LEMMA ChallengeKeepsInv ==
  ASSUME WorkInv, NEW e \in Executors, NEW y \in Execution, exec' = [exec EXCEPT ![e] = y],
         LoopKnows(y, challenge', published), StageKnows(y, flow', challenge', asset),
         UNCHANGED <<challengeType, request, published, asset, jobs, submitter, faults>>,
         challenge' \in Seq(ChallengeStatuses), Len(challenge') = Challenges, flow' \in FlowStatuses,
         Grows, FlowInv', IssuedMeansValid', PresentedMeansPublished'
  PROVE  WorkInv'
  <1>1. Knows(y)'
    BY DEF Knows
  <1>2. exec' \in [Executors -> Execution] /\ \A d \in Executors : Knows(exec[d])'
    BY <1>1, OthersKnow
  <1>3. TypeOK'
    BY <1>2 DEF WorkInv, TypeOK
  <1>4. CompletedMeansIssued'
    BY DEF WorkInv, CompletedMeansIssued, Grows
  <1> QED
    BY <1>2, <1>3, <1>4 DEF WorkInv

(* A legal write takes no challenge out of valid or back from its cleanup. *)
LEMMA LegalWrite ==
  ASSUME WorkInv, NEW e \in Executors, exec[e].step = "write",
         NEW status, status = Head(exec[e].todo), status \in ChallengeMoves(challenge[exec[e].at]),
         challenge' = [challenge EXCEPT ![exec[e].at] = status],
         UNCHANGED <<flow, published, asset>>
  PROVE  /\ challenge' \in Seq(ChallengeStatuses) /\ Len(challenge') = Challenges
         /\ challenge'[exec[e].at] = status
         /\ Grows /\ FlowInv' /\ IssuedMeansValid' /\ PresentedMeansPublished'
  <1> DEFINE i == exec[e].at
             old == challenge[i]
  <1>1. /\ i \in 1 .. Challenges /\ DOMAIN challenge = 1 .. Challenges /\ Len(challenge) = Challenges
        /\ challenge \in Seq(ChallengeStatuses) /\ challenge # << >>
        /\ LoopKnows(exec[e], challenge, published)
    BY InTheLoop DEF LoopSteps
  <1>2. /\ status \in ChallengeStatuses /\ old # "valid"
        /\ old \in Gone => status \in Gone
        /\ status = "presented" => old \notin Gone
        /\ status \in {"propagating", "ready", "verifying", "valid"} =>
             old \in {"presented", "propagating", "ready", "verifying"}
    BY DEF ChallengeMoves, ChallengeStatuses, Gone
  <1>3. status = "presented" => i \in published
    <2>1. status = "presented" => exec[e].todo \in Presented
      BY <1>1, TodosGoOn DEF LoopKnows, Presented, LoopSteps
    <2> QED
      BY <1>1, <1>2, <2>1 DEF LoopKnows, Presented, LoopSteps
  <1>4. old \in {"presented", "propagating", "ready", "verifying", "valid"} => i \in published
    BY <1>1 DEF WorkInv, PresentedMeansPublished
  <1>5. /\ challenge' \in Seq(ChallengeStatuses) /\ Len(challenge') = Challenges
        /\ DOMAIN challenge' = 1 .. Challenges
        /\ challenge'[i] = status /\ \A j \in 1 .. Challenges \ {i} : challenge'[j] = challenge[j]
    BY <1>1, <1>2, ExceptSeq
  <1>6. challenge' # << >>
    BY <1>1, <1>5, Constants, EmptySeq
  <1> HIDE DEF i, old
  <1>7. Grows
    <2>1. ASSUME NEW j \in 1 .. Challenges
          PROVE  /\ challenge[j] = "valid" => challenge'[j] = "valid"
                 /\ challenge[j] \in Gone => challenge'[j] \in Gone
      BY <1>2, <1>5 DEF old
    <2>2. asset'.linked \subseteq 1 .. Challenges
      BY DEF WorkInv, TypeOK
    <2> QED
      BY <1>6, <2>1, <2>2 DEF Grows
  <1>8. IssuedMeansValid'
    BY <1>1, <1>2 DEF WorkInv, IssuedMeansValid, old
  <1>9. PresentedMeansPublished'
    <2> SUFFICES ASSUME NEW j \in 1 .. Challenges,
                        challenge'[j] \in {"presented", "propagating", "ready", "verifying", "valid"}
                 PROVE  j \in published
      BY <1>5 DEF PresentedMeansPublished
    <2>1. CASE j = i
      BY <1>2, <1>3, <1>4, <1>5, <2>1
    <2>2. CASE j # i
      BY <1>1, <1>5, <2>2 DEF WorkInv, PresentedMeansPublished
    <2> QED
      BY <2>1, <2>2
  <1> QED
    BY <1>5, <1>6, <1>7, <1>8, <1>9 DEF FlowInv, i

LEMMA TailsAreTyped ==
  ASSUME NEW t \in PendingTodos \cup ProcessingTodos
  PROVE  Tail(t) \in Seq(ChallengeStatuses)
  <1>1. t \in Seq(ChallengeStatuses)
    BY TodosAreTyped
  <1>2. t # << >>
    BY DEF PendingTodos, ProcessingTodos
  <1> QED
    BY <1>1, <1>2, HeadTailProperties

LEMMA WriteChallengeKeepsInv ==
  ASSUME WorkInv, NEW e \in Executors, WriteChallenge(e)
  PROVE  WorkInv'
  <1> DEFINE x == exec[e]
             i == x.at
             status == Head(x.todo)
             legal  == status \in ChallengeMoves(challenge[i])
  <1>0. x.step = "write" /\ x.step \in LoopSteps
    BY DEF WriteChallenge, At, LoopSteps
  <1>1. /\ x \in Execution /\ x.stage \in {"challenge_pending", "challenge_processing"}
        /\ i \in 1 .. Challenges /\ Len(x.list) = Challenges
        /\ challenge # << >> /\ Len(challenge) = Challenges /\ challenge \in Seq(ChallengeStatuses)
        /\ x.stage = "challenge_processing" =>
             /\ \A j \in 1 .. Challenges : x.list[j] = "valid" => challenge[j] = "valid"
             /\ ~x.waits => \A j \in 1 .. i - 1 : challenge[j] = "valid"
    BY <1>0, InTheLoop
  <1>2. x.todo \in IF x.stage = "challenge_pending" THEN PendingTodos ELSE ProcessingTodos
    BY <1>0, InTheLoop DEF LoopKnows
  <1>3. /\ x.stage = "challenge_pending" =>
             status \in {"presenting", "presented", "propagating", "ready"}
        /\ x.stage = "challenge_processing" =>
             status \in {"verifying", "valid", "invalid", "cleanup_pending", "cleaned", "cleanup_failed"}
        /\ status = "presenting" => Tail(x.todo) \in Presented
        /\ status = "presented" => Tail(x.todo) \in PendingTodos \ Presented
        /\ status = "invalid" => Tail(x.todo) = <<"cleanup_pending">>
        /\ Tail(x.todo) \in Seq(ChallengeStatuses)
    BY <1>1, <1>2, TodosGoOn, TailsAreTyped DEF Presented
  <1>4. /\ UNCHANGED <<challengeType, request, flow, published, asset, jobs, submitter, faults>>
        /\ challenge' = IF legal THEN [challenge EXCEPT ![i] = status] ELSE challenge
    BY DEF WriteChallenge
  <1>5. /\ challenge' \in Seq(ChallengeStatuses) /\ Len(challenge') = Challenges
        /\ legal => challenge'[i] = status
        /\ Grows /\ FlowInv' /\ IssuedMeansValid' /\ PresentedMeansPublished'
    <2>1. CASE legal
      BY <1>0, <1>4, <2>1, LegalWrite
    <2>2. CASE ~legal
      BY <1>1, <1>4, <2>2, NothingMoves
    <2> QED
      BY <2>1, <2>2
  <1>6. /\ challenge' # << >>
        /\ \A j \in 1 .. Challenges : challenge[j] = "valid" => challenge'[j] = "valid"
    BY <1>1, <1>5 DEF Grows
  <1>7. /\ \/ (\E step \in {"reject", "present", "cleanup", "write"} :
                 /\ Moves(e, Tail(x.todo), step)
                 /\ step = "present" => status = "presenting"
                 /\ step = "cleanup" => legal /\ status = "cleanup_pending"
                 /\ step = "write" => status \in {"presented", "invalid"})
           \/ Return(e, "over")
           \/ /\ legal /\ status \notin {"cleaned", "cleanup_failed", "presenting", "cleanup_pending",
                                         "presented", "invalid"}
              /\ NextTurn(e, status \in {"propagating", "verifying"})
    BY DEF WriteChallenge, Moves
  <1>8. ASSUME NEW y \in Execution, exec' = [exec EXCEPT ![e] = y],
               LoopKnows(y, challenge', published), StageKnows(y, flow', challenge', asset)
        PROVE  WorkInv'
    <2>1. flow' \in FlowStatuses
      BY <1>4 DEF WorkInv, TypeOK
    <2> QED
      BY <1>4, <1>5, <1>8, <2>1, ChallengeKeepsInv
  <1> HIDE DEF x, i, status, legal
  <1>9. ASSUME NEW step \in {"reject", "present", "cleanup", "write"}, Moves(e, Tail(x.todo), step),
               step = "present" => status = "presenting",
               step = "cleanup" => legal /\ status = "cleanup_pending",
               step = "write" => status \in {"presented", "invalid"}
        PROVE  WorkInv'
    <2>1. PICK y \in Execution :
             /\ exec' = [exec EXCEPT ![e] = y]
             /\ y.todo = Tail(x.todo) /\ y.step = step /\ y.at = i /\ y.stage = x.stage
             /\ y.list = x.list /\ y.waits = x.waits
      <3> DEFINE todo == Tail(x.todo)
      <3>1. step \in Steps /\ todo \in Seq(ChallengeStatuses) /\ Moves(e, todo, step)
        BY <1>3, <1>9 DEF Steps
      <3> HIDE DEF todo
      <3>2. \E y \in Execution :
              /\ exec' = [exec EXCEPT ![e] = y]
              /\ y.todo = todo /\ y.step = step /\ y.at = exec[e].at /\ y.stage = exec[e].stage
              /\ y.list = exec[e].list /\ y.waits = exec[e].waits
        BY <3>1, MovedTo
      <3> QED
        BY <3>2 DEF todo, x, i
    <2>2. /\ y.stage \in {"challenge_pending", "challenge_processing"} /\ y.at \in 1 .. Challenges
          /\ Len(y.list) = Challenges
          /\ y.stage = "challenge_processing" =>
               /\ \A j \in 1 .. Challenges : y.list[j] = "valid" => challenge'[j] = "valid"
               /\ ~y.waits => \A j \in 1 .. y.at - 1 : challenge'[j] = "valid"
      <3>1. 1 .. i - 1 \subseteq 1 .. Challenges
        BY <1>1, Constants
      <3> QED
        BY <1>1, <1>6, <2>1, <3>1
    <2>3. /\ step = "present" => y.stage = "challenge_pending" /\ y.todo \in Presented
          /\ step = "cleanup" => y.stage = "challenge_processing" /\ challenge'[y.at] \in Gone
          /\ step = "write" =>
               y.todo \in (IF y.stage = "challenge_pending" THEN PendingTodos ELSE ProcessingTodos) \ Presented
      <3>1. step = "cleanup" => challenge'[y.at] \in Gone
        BY <1>5, <1>9, <2>1 DEF Gone
      <3>2. <<"cleanup_pending">> \in ProcessingTodos \ Presented
        BY DEF ProcessingTodos, Presented
      <3> QED
        BY <1>1, <1>3, <1>9, <2>1, <3>1, <3>2
    <2>4. LoopKnows(y, challenge', published)
      BY <2>1, <2>2, <2>3 DEF LoopKnows, Presented, LoopSteps
    <2>5. StageKnows(y, flow', challenge', asset)
      BY <1>6, <2>1, <2>2 DEF StageKnows
    <2> QED
      BY <1>8, <2>1, <2>4, <2>5
  <1>10. CASE Return(e, "over")
    <2>1. exec' = [exec EXCEPT ![e] = Executing(x.job, "over", "none")]
      BY <1>10 DEF Return, GoOn, x
    <2>2. /\ Executing(x.job, "over", "none") \in Execution
          /\ LoopKnows(Executing(x.job, "over", "none"), challenge', published)
          /\ StageKnows(Executing(x.job, "over", "none"), flow', challenge', asset)
      <3>1. x.job \in JobKeys
        BY <1>1 DEF Execution
      <3> QED
        BY <3>1, ReturnedKnows
    <2> QED
      BY <1>8, <2>1, <2>2
  <1>11. CASE /\ legal /\ status \notin {"cleaned", "cleanup_failed", "presenting", "cleanup_pending",
                                         "presented", "invalid"}
              /\ NextTurn(e, status \in {"propagating", "verifying"})
    <2> DEFINE waits == status \in {"propagating", "verifying"}
    <2>1. waits \in BOOLEAN /\ NextTurn(e, waits)
      BY <1>11
    <2>2. x.stage = "challenge_processing" /\ ~waits => challenge'[i] = "valid"
      BY <1>3, <1>5, <1>11, <2>1
    <2> HIDE DEF waits
    <2>3. PICK y \in Execution :
             /\ exec' = [exec EXCEPT ![e] = y]
             /\ LoopKnows(y, challenge', published) /\ StageKnows(y, flow', challenge', asset)
      BY <1>0, <1>5, <1>6, <2>1, <2>2, NextTurnKnows DEF x, i
    <2> QED
      BY <1>8, <2>3
  <1> QED
    BY <1>7, <1>9, <1>10, <1>11

LEMMA EnsureChallengesKeepsInv ==
  ASSUME WorkInv, NEW e \in Executors, EnsureChallenges(e)
  PROVE  WorkInv'
  <1>0. /\ request \in RequestStatuses /\ jobs \in JobsType /\ faults \in 0 .. MaxFaults
        /\ exec[e].job \in JobKeys /\ Challenges \in Nat \ {0} /\ flow \in FlowStatuses
    BY Constants DEF WorkInv, TypeOK, JobsType, Execution
  <1>1. /\ UNCHANGED <<challengeType, request, published, asset, jobs, submitter, faults>>
        /\ \/ challenge # << >> /\ UNCHANGED <<flow, challenge>> /\ GoOn(e, "challenge_pending", "schedule")
           \/ challenge = << >> /\ UNCHANGED <<flow, challenge>> /\ Return(e, "over")
           \/ /\ challenge = << >> /\ "challenge_pending" \in FlowMoves(flow)
              /\ challenge' = [k \in 1 .. Challenges |-> "pending"] /\ flow' = "challenge_pending"
              /\ GoOn(e, "challenge_pending", "schedule")
    BY DEF EnsureChallenges, EnterStage
  <1>2. "challenge_pending" \in FlowStatuses /\ "schedule" \in Steps
        /\ "schedule" \in Steps \ (LoopSteps \cup {"link", "complete"})
    BY DEF FlowStatuses, Stages, Steps, LoopSteps
  <1> DEFINE y == Executing(exec[e].job, "schedule", "challenge_pending")
  <1>3. y \in Execution
    BY <1>0, <1>2, ExecutingIs
  <1>4. GoOn(e, "challenge_pending", "schedule") => exec' = [exec EXCEPT ![e] = y]
    BY DEF GoOn
  <1>5. ASSUME NEW ch, ch # << >>, NEW fl PROVE LoopKnows(y, ch, published) /\ StageKnows(y, fl, ch, asset)
    BY <1>0, <1>2, <1>5, ExecutingKnows
  <1> HIDE DEF y
  <1>6. CASE challenge # << >> /\ UNCHANGED <<flow, challenge>> /\ GoOn(e, "challenge_pending", "schedule")
    <2>1. Knows(y)
      BY <1>5, <1>6 DEF Knows
    <2>2. exec' = [exec EXCEPT ![e] = y]
      BY <1>4, <1>6
    <2> QED
      BY <1>0, <1>1, <1>3, <1>6, <2>1, <2>2, AdvanceKeepsInv
  <1>7. CASE UNCHANGED <<flow, challenge>> /\ Return(e, "over")
    BY <1>0, <1>1, <1>7, StepNames, QuietKeepsInv
  <1>8. CASE /\ challenge = << >> /\ "challenge_pending" \in FlowMoves(flow)
             /\ challenge' = [k \in 1 .. Challenges |-> "pending"] /\ flow' = "challenge_pending"
             /\ GoOn(e, "challenge_pending", "schedule")
    <2>1. exec' = [exec EXCEPT ![e] = y]
      BY <1>4, <1>8
    <2>2. /\ challenge' \in Seq(ChallengeStatuses) /\ Len(challenge') = Challenges
          /\ DOMAIN challenge' = 1 .. Challenges /\ challenge' # << >>
      <3>1. "pending" \in ChallengeStatuses
        BY DEF ChallengeStatuses
      <3>2. challenge' \in Seq(ChallengeStatuses) /\ Len(challenge') = Challenges
            /\ DOMAIN challenge' = 1 .. Challenges
        BY <1>0, <1>8, <3>1
      <3> QED
        BY <1>0, <3>2, EmptySeq
    <2>3. Grows
      BY <1>1, <1>8, MovesOfFlow DEF Grows, WorkInv, TypeOK
    <2>4. FlowInv' /\ IssuedMeansValid' /\ flow' \in FlowStatuses
      BY <1>2, <1>8, <2>2 DEF FlowInv, IssuedMeansValid
    <2>5. PresentedMeansPublished'
      BY <1>8, <2>2 DEF PresentedMeansPublished
    <2>6. LoopKnows(y, challenge', published) /\ StageKnows(y, flow', challenge', asset)
      BY <1>5, <2>2
    <2> QED
      BY <1>1, <1>3, <2>1, <2>2, <2>3, <2>4, <2>5, <2>6, ChallengeKeepsInv
  <1> QED
    BY <1>1, <1>6, <1>7, <1>8

-----------------------------------------------------------------------------
(* The invariant.                                                          *)

LEMMA InitIsConsistent == Init => WorkInv
  <1> SUFFICES ASSUME Init PROVE WorkInv
    OBVIOUS
  <1>1. Idle \in Execution
    BY EmptyTodo DEF Idle, Execution, JobKeys, Steps, FlowStatuses
  <1>2. \A e \in Executors : Knows(exec[e])
    BY DEF Init, Knows, LoopKnows, StageKnows, LoopSteps, Idle
  <1>3. << >> \in Seq(ChallengeStatuses) /\ Len(<< >>) = 0
    BY EmptySeq
  <1>4. TypeOK
    BY <1>1, <1>3, Constants DEF Init, TypeOK, RequestStatuses, FlowStatuses, JobStates
  <1>5. FlowInv /\ CompletedMeansIssued /\ IssuedMeansValid /\ PresentedMeansPublished
    BY DEF Init, FlowInv, CompletedMeansIssued, IssuedMeansValid, PresentedMeansPublished
  <1> QED
    BY <1>2, <1>4, <1>5 DEF WorkInv

LEMMA StutterKeepsInv ==
  ASSUME WorkInv, UNCHANGED vars
  PROVE  WorkInv'
  <1>1. /\ UNCHANGED <<flow, challenge, published, asset, exec>>
        /\ UNCHANGED <<request, challengeType, jobs, submitter, faults>>
    BY DEF vars, stores
  <1>2. /\ request \in RequestStatuses /\ challengeType \in {"none"} \cup ChallengeTypes
        /\ jobs \in JobsType /\ submitter \in {"idle", "schedule", "accept"} /\ faults \in 0 .. MaxFaults
    BY DEF WorkInv, TypeOK, JobsType
  <1> QED
    BY <1>1, <1>2, ElsewhereKeepsInv

LEMMA ExecutionKeepsInv ==
  ASSUME WorkInv, NEW e \in Executors, ExecutionStep(e)
  PROVE  WorkInv'
  <1>1. CASE Report(e) \/ ReadRequest(e) \/ ReadFlow(e) \/ ScheduleNext(e)
    BY <1>1, ReadsKeepInv
  <1>2. CASE \/ CreateOrder(e) \/ FinalizeOrder(e) \/ Download(e)
             \/ MarkAccepted(e) \/ MarkRunning(e) \/ FailRequest(e) \/ MarkCompleted(e)
    BY <1>2, CallsKeepInv
  <1>3. CASE \/ EnsureWorkflow(e) \/ RecordOrder(e) \/ StartProcessing(e) \/ MarkValid(e)
             \/ StartFinalizing(e) \/ MarkIssued(e) \/ RejectWorkflow(e) \/ GiveUp(e)
    BY <1>3, StagesKeepInv
  <1>4. CASE PersistVersion(e) \/ LinkDomain(e)
    BY <1>4, AssetKeepsInv
  <1>5. CASE Present(e) \/ CheckPropagation(e) \/ NotifyReady(e) \/ PollAuthorization(e) \/ Cleanup(e)
    BY <1>5, LoopCallsKeepInv
  <1>6. CASE ListChallenges(e)
    BY <1>6, ListKeepsInv
  <1>7. CASE WriteChallenge(e)
    BY <1>7, WriteChallengeKeepsInv
  <1>8. CASE EnsureChallenges(e)
    BY <1>8, EnsureChallengesKeepsInv
  <1> QED
    BY <1>1, <1>2, <1>3, <1>4, <1>5, <1>6, <1>7, <1>8 DEF ExecutionStep, StartStep, ContinueStep

LEMMA StepKeepsInv == WorkInv /\ [Next]_vars => WorkInv'
  <1> SUFFICES ASSUME WorkInv, [Next]_vars PROVE WorkInv'
    OBVIOUS
  <1>1. CASE Create \/ SubmitStep \/ LoseSubmitter \/ Resubmit \/ \E k \in JobKeys : Reap(k)
    BY <1>1, SubmitKeepsInv
  <1>2. ASSUME NEW e \in Executors, NEW k \in JobKeys, Take(e, k) PROVE WorkInv'
    BY <1>2, ReadsKeepInv
  <1>3. ASSUME NEW e \in Executors, Crash(e) PROVE WorkInv'
    BY <1>3, ReadsKeepInv
  <1>4. ASSUME NEW e \in Executors, ExecutionStep(e) PROVE WorkInv'
    BY <1>4, ExecutionKeepsInv
  <1>5. CASE UNCHANGED vars
    BY <1>5, StutterKeepsInv
  <1> QED
    BY <1>1, <1>2, <1>3, <1>4, <1>5 DEF Next

(* Whatever overlaps, crashes or fails, what an execution relies on after  *)
(* it has read the stores remains true of them (ProcessJob).               *)
THEOREM WorkInvariance == Spec => []WorkInv
  BY InitIsConsistent, StepKeepsInv, PTL DEF Spec

(* The stores, the jobs and the executions only take the values declared,  *)
(* and the stages in them are those of the source.                         *)
THEOREM TypeCorrectness == Spec => []TypeOK
  <1>1. WorkInv => TypeOK
    BY DEF WorkInv
  <1> QED
    BY <1>1, WorkInvariance, PTL

(* A request marked completed has its one certificate version, and every   *)
(* domain refers to it, however often completeIssued ran.                  *)
THEOREM CompletedRequestsHaveCertificates == Spec => []CompletedMeansIssued
  <1>1. WorkInv => CompletedMeansIssued
    BY DEF WorkInv
  <1> QED
    BY <1>1, WorkInvariance, PTL

(* A workflow past challenge_processing has only valid challenges, although *)
(* continueChallengeProcessing decides by a list that may be stale.        *)
THEOREM IssuedOnlyWithControl == Spec => []IssuedMeansValid
  <1>1. WorkInv => IssuedMeansValid
    BY DEF WorkInv
  <1> QED
    BY <1>1, WorkInvariance, PTL

(* Every challenge between presented and valid has its material in place:  *)
(* Cleanup only runs for one that has become invalid.                      *)
THEOREM PresentedIsInPlace == Spec => []PresentedMeansPublished
  <1>1. WorkInv => PresentedMeansPublished
    BY DEF WorkInv
  <1> QED
    BY <1>1, WorkInvariance, PTL

-----------------------------------------------------------------------------
(* Workers that do not stop and keep their leases.  Then a held job is     *)
(* executed, one job at a time is under way, and its execution knows where *)
(* the workflow stands.                                                    *)
Active(e) == exec[e].step \notin {"idle", "over"}

Holding ==
  /\ \A k \in JobKeys : jobs[k].stage = "held" =>
       jobs[k].holder \in Executors /\ Executes(jobs[k].holder, k)
  /\ \A e \in Executors : exec[e].step # "idle" =>
       jobs[exec[e].job].stage = "held" /\ jobs[exec[e].job].holder = e

Busy(k) == jobs[k].stage = "queued" \/ (jobs[k].stage = "held" /\ Active(jobs[k].holder))
OneBusy == \A j, k \in JobKeys : Busy(j) /\ Busy(k) => j = k
StartFirst == jobs["start"].stage = "none" => \A k \in JobKeys : jobs[k].stage = "none"

(* What an execution under way knows of the workflow's status.             *)
Blind == {"request", "accept", "run", "workflow", "flow", "fail request", "retry"}
InStage(x, fl) ==
  /\ x.step \notin Blind => x.stage = fl
  /\ x.step \in {"order", "record"} => x.stage \in {"created", "order_pending"}
  /\ x.step = "challenges" => x.stage = "order_pending"
  /\ x.step \in {"finalize", "download"} => x.stage = "finalizing"
  /\ x.step = "give up" => "failed" \in FlowMoves(fl)
  /\ x.step = "fail request" => fl = "failed"

NotYetChallenged == flow \in {"none", "created", "order_pending"} => challenge = << >>

SoleInv ==
  /\ WorkInv /\ Holding /\ OneBusy /\ StartFirst
  /\ NotYetChallenged /\ FailedMeansFlowFailed
  /\ \A e \in Executors : Active(e) => InStage(exec[e], flow)

(* The steps in which an execution goes on, and where they lead.           *)
Works(e) ==
  \/ ReadRequest(e) \/ StartStep(e) \/ ContinueStep(e)
  \/ RejectWorkflow(e) \/ GiveUp(e) \/ FailRequest(e)

Lands(e) ==
  /\ exec' = [exec EXCEPT ![e] = exec'[e]]
  /\ exec'[e].job = exec[e].job /\ exec'[e].step # "idle"
  /\ exec'[e].step # "over" => InStage(exec'[e], flow')

Sound ==
  /\ request' = "failed" => request = "failed" \/ flow' = "failed"
  /\ flow = "failed" => flow' = "failed"
  /\ NotYetChallenged'

LEMMA GoesTo ==
  ASSUME TypeOK, NEW e \in Executors, NEW step, Go(e, step)
  PROVE  /\ exec' = [exec EXCEPT ![e] = exec'[e]]
         /\ exec'[e] = [exec[e] EXCEPT !.step = step]
         /\ exec'[e].job = exec[e].job /\ exec'[e].stage = exec[e].stage /\ exec'[e].step = step
         /\ exec'[e].list = exec[e].list /\ exec'[e].at = exec[e].at
         /\ exec'[e].todo = exec[e].todo /\ exec'[e].waits = exec[e].waits
  BY DEF TypeOK, Go, Execution

LEMMA ExecutingFields ==
  ASSUME NEW job, NEW step, NEW stage
  PROVE  /\ Executing(job, step, stage).job = job /\ Executing(job, step, stage).step = step
         /\ Executing(job, step, stage).stage = stage /\ Executing(job, step, stage).at = 0
  BY DEF Executing, Idle

LEMMA GoesOnTo ==
  ASSUME TypeOK, NEW e \in Executors, NEW stage, NEW step, GoOn(e, stage, step)
  PROVE  /\ exec' = [exec EXCEPT ![e] = exec'[e]]
         /\ exec'[e] = Executing(exec[e].job, step, stage)
         /\ exec'[e].job = exec[e].job /\ exec'[e].stage = stage /\ exec'[e].step = step
  <1>1. exec' = [exec EXCEPT ![e] = Executing(exec[e].job, step, stage)]
    BY DEF GoOn
  <1>2. exec'[e] = Executing(exec[e].job, step, stage)
    BY <1>1 DEF TypeOK
  <1>3. exec' = [exec EXCEPT ![e] = exec'[e]]
    BY <1>1, <1>2
  <1>4. /\ Executing(exec[e].job, step, stage).job = exec[e].job
        /\ Executing(exec[e].job, step, stage).step = step
        /\ Executing(exec[e].job, step, stage).stage = stage
    BY ExecutingFields
  <1> QED
    BY <1>2, <1>3, <1>4

LEMMA ReturnsTo ==
  ASSUME TypeOK, NEW e \in Executors, NEW how, Return(e, how)
  PROVE  /\ exec' = [exec EXCEPT ![e] = exec'[e]]
         /\ exec'[e].job = exec[e].job /\ exec'[e].stage = "none" /\ exec'[e].step = how
  BY GoesOnTo DEF Return

LEMMA TurnsTo ==
  ASSUME NEW x \in Execution, NEW i
  PROVE  /\ TurnTo(x, i).job = x.job
         /\ TurnTo(x, i).step \in {"propagation", "write", "notify", "poll", "process", "validate",
                                   "over", "retry"}
         /\ TurnTo(x, i).step \notin {"over", "retry"} => TurnTo(x, i).stage = x.stage
  <1> DEFINE open == {k \in i .. Len(x.list) : x.list[k] \notin Settled(x.stage)}
             k    == CHOOSE k \in open : \A m \in open : k <= m
             call == CallFor(x.stage, x.list[k])
             way  == WayFrom(x.stage, x.list[k])
             last == IF x.stage = "challenge_pending" THEN "process" ELSE "validate"
  <1>1. /\ open # {} /\ call = "over" => TurnTo(x, i) = Executing(x.job, "over", "none")
        /\ open # {} /\ call # "over" => TurnTo(x, i) = [x EXCEPT !.at = k, !.step = call, !.todo = way]
        /\ open = {} /\ x.waits => TurnTo(x, i) = Executing(x.job, "retry", "none")
        /\ open = {} /\ ~x.waits => TurnTo(x, i) = Executing(x.job, last, x.stage)
    BY DEF TurnTo
  <1>2. call \in {"propagation", "write", "notify", "poll", "over"}
    BY DEF CallFor
  <1>3. last \in {"process", "validate"}
    OBVIOUS
  <1> HIDE DEF open, k, call, way, last
  <1>4. CASE open # {} /\ call # "over"
    <2>1. TurnTo(x, i) = [x EXCEPT !.at = k, !.step = call, !.todo = way]
      BY <1>1, <1>4
    <2>2. TurnTo(x, i).job = x.job /\ TurnTo(x, i).step = call /\ TurnTo(x, i).stage = x.stage
      BY <2>1 DEF Execution
    <2> QED
      BY <1>2, <2>2
  <1>5. CASE open # {} /\ call = "over"
    BY <1>1, <1>5, ExecutingFields
  <1>6. CASE open = {} /\ x.waits
    BY <1>1, <1>6, ExecutingFields
  <1>7. CASE open = {} /\ ~x.waits
    BY <1>1, <1>3, <1>7, ExecutingFields
  <1> QED
    BY <1>4, <1>5, <1>6, <1>7

(* What is left to show of a step, by how it goes on.                      *)
Here(e) ==
  /\ WorkInv /\ NotYetChallenged /\ FailedMeansFlowFailed
  /\ Active(e) /\ InStage(exec[e], flow)

LEMMA ReturnLands ==
  ASSUME NEW e \in Executors, Here(e), NEW how \in {"over", "retry"}, Return(e, how)
  PROVE  Lands(e)
  <1>1. TypeOK
    BY DEF Here, WorkInv
  <1> QED
    BY <1>1, ReturnsTo DEF Lands, InStage, Blind

LEMMA StoresRest ==
  ASSUME NEW e \in Executors, Here(e), UNCHANGED <<request, flow, challenge>>
  PROVE  Sound
  BY DEF Here, Sound, NotYetChallenged

LEMMA FailsLands ==
  ASSUME NEW e \in Executors, Here(e), NEW call, Fails(e, call), "failed" \in FlowMoves(flow),
         exec[e].step \notin Blind, UNCHANGED flow
  PROVE  Lands(e)
  <1>1. TypeOK
    BY DEF Here, WorkInv
  <1>2. CASE Return(e, "retry")
    BY <1>2, ReturnLands
  <1>3. CASE Go(e, "give up")
    <2>1. /\ exec' = [exec EXCEPT ![e] = exec'[e]]
          /\ exec'[e].job = exec[e].job /\ exec'[e].stage = exec[e].stage
          /\ exec'[e].step = "give up"
      BY <1>1, <1>3, GoesTo
    <2>2. exec[e].stage = flow
      BY DEF Here, InStage
    <2> QED
      BY <2>1, <2>2 DEF Lands, InStage, Blind
  <1> QED
    BY <1>2, <1>3 DEF Fails

LEMMA FailedStays ==
  /\ FlowMoves("failed") = {} /\ FlowMoves("none") = {}
  /\ \A fl \in FlowStatuses : "none" \notin FlowMoves(fl) /\ "created" \notin FlowMoves(fl)
  /\ \A fl \in FlowStatuses : "order_pending" \in FlowMoves(fl) => fl = "created"
  /\ \A fl \in FlowStatuses : "challenge_pending" \in FlowMoves(fl) => fl = "order_pending"
  BY DEF FlowMoves, FlowStatuses, Stages

LEMMA MoveLands ==
  ASSUME NEW e \in Executors, Here(e), NEW status \in {"accepted", "running", "completed"},
         NEW next \in {"run", "workflow", "over"}, MoveRequest(e, status, next), UNCHANGED <<flow, challenge>>
  PROVE  Lands(e) /\ Sound
  <1>1. TypeOK
    BY DEF Here, WorkInv
  <1>2. Lands(e)
    <2>1. CASE Return(e, "over")
      BY <2>1, ReturnLands
    <2>2. CASE Go(e, next)
      <3>1. /\ exec' = [exec EXCEPT ![e] = exec'[e]]
            /\ exec'[e].job = exec[e].job /\ exec'[e].step = next
        BY <1>1, <2>2, GoesTo
      <3> QED
        BY <3>1 DEF Lands, InStage, Blind
    <2> QED
      BY <2>1, <2>2 DEF MoveRequest
  <1>3. Sound
    BY DEF Here, Sound, NotYetChallenged, MoveRequest
  <1> QED
    BY <1>2, <1>3

LEMMA EnterLands ==
  ASSUME NEW e \in Executors, Here(e), UNCHANGED <<request, challenge>>,
         NEW stage \in Stages \ {"order_pending"}, NEW next \in {"schedule", "finalize"},
         next = "finalize" => stage = "finalizing", EnterStage(e, stage, next)
  PROVE  Lands(e) /\ Sound
  <1>1. TypeOK /\ flow \in FlowStatuses
    BY DEF Here, WorkInv, TypeOK
  <1>2. CASE Return(e, "over") /\ UNCHANGED flow
    BY <1>2, ReturnLands, StoresRest
  <1>3. CASE stage \in FlowMoves(flow) /\ flow' = stage /\ GoOn(e, stage, next)
    <2>1. /\ exec' = [exec EXCEPT ![e] = exec'[e]]
          /\ exec'[e].job = exec[e].job /\ exec'[e].step = next /\ exec'[e].stage = stage
      BY <1>1, <1>3, GoesOnTo
    <2>2. Lands(e)
      BY <1>3, <2>1 DEF Lands, InStage, Blind
    <2>3. flow' \notin {"none", "created", "order_pending"} /\ flow # "failed"
      BY <1>1, <1>3, FailedStays
    <2>4. Sound
      BY <2>3 DEF Here, Sound, NotYetChallenged, FailedMeansFlowFailed
    <2> QED
      BY <2>2, <2>4
  <1> QED
    BY <1>2, <1>3 DEF EnterStage

(* Executions of the start job.                                            *)
LEMMA StartLands ==
  ASSUME NEW e \in Executors, Here(e), ReadRequest(e) \/ StartStep(e)
  PROVE  Lands(e) /\ Sound
  <1>0. TypeOK /\ flow \in FlowStatuses
    BY DEF Here, WorkInv, TypeOK
  <1>1. CASE ReadRequest(e)
    <2>1. PICK step \in {"accept", "run", "workflow"} : Go(e, step)
      BY <1>1 DEF ReadRequest
    <2>2. /\ exec' = [exec EXCEPT ![e] = exec'[e]]
          /\ exec'[e].job = exec[e].job /\ exec'[e].step = step
      BY <1>0, <2>1, GoesTo
    <2>3. Lands(e)
      BY <2>2 DEF Lands, InStage, Blind
    <2> QED
      BY <1>1, <2>3, StoresRest DEF ReadRequest, stores
  <1>2. CASE MarkAccepted(e)
    BY <1>2, MoveLands DEF MarkAccepted
  <1>3. CASE MarkRunning(e)
    BY <1>3, MoveLands DEF MarkRunning
  <1>4. CASE EnsureWorkflow(e)
    <2>1. PICK step \in {"order", "schedule"} : GoOn(e, flow', step) /\ (step = "order" => flow' \in {"created", "order_pending"})
      BY <1>4 DEF EnsureWorkflow
    <2>2. /\ exec' = [exec EXCEPT ![e] = exec'[e]]
          /\ exec'[e].job = exec[e].job /\ exec'[e].step = step /\ exec'[e].stage = flow'
      BY <1>0, <2>1, GoesOnTo
    <2>3. Lands(e)
      BY <2>1, <2>2 DEF Lands, InStage, Blind
    <2>4. Sound
      BY <1>4 DEF EnsureWorkflow, Here, Sound, NotYetChallenged, FailedMeansFlowFailed
    <2> QED
      BY <2>3, <2>4
  <1>5. CASE CreateOrder(e)
    <2>1. Sound
      BY <1>5, StoresRest DEF CreateOrder, stores
    <2>2. exec[e].stage = flow /\ flow \in {"created", "order_pending"} /\ exec[e].step = "order"
      BY <1>5 DEF CreateOrder, At, Here, InStage, Blind
    <2>3. UNCHANGED flow /\ (Go(e, "record") \/ Fails(e, "order"))
      BY <1>5 DEF CreateOrder, stores
    <2>4. CASE Go(e, "record")
      <3>1. /\ exec' = [exec EXCEPT ![e] = exec'[e]]
            /\ exec'[e].job = exec[e].job /\ exec'[e].step = "record" /\ exec'[e].stage = exec[e].stage
        BY <1>0, <2>4, GoesTo
      <3>2. Lands(e)
        BY <2>2, <2>3, <3>1 DEF Lands, InStage, Blind
      <3> QED
        BY <2>1, <3>2
    <2>5. CASE Fails(e, "order")
      <3>1. "failed" \in FlowMoves(flow) /\ exec[e].step \notin Blind
        BY <2>2 DEF FlowMoves, Blind
      <3> QED
        BY <2>1, <2>3, <2>5, <3>1, FailsLands
    <2> QED
      BY <2>3, <2>4, <2>5
  <1>6. CASE RecordOrder(e)
    <2>1. EnterStage(e, "order_pending", "challenges") /\ UNCHANGED <<request, challenge>>
      BY <1>6 DEF RecordOrder
    <2>2. CASE Return(e, "over") /\ UNCHANGED flow
      BY <2>1, <2>2, ReturnLands, StoresRest
    <2>3. CASE "order_pending" \in FlowMoves(flow) /\ flow' = "order_pending" /\ GoOn(e, "order_pending", "challenges")
      <3>1. /\ exec' = [exec EXCEPT ![e] = exec'[e]]
            /\ exec'[e].job = exec[e].job /\ exec'[e].step = "challenges" /\ exec'[e].stage = "order_pending"
        BY <1>0, <2>3, GoesOnTo
      <3>2. Lands(e)
        BY <2>3, <3>1 DEF Lands, InStage, Blind
      <3>3. flow = "created"
        BY <1>0, <2>3, FailedStays
      <3>4. Sound
        BY <2>1, <3>3 DEF Here, Sound, NotYetChallenged, FailedMeansFlowFailed
      <3> QED
        BY <3>2, <3>4
    <2> QED
      BY <2>1, <2>2, <2>3 DEF EnterStage
  <1>7. CASE EnsureChallenges(e)
    <2>1. exec[e].stage = "order_pending" /\ flow = "order_pending"
      BY <1>7 DEF EnsureChallenges, At, Here, InStage, Blind
    <2>2. challenge = << >> /\ "challenge_pending" \in FlowMoves(flow)
      BY <2>1 DEF Here, NotYetChallenged, FlowMoves
    <2>3. flow' = "challenge_pending" /\ GoOn(e, "challenge_pending", "schedule") /\ UNCHANGED request
      BY <1>7, <2>2 DEF EnsureChallenges, EnterStage
    <2>4. /\ exec' = [exec EXCEPT ![e] = exec'[e]]
          /\ exec'[e].job = exec[e].job /\ exec'[e].step = "schedule" /\ exec'[e].stage = "challenge_pending"
      BY <1>0, <2>3, GoesOnTo
    <2>5. Lands(e)
      BY <2>3, <2>4 DEF Lands, InStage, Blind
    <2> QED
      BY <2>1, <2>3, <2>5 DEF Here, Sound, NotYetChallenged, FailedMeansFlowFailed
  <1> QED
    BY <1>1, <1>2, <1>3, <1>4, <1>5, <1>6, <1>7 DEF StartStep

(* Executions in the loops.                                                *)
LEMMA NextTurnLands ==
  ASSUME NEW e \in Executors, Here(e), NEW waits \in BOOLEAN, NextTurn(e, waits),
         exec[e].step \in LoopSteps, UNCHANGED flow
  PROVE  Lands(e)
  <1> DEFINE z == [exec[e] EXCEPT !.waits = exec[e].waits \/ waits, !.todo = << >>]
  <1>1. exec \in [Executors -> Execution] /\ exec[e] \in Execution /\ exec[e].stage = flow
    BY DEF Here, WorkInv, TypeOK, InStage, Blind, LoopSteps
  <1>2. z \in Execution /\ z.job = exec[e].job /\ z.stage = exec[e].stage
    BY <1>1, EmptyTodo DEF Execution
  <1>3. PICK i : exec' = [exec EXCEPT ![e] = TurnTo(z, i)]
    BY DEF NextTurn
  <1> HIDE DEF z
  <1>4. exec' = [exec EXCEPT ![e] = exec'[e]] /\ exec'[e] = TurnTo(z, i)
    BY <1>1, <1>3
  <1>5. /\ TurnTo(z, i).job = exec[e].job
        /\ TurnTo(z, i).step \in {"propagation", "write", "notify", "poll", "process", "validate",
                                  "over", "retry"}
        /\ TurnTo(z, i).step \notin {"over", "retry"} => TurnTo(z, i).stage = flow'
    BY <1>1, <1>2, TurnsTo
  <1> QED
    BY <1>4, <1>5 DEF Lands, InStage, Blind

LEMMA WritesTo ==
  ASSUME NEW e \in Executors, Here(e), NEW todo, NEW step, Moves(e, todo, step)
  PROVE  /\ exec' = [exec EXCEPT ![e] = exec'[e]]
         /\ exec'[e].job = exec[e].job /\ exec'[e].stage = exec[e].stage /\ exec'[e].step = step
         /\ exec'[e].todo = todo /\ exec'[e].at = exec[e].at /\ exec'[e].list = exec[e].list
  <1>1. exec \in [Executors -> Execution] /\ exec[e] \in Execution
    BY DEF Here, WorkInv, TypeOK
  <1>2. exec' = [exec EXCEPT ![e] = exec'[e]] /\ exec'[e] = [exec[e] EXCEPT !.todo = todo, !.step = step]
    BY <1>1 DEF Moves
  <1> QED
    BY <1>1, <1>2 DEF Execution

LEMMA WriteLands ==
  ASSUME NEW e \in Executors, Here(e), NEW todo, NEW step \in LoopSteps \cup {"reject"},
         Moves(e, todo, step), exec[e].step \in LoopSteps, UNCHANGED flow
  PROVE  Lands(e)
  <1>1. exec[e].stage = flow
    BY DEF Here, InStage, Blind, LoopSteps
  <1>2. /\ exec' = [exec EXCEPT ![e] = exec'[e]]
        /\ exec'[e].job = exec[e].job /\ exec'[e].stage = exec[e].stage /\ exec'[e].step = step
    BY WritesTo
  <1> QED
    BY <1>1, <1>2 DEF Lands, InStage, Blind, LoopSteps

(* The stage of an execution in a loop, and what it means for a failure.   *)
LEMMA LoopStage ==
  ASSUME NEW e \in Executors, Here(e), exec[e].step \in LoopSteps
  PROVE  /\ flow \in {"challenge_pending", "challenge_processing"}
         /\ "failed" \in FlowMoves(flow) /\ exec[e].step \notin Blind /\ exec[e].stage = flow
  <1>1. exec[e].stage \in {"challenge_pending", "challenge_processing"}
    BY InTheLoop DEF Here
  <1>2. exec[e].step \notin Blind
    BY DEF Blind, LoopSteps
  <1>3. exec[e].stage = flow
    BY <1>2 DEF Here, InStage
  <1> QED
    BY <1>1, <1>2, <1>3 DEF FlowMoves

LEMMA LoopLands ==
  ASSUME NEW e \in Executors, Here(e),
         \/ Present(e) \/ CheckPropagation(e) \/ NotifyReady(e) \/ PollAuthorization(e)
         \/ Cleanup(e) \/ WriteChallenge(e)
  PROVE  Lands(e) /\ Sound
  <1>0. TypeOK
    BY DEF Here, WorkInv
  <1>1. exec[e].step \in LoopSteps
    BY DEF Present, CheckPropagation, NotifyReady, PollAuthorization, Cleanup, WriteChallenge, At, LoopSteps
  <1>2. UNCHANGED <<request, flow>>
    BY DEF Present, CheckPropagation, NotifyReady, PollAuthorization, Cleanup, WriteChallenge, stores
  <1>3. Sound
    BY <1>1, <1>2, LoopStage DEF Here, Sound, NotYetChallenged, FailedMeansFlowFailed
  <1>4. {"write", "present", "cleanup", "reject"} \subseteq LoopSteps \cup {"reject"}
    BY DEF LoopSteps
  <1>5. ASSUME NEW todo, Write(e, todo)
        PROVE  Lands(e)
    BY <1>1, <1>2, <1>4, <1>5, WriteLands DEF Write, Moves
  <1>6. ASSUME NEW call, Fails(e, call)
        PROVE  Lands(e)
    BY <1>1, <1>2, <1>6, LoopStage, FailsLands
  <1>7. CASE Present(e)
    <2>1. CASE Go(e, "write")
      <3>1. /\ exec' = [exec EXCEPT ![e] = exec'[e]]
            /\ exec'[e].job = exec[e].job /\ exec'[e].stage = exec[e].stage /\ exec'[e].step = "write"
        BY <1>0, <2>1, GoesTo
      <3>2. Lands(e)
        BY <1>1, <1>2, <3>1, LoopStage DEF Lands, InStage, Blind
      <3> QED
        BY <1>3, <3>2
    <2> QED
      BY <1>3, <1>6, <1>7, <2>1 DEF Present
  <1>8. CASE CheckPropagation(e) \/ NotifyReady(e) \/ PollAuthorization(e) \/ Cleanup(e)
    BY <1>1, <1>2, <1>3, <1>5, <1>6, <1>8, NextTurnLands, ReturnLands
    DEF CheckPropagation, NotifyReady, PollAuthorization, Cleanup, NotYet
  <1>9. CASE WriteChallenge(e)
    <2> DEFINE todo == Tail(exec[e].todo)
    <2>1. \/ Return(e, "over")
          \/ \E step \in {"write", "present", "cleanup", "reject"} : Moves(e, todo, step)
          \/ NextTurn(e, Head(exec[e].todo) \in {"propagating", "verifying"})
      BY <1>9 DEF WriteChallenge, Moves
    <2> HIDE DEF todo
    <2>2. ASSUME NEW step \in {"write", "present", "cleanup", "reject"}, Moves(e, todo, step)
          PROVE  Lands(e)
      BY <1>1, <1>2, <1>4, <2>2, WriteLands
    <2>3. (Head(exec[e].todo) \in {"propagating", "verifying"}) \in BOOLEAN
      OBVIOUS
    <2> QED
      BY <1>1, <1>2, <1>3, <2>1, <2>2, <2>3, NextTurnLands, ReturnLands
  <1> QED
    BY <1>7, <1>8, <1>9

(* An execution that goes to a step that asks nothing but the stage.       *)
LEMMA GoLands ==
  ASSUME NEW e \in Executors, Here(e), UNCHANGED flow, exec[e].step \notin Blind,
         NEW step \in {"download", "issue", "link"}, Go(e, step),
         step = "download" => exec[e].stage = "finalizing"
  PROVE  Lands(e)
  <1>1. TypeOK /\ exec[e].stage = flow
    BY DEF Here, WorkInv, InStage
  <1>2. /\ exec' = [exec EXCEPT ![e] = exec'[e]]
        /\ exec'[e].job = exec[e].job /\ exec'[e].stage = exec[e].stage /\ exec'[e].step = step
    BY <1>1, GoesTo
  <1> QED
    BY <1>1, <1>2 DEF Lands, InStage, Blind

LEMMA ListLands ==
  ASSUME NEW e \in Executors, Here(e), ListChallenges(e)
  PROVE  Lands(e) /\ Sound
  <1>1. /\ exec \in [Executors -> Execution] /\ exec[e] \in Execution /\ exec[e].stage = flow
        /\ exec[e].stage \in FlowStatuses /\ challenge \in Seq(ChallengeStatuses)
    BY DEF Here, WorkInv, TypeOK, InStage, Blind, ListChallenges, At, Execution
  <1>2. UNCHANGED <<request, flow, challenge>>
    BY DEF ListChallenges, stores
  <1> DEFINE x == [exec[e] EXCEPT !.list = challenge]
  <1>3. x \in Execution /\ x.job = exec[e].job /\ x.stage = exec[e].stage
    BY <1>1 DEF Execution
  <1>4. PICK y : /\ exec' = [exec EXCEPT ![e] = y]
                 /\ \/ y = TurnTo(x, 1)
                    \/ exec[e].stage = "challenge_valid" /\ y = Executing(exec[e].job, "finalizing", exec[e].stage)
                    \/ exec[e].stage = "finalizing" /\ y = Executing(exec[e].job, "finalize", exec[e].stage)
                    \/ exec[e].stage = "issued" /\ y = Executing(exec[e].job, "persist", exec[e].stage)
                    \/ y = Executing(exec[e].job, "over", "none")
    BY <1>1 DEF ListChallenges
  <1> HIDE DEF x
  <1>5. exec' = [exec EXCEPT ![e] = exec'[e]] /\ exec'[e] = y
    BY <1>1, <1>4
  <1>6. y.job = exec[e].job /\ y.step # "idle" /\ (y.step # "over" => InStage(y, flow))
    <2>1. CASE y = TurnTo(x, 1)
      <3>1. /\ TurnTo(x, 1).job = exec[e].job
            /\ TurnTo(x, 1).step \in {"propagation", "write", "notify", "poll", "process", "validate",
                                      "over", "retry"}
            /\ TurnTo(x, 1).step \notin {"over", "retry"} => TurnTo(x, 1).stage = flow
        BY <1>1, <1>3, TurnsTo
      <3> QED
        BY <2>1, <3>1 DEF InStage, Blind
    <2>2. ASSUME NEW step \in {"finalizing", "finalize", "persist"},
                 y = Executing(exec[e].job, step, exec[e].stage),
                 step = "finalize" => exec[e].stage = "finalizing"
          PROVE  y.job = exec[e].job /\ y.step # "idle" /\ InStage(y, flow)
      <3>1. y.job = exec[e].job /\ y.step = step /\ y.stage = flow
        BY <1>1, <2>2, ExecutingFields
      <3> QED
        BY <1>1, <2>2, <3>1 DEF InStage, Blind
    <2>3. CASE y = Executing(exec[e].job, "over", "none")
      BY <2>3, ExecutingFields
    <2> QED
      BY <1>4, <2>1, <2>2, <2>3
  <1> QED
    BY <1>2, <1>5, <1>6, StoresRest DEF Lands

LEMMA FinishLands ==
  ASSUME NEW e \in Executors, Here(e),
         \/ FinalizeOrder(e) \/ Download(e) \/ PersistVersion(e) \/ LinkDomain(e)
  PROVE  Lands(e) /\ Sound
  <1>0. TypeOK
    BY DEF Here, WorkInv
  <1>1. exec[e].step \in {"finalize", "download", "persist", "link"}
    BY DEF FinalizeOrder, Download, PersistVersion, LinkDomain, At
  <1>2. exec[e].step \notin Blind /\ exec[e].stage = flow
        /\ (exec[e].step \in {"finalize", "download"} => exec[e].stage = "finalizing")
    BY <1>1 DEF Here, InStage, Blind
  <1>3. UNCHANGED <<request, flow, challenge>>
    BY DEF FinalizeOrder, Download, PersistVersion, LinkDomain, stores
  <1>4. Sound
    BY <1>3, StoresRest
  <1>5. CASE FinalizeOrder(e) \/ Download(e)
    <2>1. exec[e].stage = "finalizing" /\ "failed" \in FlowMoves(flow)
      BY <1>2, <1>5 DEF FinalizeOrder, Download, At, FlowMoves
    <2>2. PICK step, call : (step \in {"download", "issue"} /\ Go(e, step)) \/ Fails(e, call)
      BY <1>5 DEF FinalizeOrder, Download
    <2> QED
      BY <1>2, <1>3, <1>4, <2>1, <2>2, GoLands, FailsLands
  <1>6. ASSUME NEW call \in PersistCalls, Fails(e, call)
        PROVE  Lands(e)
    <2>1. call \notin Permanent
      BY <1>6, WorkflowAssumption DEF WorkflowAssumption, PersistCalls, AdapterCalls
    <2> QED
      BY <1>6, <2>1, ReturnLands DEF Fails
  <1>7. CASE PersistVersion(e)
    <2>1. Go(e, "link") \/ Fails(e, "persist")
      BY <1>7 DEF PersistVersion
    <2> QED
      BY <1>2, <1>3, <1>4, <1>6, <2>1, GoLands DEF PersistCalls
  <1>8. CASE LinkDomain(e)
    <2>1. CASE Fails(e, "link")
      BY <1>4, <1>6, <2>1 DEF PersistCalls
    <2>2. ASSUME NEW i, NEW step \in {"complete", "link"},
                 exec' = [exec EXCEPT ![e].at = i, ![e].step = step]
          PROVE  Lands(e)
      <3>1. exec' = [exec EXCEPT ![e] = exec'[e]] /\ exec'[e] = [exec[e] EXCEPT !.at = i, !.step = step]
        BY <1>0, <2>2 DEF TypeOK
      <3>2. exec'[e].job = exec[e].job /\ exec'[e].step = step /\ exec'[e].stage = exec[e].stage
        BY <1>0, <3>1 DEF TypeOK, Execution
      <3> QED
        BY <1>2, <1>3, <3>1, <3>2 DEF Lands, InStage, Blind
    <2>3. \/ Fails(e, "link")
          \/ \E i : \E step \in {"complete", "link"} :
               exec' = [exec EXCEPT ![e].at = i, ![e].step = step]
      <3> DEFINE i == exec[e].at + 1
      <3>1. \/ Fails(e, "link")
            \/ exec' = [exec EXCEPT ![e].at = i, ![e].step = IF i = Challenges THEN "complete" ELSE "link"]
        BY <1>8 DEF LinkDomain
      <3> HIDE DEF i
      <3> QED
        BY <3>1
    <2> QED
      BY <1>4, <2>1, <2>2, <2>3
  <1> QED
    BY <1>5, <1>7, <1>8

LEMMA WorkLands ==
  ASSUME NEW e \in Executors, Here(e), Works(e)
  PROVE  Lands(e) /\ Sound
  <1>0. TypeOK
    BY DEF Here, WorkInv
  <1>1. CASE ReadRequest(e) \/ StartStep(e)
    BY <1>1, StartLands
  <1>2. CASE ReadFlow(e)
    <2>1. GoOn(e, flow, "list") /\ UNCHANGED <<request, flow, challenge>>
      BY <1>2 DEF ReadFlow, stores
    <2>2. /\ exec' = [exec EXCEPT ![e] = exec'[e]]
          /\ exec'[e].job = exec[e].job /\ exec'[e].stage = flow /\ exec'[e].step = "list"
      BY <1>0, <2>1, GoesOnTo
    <2>3. Lands(e)
      BY <2>1, <2>2 DEF Lands, InStage, Blind
    <2> QED
      BY <2>1, <2>3, StoresRest
  <1>3. CASE ListChallenges(e)
    BY <1>3, ListLands
  <1>4. CASE \/ Present(e) \/ CheckPropagation(e) \/ NotifyReady(e) \/ PollAuthorization(e)
             \/ Cleanup(e) \/ WriteChallenge(e)
    BY <1>4, LoopLands
  <1>5. CASE StartProcessing(e) \/ MarkValid(e) \/ StartFinalizing(e) \/ MarkIssued(e)
    <2>1. \E stage \in Stages \ {"order_pending"}, next \in {"schedule", "finalize"} :
            EnterStage(e, stage, next) /\ (next = "finalize" => stage = "finalizing")
      <3>1. {"challenge_processing", "challenge_valid", "finalizing", "issued"} \subseteq Stages \ {"order_pending"}
        BY DEF Stages
      <3> QED
        BY <1>5, <3>1 DEF StartProcessing, MarkValid, StartFinalizing, MarkIssued
    <2>2. UNCHANGED <<request, challenge>>
      BY <1>5 DEF StartProcessing, MarkValid, StartFinalizing, MarkIssued
    <2> QED
      BY <2>1, <2>2, EnterLands
  <1>6. CASE FinalizeOrder(e) \/ Download(e) \/ PersistVersion(e) \/ LinkDomain(e)
    BY <1>6, FinishLands
  <1>7. CASE MarkCompleted(e)
    BY <1>7, MoveLands DEF MarkCompleted
  <1>8. CASE RejectWorkflow(e) \/ GiveUp(e)
    <2>1. UNCHANGED <<request, challenge>>
      BY <1>8 DEF RejectWorkflow, GiveUp
    <2>2. CASE Return(e, "over") /\ UNCHANGED flow
      BY <2>1, <2>2, ReturnLands, StoresRest
    <2>3. CASE flow' = "failed" /\ GoOn(e, "none", "fail request")
      <3>1. /\ exec' = [exec EXCEPT ![e] = exec'[e]]
            /\ exec'[e].job = exec[e].job /\ exec'[e].step = "fail request"
        BY <1>0, <2>3, GoesOnTo
      <3>2. Lands(e)
        BY <2>3, <3>1 DEF Lands, InStage, Blind
      <3> QED
        BY <2>1, <2>3, <3>2 DEF Here, Sound, NotYetChallenged
    <2>4. "failed" \in FlowMoves(flow) \/ RejectWorkflow(e)
      BY <1>8 DEF GiveUp, At, Here, InStage
    <2> QED
      BY <1>8, <2>2, <2>3, <2>4 DEF RejectWorkflow, GiveUp
  <1>9. CASE FailRequest(e)
    <2>1. flow = "failed" /\ MoveRequest(e, "failed", "over") /\ UNCHANGED <<flow, challenge>>
      BY <1>9 DEF FailRequest, At, Here, InStage
    <2>2. Sound
      BY <2>1 DEF Here, Sound, NotYetChallenged
    <2>3. CASE Return(e, "over")
      BY <2>2, <2>3, ReturnLands
    <2>4. CASE Go(e, "over")
      <3>1. exec' = [exec EXCEPT ![e] = exec'[e]] /\ exec'[e].job = exec[e].job /\ exec'[e].step = "over"
        BY <1>0, <2>4, GoesTo
      <3> QED
        BY <2>2, <3>1 DEF Lands
    <2> QED
      BY <2>1, <2>3, <2>4 DEF MoveRequest
  <1> QED
    BY <1>1, <1>2, <1>3, <1>4, <1>5, <1>6, <1>7, <1>8, <1>9 DEF Works, ContinueStep

(* The jobs: one is under way, and only its execution schedules another.   *)
LEMMA EnsuredIs ==
  ASSUME TypeOK, NEW k \in JobKeys, jobs' = Ensured(k)
  PROVE  /\ \A j \in JobKeys \ {k} : jobs'[j] = jobs[j]
         /\ jobs'[k].stage = IF jobs[k].stage = "none" THEN "queued" ELSE jobs[k].stage
         /\ jobs'[k].tries = jobs[k].tries /\ jobs'[k].holder = jobs[k].holder
  BY DEF Ensured, TypeOK, JobStates

LEMMA Alone ==
  ASSUME Holding, OneBusy, NEW e \in Executors, Active(e), exec[e].job \in JobKeys,
         NEW f \in Executors, Active(f), exec[f].job \in JobKeys
  PROVE  e = f
  <1>1. /\ jobs[exec[e].job].stage = "held" /\ jobs[exec[e].job].holder = e
        /\ jobs[exec[f].job].stage = "held" /\ jobs[exec[f].job].holder = f
    BY DEF Holding, Active
  <1>2. Busy(exec[e].job) /\ Busy(exec[f].job)
    BY <1>1 DEF Busy
  <1> QED
    BY <1>1, <1>2 DEF OneBusy

LEMMA JobsOfExecutions ==
  ASSUME TypeOK
  PROVE  /\ \A e \in Executors : exec[e].job \in JobKeys
         /\ \A k \in JobKeys : jobs[k].stage \in {"none", "queued", "held", "over"}
         /\ Stages \subseteq JobKeys /\ "start" \in JobKeys
  BY DEF TypeOK, Execution, JobStates, JobKeys

LEMMA WorkIsUnderWay ==
  ASSUME NEW e \in Executors, Works(e)
  PROVE  /\ exec[e].step \notin {"idle", "over", "retry"} /\ Active(e)
         /\ UNCHANGED <<jobs, submitter>> /\ ExecutionStep(e)
  <1>1. CASE ReadRequest(e) \/ StartStep(e)
    BY <1>1 DEF ReadRequest, StartStep, MarkAccepted, MarkRunning, EnsureWorkflow, CreateOrder,
                RecordOrder, EnsureChallenges, At, stores, Active, ExecutionStep
  <1>2. CASE RejectWorkflow(e) \/ GiveUp(e) \/ FailRequest(e)
    BY <1>2 DEF RejectWorkflow, GiveUp, FailRequest, At, stores, Active, ExecutionStep
  <1>3. CASE ContinueStep(e)
    BY <1>3 DEF ContinueStep, ReadFlow, ListChallenges, Present, CheckPropagation, StartProcessing,
                NotifyReady, PollAuthorization, Cleanup, MarkValid, WriteChallenge, StartFinalizing,
                FinalizeOrder, Download, MarkIssued, PersistVersion, LinkDomain, MarkCompleted,
                At, stores, Active, ExecutionStep
  <1> QED
    BY <1>1, <1>2, <1>3 DEF Works

LEMMA WorkKeepsSole ==
  ASSUME SoleInv, NEW e \in Executors, Works(e)
  PROVE  SoleInv'
  <1>1. /\ Active(e) /\ exec[e].step \notin {"idle", "over", "retry"}
        /\ UNCHANGED <<jobs, submitter>> /\ ExecutionStep(e)
    BY WorkIsUnderWay
  <1>2. TypeOK /\ WorkInv' /\ Here(e)
    BY <1>1, ExecutionKeepsInv DEF SoleInv, WorkInv, Here
  <1>3. Lands(e) /\ Sound
    BY <1>2, WorkLands
  <1>4. /\ \A f \in Executors \ {e} : exec'[f] = exec[f] /\ ~Active(f)
        /\ exec'[e].job = exec[e].job /\ exec'[e].step # "idle"
    <2>1. \A f \in Executors \ {e} : exec'[f] = exec[f]
      BY <1>2, <1>3 DEF Lands, TypeOK
    <2>2. \A f \in Executors \ {e} : ~Active(f)
      BY <1>1, <1>2, Alone, JobsOfExecutions DEF SoleInv
    <2> QED
      BY <1>3, <2>1, <2>2 DEF Lands
  <1>5. Holding'
    BY <1>1, <1>4 DEF SoleInv, Holding, Executes
  <1>6. OneBusy'
    <2>1. ASSUME NEW k \in JobKeys, Busy(k)' PROVE Busy(k)
      <3>1. jobs[k].stage = "held" => jobs[k].holder \in Executors
        BY DEF SoleInv, Holding
      <3> QED
        BY <1>1, <1>4, <2>1, <3>1 DEF Busy, Active
    <2> QED
      BY <2>1 DEF SoleInv, OneBusy
  <1>7. StartFirst' /\ NotYetChallenged' /\ FailedMeansFlowFailed'
    BY <1>1, <1>3 DEF SoleInv, StartFirst, Sound, FailedMeansFlowFailed
  <1>8. ASSUME NEW f \in Executors, Active(f)' PROVE InStage(exec'[f], flow')
    BY <1>3, <1>4, <1>8 DEF Active, Lands
  <1> QED
    BY <1>2, <1>5, <1>6, <1>7, <1>8 DEF SoleInv

(* The jobs of the submitter: the first of all.                            *)
LEMMA SubmitKeepsSole ==
  ASSUME SoleInv, WorkInv', UNCHANGED <<exec, flow, challenge>>,
         request' = "failed" => request = "failed",
         jobs' = jobs \/ jobs' = Ensured("start")
  PROVE  SoleInv'
  <1>1. TypeOK /\ "start" \in JobKeys
    BY JobsOfExecutions DEF SoleInv, WorkInv
  <1>2. NotYetChallenged' /\ FailedMeansFlowFailed' /\ \A e \in Executors : Active(e)' => InStage(exec'[e], flow')
    BY DEF SoleInv, NotYetChallenged, FailedMeansFlowFailed, Active
  <1>3. CASE jobs' = jobs
    BY <1>2, <1>3 DEF SoleInv, Holding, OneBusy, StartFirst, Executes, Busy, Active
  <1>4. CASE jobs' = Ensured("start") /\ jobs["start"].stage # "none"
    BY <1>3, <1>4 DEF Ensured
  <1>5. CASE jobs' = Ensured("start") /\ jobs["start"].stage = "none"
    <2>1. /\ \A j \in JobKeys \ {"start"} : jobs'[j] = jobs[j]
          /\ jobs'["start"].stage = "queued" /\ \A j \in JobKeys : jobs[j].stage = "none"
      BY <1>1, <1>5, EnsuredIs DEF SoleInv, StartFirst
    <2>2. \A e \in Executors : exec[e].step = "idle"
      BY <1>1, <2>1, JobsOfExecutions DEF SoleInv, Holding
    <2>3. Holding'
      BY <2>1, <2>2 DEF Holding
    <2>4. \A j \in JobKeys : Busy(j)' => j = "start"
      BY <2>1 DEF Busy
    <2>5. OneBusy' /\ StartFirst'
      BY <2>1, <2>4 DEF OneBusy, StartFirst
    <2> QED
      BY <1>2, <2>3, <2>5 DEF SoleInv
  <1> QED
    BY <1>3, <1>4, <1>5

LEMMA TakeKeepsSole ==
  ASSUME SoleInv, WorkInv', NEW e \in Executors, NEW k \in JobKeys, Take(e, k)
  PROVE  SoleInv'
  <1>1. TypeOK /\ e # Nobody
    BY Constants DEF SoleInv, WorkInv
  <1> DEFINE step == IF k = "start" THEN "request" ELSE "flow"
  <1>2. /\ exec[e].step = "idle" /\ jobs[k].stage = "queued"
        /\ jobs' = [jobs EXCEPT ![k] = [stage |-> "held", tries |-> jobs[k].tries + 1, holder |-> e]]
        /\ exec' = [exec EXCEPT ![e] = Executing(k, step, "none")]
        /\ UNCHANGED <<request, flow, challenge>>
    BY <1>1 DEF Take, TypeOK
  <1>3. /\ \A j \in JobKeys \ {k} : jobs'[j] = jobs[j]
        /\ jobs'[k].stage = "held" /\ jobs'[k].holder = e
    BY <1>1, <1>2 DEF TypeOK
  <1>4. /\ \A f \in Executors \ {e} : exec'[f] = exec[f]
        /\ exec'[e].job = k /\ exec'[e].step = step
    BY <1>1, <1>2, ExecutingFields DEF TypeOK
  <1>5. step \in Blind /\ step \notin {"idle", "over", "retry", "fail request"}
    BY DEF Blind
  <1> HIDE DEF step
  <1>6. \A f \in Executors \ {e} : exec[f].step # "idle" => exec[f].job \in JobKeys \ {k}
    BY <1>1, <1>2, JobsOfExecutions DEF SoleInv, Holding
  <1>7. \A j \in JobKeys \ {k} : jobs[j].stage = "held" => jobs[j].holder \in Executors \ {e}
    BY <1>2 DEF SoleInv, Holding, Executes
  <1>8. Holding'
    <2>1. ASSUME NEW j \in JobKeys, jobs'[j].stage = "held"
          PROVE  /\ jobs'[j].holder \in Executors
                 /\ exec'[jobs'[j].holder].step # "idle" /\ exec'[jobs'[j].holder].job = j
      <3>1. CASE j = k
        BY <1>3, <1>4, <1>5, <3>1
      <3>2. CASE j # k
        <4>1. jobs'[j] = jobs[j] /\ jobs[j].holder \in Executors \ {e}
          BY <1>3, <1>7, <2>1, <3>2
        <4>2. exec[jobs[j].holder].step # "idle" /\ exec[jobs[j].holder].job = j
          BY <2>1, <4>1 DEF SoleInv, Holding, Executes
        <4> QED
          BY <1>4, <4>1, <4>2
      <3> QED
        BY <3>1, <3>2
    <2>2. ASSUME NEW f \in Executors, exec'[f].step # "idle"
          PROVE  jobs'[exec'[f].job].stage = "held" /\ jobs'[exec'[f].job].holder = f
      BY <1>3, <1>4, <1>6, <2>2 DEF SoleInv, Holding
    <2> QED
      BY <2>1, <2>2 DEF Holding, Executes
  <1>9. \A j \in JobKeys : Busy(j)' => Busy(j)
    BY <1>2, <1>3, <1>4, <1>7 DEF Busy, Active
  <1>10. OneBusy' /\ StartFirst'
    <2>1. OneBusy'
      BY <1>9 DEF SoleInv, OneBusy
    <2>2. jobs["start"].stage # "none"
      BY <1>2 DEF SoleInv, StartFirst
    <2>3. jobs'["start"].stage # "none"
      BY <1>1, <1>3, <2>2, JobsOfExecutions
    <2> QED
      BY <2>1, <2>3 DEF StartFirst
  <1>11. ASSUME NEW f \in Executors, Active(f)' PROVE InStage(exec'[f], flow')
    <2>1. CASE f = e
      <3>1. InStage(exec'[e], flow)
        BY <1>4, <1>5 DEF InStage, step, Blind
      <3> QED
        BY <1>2, <2>1, <3>1
    <2>2. CASE f # e
      <3>1. exec'[f] = exec[f]
        BY <1>4, <2>2
      <3>2. Active(f) /\ flow' = flow
        BY <1>2, <1>11, <3>1 DEF Active
      <3> QED
        BY <3>1, <3>2 DEF SoleInv
    <2> QED
      BY <2>1, <2>2
  <1>12. NotYetChallenged' /\ FailedMeansFlowFailed'
    BY <1>2 DEF SoleInv, NotYetChallenged, FailedMeansFlowFailed
  <1> QED
    BY <1>8, <1>10, <1>11, <1>12 DEF SoleInv

LEMMA ReportKeepsSole ==
  ASSUME SoleInv, WorkInv', NEW e \in Executors, Report(e)
  PROVE  SoleInv'
  <1> DEFINE k == exec[e].job
             again == exec[e].step = "retry"
  <1>1. TypeOK /\ k \in JobKeys /\ e # Nobody
    BY JobsOfExecutions, Constants DEF SoleInv, WorkInv
  <1>2. exec[e].step \in {"over", "retry"} /\ jobs[k].stage = "held" /\ jobs[k].holder = e
    BY DEF Report, SoleInv, Holding
  <1>3. /\ jobs' = Released(k, again) /\ exec' = [exec EXCEPT ![e] = Idle]
        /\ UNCHANGED <<request, flow, challenge>>
    BY <1>2 DEF Report
  <1>4. /\ \A f \in Executors \ {e} : exec'[f] = exec[f]
        /\ exec'[e].step = "idle"
    BY <1>1, <1>3 DEF TypeOK, Idle
  <1>5. /\ \A j \in JobKeys \ {k} : jobs'[j] = jobs[j]
        /\ jobs'[k].stage \in {"queued", "over"} /\ (jobs'[k].stage = "queued" => again)
    <2>1. jobs \in [JobKeys -> JobStates]
      BY <1>1 DEF TypeOK
    <2> HIDE DEF k, again
    <2> QED
      BY <1>1, <1>3, <2>1 DEF Released, JobStates
  <1>6. again => Active(e)
    BY <1>2 DEF Active
  <1>7. \A f \in Executors \ {e} : exec[f].step # "idle" => exec[f].job \in JobKeys \ {k}
    BY <1>1, <1>2, JobsOfExecutions DEF SoleInv, Holding
  <1>8. \A j \in JobKeys \ {k} : jobs[j].stage = "held" => jobs[j].holder \in Executors \ {e}
    BY DEF SoleInv, Holding, Executes
  <1> HIDE DEF k, again
  <1>9. Holding'
    <2>1. ASSUME NEW j \in JobKeys, jobs'[j].stage = "held"
          PROVE  /\ jobs'[j].holder \in Executors
                 /\ exec'[jobs'[j].holder].step # "idle" /\ exec'[jobs'[j].holder].job = j
      BY <1>4, <1>5, <1>8, <2>1 DEF SoleInv, Holding, Executes
    <2>2. ASSUME NEW f \in Executors, exec'[f].step # "idle"
          PROVE  jobs'[exec'[f].job].stage = "held" /\ jobs'[exec'[f].job].holder = f
      BY <1>4, <1>5, <1>7, <2>2 DEF SoleInv, Holding
    <2> QED
      BY <2>1, <2>2 DEF Holding, Executes
  <1>10. \A j \in JobKeys : Busy(j)' => Busy(j)
    BY <1>2, <1>4, <1>5, <1>6, <1>8 DEF Busy, Active
  <1>11. OneBusy' /\ StartFirst'
    <2>1. OneBusy'
      BY <1>10 DEF SoleInv, OneBusy
    <2>2. jobs["start"].stage # "none"
      BY <1>1, <1>2 DEF SoleInv, StartFirst
    <2>3. jobs'["start"].stage # "none"
      BY <1>1, <1>5, <2>2, JobsOfExecutions
    <2> QED
      BY <2>1, <2>3 DEF StartFirst
  <1>12. ASSUME NEW f \in Executors, Active(f)' PROVE InStage(exec'[f], flow')
    BY <1>3, <1>4, <1>12 DEF SoleInv, Active
  <1>13. NotYetChallenged' /\ FailedMeansFlowFailed'
    BY <1>3 DEF SoleInv, NotYetChallenged, FailedMeansFlowFailed
  <1> QED
    BY <1>9, <1>11, <1>12, <1>13 DEF SoleInv

(* The last step of an execution: its job is no longer busy, the one it    *)
(* schedules is.                                                           *)
LEMMA ScheduleKeepsSole ==
  ASSUME SoleInv, WorkInv', NEW e \in Executors, ScheduleNext(e)
  PROVE  SoleInv'
  <1> DEFINE k == exec[e].job
             s == exec[e].stage
  <1>1. TypeOK /\ k \in JobKeys
    BY JobsOfExecutions DEF SoleInv, WorkInv
  <1>2. exec[e].step = "schedule" /\ Active(e)
    BY DEF ScheduleNext, At, Active
  <1>3. s \in JobKeys
    <2>1. s \in FlowStatuses /\ s # "none"
      BY <1>1, <1>2 DEF SoleInv, WorkInv, Knows, StageKnows, TypeOK, Execution
    <2> QED
      BY <2>1 DEF FlowStatuses, JobKeys
  <1>4. /\ jobs' = jobs \/ jobs' = Ensured(s)
        /\ Return(e, "over") /\ UNCHANGED <<request, flow, challenge>>
    BY DEF ScheduleNext
  <1>5. /\ \A f \in Executors \ {e} : exec'[f] = exec[f]
        /\ exec'[e].job = k /\ exec'[e].step = "over"
    BY <1>1, <1>4, ReturnsTo DEF TypeOK
  <1>6. jobs[k].stage = "held" /\ jobs[k].holder = e /\ Busy(k)
    BY <1>2 DEF SoleInv, Holding, Active, Busy
  <1>7. /\ \A j \in JobKeys \ {s} : jobs'[j] = jobs[j]
        /\ \/ jobs'[s] = jobs[s]
           \/ jobs[s].stage = "none" /\ jobs'[s].stage = "queued"
    <2>1. CASE jobs' = Ensured(s) /\ jobs[s].stage = "none"
      BY <1>1, <1>3, <2>1, EnsuredIs
    <2> QED
      BY <1>4, <2>1 DEF Ensured
  <1> HIDE DEF k, s
  <1>8. \A j \in JobKeys \ {k} : ~Busy(j)
    BY <1>1, <1>6 DEF SoleInv, OneBusy
  <1>9. Holding'
    <2>1. ASSUME NEW j \in JobKeys, jobs'[j].stage = "held"
          PROVE  /\ jobs'[j].holder \in Executors
                 /\ exec'[jobs'[j].holder].step # "idle" /\ exec'[jobs'[j].holder].job = j
      <3>1. jobs'[j] = jobs[j]
        BY <1>7, <2>1
      <3>2. /\ jobs[j].holder \in Executors
            /\ exec[jobs[j].holder].step # "idle" /\ exec[jobs[j].holder].job = j
        BY <2>1, <3>1 DEF SoleInv, Holding, Executes
      <3> QED
        BY <1>5, <3>1, <3>2 DEF k
    <2>2. ASSUME NEW f \in Executors, exec'[f].step # "idle"
          PROVE  jobs'[exec'[f].job].stage = "held" /\ jobs'[exec'[f].job].holder = f
      <3>1. exec[f].step # "idle" /\ exec'[f].job = exec[f].job
        BY <1>2, <1>5, <2>2 DEF k
      <3>2. exec[f].job \in JobKeys
        BY <1>1, JobsOfExecutions
      <3>3. jobs[exec[f].job].stage = "held" /\ jobs[exec[f].job].holder = f
        BY <3>1 DEF SoleInv, Holding
      <3> QED
        BY <1>7, <3>1, <3>2, <3>3
    <2> QED
      BY <2>1, <2>2 DEF Holding, Executes
  <1>10. \A j \in JobKeys : Busy(j)' => j = s
    <2> SUFFICES ASSUME NEW j \in JobKeys, j # s PROVE ~Busy(j)'
      OBVIOUS
    <2>1. jobs'[j] = jobs[j]
      BY <1>7
    <2>2. CASE j = k
      BY <1>5, <1>6, <2>1, <2>2 DEF Busy, Active
    <2>3. CASE j # k
      <3>1. ~Busy(j)
        BY <1>8, <2>3
      <3>2. jobs[j].stage = "held" => jobs[j].holder \in Executors
        BY DEF SoleInv, Holding
      <3> QED
        BY <1>5, <2>1, <3>1, <3>2 DEF Busy, Active
    <2> QED
      BY <2>2, <2>3
  <1>11. OneBusy' /\ StartFirst'
    <2>1. jobs["start"].stage # "none"
      BY <1>1, <1>6 DEF SoleInv, StartFirst
    <2>2. jobs'["start"].stage # "none"
      BY <1>1, <1>7, <2>1, JobsOfExecutions
    <2> QED
      BY <1>10, <2>2 DEF OneBusy, StartFirst
  <1>12. ASSUME NEW f \in Executors, Active(f)' PROVE InStage(exec'[f], flow')
    BY <1>4, <1>5, <1>12 DEF SoleInv, Active
  <1>13. NotYetChallenged' /\ FailedMeansFlowFailed'
    BY <1>4 DEF SoleInv, NotYetChallenged, FailedMeansFlowFailed
  <1> QED
    BY <1>9, <1>11, <1>12, <1>13 DEF SoleInv

LEMMA InitIsSole == Init => SoleInv
  <1> SUFFICES ASSUME Init PROVE SoleInv
    OBVIOUS
  <1>1. WorkInv
    BY InitIsConsistent
  <1>2. /\ \A k \in JobKeys : jobs[k].stage = "none"
        /\ \A e \in Executors : exec[e].step = "idle"
    BY DEF Init, Idle
  <1>3. Holding /\ OneBusy /\ StartFirst
    BY <1>2 DEF Holding, OneBusy, StartFirst, Busy
  <1>4. NotYetChallenged /\ FailedMeansFlowFailed
    BY DEF Init, NotYetChallenged, FailedMeansFlowFailed
  <1> QED
    BY <1>1, <1>2, <1>3, <1>4 DEF SoleInv, Active

LEMMA StepKeepsSole ==
  ASSUME ~Crashes, ~Overlap, SoleInv, [Next]_vars
  PROVE  SoleInv'
  <1>1. WorkInv'
    BY StepKeepsInv DEF SoleInv
  <1>2. CASE Create \/ SubmitStep \/ LoseSubmitter \/ Resubmit
    <2>1. UNCHANGED <<exec, flow, challenge>> /\ (jobs' = jobs \/ jobs' = Ensured("start"))
      BY <1>2 DEF Create, SubmitStep, ScheduleStart, AcceptRequest, LoseSubmitter, Resubmit, stores
    <2>2. request' = "failed" => request = "failed"
      BY <1>2 DEF Create, SubmitStep, ScheduleStart, AcceptRequest, LoseSubmitter, Resubmit, stores
    <2> QED
      BY <1>1, <2>1, <2>2, SubmitKeepsSole
  <1>3. ASSUME NEW e \in Executors, NEW k \in JobKeys, Take(e, k) PROVE SoleInv'
    BY <1>1, <1>3, TakeKeepsSole
  <1>4. ASSUME NEW e \in Executors, ExecutionStep(e) PROVE SoleInv'
    BY <1>1, <1>4, WorkKeepsSole, ReportKeepsSole, ScheduleKeepsSole DEF ExecutionStep, Works
  <1>5. \A e \in Executors : ~Crash(e)
    BY DEF Crash
  <1>6. \A k \in JobKeys : ~Reap(k)
    BY DEF Reap, SoleInv, Holding
  <1>7. CASE UNCHANGED vars
    BY <1>1, <1>7, SubmitKeepsSole DEF vars, stores
  <1> QED
    BY <1>2, <1>3, <1>4, <1>5, <1>6, <1>7 DEF Next

(* Workers that neither stop nor lose a lease never fail a request whose   *)
(* workflow goes on: failWorkflow fails the workflow first, and nobody     *)
(* else moves it meanwhile.                                                *)
THEOREM RequestFailsWithItsWorkflow ==
  ASSUME ~Crashes, ~Overlap
  PROVE  Spec => []FailedMeansFlowFailed
  <1>1. SoleInv /\ [Next]_vars => SoleInv'
    BY StepKeepsSole
  <1>2. SoleInv => FailedMeansFlowFailed
    BY DEF SoleInv
  <1> QED
    BY <1>1, <1>2, InitIsSole, PTL DEF Spec

-----------------------------------------------------------------------------
(* Who drives an accepted request.  The job that is busy is the one of the *)
(* stage the workflow is at, its statuses are those a loop can start with, *)
(* and it has an attempt left for every fault that is still to come.       *)
Loops == {"challenge_pending", "challenge_processing"}

(* What a loop starts with, what it makes of it, and what has to wait.     *)
First(k)   == IF k = "challenge_pending" THEN "pending" ELSE "ready"
Waiting(k) == IF k = "challenge_pending" THEN "propagating" ELSE "verifying"
Settling(k) == IF k = "challenge_pending" THEN "ready" ELSE "valid"
Starts(k)  == {First(k), Waiting(k), Settling(k)}

(* The jobs that may still be scheduled after job k.                       *)
After(k) ==
  CASE k = "start"                -> {"challenge_pending", "challenge_processing", "challenge_valid", "issued"}
    [] k = "challenge_pending"    -> {"challenge_processing", "challenge_valid", "issued"}
    [] k = "challenge_processing" -> {"challenge_valid", "issued"}
    [] k = "challenge_valid"      -> {"issued"}
    [] OTHER -> {}

(* Where job k finds the workflow when an attempt begins.                  *)
Between(k, fl, ch) ==
  /\ k \in {"start", "issued"} \cup {"challenge_valid"} \cup Loops
  /\ k = "start" => fl \in {"none", "created"}
  /\ k = "challenge_valid" => fl \in {"challenge_valid", "finalizing"}
  /\ k \in Loops \cup {"issued"} => fl = k
  /\ k \in Loops => \A i \in 1 .. Challenges : ch[i] \in Starts(k)

(* Of n faults, t attempts may be taken: a loop has one attempt more once  *)
(* it has no challenge left that it must begin with.                       *)
Fresh(k, list) == \E i \in 1 .. Challenges : list[i] = First(k)
Affords(k, list, t, n) == t <= n \/ (t <= n + 1 /\ k \in Loops /\ ~Fresh(k, list))

Ready(k, rq, fl, ch, t, n) ==
  Between(k, fl, ch) /\ Affords(k, ch, t, n) /\ (k # "start" => rq = "running")

(* An execution in a loop, at challenge i: those before are settled or     *)
(* wait, those from j on are as the list says.                             *)
Halfway(k, x, ch, i, j) ==
  /\ k \in Loops /\ x.stage = k /\ Len(x.list) = Challenges
  /\ \A m \in 1 .. Challenges : m < i => ch[m] = Settling(k) \/ (x.waits /\ ch[m] = Waiting(k))
  /\ \A m \in 1 .. Challenges : m >= j => ch[m] = x.list[m] /\ x.list[m] \in Starts(k)
  /\ \A m \in 1 .. Challenges : ch[m] = First(k) => x.list[m] = First(k)

Pays(k, x, t, n) == t <= n + 1 \/ (~x.waits /\ Affords(k, x.list, t, n + 1))

(* The challenge c that was o in the list, and what is about to happen.    *)
Turns(x, c, o) ==
  \/ x.step = "write" /\ Head(x.todo) = "presenting" /\ c = "pending" /\ o = "pending"
  \/ x.step \in {"present", "write"} /\ x.todo \in Presented /\ c = "presenting" /\ o = "pending"
  \/ x.step = "write" /\ x.todo \in {<<"propagating">>, <<"ready">>} /\ c = "presented" /\ o = "pending"
  \/ x.step = "write" /\ x.todo = <<"ready">> /\ c = "propagating" /\ o = c
  \/ x.step = "propagation" /\ c = "propagating" /\ o = c
  \/ x.step = "notify" /\ c = "ready" /\ o = c
  \/ x.step = "write" /\ x.todo = <<"verifying">> /\ c = "ready" /\ o = c
  \/ x.step = "poll" /\ c = "verifying" /\ o = c
  \/ x.step = "write" /\ x.todo \in {<<"valid">>, <<"invalid", "cleanup_pending">>} /\ c = "verifying" /\ o = c
  \/ x.step = "write" /\ x.todo = <<"cleanup_pending">> /\ c = "invalid"
  \/ x.step = "write" /\ x.todo \in {<<"cleaned">>, <<"cleanup_failed">>} /\ c = "cleanup_pending"
  \/ x.step = "cleanup" /\ c = "cleanup_pending"

InLoop(k, x, fl, ch, t, n) ==
  x.step \in LoopSteps =>
    /\ fl = k /\ Halfway(k, x, ch, x.at, x.at + 1) /\ Pays(k, x, t, n)
    /\ Turns(x, ch[x.at], x.list[x.at])

OutOfLoop(k, x, rq, fl, ch, t, n) ==
  /\ x.step \in {"request", "run", "workflow", "order", "record", "challenges"} => k = "start" /\ t <= n + 1
  /\ x.step \in {"request", "run", "workflow"} => Between(k, fl, ch)
  /\ x.step \in {"order", "record"} => fl = "created"
  /\ x.step = "challenges" => fl = "order_pending"
  /\ x.step = "schedule" => x.stage \in After(k) /\ Between(x.stage, fl, ch)
  /\ x.step \in {"flow", "list"} => k # "start" /\ Between(k, fl, ch) /\ Affords(k, ch, t, n + 1)
  /\ x.step = "list" => ~x.waits
  /\ x.step = "process" => k = "challenge_pending" /\ fl = k /\ \A i \in 1 .. Challenges : ch[i] = "ready"
  /\ x.step = "validate" => k = "challenge_processing" /\ fl = k
  /\ x.step = "finalizing" => k = "challenge_valid" /\ fl = k /\ t <= n + 1
  /\ x.step \in {"finalize", "download", "issue"} => k = "challenge_valid" /\ fl = "finalizing" /\ t <= n + 1
  /\ x.step \in {"persist", "link", "complete"} => k = "issued" /\ fl = "issued" /\ t <= n + 1
  /\ x.step = "reject" => fl = "challenge_processing"
  /\ x.step = "retry" => Ready(k, rq, fl, ch, t, n)

(* An execution of job k that brings the request on.                       *)
Brings(k, x, rq, fl, ch, t, n) ==
  /\ x.step \notin {"idle", "over", "accept"}
  /\ rq = IF x.step = "run" THEN "accepted" ELSE IF x.step = "request" THEN rq ELSE "running"
  /\ InLoop(k, x, fl, ch, t, n) /\ OutOfLoop(k, x, rq, fl, ch, t, n)

Unused(k) == jobs[k].stage = "none" /\ jobs[k].tries = 0

Drives(k) ==
  /\ jobs[k].stage \in {"queued", "held"}
  /\ \A j \in After(k) : Unused(j)
  /\ jobs[k].stage = "queued" => Ready(k, request, flow, challenge, jobs[k].tries, faults)
  /\ jobs[k].stage = "held" =>
       Brings(k, exec[jobs[k].holder], request, flow, challenge, jobs[k].tries, faults)

Submitting ==
  /\ request = "submitted" /\ flow = "none"
  /\ \A k \in JobKeys \ {"start"} : Unused(k)
  /\ jobs["start"].tries = 0
  /\ jobs["start"].stage \in {"none", "queued"}
  /\ submitter = "accept" => jobs["start"].stage = "queued"

DrivenInv ==
  /\ submitter # "idle" => Submitting
  /\ request = "none" => flow = "none" /\ \A k \in JobKeys : Unused(k)
  /\ request = "submitted" => submitter # "idle"
  /\ request \in {"accepted", "running"} => \E k \in JobKeys : Drives(k)

LEMMA TurnIs ==
  ASSUME NEW x \in Execution, NEW i \in Nat
  PROVE  \/ \E k \in i .. Len(x.list) :
              /\ \A m \in i .. k - 1 : x.list[m] \in Settled(x.stage)
              /\ x.list[k] \notin Settled(x.stage)
              /\ CallFor(x.stage, x.list[k]) # "over" =>
                   TurnTo(x, i) = [x EXCEPT !.at = k, !.step = CallFor(x.stage, x.list[k]),
                                            !.todo = WayFrom(x.stage, x.list[k])]
         \/ /\ \A m \in i .. Len(x.list) : x.list[m] \in Settled(x.stage)
            /\ x.waits => TurnTo(x, i) = Executing(x.job, "retry", "none")
            /\ ~x.waits => TurnTo(x, i) = Executing(x.job, IF x.stage = "challenge_pending" THEN "process"
                                                                                         ELSE "validate", x.stage)
  <1> DEFINE open == {k \in i .. Len(x.list) : x.list[k] \notin Settled(x.stage)}
             k    == CHOOSE k \in open : \A m \in open : k <= m
             call == CallFor(x.stage, x.list[k])
             way  == WayFrom(x.stage, x.list[k])
             last == IF x.stage = "challenge_pending" THEN "process" ELSE "validate"
  <1>1. /\ open # {} /\ call # "over" => TurnTo(x, i) = [x EXCEPT !.at = k, !.step = call, !.todo = way]
        /\ open = {} /\ x.waits => TurnTo(x, i) = Executing(x.job, "retry", "none")
        /\ open = {} /\ ~x.waits => TurnTo(x, i) = Executing(x.job, last, x.stage)
    BY DEF TurnTo
  <1>2. Len(x.list) \in Nat
    BY DEF Execution
  <1>3. CASE open # {}
    <2>1. open \subseteq Nat
      BY <1>2
    <2>2. \E q \in open : \A m \in open : q <= m
      BY <1>3, <2>1, Least
    <2>3. k \in open /\ \A m \in open : k <= m
      BY <2>2
    <2> HIDE DEF k
    <2>4. k \in i .. Len(x.list) /\ x.list[k] \notin Settled(x.stage)
          /\ \A m \in i .. k - 1 : x.list[m] \in Settled(x.stage)
      BY <1>2, <2>3
    <2> HIDE DEF open
    <2> QED
      BY <1>1, <1>3, <2>4
  <1>4. CASE open = {}
    <2>1. \A m \in i .. Len(x.list) : x.list[m] \in Settled(x.stage)
      BY <1>4
    <2> HIDE DEF open
    <2> QED
      BY <1>1, <1>4, <2>1
  <1> QED
    BY <1>3, <1>4

(* Turning, an execution either has a call to make, or has to wait and can *)
(* afford it, or is done with its stage.                                   *)
LEMMA TurnBrings ==
  ASSUME NEW k, NEW x \in Execution, NEW ch, NEW i \in 1 .. Challenges + 1, NEW t \in Nat, NEW n \in Nat,
         Halfway(k, x, ch, i, i), Pays(k, x, t, n)
  PROVE  Brings(k, TurnTo(x, i), "running", k, ch, t, n)
  <1>0. Challenges \in Nat \ {0} /\ i \in Nat /\ Len(x.list) = Challenges /\ x.stage = k /\ k \in Loops
    BY Constants DEF Halfway
  <1> DEFINE y == TurnTo(x, i)
  <1>1. ASSUME NEW q \in 1 .. Challenges, i <= q,
               \A m \in i .. q - 1 : x.list[m] \in Settled(x.stage),
               x.list[q] \notin Settled(x.stage),
               CallFor(x.stage, x.list[q]) # "over" =>
                 y = [x EXCEPT !.at = q, !.step = CallFor(x.stage, x.list[q]),
                               !.todo = WayFrom(x.stage, x.list[q])]
        PROVE  Brings(k, y, "running", k, ch, t, n)
    <2> DEFINE c == x.list[q]
               call == CallFor(x.stage, c)
               way == WayFrom(x.stage, c)
    <2>1. ch[q] = c /\ c \in {First(k), Waiting(k)}
      BY <1>0, <1>1 DEF Halfway, Starts, Settled, Settling, Loops
    <2>2. /\ call \in {"write", "propagation", "notify", "poll"}
          /\ call = "write" => c = "pending" /\ Head(way) = "presenting"
          /\ call = "propagation" => c = "propagating"
          /\ call = "notify" => c = "ready"
          /\ call = "poll" => c = "verifying"
      BY <1>0, <2>1 DEF CallFor, WayFrom, First, Waiting, Loops
    <2>3. y = [x EXCEPT !.at = q, !.step = call, !.todo = way]
      BY <1>1, <2>2
    <2>4. \A m \in i .. q - 1 : ch[m] = Settling(k)
      <3> SUFFICES ASSUME NEW m \in i .. q - 1 PROVE ch[m] = Settling(k)
        OBVIOUS
      <3>1. m \in 1 .. Challenges /\ m >= i
        BY <1>0
      <3>2. ch[m] = x.list[m] /\ x.list[m] \in Starts(k) /\ x.list[m] \in Settled(k)
        BY <1>0, <1>1, <3>1 DEF Halfway
      <3> QED
        BY <1>0, <3>2 DEF Starts, Settled, Settling, First, Waiting, Loops
    <2> HIDE DEF c, call, way
    <2>5. /\ y.at = q /\ y.step = call /\ y.todo = way /\ y.stage = k /\ y.list = x.list
          /\ (y.waits => x.waits) /\ (x.waits => y.waits)
      <3>1. y.at = q /\ y.step = call /\ y.todo = way /\ y.stage = k /\ y.list = x.list
        BY <1>0, <2>3 DEF Execution
      <3>2. y.waits = x.waits
        BY <2>3 DEF Execution
      <3> QED
        BY <3>1, <3>2
    <2> HIDE DEF y
    <2>6. Halfway(k, y, ch, q, q + 1)
      <3>1. \A m \in 1 .. Challenges : m < q => ch[m] = Settling(k) \/ (x.waits /\ ch[m] = Waiting(k))
        <4> SUFFICES ASSUME NEW m \in 1 .. Challenges, m < q
                     PROVE  ch[m] = Settling(k) \/ (x.waits /\ ch[m] = Waiting(k))
          OBVIOUS
        <4>1. CASE m < i
          BY <4>1 DEF Halfway
        <4>2. CASE m >= i
          BY <1>0, <2>4, <4>2
        <4> QED
          BY <1>0, <4>1, <4>2
      <3>2. \A m \in 1 .. Challenges : m >= q + 1 => ch[m] = x.list[m] /\ x.list[m] \in Starts(k)
        BY <1>0, <1>1 DEF Halfway
      <3> QED
        BY <1>0, <2>5, <3>1, <3>2 DEF Halfway
    <2>7. Pays(k, y, t, n)
      BY <2>5 DEF Pays
    <2>8. Turns(y, ch[q], x.list[q])
      BY <2>1, <2>2, <2>5 DEF Turns, c
    <2> QED
      BY <2>2, <2>5, <2>6, <2>7, <2>8 DEF Brings, InLoop, OutOfLoop, LoopSteps
  <1>2. CASE \A m \in i .. Challenges : x.list[m] \in Settled(x.stage)
    <2>1. \A m \in 1 .. Challenges : ch[m] = Settling(k) \/ (x.waits /\ ch[m] = Waiting(k))
      <3> SUFFICES ASSUME NEW m \in 1 .. Challenges
                   PROVE  ch[m] = Settling(k) \/ (x.waits /\ ch[m] = Waiting(k))
        OBVIOUS
      <3>1. CASE m < i
        BY <3>1 DEF Halfway
      <3>2. CASE m >= i
        <4>1. ch[m] = x.list[m] /\ x.list[m] \in Starts(k) /\ x.list[m] \in Settled(k)
          BY <1>0, <1>2, <3>2 DEF Halfway
        <4> QED
          BY <1>0, <4>1 DEF Starts, Settled, Settling, First, Waiting, Loops
      <3> QED
        BY <1>0, <3>1, <3>2
    <2>2. ASSUME x.waits, y = Executing(x.job, "retry", "none")
          PROVE  Brings(k, y, "running", k, ch, t, n)
      <3>1. y.step = "retry"
        BY <2>2, ExecutingFields
      <3>2. t <= n + 1 /\ ~Fresh(k, ch)
        BY <1>0, <2>1, <2>2 DEF Pays, Fresh, Settling, First, Waiting, Loops
      <3>3. Ready(k, "running", k, ch, t, n)
        BY <1>0, <2>1, <3>2 DEF Ready, Between, Affords, Starts, Loops
      <3> HIDE DEF y
      <3> QED
        BY <3>1, <3>3 DEF Brings, InLoop, OutOfLoop, LoopSteps
    <2>3. ASSUME ~x.waits, NEW last,
                 last = IF x.stage = "challenge_pending" THEN "process" ELSE "validate",
                 y = Executing(x.job, last, x.stage)
          PROVE  Brings(k, y, "running", k, ch, t, n)
      <3>1. y.step = last
        BY <2>3, ExecutingFields
      <3>2. /\ last = "process" => k = "challenge_pending"
            /\ last = "validate" => k = "challenge_processing"
            /\ last \in {"process", "validate"}
        BY <1>0, <2>3 DEF Loops
      <3>3. last = "process" => \A m \in 1 .. Challenges : ch[m] = "ready"
        BY <2>1, <2>3, <3>2 DEF Settling
      <3> HIDE DEF y
      <3> QED
        BY <3>1, <3>2, <3>3 DEF Brings, InLoop, OutOfLoop, LoopSteps
    <2>4. \/ x.waits /\ y = Executing(x.job, "retry", "none")
          \/ ~x.waits /\ y = Executing(x.job, IF x.stage = "challenge_pending" THEN "process" ELSE "validate", x.stage)
          \/ \E q \in i .. Challenges : x.list[q] \notin Settled(x.stage)
      BY <1>0, TurnIs
    <2> HIDE DEF y
    <2> QED
      BY <1>2, <2>2, <2>3, <2>4 DEF y
  <1>3. \/ \A m \in i .. Challenges : x.list[m] \in Settled(x.stage)
        \/ \E q \in i .. Challenges :
             /\ \A m \in i .. q - 1 : x.list[m] \in Settled(x.stage)
             /\ x.list[q] \notin Settled(x.stage)
             /\ CallFor(x.stage, x.list[q]) # "over" =>
                  y = [x EXCEPT !.at = q, !.step = CallFor(x.stage, x.list[q]),
                                !.todo = WayFrom(x.stage, x.list[q])]
    BY <1>0, TurnIs
  <1> HIDE DEF y
  <1>4. ASSUME NEW q \in i .. Challenges PROVE q \in 1 .. Challenges /\ i <= q
    BY <1>0
  <1> QED
    BY <1>1, <1>2, <1>3, <1>4 DEF y

(* An execution that is in a loop, with job k and the attempt number t.    *)
Turning(e, k, t) ==
  /\ WorkInv /\ exec[e].step \in LoopSteps
  /\ InLoop(k, exec[e], flow, challenge, t, faults)

LEMMA LoopingIs ==
  ASSUME NEW e \in Executors, NEW k, NEW t \in Nat, Turning(e, k, t)
  PROVE  /\ exec[e] \in Execution /\ exec \in [Executors -> Execution] /\ TypeOK
         /\ k \in Loops /\ exec[e].stage = k /\ flow = k /\ exec[e].at \in 1 .. Challenges
         /\ Halfway(k, exec[e], challenge, exec[e].at, exec[e].at + 1)
         /\ Pays(k, exec[e], t, faults)
         /\ Turns(exec[e], challenge[exec[e].at], exec[e].list[exec[e].at])
         /\ faults \in Nat /\ Challenges \in Nat \ {0}
         /\ challenge \in Seq(ChallengeStatuses) /\ DOMAIN challenge = 1 .. Challenges
  <1>1. WorkInv /\ TypeOK /\ InLoop(k, exec[e], flow, challenge, t, faults) /\ exec[e].step \in LoopSteps
    BY DEF Turning, WorkInv
  <1>2. /\ flow = k /\ Halfway(k, exec[e], challenge, exec[e].at, exec[e].at + 1)
        /\ Pays(k, exec[e], t, faults)
        /\ Turns(exec[e], challenge[exec[e].at], exec[e].list[exec[e].at])
    BY <1>1 DEF InLoop
  <1>3. k \in Loops /\ exec[e].stage = k
    BY <1>2 DEF Halfway
  <1>4. exec[e] \in Execution /\ exec \in [Executors -> Execution] /\ faults \in Nat
    BY <1>1, Constants DEF TypeOK
  <1> QED
    BY <1>1, <1>2, <1>3, <1>4, InTheLoop, Constants

(* On to the next challenge, the statuses being ch and the faults n.       *)
LEMMA NextTurnBrings ==
  ASSUME NEW e \in Executors, NEW k, NEW t \in Nat, Turning(e, k, t),
         NEW waits \in BOOLEAN, NextTurn(e, waits), NEW ch, NEW n \in Nat, faults <= n,
         \A j \in 1 .. Challenges \ {exec[e].at} : ch[j] = challenge[j],
         ch[exec[e].at] = Settling(k) \/ (waits /\ ch[exec[e].at] = Waiting(k)),
         waits => t <= n + 1
  PROVE  /\ exec' = [exec EXCEPT ![e] = exec'[e]]
         /\ Brings(k, exec'[e], "running", k, ch, t, n)
  <1> DEFINE x == exec[e]
             z == [x EXCEPT !.waits = x.waits \/ waits, !.todo = << >>]
             i == x.at + 1
  <1>1. /\ x \in Execution /\ exec \in [Executors -> Execution]
        /\ k \in Loops /\ x.stage = k /\ x.at \in 1 .. Challenges /\ Challenges \in Nat \ {0} /\ faults \in Nat
        /\ Halfway(k, x, challenge, x.at, x.at + 1) /\ Pays(k, x, t, faults)
    BY LoopingIs
  <1>2. /\ z \in Execution /\ z.list = x.list /\ z.stage = x.stage /\ z.at = x.at
        /\ z.waits = (x.waits \/ waits)
    BY <1>1, EmptyTodo DEF Execution
  <1>3. exec' = [exec EXCEPT ![e] = TurnTo(z, z.at + 1)]
    BY DEF NextTurn
  <1>4. exec' = [exec EXCEPT ![e] = exec'[e]] /\ exec'[e] = TurnTo(z, i)
    BY <1>1, <1>2, <1>3
  <1> HIDE DEF z
  <1>5. i \in 1 .. Challenges + 1
    BY <1>1
  <1>6. Halfway(k, z, ch, i, i)
    <2>1. \A m \in 1 .. Challenges : m < i => ch[m] = Settling(k) \/ (z.waits /\ ch[m] = Waiting(k))
      <3> SUFFICES ASSUME NEW m \in 1 .. Challenges, m < i
                   PROVE  ch[m] = Settling(k) \/ (z.waits /\ ch[m] = Waiting(k))
        OBVIOUS
      <3>1. CASE m = x.at
        BY <1>2, <3>1
      <3>2. CASE m < x.at
        BY <1>1, <1>2, <3>2 DEF Halfway
      <3> QED
        BY <1>1, <3>1, <3>2
    <2>2. \A m \in 1 .. Challenges : m >= i => ch[m] = z.list[m] /\ z.list[m] \in Starts(k)
      BY <1>1, <1>2 DEF Halfway
    <2>3. \A m \in 1 .. Challenges : ch[m] = First(k) => z.list[m] = First(k)
      <3>1. ch[x.at] # First(k)
        BY <1>1 DEF Settling, Waiting, First
      <3> QED
        BY <1>1, <1>2, <3>1 DEF Halfway
    <2>4. k \in Loops /\ z.stage = k /\ Len(z.list) = Challenges
      BY <1>1, <1>2 DEF Halfway
    <2> HIDE DEF i
    <2> QED
      BY <2>1, <2>2, <2>3, <2>4 DEF Halfway
  <1>7. Pays(k, z, t, n)
    <2>1. CASE x.waits
      BY <1>1, <2>1 DEF Pays
    <2>2. CASE ~x.waits /\ ~waits
      <3>1. ~z.waits
        BY <1>2, <2>2
      <3> QED
        BY <1>1, <1>2, <3>1 DEF Pays, Affords
    <2> QED
      BY <1>1, <2>1, <2>2 DEF Pays
  <1> HIDE DEF i
  <1>8. Brings(k, TurnTo(z, i), "running", k, ch, t, n)
    BY <1>2, <1>5, <1>6, <1>7, TurnBrings
  <1> QED
    BY <1>4, <1>8

(* On with the same challenge.                                             *)
LEMMA MovesBrings ==
  ASSUME NEW e \in Executors, NEW k, NEW t \in Nat, Turning(e, k, t),
         NEW todo, NEW step \in LoopSteps, NEW y, y = exec'[e], Moves(e, todo, step), NEW ch, NEW c,
         \A j \in 1 .. Challenges \ {exec[e].at} : ch[j] = challenge[j],
         ch[exec[e].at] = c, c = First(k) => exec[e].list[exec[e].at] = First(k),
         Turns([step |-> step, todo |-> todo], c, exec[e].list[exec[e].at])
  PROVE  /\ exec' = [exec EXCEPT ![e] = exec'[e]]
         /\ Brings(k, y, "running", k, ch, t, faults)
  <1> DEFINE x == exec[e]
  <1>1. /\ x \in Execution /\ exec \in [Executors -> Execution]
        /\ k \in Loops /\ x.stage = k /\ x.at \in 1 .. Challenges /\ Challenges \in Nat \ {0} /\ faults \in Nat
        /\ Halfway(k, x, challenge, x.at, x.at + 1) /\ Pays(k, x, t, faults)
    BY LoopingIs
  <1>2. exec' = [exec EXCEPT ![e] = exec'[e]] /\ y = [x EXCEPT !.todo = todo, !.step = step]
    BY <1>1 DEF Moves
  <1>3. /\ y.step = step /\ y.todo = todo /\ y.stage = x.stage /\ y.at = x.at /\ y.list = x.list
        /\ (y.waits => x.waits) /\ (x.waits => y.waits)
    <2>1. y.step = step /\ y.todo = todo /\ y.stage = x.stage /\ y.at = x.at /\ y.list = x.list
      BY <1>1, <1>2 DEF Execution
    <2>2. y.waits = x.waits
      BY <1>1, <1>2 DEF Execution
    <2> QED
      BY <2>1, <2>2
  <1>4. Halfway(k, y, ch, y.at, y.at + 1)
    <2>1. \A m \in 1 .. Challenges : m < x.at => ch[m] = Settling(k) \/ (x.waits /\ ch[m] = Waiting(k))
      BY <1>1 DEF Halfway
    <2>2. \A m \in 1 .. Challenges : m >= x.at + 1 => ch[m] = x.list[m] /\ x.list[m] \in Starts(k)
      BY <1>1 DEF Halfway
    <2>3. \A m \in 1 .. Challenges : ch[m] = First(k) => x.list[m] = First(k)
      BY <1>1 DEF Halfway
    <2>4. Len(x.list) = Challenges
      BY <1>1 DEF Halfway
    <2> QED
      BY <1>1, <1>3, <2>1, <2>2, <2>3, <2>4 DEF Halfway
  <1>5. Pays(k, y, t, faults)
    BY <1>1, <1>3 DEF Pays
  <1>6. Turns(y, ch[y.at], y.list[y.at])
    BY <1>3 DEF Turns
  <1>7. step \in LoopSteps /\ step \notin {"idle", "over", "accept", "run", "request"}
    BY DEF LoopSteps
  <1> QED
    BY <1>2, <1>3, <1>4, <1>5, <1>6, <1>7 DEF Brings, InLoop, OutOfLoop, LoopSteps

LEMMA PresentedGoOn ==
  /\ Tail(<<"presented", "propagating">>) = <<"propagating">>
  /\ Tail(<<"presented", "ready">>) = <<"ready">>
  /\ \A u \in Presented : Tail(u) \in {<<"propagating">>, <<"ready">>}
  <1>1. Tail(<<"presented", "propagating">>) = <<"propagating">>
    OBVIOUS
  <1>2. Tail(<<"presented", "ready">>) = <<"ready">>
    OBVIOUS
  <1> QED
    BY <1>1, <1>2 DEF Presented

(* UpdateChallengeStatus is always legal here.                             *)
LEMMA WriteBrings ==
  ASSUME NEW e \in Executors, NEW k, NEW t \in Nat, Turning(e, k, t), WriteChallenge(e)
  PROVE  /\ exec' = [exec EXCEPT ![e] = exec'[e]]
         /\ Brings(k, exec'[e], "running", k, challenge', t, faults)
  <1> DEFINE x == exec[e]
             i == x.at
             c == challenge[i]
             o == x.list[i]
             status == Head(x.todo)
             rest == Tail(x.todo)
  <1>0. x.step = "write"
    BY DEF WriteChallenge, At
  <1>1. /\ x \in Execution /\ exec \in [Executors -> Execution] /\ TypeOK
        /\ k \in Loops /\ x.stage = k /\ i \in 1 .. Challenges /\ Challenges \in Nat \ {0} /\ faults \in Nat
        /\ Halfway(k, x, challenge, i, i + 1) /\ Pays(k, x, t, faults) /\ Turns(x, c, o)
        /\ challenge \in Seq(ChallengeStatuses) /\ DOMAIN challenge = 1 .. Challenges
    BY LoopingIs
  <1>2. x.todo \in IF k = "challenge_pending" THEN PendingTodos ELSE ProcessingTodos
    <2>1. LoopKnows(x, challenge, published)
      BY <1>0, InTheLoop DEF Turning
    <2> QED
      BY <1>0, <1>1, <2>1 DEF LoopKnows, LoopSteps
  <1>3. CASE status \in ChallengeMoves(c)
    <2>1. challenge' = [challenge EXCEPT ![i] = status]
      BY <1>3 DEF WriteChallenge
    <2>2. challenge'[i] = status /\ \A j \in 1 .. Challenges \ {i} : challenge'[j] = challenge[j]
      BY <1>1, <2>1
    <2>3. ASSUME NEW step \in LoopSteps, Moves(e, rest, step), status # First(k),
                 Turns([step |-> step, todo |-> rest], status, o)
          PROVE  /\ exec' = [exec EXCEPT ![e] = exec'[e]]
                 /\ Brings(k, exec'[e], "running", k, challenge', t, faults)
      BY <2>2, <2>3, MovesBrings
    <2>4. ASSUME NEW waits \in BOOLEAN, NextTurn(e, waits),
                 status = Settling(k) \/ (waits /\ status = Waiting(k)), waits => o = First(k)
          PROVE  /\ exec' = [exec EXCEPT ![e] = exec'[e]]
                 /\ Brings(k, exec'[e], "running", k, challenge', t, faults)
      <3>1. waits => t <= faults + 1
        <4>1. o = First(k) => Fresh(k, x.list)
          BY <1>1 DEF Fresh
        <4> QED
          BY <1>1, <2>4, <4>1 DEF Pays, Affords
      <3>2. faults <= faults
        BY <1>1
      <3> QED
        BY <1>1, <2>2, <2>4, <3>1, <3>2, NextTurnBrings
    <2>5. /\ status \in {"cleaned", "cleanup_failed"} => Moves(e, rest, "reject")
          /\ status = "presenting" => Moves(e, rest, "present")
          /\ status = "cleanup_pending" => Moves(e, rest, "cleanup")
          /\ status \in {"presented", "invalid"} => Moves(e, rest, "write")
          /\ status \in {"propagating", "verifying", "ready", "valid"} =>
               NextTurn(e, status \in {"propagating", "verifying"})
      BY <1>3 DEF WriteChallenge, Moves
    <2>6. {"present", "cleanup", "write"} \subseteq LoopSteps
      BY DEF LoopSteps
    <2>7. CASE status = "presenting"
      <3>1. k = "challenge_pending" /\ rest \in Presented /\ o = "pending"
        BY <1>0, <1>1, <1>2, <2>7, TodosGoOn DEF Turns, Loops, Presented
      <3>2. Turns([step |-> "present", todo |-> rest], status, o)
        BY <2>7, <3>1 DEF Turns
      <3> QED
        BY <2>3, <2>5, <2>6, <2>7, <3>1, <3>2 DEF First
    <2>8. CASE status = "presented"
      <3>1. k = "challenge_pending" /\ rest \in {<<"propagating">>, <<"ready">>} /\ o = "pending"
        <4>1. k = "challenge_pending"
          BY <1>1, <1>2, <2>8, TodosGoOn DEF Loops
        <4>2. x.todo \in Presented
          BY <1>2, <2>8, <4>1, TodosGoOn DEF Presented
        <4>3. rest \in {<<"propagating">>, <<"ready">>}
          BY <4>2, PresentedGoOn
        <4>4. x.todo \notin {<<"propagating">>, <<"ready">>, <<"verifying">>, <<"valid">>,
                            <<"invalid", "cleanup_pending">>, <<"cleanup_pending">>, <<"cleaned">>,
                            <<"cleanup_failed">>}
          BY <2>8
        <4>5. o = "pending"
          BY <1>0, <1>1, <2>8, <4>4 DEF Turns
        <4> QED
          BY <4>1, <4>3, <4>5
      <3>2. Turns([step |-> "write", todo |-> rest], status, o)
        BY <2>8, <3>1 DEF Turns
      <3> QED
        BY <2>3, <2>5, <2>6, <2>8, <3>1, <3>2 DEF First
    <2>9. CASE status = "invalid"
      <3>1. k = "challenge_processing" /\ rest = <<"cleanup_pending">>
        BY <1>1, <1>2, <2>9, TodosGoOn DEF Loops
      <3>2. Turns([step |-> "write", todo |-> rest], status, o)
        BY <2>9, <3>1 DEF Turns
      <3> QED
        BY <2>3, <2>5, <2>6, <2>9, <3>1, <3>2 DEF First
    <2>10. CASE status = "cleanup_pending"
      <3>1. k = "challenge_processing"
        BY <1>1, <1>2, <2>10, TodosGoOn DEF Loops
      <3>2. Turns([step |-> "cleanup", todo |-> rest], status, o)
        BY <2>10 DEF Turns
      <3> QED
        BY <2>3, <2>5, <2>6, <2>10, <3>1, <3>2 DEF First
    <2>11. CASE status \in {"cleaned", "cleanup_failed"}
      <3>1. k = "challenge_processing"
        BY <1>1, <1>2, <2>11, TodosGoOn DEF Loops
      <3>2. exec' = [exec EXCEPT ![e] = exec'[e]] /\ exec'[e] = [x EXCEPT !.todo = rest, !.step = "reject"]
        BY <1>1, <2>5, <2>11 DEF Moves
      <3>3. exec'[e].step = "reject"
        BY <1>1, <3>2 DEF Execution
      <3> QED
        BY <3>1, <3>2, <3>3 DEF Brings, InLoop, OutOfLoop, LoopSteps
    <2>12. CASE status \in {"propagating", "verifying"}
      <3> DEFINE waits == status \in {"propagating", "verifying"}
      <3>1. /\ status = "propagating" => k = "challenge_pending" /\ o = "pending"
            /\ status = "verifying" => k = "challenge_processing" /\ o = "ready"
        BY <1>0, <1>1, <1>2, <2>12, TodosGoOn DEF Turns, Loops, Presented
      <3>2. waits \in BOOLEAN /\ waits /\ NextTurn(e, waits)
        BY <2>5, <2>12
      <3>3. status = Waiting(k) /\ o = First(k)
        BY <2>12, <3>1 DEF Waiting, First
      <3> HIDE DEF waits
      <3> QED
        BY <2>4, <3>2, <3>3
    <2>13. CASE status \in {"ready", "valid"}
      <3> DEFINE waits == status \in {"propagating", "verifying"}
      <3>1. /\ status = "ready" => k = "challenge_pending"
            /\ status = "valid" => k = "challenge_processing"
        BY <1>1, <1>2, <2>13, TodosGoOn DEF Loops
      <3>2. waits \in BOOLEAN /\ ~waits /\ NextTurn(e, waits)
        BY <2>5, <2>13
      <3>3. status = Settling(k)
        BY <2>13, <3>1 DEF Settling
      <3> HIDE DEF waits
      <3> QED
        BY <2>4, <3>2, <3>3
    <2>14. status \in {"presenting", "presented", "propagating", "ready", "verifying", "valid", "invalid",
                       "cleanup_pending", "cleaned", "cleanup_failed"}
      BY <1>2, TodosGoOn
    <2> QED
      BY <2>7, <2>8, <2>9, <2>10, <2>11, <2>12, <2>13, <2>14
  <1>4. status \in ChallengeMoves(c)
    <2>1. x.todo \in Presented => status = "presented"
      BY DEF Presented
    <2> QED
      BY <1>0, <1>1, <2>1 DEF Turns, ChallengeMoves
  <1> QED
    BY <1>3, <1>4

(* A step of execution e, in attempt t of job k, brings the request on.    *)
Carries(e, k, t) ==
  /\ exec' = [exec EXCEPT ![e] = exec'[e]]
  /\ Brings(k, exec'[e], request', flow', challenge', t, faults')

(* A temporary error in a loop costs an attempt that was paid for.         *)
LEMMA LoopRetries ==
  ASSUME NEW e \in Executors, NEW k, NEW t \in Nat, Turning(e, k, t),
         challenge[exec[e].at] \in Starts(k), Return(e, "retry")
  PROVE  /\ exec' = [exec EXCEPT ![e] = exec'[e]]
         /\ Brings(k, exec'[e], "running", k, challenge, t, faults + 1)
  <1> DEFINE x == exec[e]
  <1>1. /\ x \in Execution /\ TypeOK /\ k \in Loops /\ x.at \in 1 .. Challenges
        /\ Challenges \in Nat \ {0} /\ faults \in Nat
        /\ Halfway(k, x, challenge, x.at, x.at + 1) /\ Pays(k, x, t, faults)
    BY LoopingIs
  <1>2. exec' = [exec EXCEPT ![e] = exec'[e]] /\ exec'[e].step = "retry"
    BY <1>1, ReturnsTo
  <1>3. \A i \in 1 .. Challenges : challenge[i] \in Starts(k)
    <2> SUFFICES ASSUME NEW i \in 1 .. Challenges PROVE challenge[i] \in Starts(k)
      OBVIOUS
    <2>1. CASE i < x.at
      BY <1>1, <2>1 DEF Halfway, Starts
    <2>2. CASE i >= x.at + 1
      BY <1>1, <2>2 DEF Halfway
    <2> QED
      BY <1>1, <2>1, <2>2
  <1>4. Affords(k, challenge, t, faults + 1)
    <2>1. Fresh(k, challenge) => Fresh(k, x.list)
      BY <1>1 DEF Halfway, Fresh
    <2> QED
      BY <1>1, <2>1 DEF Pays, Affords
  <1>5. Ready(k, "running", k, challenge, t, faults + 1)
    BY <1>1, <1>3, <1>4 DEF Ready, Between, Loops
  <1> QED
    BY <1>2, <1>5 DEF Brings, InLoop, OutOfLoop, LoopSteps

(* What is given up fails with its workflow.                               *)
LEMMA GivingUpBrings ==
  ASSUME TypeOK, NEW e \in Executors, Go(e, "give up"), NEW k, NEW fl, NEW ch, NEW t, NEW n
  PROVE  /\ exec' = [exec EXCEPT ![e] = exec'[e]]
         /\ Brings(k, exec'[e], "running", fl, ch, t, n)
  <1>1. exec' = [exec EXCEPT ![e] = exec'[e]] /\ exec'[e].step = "give up"
    BY GoesTo
  <1> QED
    BY <1>1 DEF Brings, InLoop, OutOfLoop, LoopSteps

LEMMA LoopFailsBrings ==
  ASSUME NEW e \in Executors, NEW k, NEW t \in Nat, Turning(e, k, t), request = "running",
         UNCHANGED <<request, flow, challenge>>, NEW call, Fails(e, call),
         call \in Temporary => challenge[exec[e].at] \in Starts(k)
  PROVE  Carries(e, k, t)
  <1>1. TypeOK /\ flow = k
    BY LoopingIs
  <1>2. CASE call \in Temporary /\ Fault /\ Return(e, "retry")
    <2>1. faults' = faults + 1
      BY <1>2 DEF Fault
    <2> QED
      BY <1>1, <1>2, <2>1, LoopRetries DEF Carries
  <1>3. CASE Go(e, "give up")
    BY <1>1, <1>3, GivingUpBrings DEF Carries
  <1> QED
    BY <1>2, <1>3 DEF Fails

LEMMA LoopBrings ==
  ASSUME NEW e \in Executors, NEW k, NEW t \in Nat, Turning(e, k, t), request = "running",
         "present" \notin Temporary, "unknown" \notin Permanent,
         \/ Present(e) \/ CheckPropagation(e) \/ NotifyReady(e) \/ PollAuthorization(e)
         \/ Cleanup(e) \/ WriteChallenge(e)
  PROVE  Carries(e, k, t)
  <1> DEFINE x == exec[e]
             c == challenge[x.at]
             o == x.list[x.at]
  <1>1. /\ x \in Execution /\ TypeOK /\ k \in Loops /\ flow = k /\ x.at \in 1 .. Challenges
        /\ Challenges \in Nat \ {0} /\ faults \in Nat
        /\ Pays(k, x, t, faults) /\ Turns(x, c, o)
    BY LoopingIs
  <1>2. /\ x.step \in {"present", "propagation"} => k = "challenge_pending"
        /\ x.step \in {"notify", "poll"} => k = "challenge_processing"
    <2>1. LoopKnows(x, challenge, published) /\ x.step \in LoopSteps /\ x.stage = k
      BY InTheLoop, LoopingIs DEF Turning
    <2> QED
      BY <2>1 DEF LoopKnows
  <1>3. UNCHANGED <<request, flow>>
    BY DEF Present, CheckPropagation, NotifyReady, PollAuthorization, Cleanup, WriteChallenge, stores
  <1>4. ASSUME NEW todo, NEW step \in LoopSteps, Moves(e, todo, step), UNCHANGED <<challenge, faults>>,
               c = First(k) => o = First(k), Turns([step |-> step, todo |-> todo], c, o)
        PROVE  Carries(e, k, t)
    <2>1. /\ exec' = [exec EXCEPT ![e] = exec'[e]]
          /\ Brings(k, exec'[e], "running", k, challenge, t, faults)
      BY <1>4, MovesBrings
    <2> QED
      BY <1>1, <1>3, <1>4, <2>1 DEF Carries
  <1>5. "write" \in LoopSteps
    BY DEF LoopSteps
  <1>6. ASSUME NEW todo, Write(e, todo), UNCHANGED <<challenge, faults>>,
               c = First(k) => o = First(k), Turns([step |-> "write", todo |-> todo], c, o)
        PROVE  Carries(e, k, t)
    BY <1>4, <1>5, <1>6 DEF Write, Moves
  <1>7. ASSUME NotYet(e), UNCHANGED challenge, c = Waiting(k)
        PROVE  Carries(e, k, t)
    <2>1. faults' = faults + 1 /\ NextTurn(e, TRUE)
      BY <1>7 DEF NotYet, Fault
    <2>2. faults + 1 \in Nat /\ faults <= faults + 1 /\ t <= faults + 1 + 1
      BY <1>1 DEF Pays, Affords
    <2>3. /\ exec' = [exec EXCEPT ![e] = exec'[e]]
          /\ Brings(k, exec'[e], "running", k, challenge, t, faults + 1)
      BY <1>7, <2>1, <2>2, NextTurnBrings
    <2> QED
      BY <1>1, <1>3, <1>7, <2>1, <2>3 DEF Carries
  <1>8. ASSUME NEW call, Fails(e, call), UNCHANGED challenge, call \in Temporary => c \in Starts(k)
        PROVE  Carries(e, k, t)
    BY <1>3, <1>8, LoopFailsBrings
  <1>9. CASE Present(e)
    <2>1. x.step = "present" /\ UNCHANGED challenge
      BY <1>9 DEF Present, At
    <2>2. x.todo \in Presented /\ c = "presenting" /\ o = "pending" /\ k = "challenge_pending"
      BY <1>1, <1>2, <2>1 DEF Turns
    <2>3. CASE Go(e, "write") /\ UNCHANGED faults
      <3>1. Turns([step |-> "write", todo |-> x.todo], c, o)
        BY <2>2 DEF Turns
      <3>2. Moves(e, x.todo, "write")
        BY <1>1, <2>3 DEF Go, Moves, TypeOK, Execution
      <3> QED
        BY <1>4, <1>5, <2>1, <2>2, <2>3, <3>1, <3>2 DEF First
    <2>4. CASE Fails(e, "present")
      BY <1>8, <2>1, <2>4
    <2> QED
      BY <1>9, <2>3, <2>4 DEF Present
  <1>10. CASE CheckPropagation(e)
    <2>1. x.step = "propagation" /\ UNCHANGED challenge
      BY <1>10 DEF CheckPropagation, At, stores
    <2>2. c = "propagating" /\ o = c /\ k = "challenge_pending"
      BY <1>1, <1>2, <2>1 DEF Turns
    <2>3. Turns([step |-> "write", todo |-> <<"ready">>], c, o)
      BY <2>2 DEF Turns
    <2>4. c = Waiting(k) /\ c \in Starts(k)
      BY <2>2 DEF Waiting, Starts
    <2> QED
      BY <1>6, <1>7, <1>8, <1>10, <2>1, <2>2, <2>3, <2>4 DEF CheckPropagation
  <1>11. CASE NotifyReady(e)
    <2>1. x.step = "notify" /\ UNCHANGED challenge
      BY <1>11 DEF NotifyReady, At, stores
    <2>2. c = "ready" /\ o = c /\ k = "challenge_processing"
      BY <1>1, <1>2, <2>1 DEF Turns
    <2>3. Turns([step |-> "write", todo |-> <<"verifying">>], c, o)
      BY <2>2 DEF Turns
    <2>4. c \in Starts(k)
      BY <2>2 DEF First, Starts
    <2> QED
      BY <1>6, <1>8, <1>11, <2>1, <2>2, <2>3, <2>4 DEF NotifyReady
  <1>12. CASE PollAuthorization(e)
    <2>1. x.step = "poll" /\ UNCHANGED challenge
      BY <1>12 DEF PollAuthorization, At, stores
    <2>2. c = "verifying" /\ o = c /\ k = "challenge_processing"
      BY <1>1, <1>2, <2>1 DEF Turns
    <2>3. /\ Turns([step |-> "write", todo |-> <<"valid">>], c, o)
          /\ Turns([step |-> "write", todo |-> <<"invalid", "cleanup_pending">>], c, o)
      BY <2>2 DEF Turns
    <2>4. c = Waiting(k) /\ c \in Starts(k)
      BY <2>2 DEF Waiting, Starts
    <2> QED
      BY <1>6, <1>7, <1>8, <1>12, <2>1, <2>2, <2>3, <2>4 DEF PollAuthorization
  <1>13. CASE Cleanup(e)
    <2>1. x.step = "cleanup" /\ UNCHANGED <<challenge, faults>>
      BY <1>13 DEF Cleanup, At
    <2>2. c = "cleanup_pending" /\ c # First(k)
      BY <1>1, <2>1 DEF Turns, First
    <2>3. /\ Turns([step |-> "write", todo |-> <<"cleaned">>], c, o)
          /\ Turns([step |-> "write", todo |-> <<"cleanup_failed">>], c, o)
      BY <2>2 DEF Turns
    <2> QED
      BY <1>6, <1>13, <2>1, <2>2, <2>3 DEF Cleanup
  <1>14. CASE WriteChallenge(e)
    <2>1. UNCHANGED faults
      BY <1>14 DEF WriteChallenge
    <2> QED
      BY <1>1, <1>3, <1>14, <2>1, WriteBrings DEF Carries
  <1> QED
    BY <1>9, <1>10, <1>11, <1>12, <1>13, <1>14

(* Out of the loops, too, a temporary error costs an attempt.              *)
LEMMA FailsBrings ==
  ASSUME TypeOK, NEW e \in Executors, NEW k, NEW t \in Nat, NEW call, Fails(e, call),
         UNCHANGED <<request, flow, challenge>>, request = "running",
         Between(k, flow, challenge), t <= faults + 1
  PROVE  Carries(e, k, t)
  <1>1. CASE Fault /\ Return(e, "retry")
    <2>1. faults' = faults + 1
      BY <1>1 DEF Fault
    <2>2. exec' = [exec EXCEPT ![e] = exec'[e]] /\ exec'[e].step = "retry"
      BY <1>1, ReturnsTo
    <2>3. Ready(k, "running", flow, challenge, t, faults + 1)
      BY DEF Ready, Affords
    <2> QED
      BY <2>1, <2>2, <2>3 DEF Carries, Brings, InLoop, OutOfLoop, LoopSteps
  <1>2. CASE Go(e, "give up") /\ UNCHANGED faults
    BY <1>2, GivingUpBrings DEF Carries
  <1> QED
    BY <1>1, <1>2 DEF Fails

(* An execution that goes on out of the loops.                             *)
LEMMA OnwardBrings ==
  ASSUME NEW e \in Executors, NEW k, NEW t \in Nat, NEW y, y = exec'[e],
         exec' = [exec EXCEPT ![e] = y],
         y.step \notin LoopSteps \cup {"idle", "over", "accept", "request", "run"}, request' = "running",
         OutOfLoop(k, y, "running", flow', challenge', t, faults')
  PROVE  Carries(e, k, t)
  BY DEF Carries, Brings, InLoop

LEMMA StartBrings ==
  ASSUME NEW e \in Executors, Here(e), NEW k, NEW t \in Nat, request \in {"accepted", "running"},
         Brings(k, exec[e], request, flow, challenge, t, faults),
         ReadRequest(e) \/ StartStep(e)
  PROVE  Carries(e, k, t)
  <1> DEFINE x == exec[e]
  <1>0. /\ TypeOK /\ faults \in Nat /\ InStage(x, flow)
        /\ OutOfLoop(k, x, request, flow, challenge, t, faults)
        /\ x.step # "accept" /\ (x.step = "run" => request = "accepted")
        /\ x.step \notin {"run", "request"} => request = "running"
    BY Constants DEF Here, WorkInv, TypeOK, Brings
  <1>1. CASE ReadRequest(e)
    <2>1. /\ x.step = "request" /\ UNCHANGED <<request, flow, challenge, faults>>
          /\ Go(e, IF request = "running" THEN "workflow" ELSE "run")
      BY <1>1 DEF ReadRequest, At, stores
    <2>2. exec' = [exec EXCEPT ![e] = exec'[e]]
          /\ exec'[e].step = IF request = "running" THEN "workflow" ELSE "run"
      BY <1>0, <2>1, GoesTo
    <2>3. k = "start" /\ t <= faults + 1 /\ Between(k, flow, challenge)
      BY <1>0, <2>1 DEF OutOfLoop
    <2> QED
      BY <2>1, <2>2, <2>3 DEF Carries, Brings, InLoop, OutOfLoop, LoopSteps
  <1>2. CASE MarkAccepted(e)
    BY <1>0, <1>2 DEF MarkAccepted, At
  <1>3. CASE MarkRunning(e)
    <2>1. x.step = "run" /\ request = "accepted" /\ UNCHANGED <<flow, challenge, faults>>
      BY <1>0, <1>3 DEF MarkRunning, At
    <2>2. request' = "running" /\ Go(e, "workflow")
      BY <1>3, <2>1 DEF MarkRunning, MoveRequest, RequestMoves
    <2>3. exec' = [exec EXCEPT ![e] = exec'[e]] /\ exec'[e].step = "workflow"
      BY <1>0, <2>2, GoesTo
    <2>4. k = "start" /\ t <= faults + 1 /\ Between(k, flow, challenge)
      BY <1>0, <2>1 DEF OutOfLoop
    <2> QED
      BY <2>1, <2>2, <2>3, <2>4 DEF Carries, Brings, InLoop, OutOfLoop, LoopSteps
  <1>4. CASE EnsureWorkflow(e)
    <2>1. x.step = "workflow" /\ UNCHANGED <<request, challenge, faults>>
      BY <1>4 DEF EnsureWorkflow, At
    <2>2. k = "start" /\ t <= faults + 1 /\ flow \in {"none", "created"} /\ request = "running"
      BY <1>0, <2>1 DEF OutOfLoop, Between
    <2>3. flow' = "created" /\ GoOn(e, "created", "order")
      BY <1>4, <2>2 DEF EnsureWorkflow
    <2>4. exec' = [exec EXCEPT ![e] = exec'[e]] /\ exec'[e].step = "order"
      BY <1>0, <2>3, GoesOnTo
    <2> QED
      BY <2>1, <2>2, <2>3, <2>4 DEF Carries, Brings, InLoop, OutOfLoop, LoopSteps
  <1>5. CASE CreateOrder(e)
    <2>1. x.step = "order" /\ UNCHANGED <<request, flow, challenge>>
      BY <1>5 DEF CreateOrder, At, stores
    <2>2. k = "start" /\ t <= faults + 1 /\ flow = "created" /\ request = "running"
      BY <1>0, <2>1 DEF OutOfLoop
    <2>3. CASE Go(e, "record") /\ UNCHANGED faults
      <3>1. exec' = [exec EXCEPT ![e] = exec'[e]] /\ exec'[e].step = "record"
        BY <1>0, <2>3, GoesTo
      <3> QED
        BY <2>1, <2>2, <2>3, <3>1 DEF Carries, Brings, InLoop, OutOfLoop, LoopSteps
    <2>4. CASE Fails(e, "order")
      <3>1. Between(k, flow, challenge)
        BY <2>2 DEF Between, Loops
      <3> QED
        BY <1>0, <2>1, <2>2, <2>4, <3>1, FailsBrings
    <2> QED
      BY <1>5, <2>3, <2>4 DEF CreateOrder
  <1>6. CASE RecordOrder(e)
    <2>1. x.step = "record" /\ UNCHANGED <<request, challenge, faults>>
      BY <1>6 DEF RecordOrder, At
    <2>2. k = "start" /\ t <= faults + 1 /\ flow = "created" /\ request = "running"
      BY <1>0, <2>1 DEF OutOfLoop
    <2>3. flow' = "order_pending" /\ GoOn(e, "order_pending", "challenges")
      BY <1>6, <2>2 DEF RecordOrder, EnterStage, FlowMoves
    <2>4. exec' = [exec EXCEPT ![e] = exec'[e]] /\ exec'[e].step = "challenges"
      BY <1>0, <2>3, GoesOnTo
    <2> QED
      BY <2>1, <2>2, <2>3, <2>4 DEF Carries, Brings, InLoop, OutOfLoop, LoopSteps
  <1>7. CASE EnsureChallenges(e)
    <2>1. x.step = "challenges" /\ UNCHANGED <<request, faults>>
      BY <1>7 DEF EnsureChallenges, At
    <2>2. k = "start" /\ flow = "order_pending" /\ request = "running"
      BY <1>0, <2>1 DEF OutOfLoop
    <2>3. challenge = << >> /\ "challenge_pending" \in FlowMoves(flow)
      BY <2>2 DEF Here, NotYetChallenged, FlowMoves
    <2>4. /\ challenge' = [i \in 1 .. Challenges |-> "pending"]
          /\ flow' = "challenge_pending" /\ GoOn(e, "challenge_pending", "schedule")
      BY <1>7, <2>3 DEF EnsureChallenges, EnterStage
    <2>5. /\ exec' = [exec EXCEPT ![e] = exec'[e]]
          /\ exec'[e].step = "schedule" /\ exec'[e].stage = "challenge_pending"
      BY <1>0, <2>4, GoesOnTo
    <2>6. \A i \in 1 .. Challenges : challenge'[i] = "pending"
      BY <2>4
    <2>7. Between("challenge_pending", "challenge_pending", challenge')
      BY <2>6 DEF Between, Loops, Starts, First
    <2>8. "challenge_pending" \in After(k)
      BY <2>2 DEF After
    <2> QED
      BY <2>1, <2>2, <2>4, <2>5, <2>7, <2>8 DEF Carries, Brings, InLoop, OutOfLoop, LoopSteps
  <1> QED
    BY <1>1, <1>2, <1>3, <1>4, <1>5, <1>6, <1>7 DEF StartStep

LEMMA ListBrings ==
  ASSUME NEW e \in Executors, Here(e), NEW k, NEW t \in Nat, request = "running",
         Brings(k, exec[e], request, flow, challenge, t, faults), ListChallenges(e)
  PROVE  Carries(e, k, t)
  <1> DEFINE x == exec[e]
  <1>0. /\ x \in Execution /\ exec \in [Executors -> Execution] /\ faults \in Nat /\ challenge \in Seq(ChallengeStatuses)
        /\ Len(challenge) \in {0, Challenges} /\ InStage(x, flow) /\ FlowInv
        /\ OutOfLoop(k, x, request, flow, challenge, t, faults) /\ x.step = "list"
    BY Constants DEF Here, WorkInv, TypeOK, Brings, ListChallenges, At
  <1>1. /\ x.stage = flow /\ ~x.waits /\ k # "start" /\ Between(k, flow, challenge)
        /\ Affords(k, challenge, t, faults + 1)
    BY <1>0 DEF InStage, Blind, OutOfLoop
  <1>2. UNCHANGED <<request, flow, challenge, faults>>
    BY DEF ListChallenges, stores
  <1> DEFINE y == [x EXCEPT !.list = challenge]
  <1>3. CASE k \in Loops
    <2>1. y \in Execution /\ y.list = challenge /\ y.stage = flow /\ ~y.waits
      BY <1>0, <1>1 DEF Execution
    <2>2. exec' = [exec EXCEPT ![e] = TurnTo(y, 1)]
      BY <1>0, <1>1, <1>3 DEF ListChallenges, Between, Loops
    <2> HIDE DEF y
    <2>3. exec' = [exec EXCEPT ![e] = exec'[e]] /\ exec'[e] = TurnTo(y, 1)
      BY <1>0, <2>2
    <2>4. flow = k /\ \A i \in 1 .. Challenges : challenge[i] \in Starts(k)
      BY <1>1, <1>3 DEF Between
    <2>5. Len(challenge) = Challenges
      <3>1. challenge # << >>
        BY <1>0, <1>3, <2>4 DEF FlowInv, Loops
      <3> QED
        BY <1>0, <3>1, EmptySeq
    <2>6. Halfway(k, y, challenge, 1, 1)
      BY <1>3, <2>1, <2>4, <2>5 DEF Halfway
    <2>7. Pays(k, y, t, faults)
      BY <1>1, <2>1 DEF Pays
    <2>8. 1 \in 1 .. Challenges + 1
      BY Constants
    <2>9. Brings(k, TurnTo(y, 1), "running", k, challenge, t, faults)
      BY <1>0, <2>1, <2>6, <2>7, <2>8, TurnBrings
    <2> QED
      BY <1>2, <2>3, <2>4, <2>9 DEF Carries
  <1> HIDE DEF y
  <1>4. CASE k \notin Loops
    <2>1. /\ t <= faults + 1
          /\ \/ k = "challenge_valid" /\ flow \in {"challenge_valid", "finalizing"}
             \/ k = "issued" /\ flow = "issued"
      BY <1>1, <1>4 DEF Between, Affords
    <2>2. PICK step \in {"finalizing", "finalize", "persist"} :
            /\ exec' = [exec EXCEPT ![e] = Executing(x.job, step, x.stage)]
            /\ step = "finalizing" => k = "challenge_valid" /\ flow = "challenge_valid"
            /\ step = "finalize" => k = "challenge_valid" /\ flow = "finalizing"
            /\ step = "persist" => k = "issued" /\ flow = "issued"
      BY <1>0, <1>1, <2>1 DEF ListChallenges
    <2>3. exec' = [exec EXCEPT ![e] = exec'[e]] /\ exec'[e].step = step
      BY <1>0, <2>2, ExecutingFields
    <2> QED
      BY <1>2, <2>1, <2>2, <2>3 DEF Carries, Brings, InLoop, OutOfLoop, LoopSteps
  <1> QED
    BY <1>3, <1>4

(* Into the next stage.                                                    *)
LEMMA StageBrings ==
  ASSUME NEW e \in Executors, Here(e), NEW k, NEW t \in Nat, request = "running",
         Brings(k, exec[e], request, flow, challenge, t, faults),
         StartProcessing(e) \/ MarkValid(e) \/ StartFinalizing(e) \/ MarkIssued(e)
  PROVE  Carries(e, k, t)
  <1> DEFINE x == exec[e]
  <1>0. TypeOK /\ faults \in Nat /\ OutOfLoop(k, x, request, flow, challenge, t, faults)
    BY Constants DEF Here, WorkInv, TypeOK, Brings
  <1>1. UNCHANGED <<request, challenge, faults>>
    BY DEF StartProcessing, MarkValid, StartFinalizing, MarkIssued
  <1>2. ASSUME NEW stage, NEW next, EnterStage(e, stage, next), stage \in FlowMoves(flow)
        PROVE  /\ exec' = [exec EXCEPT ![e] = exec'[e]] /\ flow' = stage
               /\ exec'[e].step = next /\ exec'[e].stage = stage
    BY <1>0, <1>2, GoesOnTo DEF EnterStage
  <1>3. ASSUME NEW stage \in After(k), EnterStage(e, stage, "schedule"), stage \in FlowMoves(flow),
               Between(stage, stage, challenge)
        PROVE  Carries(e, k, t)
    <2>1. /\ exec' = [exec EXCEPT ![e] = exec'[e]] /\ flow' = stage
          /\ exec'[e].step = "schedule" /\ exec'[e].stage = stage
      BY <1>2, <1>3
    <2> QED
      BY <1>1, <1>3, <2>1 DEF Carries, Brings, InLoop, OutOfLoop, LoopSteps
  <1>4. CASE StartProcessing(e)
    <2>1. /\ k = "challenge_pending" /\ flow = k /\ \A i \in 1 .. Challenges : challenge[i] = "ready"
          /\ EnterStage(e, "challenge_processing", "schedule")
      BY <1>0, <1>4 DEF StartProcessing, At, OutOfLoop
    <2>2. "challenge_processing" \in After(k) /\ "challenge_processing" \in FlowMoves(flow)
      BY <2>1 DEF After, FlowMoves
    <2>3. Between("challenge_processing", "challenge_processing", challenge)
      BY <2>1 DEF Between, Loops, Starts, First
    <2> QED
      BY <1>3, <2>1, <2>2, <2>3
  <1>5. CASE MarkValid(e)
    <2>1. k = "challenge_processing" /\ flow = k /\ EnterStage(e, "challenge_valid", "schedule")
      BY <1>0, <1>5 DEF MarkValid, At, OutOfLoop
    <2>2. "challenge_valid" \in After(k) /\ "challenge_valid" \in FlowMoves(flow)
      BY <2>1 DEF After, FlowMoves
    <2>3. Between("challenge_valid", "challenge_valid", challenge)
      BY DEF Between, Loops
    <2> QED
      BY <1>3, <2>1, <2>2, <2>3
  <1>6. CASE MarkIssued(e)
    <2>1. k = "challenge_valid" /\ flow = "finalizing" /\ EnterStage(e, "issued", "schedule")
      BY <1>0, <1>6 DEF MarkIssued, At, OutOfLoop
    <2>2. "issued" \in After(k) /\ "issued" \in FlowMoves(flow)
      BY <2>1 DEF After, FlowMoves
    <2>3. Between("issued", "issued", challenge)
      BY DEF Between, Loops
    <2> QED
      BY <1>3, <2>1, <2>2, <2>3
  <1>7. CASE StartFinalizing(e)
    <2>1. /\ k = "challenge_valid" /\ flow = k /\ t <= faults + 1
          /\ EnterStage(e, "finalizing", "finalize")
      BY <1>0, <1>7 DEF StartFinalizing, At, OutOfLoop
    <2>2. "finalizing" \in FlowMoves(flow)
      BY <2>1 DEF FlowMoves
    <2>3. /\ exec' = [exec EXCEPT ![e] = exec'[e]] /\ flow' = "finalizing"
          /\ exec'[e].step = "finalize" /\ exec'[e].stage = "finalizing"
      BY <1>2, <2>1, <2>2
    <2> QED
      BY <1>1, <2>1, <2>3 DEF Carries, Brings, InLoop, OutOfLoop, LoopSteps
  <1> QED
    BY <1>4, <1>5, <1>6, <1>7

LEMMA FinishBrings ==
  ASSUME NEW e \in Executors, Here(e), NEW k, NEW t \in Nat, request = "running",
         Brings(k, exec[e], request, flow, challenge, t, faults),
         \/ FinalizeOrder(e) \/ Download(e) \/ PersistVersion(e) \/ LinkDomain(e)
  PROVE  Carries(e, k, t)
  <1> DEFINE x == exec[e]
  <1>0. TypeOK /\ faults \in Nat /\ OutOfLoop(k, x, request, flow, challenge, t, faults)
    BY Constants DEF Here, WorkInv, TypeOK, Brings
  <1>1. UNCHANGED <<request, flow, challenge>>
    BY DEF FinalizeOrder, Download, PersistVersion, LinkDomain, stores
  <1>2. /\ t <= faults + 1
        /\ x.step \in {"finalize", "download"} => k = "challenge_valid" /\ flow = "finalizing"
        /\ x.step \in {"persist", "link"} => k = "issued" /\ flow = "issued"
        /\ x.step \in {"finalize", "download", "persist", "link"}
    BY <1>0 DEF FinalizeOrder, Download, PersistVersion, LinkDomain, At, OutOfLoop
  <1>3. Between(k, flow, challenge)
    BY <1>2 DEF Between, Loops
  <1>4. ASSUME NEW call, Fails(e, call)
        PROVE  Carries(e, k, t)
    BY <1>0, <1>1, <1>2, <1>3, <1>4, FailsBrings
  <1>5. ASSUME NEW y, y = exec'[e], exec' = [exec EXCEPT ![e] = y], UNCHANGED faults,
               \/ y.step \in {"download", "issue"} /\ k = "challenge_valid" /\ flow = "finalizing"
               \/ y.step \in {"link", "complete"} /\ k = "issued" /\ flow = "issued"
        PROVE  Carries(e, k, t)
    BY <1>1, <1>2, <1>5 DEF Carries, Brings, InLoop, OutOfLoop, LoopSteps
  <1>6. ASSUME NEW step, Go(e, step)
        PROVE  exec' = [exec EXCEPT ![e] = exec'[e]] /\ exec'[e].step = step
    BY <1>0, <1>6, GoesTo
  <1>7. CASE FinalizeOrder(e) \/ Download(e)
    <2>1. x.step \in {"finalize", "download"}
      BY <1>7 DEF FinalizeOrder, Download, At
    <2>2. PICK step, call : (step \in {"download", "issue"} /\ Go(e, step) /\ UNCHANGED faults) \/ Fails(e, call)
      BY <1>7 DEF FinalizeOrder, Download
    <2> QED
      BY <1>2, <1>4, <1>5, <1>6, <2>1, <2>2
  <1>8. CASE PersistVersion(e)
    <2>1. x.step = "persist"
      BY <1>8 DEF PersistVersion, At
    <2>2. (Go(e, "link") /\ UNCHANGED faults) \/ Fails(e, "persist")
      BY <1>8 DEF PersistVersion
    <2> QED
      BY <1>2, <1>4, <1>5, <1>6, <2>1, <2>2
  <1>9. CASE LinkDomain(e)
    <2>1. x.step = "link"
      BY <1>9 DEF LinkDomain, At
    <2> DEFINE i == x.at + 1
    <2>2. \/ Fails(e, "link")
          \/ /\ exec' = [exec EXCEPT ![e].at = i, ![e].step = IF i = Challenges THEN "complete" ELSE "link"]
             /\ UNCHANGED faults
      BY <1>9 DEF LinkDomain
    <2> HIDE DEF i
    <2>3. ASSUME NEW step \in {"complete", "link"}, exec' = [exec EXCEPT ![e].at = i, ![e].step = step],
                 UNCHANGED faults
          PROVE  Carries(e, k, t)
      <3>1. exec' = [exec EXCEPT ![e] = exec'[e]] /\ exec'[e] = [exec[e] EXCEPT !.at = i, !.step = step]
        BY <1>0, <2>3 DEF TypeOK
      <3>2. exec'[e].step = step
        BY <1>0, <3>1 DEF TypeOK, Execution
      <3> QED
        BY <1>2, <1>5, <2>1, <2>3, <3>1, <3>2
    <2> QED
      BY <1>4, <2>2, <2>3
  <1> QED
    BY <1>7, <1>8, <1>9

(* Every step of the execution brings the request on, or ends it.          *)
LEMMA WorkBrings ==
  ASSUME NEW e \in Executors, Here(e), NEW k, NEW t \in Nat, request \in {"accepted", "running"},
         Brings(k, exec[e], request, flow, challenge, t, faults), Works(e), "present" \notin Temporary,
         "unknown" \notin Permanent
  PROVE  Carries(e, k, t) \/ request' \in {"completed", "failed"}
  <1> DEFINE x == exec[e]
  <1>0. /\ TypeOK /\ InStage(x, flow) /\ OutOfLoop(k, x, request, flow, challenge, t, faults)
        /\ x.step \notin {"run", "request"} => request = "running"
    BY DEF Here, WorkInv, Brings
  <1>1. CASE ReadRequest(e) \/ StartStep(e)
    BY <1>1, StartBrings
  <1>2. CASE ReadFlow(e)
    <2>1. x.step = "flow" /\ GoOn(e, flow, "list") /\ UNCHANGED <<request, flow, challenge, faults>>
      BY <1>2 DEF ReadFlow, At, stores
    <2>2. exec' = [exec EXCEPT ![e] = exec'[e]] /\ exec'[e] = Executing(x.job, "list", flow)
      BY <1>0, <2>1, GoesOnTo
    <2>3. exec'[e].step = "list" /\ ~exec'[e].waits
      BY <2>2 DEF Executing, Idle
    <2>4. k # "start" /\ Between(k, flow, challenge) /\ Affords(k, challenge, t, faults + 1)
      BY <1>0, <2>1 DEF OutOfLoop
    <2> QED
      BY <1>0, <2>1, <2>2, <2>3, <2>4 DEF Carries, Brings, InLoop, OutOfLoop, LoopSteps
  <1>3. CASE ListChallenges(e)
    <2>1. request = "running"
      BY <1>0, <1>3 DEF ListChallenges, At
    <2> QED
      BY <1>3, <2>1, ListBrings
  <1>4. CASE \/ Present(e) \/ CheckPropagation(e) \/ NotifyReady(e) \/ PollAuthorization(e)
             \/ Cleanup(e) \/ WriteChallenge(e)
    <2>1. x.step \in LoopSteps
      BY <1>4 DEF Present, CheckPropagation, NotifyReady, PollAuthorization, Cleanup, WriteChallenge, At, LoopSteps
    <2>2. request = "running"
      BY <1>0, <2>1 DEF LoopSteps
    <2>3. Turning(e, k, t)
      BY <2>1 DEF Turning, Here, Brings
    <2> QED
      BY <1>4, <2>2, <2>3, LoopBrings
  <1>5. CASE StartProcessing(e) \/ MarkValid(e) \/ StartFinalizing(e) \/ MarkIssued(e)
    <2>1. request = "running"
      BY <1>0, <1>5 DEF StartProcessing, MarkValid, StartFinalizing, MarkIssued, At
    <2> QED
      BY <1>5, <2>1, StageBrings
  <1>6. CASE FinalizeOrder(e) \/ Download(e) \/ PersistVersion(e) \/ LinkDomain(e)
    <2>1. request = "running"
      BY <1>0, <1>6 DEF FinalizeOrder, Download, PersistVersion, LinkDomain, At
    <2> QED
      BY <1>6, <2>1, FinishBrings
  <1>7. CASE MarkCompleted(e) \/ FailRequest(e)
    <2>1. request = "running"
      BY <1>0, <1>7 DEF MarkCompleted, FailRequest, At
    <2>2. {"completed", "failed"} \subseteq RequestMoves(request)
      BY <2>1 DEF RequestMoves
    <2> QED
      BY <1>7, <2>2 DEF MarkCompleted, FailRequest, MoveRequest
  <1>8. CASE RejectWorkflow(e) \/ GiveUp(e)
    <2>1. /\ request = "running" /\ UNCHANGED request
          /\ x.step = "reject" => flow = "challenge_processing"
      BY <1>0, <1>8 DEF RejectWorkflow, GiveUp, At, OutOfLoop
    <2>2. GoOn(e, "none", "fail request")
      BY <1>8, <2>1 DEF RejectWorkflow, GiveUp, At, FlowMoves
    <2>3. exec' = [exec EXCEPT ![e] = exec'[e]] /\ exec'[e].step = "fail request"
      BY <1>0, <2>2, GoesOnTo
    <2> QED
      BY <2>1, <2>3 DEF Carries, Brings, InLoop, OutOfLoop, LoopSteps
  <1> QED
    BY <1>1, <1>2, <1>3, <1>4, <1>5, <1>6, <1>7, <1>8 DEF Works, ContinueStep

(* Other executions of the request change its status no more.              *)
LEMMA FinalStays ==
  ASSUME NEW e \in Executors, ExecutionStep(e), request \in {"completed", "failed", "cancelled", "none"}
  PROVE  request' = request
  <1>1. RequestMoves(request) = {}
    BY DEF RequestMoves
  <1>2. CASE ReadRequest(e) \/ StartStep(e)
    BY <1>1, <1>2 DEF ReadRequest, StartStep, MarkAccepted, MarkRunning, EnsureWorkflow, CreateOrder,
                      RecordOrder, EnsureChallenges, MoveRequest, stores
  <1>3. CASE RejectWorkflow(e) \/ GiveUp(e) \/ FailRequest(e) \/ ScheduleNext(e) \/ Report(e)
    BY <1>1, <1>3 DEF RejectWorkflow, GiveUp, FailRequest, ScheduleNext, Report, MoveRequest
  <1>4. CASE ContinueStep(e)
    BY <1>1, <1>4 DEF ContinueStep, ReadFlow, ListChallenges, Present, CheckPropagation, StartProcessing,
                NotifyReady, PollAuthorization, Cleanup, MarkValid, WriteChallenge, StartFinalizing,
                FinalizeOrder, Download, MarkIssued, PersistVersion, LinkDomain, MarkCompleted,
                MoveRequest, stores
  <1> QED
    BY <1>2, <1>3, <1>4 DEF ExecutionStep

(* The statuses a step can leave the request in.                           *)
LEMMA RequestIs ==
  ASSUME NEW e \in Executors, ExecutionStep(e)
  PROVE  request' \in {request, "accepted", "running", "completed", "failed"}
  <1>1. CASE ReadRequest(e) \/ StartStep(e)
    BY <1>1 DEF ReadRequest, StartStep, MarkAccepted, MarkRunning, EnsureWorkflow, CreateOrder,
                RecordOrder, EnsureChallenges, MoveRequest, stores
  <1>2. CASE RejectWorkflow(e) \/ GiveUp(e) \/ FailRequest(e) \/ ScheduleNext(e) \/ Report(e)
    BY <1>2 DEF RejectWorkflow, GiveUp, FailRequest, ScheduleNext, Report, MoveRequest
  <1>3. CASE ContinueStep(e)
    BY <1>3 DEF ContinueStep, ReadFlow, ListChallenges, Present, CheckPropagation, StartProcessing,
                NotifyReady, PollAuthorization, Cleanup, MarkValid, WriteChallenge, StartFinalizing,
                FinalizeOrder, Download, MarkIssued, PersistVersion, LinkDomain, MarkCompleted,
                MoveRequest, stores
  <1> QED
    BY <1>1, <1>2, <1>3 DEF ExecutionStep

LEMMA AfterIs ==
  /\ \A k : After(k) \subseteq JobKeys \ {k, "start"}
  /\ \A k : \A s \in After(k) : After(s) \subseteq After(k) \ {s}
  <1>1. ASSUME NEW k PROVE After(k) \subseteq JobKeys \ {k, "start"}
    BY DEF After, JobKeys, Stages
  <1>2. ASSUME NEW k, NEW s \in After(k) PROVE After(s) \subseteq After(k) \ {s}
    BY DEF After
  <1> QED
    BY <1>1, <1>2

(* The job that drives the request is the one that is busy.                *)
LEMMA DriverIsBusy ==
  ASSUME SoleInv, NEW k \in JobKeys, Drives(k)
  PROVE  /\ Busy(k) /\ jobs[k].tries \in Nat
         /\ \A e \in Executors : Active(e) => exec[e].job = k /\ jobs[k].stage = "held" /\ jobs[k].holder = e
         /\ \A j \in JobKeys : jobs[j].stage = "queued" => j = k
  <1>1. TypeOK
    BY DEF SoleInv, WorkInv
  <1>2. Busy(k)
    BY DEF Drives, Brings, Busy, Active
  <1>3. \A j \in JobKeys : Busy(j) => j = k
    BY <1>2 DEF SoleInv, OneBusy
  <1>4. ASSUME NEW e \in Executors, Active(e)
        PROVE  exec[e].job = k /\ jobs[k].stage = "held" /\ jobs[k].holder = e
    <2>1. /\ exec[e].job \in JobKeys
          /\ jobs[exec[e].job].stage = "held" /\ jobs[exec[e].job].holder = e
      BY <1>1, <1>4, JobsOfExecutions DEF SoleInv, Holding, Active
    <2>2. Busy(exec[e].job)
      BY <1>4, <2>1 DEF Busy
    <2> QED
      BY <1>3, <2>1, <2>2
  <1> QED
    BY <1>1, <1>2, <1>3, <1>4 DEF Busy, TypeOK, JobStates

(* While a request is being submitted, nobody works for it.                *)
LEMMA WorkingMeansAccepted ==
  ASSUME SoleInv, DrivenInv, NEW e \in Executors, exec[e].step # "idle"
  PROVE  submitter = "idle" /\ request \notin {"none", "submitted"}
  <1>1. exec[e].job \in JobKeys /\ jobs[exec[e].job].stage = "held"
    BY JobsOfExecutions DEF SoleInv, WorkInv, Holding
  <1>2. ~Submitting
    BY <1>1 DEF Submitting, Unused
  <1> QED
    BY <1>1, <1>2 DEF DrivenInv, Unused

LEMMA WorkKeepsDriven ==
  ASSUME "present" \notin Temporary, "unknown" \notin Permanent, SoleInv, DrivenInv, NEW e \in Executors, Works(e)
  PROVE  DrivenInv'
  <1>1. /\ Active(e) /\ UNCHANGED <<jobs, submitter>> /\ ExecutionStep(e) /\ exec[e].step # "idle"
    BY WorkIsUnderWay DEF Active
  <1>2. submitter = "idle" /\ request \notin {"none", "submitted"}
    BY <1>1, WorkingMeansAccepted
  <1>3. request' \notin {"none", "submitted"}
    BY <1>1, <1>2, RequestIs
  <1>4. ASSUME request' \in {"accepted", "running"}
        PROVE  \E k \in JobKeys : Drives(k)'
    <2>1. request \in {"accepted", "running"}
      BY <1>1, <1>2, <1>4, FinalStays DEF SoleInv, WorkInv, TypeOK, RequestStatuses
    <2>2. PICK k \in JobKeys : Drives(k)
      BY <2>1 DEF DrivenInv
    <2>3. jobs[k].stage = "held" /\ jobs[k].holder = e /\ jobs[k].tries \in Nat
      BY <1>1, <2>2, DriverIsBusy
    <2> DEFINE t == jobs[k].tries
    <2>4. Brings(k, exec[e], request, flow, challenge, t, faults)
      BY <2>2, <2>3 DEF Drives
    <2>5. Here(e)
      BY <1>1 DEF SoleInv, Here
    <2>6. Carries(e, k, t)
      BY <1>4, <2>1, <2>3, <2>4, <2>5, WorkBrings
    <2>7. /\ jobs'[k].stage = "held" /\ jobs'[k].holder = e /\ jobs'[k].tries = t
          /\ \A j \in After(k) : jobs'[j].stage = "none" /\ jobs'[j].tries = 0
      BY <1>1, <2>2, <2>3 DEF Drives, Unused
    <2>8. Brings(k, exec'[e], request', flow', challenge', t, faults')
      BY <2>6 DEF Carries
    <2> HIDE DEF t
    <2>9. Drives(k)'
      BY <2>7, <2>8 DEF Drives, Unused
    <2> QED
      BY <2>9
  <1> QED
    BY <1>1, <1>2, <1>3, <1>4 DEF DrivenInv

(* A job that is claimed: the attempt is paid for.                         *)
LEMMA TakeKeepsDriven ==
  ASSUME Prompt, SoleInv, DrivenInv, NEW e \in Executors, NEW j \in JobKeys, Take(e, j)
  PROVE  DrivenInv'
  <1>1. /\ TypeOK /\ faults \in Nat
        /\ submitter = "idle" /\ jobs[j].stage = "queued"
        /\ UNCHANGED <<request, flow, challenge, submitter, faults>>
    BY Constants DEF Take, SoleInv, WorkInv, TypeOK
  <1>2. request \notin {"none", "submitted"}
    BY <1>1 DEF DrivenInv, Unused
  <1>3. ASSUME request \in {"accepted", "running"}
        PROVE  \E k \in JobKeys : Drives(k)'
    <2>1. PICK k \in JobKeys : Drives(k)
      BY <1>3 DEF DrivenInv
    <2>2. j = k /\ jobs[k].tries \in Nat
      BY <1>1, <2>1, DriverIsBusy
    <2> DEFINE t == jobs[k].tries
               step == IF k = "start" THEN "request" ELSE "flow"
    <2>3. Ready(k, request, flow, challenge, t, faults)
      BY <1>1, <2>1, <2>2 DEF Drives
    <2>4. /\ jobs' = [jobs EXCEPT ![k] = [stage |-> "held", tries |-> t + 1, holder |-> e]]
          /\ exec' = [exec EXCEPT ![e] = Executing(k, step, "none")]
      BY <1>1, <2>2 DEF Take, TypeOK
    <2>5. /\ jobs'[k].stage = "held" /\ jobs'[k].holder = e /\ jobs'[k].tries = t + 1
          /\ \A i \in JobKeys \ {k} : jobs'[i] = jobs[i]
      BY <1>1, <2>4 DEF TypeOK
    <2>6. exec'[e].step = step
      BY <1>1, <2>4, ExecutingFields DEF TypeOK
    <2>7. \A i \in After(k) : jobs'[i].stage = "none" /\ jobs'[i].tries = 0
      BY <2>1, <2>5, AfterIs DEF Drives, Unused
    <2>8. Brings(k, exec'[e], request, flow, challenge, t + 1, faults)
      <3>1. CASE k = "start"
        <4>1. Between(k, flow, challenge) /\ t <= faults
          BY <2>3, <3>1 DEF Ready, Affords, Loops
        <4>2. exec'[e].step = "request"
          BY <2>6, <3>1
        <4>3. t + 1 <= faults + 1
          BY <1>1, <2>2, <4>1
        <4> HIDE DEF t, step
        <4> QED
          BY <3>1, <4>1, <4>2, <4>3 DEF Brings, InLoop, OutOfLoop, LoopSteps
      <3>2. CASE k # "start"
        <4>1. Between(k, flow, challenge) /\ request = "running"
          BY <2>3, <3>2 DEF Ready
        <4>2. exec'[e].step = "flow"
          BY <2>6, <3>2
        <4>3. Affords(k, challenge, t + 1, faults + 1)
          BY <1>1, <2>2, <2>3 DEF Ready, Affords
        <4> HIDE DEF t, step
        <4> QED
          BY <3>2, <4>1, <4>2, <4>3 DEF Brings, InLoop, OutOfLoop, LoopSteps
      <3> QED
        BY <3>1, <3>2
    <2> HIDE DEF t, step
    <2>9. Drives(k)'
      BY <1>1, <2>5, <2>7, <2>8 DEF Drives, Unused
    <2> QED
      BY <2>9
  <1> QED
    BY <1>1, <1>2, <1>3 DEF DrivenInv

(* An attempt is over: if it is repeated, an attempt is left for it.       *)
LEMMA ReportKeepsDriven ==
  ASSUME MaxAttempts >= MaxFaults + 2, SoleInv, DrivenInv, NEW e \in Executors, Report(e)
  PROVE  DrivenInv'
  <1> DEFINE i == exec[e].job
             again == exec[e].step = "retry"
  <1>1. /\ TypeOK /\ i \in JobKeys /\ faults \in Nat /\ faults <= MaxFaults /\ MaxFaults \in Nat
        /\ MaxAttempts \in Nat /\ jobs \in [JobKeys -> JobStates]
    BY JobsOfExecutions, Constants DEF SoleInv, WorkInv, TypeOK
  <1>2. exec[e].step \in {"over", "retry"} /\ jobs[i].stage = "held" /\ jobs[i].holder = e
    BY DEF Report, SoleInv, Holding
  <1>3. /\ jobs' = Released(i, again) /\ exec' = [exec EXCEPT ![e] = Idle]
        /\ UNCHANGED <<request, flow, challenge, submitter, faults>>
    BY <1>2 DEF Report
  <1>4. submitter = "idle" /\ request \notin {"none", "submitted"}
    BY <1>2, WorkingMeansAccepted
  <1>5. \A f \in Executors \ {e} : exec'[f] = exec[f]
    BY <1>1, <1>3 DEF TypeOK
  <1>6. /\ \A j \in JobKeys \ {i} : jobs'[j] = jobs[j]
        /\ again /\ jobs[i].tries < MaxAttempts => jobs'[i].stage = "queued" /\ jobs'[i].tries = jobs[i].tries
    <2> HIDE DEF i, again
    <2> QED
      BY <1>1, <1>3 DEF Released, JobStates
  <1>7. ASSUME request \in {"accepted", "running"}
        PROVE  \E k \in JobKeys : Drives(k)'
    <2>1. PICK k \in JobKeys : Drives(k)
      BY <1>7 DEF DrivenInv
    <2>2. jobs[k].tries \in Nat
      BY <2>1, DriverIsBusy
    <2> DEFINE t == jobs[k].tries
    <2>3. CASE again
      <3>1. i = k /\ jobs[k].stage = "held" /\ jobs[k].holder = e
        BY <2>1, <2>3, DriverIsBusy DEF Active
      <3>2. Brings(k, exec[e], request, flow, challenge, t, faults)
        BY <2>1, <3>1 DEF Drives
      <3>3. Ready(k, request, flow, challenge, t, faults)
        BY <2>3, <3>2 DEF Brings, OutOfLoop
      <3>4. t < MaxAttempts
        BY <1>1, <2>2, <3>3 DEF Ready, Affords
      <3>5. jobs'[k].stage = "queued" /\ jobs'[k].tries = t
        BY <1>6, <2>3, <3>1, <3>4
      <3>6. \A j \in After(k) : jobs'[j].stage = "none" /\ jobs'[j].tries = 0
        BY <1>6, <2>1, <3>1, AfterIs DEF Drives, Unused
      <3> HIDE DEF t
      <3> QED
        BY <1>3, <3>3, <3>5, <3>6 DEF Drives, Unused
    <2>4. CASE ~again
      <3>1. exec[e].step = "over"
        BY <1>2, <2>4
      <3>2. i # k
        BY <1>2, <2>1, <3>1 DEF Drives, Brings
      <3>3. jobs'[k] = jobs[k]
        BY <1>6, <3>2
      <3>4. jobs[k].stage = "held" => jobs[k].holder \in Executors \ {e}
        BY <3>2 DEF SoleInv, Holding, Executes
      <3>5. jobs[k].stage = "held" => exec'[jobs[k].holder] = exec[jobs[k].holder]
        BY <1>5, <3>4
      <3>6. \A j \in After(k) : jobs'[j] = jobs[j]
        BY <1>2, <1>6, <2>1, AfterIs DEF Drives, Unused
      <3>7. /\ jobs[k].stage \in {"queued", "held"}
            /\ \A j \in After(k) : jobs'[j].stage = "none" /\ jobs'[j].tries = 0
            /\ jobs[k].stage = "queued" => Ready(k, request, flow, challenge, t, faults)
            /\ jobs[k].stage = "held" => Brings(k, exec'[jobs[k].holder], request, flow, challenge, t, faults)
        BY <2>1, <3>5, <3>6 DEF Drives, Unused
      <3> HIDE DEF t
      <3> QED
        BY <1>3, <3>3, <3>7 DEF Drives, Unused, t
    <2> QED
      BY <2>3, <2>4
  <1> HIDE DEF i, again
  <1> QED
    BY <1>3, <1>4, <1>7 DEF DrivenInv

(* The next job takes over.                                                *)
LEMMA ScheduleKeepsDriven ==
  ASSUME ~StoreFaults, SoleInv, DrivenInv, NEW e \in Executors, ScheduleNext(e)
  PROVE  DrivenInv'
  <1> PICK s : s = exec[e].stage
    OBVIOUS
  <1>1. TypeOK /\ faults \in Nat /\ exec[e].step = "schedule" /\ Active(e)
    BY Constants DEF SoleInv, WorkInv, TypeOK, ScheduleNext, At, Active
  <1>2. submitter = "idle" /\ request \notin {"none", "submitted"}
    BY <1>1, WorkingMeansAccepted
  <1>3. jobs' = Ensured(s) /\ UNCHANGED <<request, flow, challenge, submitter, faults>>
    BY DEF ScheduleNext
  <1>4. ASSUME request \in {"accepted", "running"}
        PROVE  \E k \in JobKeys : Drives(k)'
    <2>1. PICK k \in JobKeys : Drives(k)
      BY <1>4 DEF DrivenInv
    <2>2. jobs[k].stage = "held" /\ jobs[k].holder = e
      BY <1>1, <2>1, DriverIsBusy
    <2>3. Brings(k, exec[e], request, flow, challenge, jobs[k].tries, faults)
      BY <2>1, <2>2 DEF Drives
    <2>4. s \in After(k) /\ Between(s, flow, challenge) /\ request = "running"
      BY <1>1, <2>3 DEF Brings, OutOfLoop
    <2>5. s \in JobKeys /\ jobs[s].stage = "none" /\ jobs[s].tries = 0
      BY <2>1, <2>4, AfterIs DEF Drives, Unused
    <2>6. /\ jobs'[s].stage = "queued" /\ jobs'[s].tries = 0
          /\ \A j \in JobKeys \ {s} : jobs'[j] = jobs[j]
      BY <1>1, <1>3, <2>5, EnsuredIs
    <2>7. \A j \in After(s) : jobs'[j].stage = "none" /\ jobs'[j].tries = 0
      BY <2>1, <2>4, <2>6, AfterIs DEF Drives, Unused
    <2>8. Ready(s, "running", flow, challenge, 0, faults)
      BY <1>1, <2>4 DEF Ready, Affords
    <2>9. Drives(s)'
      BY <1>3, <2>4, <2>6, <2>7, <2>8 DEF Drives, Unused
    <2> QED
      BY <2>5, <2>9
  <1> QED
    BY <1>2, <1>3, <1>4 DEF DrivenInv

(* The submission, and the same request again.                             *)
LEMMA SubmitKeepsDriven ==
  ASSUME SoleInv, DrivenInv, Create \/ SubmitStep \/ Resubmit
  PROVE  DrivenInv'
  <1>1. TypeOK /\ faults \in Nat /\ "start" \in JobKeys
    BY JobsOfExecutions, Constants DEF SoleInv, WorkInv, TypeOK
  <1>2. CASE Create
    <2>1. /\ request = "none" /\ request' = "submitted" /\ submitter' = "schedule"
          /\ UNCHANGED <<flow, jobs>>
      BY <1>2 DEF Create
    <2>2. flow = "none" /\ \A k \in JobKeys : jobs[k].stage = "none" /\ jobs[k].tries = 0
      BY <2>1 DEF DrivenInv, Unused
    <2> QED
      BY <1>1, <2>1, <2>2 DEF DrivenInv, Submitting, Unused
  <1>3. CASE (ScheduleStart \/ Resubmit) /\ submitter # "idle"
    <2>1. /\ jobs' = Ensured("start") /\ UNCHANGED <<request, flow>>
          /\ submitter' \in {submitter, "accept"}
      BY <1>3 DEF ScheduleStart, Resubmit
    <2>2. Submitting
      BY <1>3 DEF DrivenInv
    <2>3. /\ jobs'["start"].stage = "queued" /\ jobs'["start"].tries = 0
          /\ \A k \in JobKeys \ {"start"} : jobs'[k] = jobs[k]
      BY <1>1, <2>1, <2>2, EnsuredIs DEF Submitting
    <2>4. /\ request' = "submitted" /\ flow' = "none"
          /\ \A k \in JobKeys \ {"start"} : jobs'[k].stage = "none" /\ jobs'[k].tries = 0
      BY <2>1, <2>2, <2>3 DEF Submitting, Unused
    <2>5. submitter' # "idle"
      BY <1>3, <2>1
    <2> QED
      BY <2>3, <2>4, <2>5 DEF DrivenInv, Submitting, Unused
  <1>4. CASE Resubmit /\ submitter = "idle"
    <2>1. /\ jobs' = Ensured("start") /\ request \notin {"none", "submitted"}
          /\ UNCHANGED <<request, flow, challenge, exec, submitter, faults>>
      BY <1>4 DEF Resubmit, DrivenInv
    <2>2. ASSUME request \in {"accepted", "running"}
          PROVE  \E k \in JobKeys : Drives(k)'
      <3>1. PICK k \in JobKeys : Drives(k)
        BY <2>2 DEF DrivenInv
      <3>2. jobs["start"].stage # "none"
        BY <3>1 DEF SoleInv, StartFirst, Drives
      <3>3. UNCHANGED jobs
        BY <2>1, <3>2 DEF Ensured
      <3>4. Drives(k)'
        BY <2>1, <3>1, <3>3 DEF Drives, Unused
      <3> QED
        BY <3>4
    <2> QED
      BY <1>4, <2>1, <2>2 DEF DrivenInv
  <1>5. CASE AcceptRequest
    <2>1. submitter = "accept" /\ submitter' = "idle" /\ UNCHANGED <<flow, challenge, jobs, exec, faults>>
      BY <1>5 DEF AcceptRequest
    <2>2. /\ request = "submitted" /\ flow = "none" /\ jobs["start"].stage = "queued"
          /\ jobs["start"].tries = 0 /\ \A k \in JobKeys \ {"start"} : Unused(k)
      BY <2>1 DEF DrivenInv, Submitting
    <2>3. request' = "accepted"
      BY <1>5, <2>2 DEF AcceptRequest, RequestMoves
    <2>4. \A j \in After("start") : jobs'[j].stage = "none" /\ jobs'[j].tries = 0
      BY <2>1, <2>2, AfterIs DEF Unused
    <2>5. Ready("start", "accepted", flow, challenge, 0, faults)
      BY <1>1, <2>2 DEF Ready, Between, Affords, Loops
    <2>6. Drives("start")'
      BY <2>1, <2>2, <2>3, <2>4, <2>5 DEF Drives, Unused
    <2> QED
      BY <1>1, <2>1, <2>3, <2>6 DEF DrivenInv
  <1> QED
    BY <1>2, <1>3, <1>4, <1>5 DEF SubmitStep, ScheduleStart

LEMMA InitIsDriven == Init => DrivenInv
  <1> SUFFICES ASSUME Init PROVE DrivenInv
    OBVIOUS
  <1>1. \A k \in JobKeys : Unused(k)
    BY DEF Init, Unused
  <1> QED
    BY <1>1 DEF Init, DrivenInv

LEMMA StepKeepsDriven ==
  ASSUME ~Crashes, ~Overlap, ~StoreFaults, Prompt, "present" \notin Temporary,
         "unknown" \notin Permanent,
         MaxAttempts >= MaxFaults + 2, SoleInv, DrivenInv, [Next]_vars
  PROVE  DrivenInv'
  <1>1. CASE Create \/ SubmitStep \/ Resubmit
    BY <1>1, SubmitKeepsDriven
  <1>2. ~LoseSubmitter
    BY DEF LoseSubmitter
  <1>3. ASSUME NEW e \in Executors, NEW k \in JobKeys, Take(e, k) PROVE DrivenInv'
    BY <1>3, TakeKeepsDriven
  <1>4. ASSUME NEW e \in Executors, ExecutionStep(e) PROVE DrivenInv'
    BY <1>4, WorkKeepsDriven, ReportKeepsDriven, ScheduleKeepsDriven DEF ExecutionStep, Works
  <1>5. \A e \in Executors : ~Crash(e)
    BY DEF Crash
  <1>6. \A k \in JobKeys : ~Reap(k)
    BY DEF Reap, SoleInv, Holding
  <1>7. CASE UNCHANGED vars
    BY <1>7 DEF vars, stores, DrivenInv, Submitting, Drives, Unused
  <1> QED
    BY <1>1, <1>2, <1>3, <1>4, <1>5, <1>6, <1>7 DEF Next

(* What SubmitRequest promises of an accepted request is kept as long as   *)
(* workers neither stop nor lose a lease, jobs can be scheduled, a         *)
(* submission is not overtaken by its own job, every challenge that is to  *)
(* be presented is, the CA answers with a status the adapter declares, and *)
(* a job has an attempt for every fault, one for a challenge to be awaited *)
(* and one to succeed.                                                     *)
THEOREM AcceptedRequestsAreDriven ==
  ASSUME ~Crashes, ~Overlap, ~StoreFaults, Prompt, "present" \notin Temporary,
         "unknown" \notin Permanent,
         MaxAttempts >= MaxFaults + 2
  PROVE  Spec => []AcceptedIsDriven
  <1>1. Init => SoleInv /\ DrivenInv
    BY InitIsSole, InitIsDriven
  <1>2. SoleInv /\ DrivenInv /\ [Next]_vars => SoleInv' /\ DrivenInv'
    BY StepKeepsSole, StepKeepsDriven
  <1>3. DrivenInv => AcceptedIsDriven
    BY DEF DrivenInv, AcceptedIsDriven, Drives, Live
  <1> QED
    BY <1>1, <1>2, <1>3, PTL DEF Spec

-----------------------------------------------------------------------------
(* The refinement of CertificateLifecycle: every step changes what one     *)
(* store says, if anything.                                                *)
Open == {"submitted", "accepted", "running"}

Promised == [Lifecycle!LifecycleNext]_(Lifecycle!life)

LEMMA OutcomeIs ==
  /\ request = "none" => OutcomeOf = "none"
  /\ request \in Open => OutcomeOf = "open"
  /\ request \in {"completed", "failed"} => OutcomeOf = request
  BY DEF OutcomeOf, Open

LEMMA CertificateIs ==
  ASSUME WorkInv
  PROVE  /\ asset.versions = 1 => CertificateOf = "kept"
         /\ flow # "issued" => asset.versions = 0
         /\ asset.versions = 0 =>
              CertificateOf = CASE flow = "issued" -> "issued" [] flow = "failed" -> "refused" [] OTHER -> "none"
         /\ asset.versions \in {0, 1}
  <1>1. asset.versions \in Nat /\ asset.versions <= 1 /\ (asset.versions = 1 => flow = "issued")
    BY DEF WorkInv, TypeOK, CompletedMeansIssued
  <1>2. asset.versions \in {0, 1}
    BY <1>1
  <1> QED
    BY <1>1, <1>2 DEF CertificateOf

(* The status of the request.                                              *)
LEMMA RequestKeepsPromise ==
  ASSUME WorkInv, UNCHANGED <<flow, challenge, asset>>,
         \/ request' = request
         \/ request = "none" /\ request' = "submitted"
         \/ request \in Open /\ request' \in Open \cup {"failed"}
         \/ request \in Open /\ request' = "completed"
              /\ asset.versions = 1 /\ asset.linked = 1 .. Challenges
  PROVE  Promised
  <1>1. UNCHANGED <<ControlOf, CertificateOf, asset.linked>>
    BY DEF ControlOf, CertificateOf
  <1>2. CASE request' = request
    <2>1. UNCHANGED OutcomeOf
      BY <1>2 DEF OutcomeOf
    <2> QED
      BY <1>1, <2>1 DEF Promised, Lifecycle!life
  <1>3. CASE request = "none" /\ request' = "submitted"
    <2>1. OutcomeOf = "none" /\ OutcomeOf' = "open"
      BY <1>3 DEF OutcomeOf
    <2> QED
      BY <1>1, <2>1 DEF Promised, Lifecycle!LifecycleNext, Lifecycle!Submit
  <1>4. CASE request \in Open /\ request' \in Open
    <2>1. UNCHANGED OutcomeOf
      BY <1>4 DEF OutcomeOf, Open
    <2> QED
      BY <1>1, <2>1 DEF Promised, Lifecycle!life
  <1>5. CASE request \in Open /\ request' = "failed"
    <2>1. OutcomeOf = "open" /\ OutcomeOf' = "failed"
      BY <1>5 DEF OutcomeOf, Open
    <2> QED
      BY <1>1, <2>1 DEF Promised, Lifecycle!LifecycleNext, Lifecycle!Fail
  <1>6. CASE request \in Open /\ request' = "completed" /\ asset.versions = 1 /\ asset.linked = 1 .. Challenges
    <2>1. OutcomeOf = "open" /\ OutcomeOf' = "completed" /\ CertificateOf = "kept"
      BY <1>6, CertificateIs DEF OutcomeOf, Open
    <2> QED
      BY <1>1, <1>6, <2>1 DEF Promised, Lifecycle!LifecycleNext, Lifecycle!Complete
  <1> QED
    BY <1>2, <1>3, <1>4, <1>5, <1>6

(* The stage of the workflow.                                              *)
LEMMA FlowKeepsPromise ==
  ASSUME WorkInv, UNCHANGED <<request, challenge, asset>>,
         flow' = flow \/ (flow = "none" /\ flow' = "created") \/ flow' \in FlowMoves(flow)
  PROVE  Promised
  <1>1. UNCHANGED <<OutcomeOf, ControlOf, asset.linked>>
    BY DEF OutcomeOf, ControlOf
  <1>2. CASE flow' = flow
    <2>1. UNCHANGED CertificateOf
      BY <1>2 DEF CertificateOf
    <2> QED
      BY <1>1, <2>1 DEF Promised, Lifecycle!life
  <1>3. CASE flow' # flow
    <2>1. /\ flow \notin {"issued", "failed"} /\ (flow' = "issued" => flow = "finalizing")
          /\ asset.versions = 0 /\ UNCHANGED asset.versions
      <3>1. flow # "failed" /\ flow # "issued"
        BY <1>3 DEF FlowMoves
      <3> QED
        BY <1>3, <3>1, MovesOfFlow, CertificateIs
    <2>2. /\ CertificateOf = "none"
          /\ CertificateOf' = CASE flow' = "issued" -> "issued" [] flow' = "failed" -> "refused" [] OTHER -> "none"
      BY <2>1 DEF CertificateOf
    <2>3. CASE flow' = "issued"
      <3>1. /\ challenge # << >> /\ \A i \in DOMAIN challenge : challenge[i] = "valid"
            /\ TypeOK
        BY <2>1, <2>3 DEF WorkInv, FlowInv, IssuedMeansValid
      <3>2. ControlOf = 1 .. Challenges
        BY <3>1, ChallengesAre DEF ControlOf
      <3> QED
        BY <1>1, <2>2, <2>3, <3>2 DEF Promised, Lifecycle!LifecycleNext, Lifecycle!Issue
    <2>4. CASE flow' = "failed"
      BY <1>1, <2>2, <2>4 DEF Promised, Lifecycle!LifecycleNext, Lifecycle!Refuse
    <2>5. CASE flow' \notin {"issued", "failed"}
      BY <1>1, <2>2, <2>5 DEF Promised, Lifecycle!life
    <2> QED
      BY <2>3, <2>4, <2>5
  <1> QED
    BY <1>2, <1>3

(* The challenges.                                                         *)
LEMMA WriteKeepsPromise ==
  ASSUME WorkInv, NEW e \in Executors, WriteChallenge(e)
  PROVE  Promised
  <1> DEFINE i == exec[e].at
             status == Head(exec[e].todo)
  <1>1. UNCHANGED <<request, flow, asset>>
    BY DEF WriteChallenge
  <1>2. UNCHANGED <<OutcomeOf, CertificateOf, asset.linked>>
    BY <1>1 DEF OutcomeOf, CertificateOf
  <1>3. CASE UNCHANGED challenge
    <2>1. UNCHANGED ControlOf
      BY <1>3 DEF ControlOf
    <2> QED
      BY <1>2, <2>1 DEF Promised, Lifecycle!life
  <1>4. CASE status \in ChallengeMoves(challenge[i]) /\ challenge' = [challenge EXCEPT ![i] = status]
    <2>1. i \in 1 .. Challenges /\ DOMAIN challenge = 1 .. Challenges /\ challenge \in Seq(ChallengeStatuses)
      BY InTheLoop DEF WriteChallenge, At, LoopSteps
    <2>2. challenge[i] # "valid"
      BY <1>4 DEF ChallengeMoves
    <2>3. /\ DOMAIN challenge' = 1 .. Challenges /\ challenge'[i] = status
          /\ \A j \in 1 .. Challenges \ {i} : challenge'[j] = challenge[j]
      BY <1>4, <2>1
    <2> HIDE DEF i, status
    <2>4. CASE status = "valid"
      <3>1. ControlOf' = ControlOf \cup {i}
        BY <2>1, <2>2, <2>3, <2>4 DEF ControlOf
      <3>2. flow # "issued"
        BY <2>1, <2>2 DEF WorkInv, IssuedMeansValid
      <3>3. CertificateOf \in {"none", "refused"}
        BY <3>2, CertificateIs
      <3> QED
        BY <1>2, <2>1, <3>1, <3>3 DEF Promised, Lifecycle!LifecycleNext, Lifecycle!Demonstrate
    <2>5. CASE status # "valid"
      <3>1. UNCHANGED ControlOf
        BY <2>1, <2>2, <2>3, <2>5 DEF ControlOf
      <3> QED
        BY <1>2, <3>1 DEF Promised, Lifecycle!life
    <2> QED
      BY <2>4, <2>5
  <1> QED
    BY <1>3, <1>4 DEF WriteChallenge

LEMMA FirstChallengesKeepPromise ==
  ASSUME WorkInv, NEW e \in Executors, EnsureChallenges(e)
  PROVE  Promised
  <1>1. UNCHANGED <<request, asset>>
    BY DEF EnsureChallenges
  <1>2. CASE UNCHANGED challenge
    <2>1. flow' = flow \/ flow' \in FlowMoves(flow)
      BY DEF EnsureChallenges, EnterStage
    <2> QED
      BY <1>1, <1>2, <2>1, FlowKeepsPromise
  <1>3. CASE challenge' # challenge
    <2>1. /\ challenge = << >> /\ challenge' = [i \in 1 .. Challenges |-> "pending"]
          /\ "challenge_pending" \in FlowMoves(flow) /\ flow' = "challenge_pending"
      BY <1>3 DEF EnsureChallenges, EnterStage
    <2>2. ControlOf = {} /\ ControlOf' = {}
      <3>1. DOMAIN challenge = {}
        BY <2>1
      <3> QED
        BY <2>1, <3>1 DEF ControlOf
    <2>3. flow = "order_pending" /\ asset.versions = 0
      BY <2>1, MovesOfFlow, CertificateIs
    <2>4. UNCHANGED <<OutcomeOf, CertificateOf, asset.linked>>
      BY <1>1, <2>1, <2>3 DEF OutcomeOf, CertificateOf
    <2> QED
      BY <2>2, <2>4 DEF Promised, Lifecycle!life
  <1> QED
    BY <1>2, <1>3

(* The version and the domains that refer to it.                           *)
LEMMA AssetKeepsPromise ==
  ASSUME WorkInv, NEW e \in Executors, PersistVersion(e) \/ LinkDomain(e)
  PROVE  Promised
  <1>1. UNCHANGED <<request, flow, challenge>> /\ asset \in [versions : Nat, linked : SUBSET (1 .. Challenges)]
        /\ Knows(exec[e])
    BY DEF PersistVersion, LinkDomain, WorkInv, TypeOK
  <1>2. UNCHANGED <<OutcomeOf, ControlOf>>
    BY <1>1 DEF OutcomeOf, ControlOf
  <1>3. CASE UNCHANGED asset
    <2>1. UNCHANGED <<CertificateOf, asset.linked>>
      BY <1>1, <1>3 DEF CertificateOf
    <2> QED
      BY <1>2, <2>1 DEF Promised, Lifecycle!life
  <1>4. CASE PersistVersion(e) /\ asset' # asset
    <2>1. flow = "issued"
      BY <1>1, <1>4 DEF PersistVersion, At, Knows, StageKnows
    <2>2. asset' = [asset EXCEPT !.versions = IF asset.versions = 0 THEN 1 ELSE asset.versions]
      BY <1>1, <1>4 DEF PersistVersion
    <2>3. asset.versions = 0 /\ asset'.versions = 1 /\ UNCHANGED asset.linked
      BY <1>1, <1>4, <2>2
    <2>4. CertificateOf = "issued" /\ CertificateOf' = "kept"
      BY <2>1, <2>3 DEF CertificateOf
    <2> QED
      BY <1>2, <2>3, <2>4 DEF Promised, Lifecycle!LifecycleNext, Lifecycle!Keep
  <1>5. CASE LinkDomain(e) /\ asset' # asset
    <2> DEFINE i == exec[e].at + 1
    <2>1. asset.versions = 1 /\ i \in 1 .. Challenges
      BY <1>1, <1>5, Constants DEF LinkDomain, At, Knows, StageKnows
    <2>2. asset' = [asset EXCEPT !.linked = asset.linked \cup {i}]
      BY <1>1, <1>5 DEF LinkDomain
    <2> HIDE DEF i
    <2>3. asset'.versions = asset.versions /\ asset'.linked = asset.linked \cup {i}
      BY <1>1, <2>2
    <2>4. CertificateOf = "kept" /\ UNCHANGED CertificateOf
      BY <1>1, <2>1, <2>3 DEF CertificateOf
    <2> QED
      BY <1>2, <2>1, <2>3, <2>4 DEF Promised, Lifecycle!LifecycleNext, Lifecycle!List
  <1> QED
    BY <1>3, <1>4, <1>5

LEMMA ExecutionKeepsPromise ==
  ASSUME WorkInv, NEW e \in Executors, ExecutionStep(e)
  PROVE  Promised
  <1>1. CASE MarkAccepted(e) \/ MarkRunning(e) \/ MarkCompleted(e) \/ FailRequest(e)
    <2>1. UNCHANGED <<flow, challenge, asset>>
      BY <1>1 DEF MarkAccepted, MarkRunning, MarkCompleted, FailRequest
    <2>2. MarkCompleted(e) => asset.versions = 1 /\ asset.linked = 1 .. Challenges
      BY DEF MarkCompleted, At, WorkInv, Knows, StageKnows
    <2>3. \A status : status \in RequestMoves(request) => request \in Open
      BY DEF RequestMoves, Open
    <2>4. \/ request' = request
          \/ request \in Open /\ request' \in Open \cup {"failed"}
          \/ request \in Open /\ request' = "completed" /\ MarkCompleted(e)
      BY <1>1, <2>3 DEF MarkAccepted, MarkRunning, MarkCompleted, FailRequest, MoveRequest, Open
    <2> QED
      BY <2>1, <2>2, <2>4, RequestKeepsPromise
  <1>2. CASE \/ EnsureWorkflow(e) \/ RecordOrder(e) \/ StartProcessing(e) \/ MarkValid(e)
             \/ StartFinalizing(e) \/ MarkIssued(e) \/ RejectWorkflow(e) \/ GiveUp(e)
    <2>1. UNCHANGED <<request, challenge, asset>>
      BY <1>2 DEF EnsureWorkflow, RecordOrder, StartProcessing, MarkValid, StartFinalizing, MarkIssued,
                  RejectWorkflow, GiveUp
    <2>2. flow' = flow \/ (flow = "none" /\ flow' = "created") \/ flow' \in FlowMoves(flow)
      BY <1>2 DEF EnsureWorkflow, RecordOrder, StartProcessing, MarkValid, StartFinalizing, MarkIssued,
                  RejectWorkflow, GiveUp, EnterStage
    <2> QED
      BY <2>1, <2>2, FlowKeepsPromise
  <1>3. CASE \/ ReadRequest(e) \/ CreateOrder(e) \/ ReadFlow(e) \/ ListChallenges(e) \/ Present(e)
             \/ CheckPropagation(e) \/ NotifyReady(e) \/ PollAuthorization(e) \/ Cleanup(e)
             \/ FinalizeOrder(e) \/ Download(e) \/ ScheduleNext(e) \/ Report(e)
    <2>1. UNCHANGED <<request, flow, challenge, asset>>
      BY <1>3 DEF ReadRequest, CreateOrder, ReadFlow, ListChallenges, Present, CheckPropagation,
                  NotifyReady, PollAuthorization, Cleanup, FinalizeOrder, Download, ScheduleNext, Report, stores
    <2> QED
      BY <2>1, RequestKeepsPromise
  <1> QED
    BY <1>1, <1>2, <1>3, WriteKeepsPromise, FirstChallengesKeepPromise, AssetKeepsPromise
    DEF ExecutionStep, StartStep, ContinueStep

LEMMA StepKeepsPromise == WorkInv /\ [Next]_vars => Promised
  <1> SUFFICES ASSUME WorkInv, [Next]_vars PROVE Promised
    OBVIOUS
  <1>1. CASE Create
    BY <1>1, RequestKeepsPromise DEF Create
  <1>2. CASE SubmitStep \/ Resubmit
    <2>1. UNCHANGED <<flow, challenge, asset>>
      BY <1>2 DEF SubmitStep, ScheduleStart, AcceptRequest, Resubmit
    <2>2. request' = request \/ (request \in Open /\ request' \in Open)
      BY <1>2 DEF SubmitStep, ScheduleStart, AcceptRequest, Resubmit, RequestMoves, Open
    <2> QED
      BY <2>1, <2>2, RequestKeepsPromise
  <1>3. ASSUME NEW e \in Executors, ExecutionStep(e) PROVE Promised
    BY <1>3, ExecutionKeepsPromise
  <1>4. CASE UNCHANGED <<request, flow, challenge, asset>>
    BY <1>4, RequestKeepsPromise
  <1>5. ASSUME \/ LoseSubmitter
               \/ \E e \in Executors, k \in JobKeys : Take(e, k)
               \/ \E e \in Executors : Crash(e)
               \/ \E k \in JobKeys : Reap(k)
               \/ UNCHANGED vars
        PROVE  Promised
    <2>1. UNCHANGED <<request, flow, challenge, asset>>
      BY <1>5 DEF LoseSubmitter, Take, Crash, Reap, vars, stores
    <2> QED
      BY <1>4, <2>1
  <1> QED
    BY <1>1, <1>2, <1>3, <1>4, <1>5 DEF Next

(* However executions stop, are repeated and overlap, the request lives    *)
(* the life of CertificateLifecycle: what is over is not reopened, what    *)
(* failed does not issue, and nothing is issued, persisted, linked or      *)
(* completed before what has to come first.                                *)
THEOREM WorkflowImplementsLifecycle == Spec => ImplementsCertificateLifecycle
  <1>1. Init => Lifecycle!LifecycleInit
    <2> SUFFICES ASSUME Init PROVE Lifecycle!LifecycleInit
      OBVIOUS
    <2>1. /\ request = "none" /\ flow = "none" /\ challenge = << >>
          /\ asset.versions = 0 /\ asset.linked = {}
      BY DEF Init
    <2>2. OutcomeOf = "none" /\ CertificateOf = "none" /\ ControlOf = {}
      BY <2>1 DEF OutcomeOf, CertificateOf, ControlOf
    <2> QED
      BY <2>1, <2>2 DEF Lifecycle!LifecycleInit
  <1>2. WorkInv /\ [Next]_vars => [Lifecycle!LifecycleNext]_(Lifecycle!life)
    BY StepKeepsPromise DEF Promised
  <1> QED
    BY <1>1, <1>2, WorkInvariance, PTL DEF Spec, ImplementsCertificateLifecycle, Lifecycle!LifecycleSpec
=============================================================================
