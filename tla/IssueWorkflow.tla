--------------------------- MODULE IssueWorkflow ----------------------------
(***************************************************************************)
(* One certificate request and the workflow that issues its certificate:   *)
(* internal/workflow over the stores of certificaterequest, issueworkflow, *)
(* certificateasset and domains, driven by the jobs of the queue.          *)
(*                                                                         *)
(* ProcessJob is a sequence of calls on stores that lock for one call at a *)
(* time and on adapters of external services.  Each call is one action;    *)
(* exec[e] holds what an execution remembers between its calls.  A job is  *)
(* what JobLifecycle promises of it, its results forgotten: it is queued,  *)
(* held or over, and held at most MaxAttempts times.  Its holder may crash *)
(* or lose the lease while it runs, so an execution may be cut off after   *)
(* any call, repeated from the start, and overlap with its repetition.     *)
(***************************************************************************)
EXTENDS Naturals, Sequences, FiniteSets

CONSTANTS
  Executors,       \* worker processes
  Nobody,          \* the holder of a job that is not held
  Challenges,      \* how many identifiers, hence challenges, the order has
  ChallengeTypes,  \* those a request may ask for
  MaxAttempts,     \* retry budget of a job
  Temporary,       \* calls that may fail with a temporary error
  Permanent,       \* calls that may fail for good
  MaxFaults,       \* bound: crashes, lost leases, errors and "not yet" answers in a behaviour
  Crashes,         \* processes may stop at any point
  Overlap,         \* a lease may run out under a running execution
  StoreFaults,     \* scheduling a job may fail
  Prompt           \* SubmitRequest returns before its start job is claimed

AdapterCalls == {"order", "present", "propagation", "notify", "poll", "finalize", "download"}
PersistCalls == {"persist", "link"}

ASSUME WorkflowAssumption ==
  /\ Nobody \notin Executors
  /\ Challenges \in Nat \ {0}
  /\ ChallengeTypes \subseteq {"http-01", "dns-01"}
  /\ MaxAttempts \in Nat \ {0}
  /\ Temporary \subseteq AdapterCalls \cup PersistCalls
  /\ Permanent \subseteq AdapterCalls \cup {"authorization", "unknown"}
  /\ MaxFaults \in Nat
  /\ {Crashes, Overlap, StoreFaults, Prompt} \subseteq BOOLEAN

VARIABLES
  request,         \* status of the certificate request, "none" before it exists
  challengeType,   \* its challenge type
  flow,            \* status of its workflow
  challenge,       \* statuses of the workflow's challenges, in order
  published,       \* external: identifiers whose challenge material is in place
  asset,           \* versions: those of this workflow; linked: domains that refer to it
  jobs,            \* jobs[k]: the start job, or the continue job of a stage
  submitter,       \* what SubmitRequest does next
  exec,            \* exec[e]: what executor e runs
  faults           \* bound: see MaxFaults

stores == <<request, challengeType, flow, challenge, published, asset, jobs>>
vars == <<stores, submitter, exec, faults>>

RequestStatuses == {"none", "submitted", "accepted", "running", "completed", "failed", "cancelled"}
Stages          == {"created", "order_pending", "challenge_pending", "challenge_processing",
                    "challenge_valid", "finalizing", "issued", "failed", "cancelled"}
FlowStatuses    == {"none"} \cup Stages
ChallengeStatuses ==
  {"pending", "presenting", "presented", "propagating", "ready", "verifying", "valid", "invalid",
   "cleanup_pending", "cleaned", "cleanup_failed"}

(* Legal transitions.                                                      *)
RequestMovesAgain(status) ==                                               \* mutant
  CASE status = "submitted" -> {"accepted", "cancelled", "failed"}
    [] status \in {"accepted", "failed"} -> {"running", "cancelled", "failed"}
    [] status = "running"   -> {"completed", "failed"}
    [] OTHER -> {}

RequestMoves(status) ==
  CASE status = "submitted" -> {"accepted", "cancelled", "failed"}
    [] status = "accepted"  -> {"running", "cancelled", "failed"}
    [] status = "running"   -> {"completed", "failed"}
    [] OTHER -> {}

FlowMovesAsDesigned(status) ==                                             \* mutant
  CASE status = "created"              -> {"order_pending", "cancelled", "failed"}
    [] status = "order_pending"        -> {"challenge_pending", "failed"}
    [] status = "challenge_pending"    -> {"challenge_processing", "cancelled"}
    [] status = "challenge_processing" -> {"challenge_valid", "failed"}
    [] status = "challenge_valid"      -> {"finalizing"}
    [] status = "finalizing"           -> {"issued", "failed"}
    [] OTHER -> {}

FlowMoves(status) ==
  CASE status = "created"              -> {"order_pending", "cancelled", "failed"}
    [] status = "order_pending"        -> {"challenge_pending", "failed"}
    [] status = "challenge_pending"    -> {"challenge_processing", "cancelled", "failed"}
    [] status = "challenge_processing" -> {"challenge_valid", "failed"}
    [] status = "challenge_valid"      -> {"finalizing"}
    [] status = "finalizing"           -> {"issued", "failed"}
    [] OTHER -> {}

ChallengeMoves(status) ==
  CASE status = "pending"         -> {"presenting"}
    [] status = "presenting"      -> {"presented"}
    [] status = "presented"       -> {"propagating", "ready"}
    [] status = "propagating"     -> {"ready"}
    [] status = "ready"           -> {"verifying"}
    [] status = "verifying"       -> {"valid", "invalid"}
    [] status = "invalid"         -> {"cleanup_pending"}
    [] status = "cleanup_pending" -> {"cleaned", "cleanup_failed"}
    [] OTHER -> {}

(* One start job per request and one continue job per stage, for ever: the *)
(* idempotency keys.                                                       *)
JobKeys == {"start"} \cup Stages
JobStates == [stage : {"none", "queued", "held", "over"}, tries : Nat,
              holder : Executors \cup {Nobody}]

(* Where an execution stands; "over" and "retry": ProcessJob has returned, *)
(* and its job is over or wants another attempt.                           *)
Steps == {"idle", "request", "accept", "run", "workflow", "order", "record", "challenges",
          "schedule", "flow", "list", "present", "propagation", "write", "cleanup", "process",
          "notify", "poll", "validate", "finalizing", "finalize", "download", "issue",
          "persist", "link", "complete", "reject", "give up", "fail request", "over", "retry"}

(* stage: the workflow's status as last read or written.  list: what       *)
(* ListChallenges returned; at: the challenge whose turn it is; todo: the  *)
(* statuses it is to take; waits: some challenge is not ready, or not valid. *)
Execution == [job : JobKeys, step : Steps, stage : FlowStatuses, list : Seq(ChallengeStatuses),
              at : Nat, todo : Seq(ChallengeStatuses), waits : BOOLEAN]

Idle == [job |-> "start", step |-> "idle", stage |-> "none", list |-> << >>, at |-> 0,
         todo |-> << >>, waits |-> FALSE]

(* An execution of job k at the given step and stage.                      *)
Executing(k, step, stage) == [Idle EXCEPT !.job = k, !.step = step, !.stage = stage]

Init ==
  /\ request = "none" /\ challengeType = "none" /\ flow = "none"
  /\ challenge = << >> /\ published = {}
  /\ asset = [versions |-> 0, linked |-> {}]
  /\ jobs = [k \in JobKeys |-> [stage |-> "none", tries |-> 0, holder |-> Nobody]]
  /\ submitter = "idle"
  /\ exec = [e \in Executors |-> Idle]
  /\ faults = 0

-----------------------------------------------------------------------------
(* The jobs.                                                               *)

Fault == faults < MaxFaults /\ faults' = faults + 1

(* Schedule, or GetByIdempotency of the job that has the key already.      *)
Ensured(k) == IF jobs[k].stage = "none" THEN [jobs EXCEPT ![k].stage = "queued"] ELSE jobs

Live(k) == jobs[k].stage \in {"queued", "held"}

(* A held job after its attempt: back in the queue while the budget lasts. *)
Released(k, again) ==
  [jobs EXCEPT ![k].stage = IF again /\ jobs[k].tries < MaxAttempts THEN "queued" ELSE "over",
               ![k].holder = Nobody]

Take(e, k) ==
  /\ exec[e].step = "idle" /\ jobs[k].stage = "queued"
  /\ Prompt => submitter = "idle"
  /\ jobs' = [jobs EXCEPT ![k] = [stage |-> "held", tries |-> @.tries + 1, holder |-> e]]
  /\ exec' = [exec EXCEPT ![e] =
       Executing(k, IF k = "start" THEN "request" ELSE "flow", "none")]
  /\ UNCHANGED <<challengeType, request, flow, challenge, published, asset, submitter, faults>>

(* Executor.Execute returns and the worker completes the job, in vain when *)
(* it no longer holds it.                                                  *)
Report(e) ==
  LET k == exec[e].job
  IN  /\ exec[e].step \in {"over", "retry"}
      /\ jobs' = IF jobs[k].holder = e THEN Released(k, exec[e].step = "retry") ELSE jobs
      /\ exec' = [exec EXCEPT ![e] = Idle]
      /\ UNCHANGED <<challengeType, request, flow, challenge, published, asset, submitter, faults>>

Crash(e) ==
  /\ Crashes /\ Fault /\ exec[e].step # "idle"
  /\ exec' = [exec EXCEPT ![e] = Idle]
  /\ UNCHANGED <<stores, submitter>>

Executes(e, k) == exec[e].step # "idle" /\ exec[e].job = k

(* The reaper.                                                             *)
Reap(k) ==
  /\ jobs[k].stage = "held"
  /\ IF Executes(jobs[k].holder, k) THEN Overlap /\ Fault ELSE UNCHANGED faults
  /\ jobs' = Released(k, TRUE)
  /\ UNCHANGED <<challengeType, request, flow, challenge, published, asset, submitter, exec>>

-----------------------------------------------------------------------------
(* SubmitRequest.                                                          *)

CreateOnly ==                                                              \* mutant
  /\ request = "none"
  /\ request' = "submitted" /\ challengeType' \in ChallengeTypes
  /\ UNCHANGED <<flow, challenge, published, asset, jobs, submitter, exec, faults>>

(* A request that is valid is stored as submitted.                         *)
Create ==
  /\ request = "none"
  /\ request' = "submitted" /\ challengeType' \in ChallengeTypes
  /\ submitter' = "schedule"
  /\ UNCHANGED <<flow, challenge, published, asset, jobs, exec, faults>>

ScheduleStart ==
  /\ submitter = "schedule"
  /\ jobs' = Ensured("start")
  /\ submitter' = "accept"
  /\ UNCHANGED <<challengeType, request, flow, challenge, published, asset, exec, faults>>

(* MarkAccepted on the strength of the status read before the job existed; *)
(* its error goes to the user.                                             *)
AcceptRequest ==
  /\ submitter = "accept"
  /\ request' = IF "accepted" \in RequestMoves(request) THEN "accepted" ELSE request
  /\ submitter' = "idle"
  /\ UNCHANGED <<challengeType, flow, challenge, published, asset, jobs, exec, faults>>

(* Scheduling fails, or the process of the API dies in the middle.         *)
LoseSubmitter ==
  /\ submitter # "idle"
  /\ Crashes \/ (StoreFaults /\ submitter = "schedule")
  /\ Fault
  /\ submitter' = "idle"
  /\ UNCHANGED <<stores, exec>>

(* The same request again: Create refuses it, and its job is ensured.      *)
Resubmit ==
  /\ request # "none"
  /\ jobs' = Ensured("start")
  /\ UNCHANGED <<challengeType, request, flow, challenge, published, asset, submitter, exec, faults>>

-----------------------------------------------------------------------------
(* ProcessJob.                                                             *)

At(e, step) == exec[e].step = step
Go(e, step) == exec' = [exec EXCEPT ![e].step = step]

(* Go on with what is known of the workflow: it is at this stage.          *)
GoOn(e, stage, step) == exec' = [exec EXCEPT ![e] = Executing(exec[e].job, step, stage)]

(* ProcessJob returns.                                                     *)
Return(e, how) == GoOn(e, "none", how)

(* An adapter call that fails: classifyAdapterFailure.                     *)
Fails(e, call) ==
  \/ call \in Temporary /\ Fault /\ Return(e, "retry")
  \/ call \in Permanent /\ Go(e, "give up") /\ UNCHANGED faults

(* A transition of the request; an illegal one ends the execution.         *)
MoveRequest(e, status, next) ==
  IF status \in RequestMoves(request) THEN request' = status /\ Go(e, next)
  ELSE UNCHANGED request /\ Return(e, "over")

(* A transition of the workflow into the stage the execution goes on with. *)
EnterStage(e, stage, next) ==
  IF stage \in FlowMoves(flow) THEN flow' = stage /\ GoOn(e, stage, next)
  ELSE UNCHANGED flow /\ Return(e, "over")

(* processStartJob.                                                        *)
ReadRequest(e) ==
  /\ At(e, "request")
  /\ Go(e, CASE request = "submitted"                -> "accept"
             [] request \in {"running", "completed"} -> "workflow"
             [] OTHER                                -> "run")
  /\ UNCHANGED <<stores, submitter, faults>>

MarkAccepted(e) ==
  /\ At(e, "accept")
  /\ MoveRequest(e, "accepted", "run")
  /\ UNCHANGED <<challengeType, flow, challenge, published, asset, jobs, submitter, faults>>

MarkRunning(e) ==
  /\ At(e, "run")
  /\ MoveRequest(e, "running", "workflow")
  /\ UNCHANGED <<challengeType, flow, challenge, published, asset, jobs, submitter, faults>>

EnsureWorkflow(e) ==
  /\ At(e, "workflow")
  /\ flow' = IF flow = "none" THEN "created" ELSE flow
  /\ GoOn(e, flow', IF flow' \in {"created", "order_pending"} THEN "order" ELSE "schedule")
  /\ UNCHANGED <<challengeType, request, challenge, published, asset, jobs, submitter, faults>>

CreateOrder(e) ==
  /\ At(e, "order")
  /\ \/ Go(e, "record") /\ UNCHANGED faults
     \/ Fails(e, "order")
  /\ UNCHANGED <<stores, submitter>>

RecordOrder(e) ==
  /\ At(e, "record")
  /\ EnterStage(e, "order_pending", "challenges")
  /\ UNCHANGED <<challengeType, request, challenge, published, asset, jobs, submitter, faults>>

EnsureChallenges(e) ==
  /\ At(e, "challenges")
  /\ IF challenge = << >>
     THEN /\ challenge' = IF "challenge_pending" \in FlowMoves(flow)
                          THEN [i \in 1 .. Challenges |-> "pending"] ELSE challenge
          /\ EnterStage(e, "challenge_pending", "schedule")
     ELSE /\ GoOn(e, "challenge_pending", "schedule")
          /\ UNCHANGED <<flow, challenge>>
  /\ UNCHANGED <<challengeType, request, published, asset, jobs, submitter, faults>>

ScheduleSameKey(e) ==                                                      \* mutant
  /\ At(e, "schedule")
  /\ \/ jobs' = Ensured(exec[e].job) /\ UNCHANGED faults
     \/ StoreFaults /\ Fault /\ UNCHANGED jobs
  /\ Return(e, "over")
  /\ UNCHANGED <<challengeType, request, flow, challenge, published, asset, submitter>>

(* ensureContinueJob, the last call of an execution that made progress.    *)
ScheduleNext(e) ==
  /\ At(e, "schedule")
  /\ \/ jobs' = Ensured(exec[e].stage) /\ UNCHANGED faults
     \/ StoreFaults /\ Fault /\ UNCHANGED jobs
  /\ Return(e, "over")
  /\ UNCHANGED <<challengeType, request, flow, challenge, published, asset, submitter>>

(* processContinueJob goes by the workflow's status, not by its job.  The  *)
(* status of the request, which it reads first, decides nothing: the       *)
(* statuses it asks for are final, and a transition out of them fails.     *)
ReadFlow(e) ==
  /\ At(e, "flow")
  /\ GoOn(e, flow, "list")
  /\ UNCHANGED <<stores, submitter, faults>>

-----------------------------------------------------------------------------
(* The loops of continueChallengePending and continueChallengeProcessing.  *)

SettledWhenNotified(stage) ==                                              \* mutant
  IF stage = "challenge_processing" THEN {"verifying", "valid"}
  ELSE {"ready"} \cup (IF challengeType = "http-01" THEN {"presented"} ELSE {})

(* Challenges the loop passes over; an HTTP-01 challenge need not          *)
(* propagate, a presented one counts as ready.                             *)
Settled(stage) ==
  IF stage = "challenge_processing" THEN {"valid"}
  ELSE {"ready"} \cup (IF challengeType = "http-01" THEN {"presented"} ELSE {})

(* The call a challenge needs, and the statuses it takes on the way.       *)
CallFor(stage, status) ==
  CASE stage = "challenge_pending" /\ status = "propagating"   -> "propagation"
    [] stage = "challenge_pending" /\ status \in {"pending", "presented"} -> "write"
    [] stage = "challenge_processing" /\ status = "ready"      -> "notify"
    [] stage = "challenge_processing" /\ status = "verifying"  -> "poll"
    [] OTHER                                                  -> "over"

WayFrom(stage, status) ==
  LET settled == IF challengeType = "dns-01" THEN "propagating" ELSE "ready"
  IN  CASE stage = "challenge_pending" /\ status = "pending" ->
             <<"presenting", "presented", settled>>
        [] stage = "challenge_pending" /\ status = "presented" -> <<settled>>
        [] OTHER -> << >>

(* Execution x turns to the first challenge from i on that needs a call.   *)
TurnTo(x, i) ==
  LET open == {k \in i .. Len(x.list) : x.list[k] \notin Settled(x.stage)}
      k    == CHOOSE k \in open : \A m \in open : k <= m
      last == IF x.stage = "challenge_pending" THEN "process" ELSE "validate"
      call == CallFor(x.stage, x.list[k])
  IN  CASE open # {} /\ call = "over" -> Executing(x.job, "over", "none")
        [] open # {} /\ call # "over" ->
             [x EXCEPT !.at = k, !.step = call, !.todo = WayFrom(x.stage, x.list[k])]
        [] open = {} /\ x.waits -> Executing(x.job, "retry", "none")
        [] OTHER -> Executing(x.job, last, x.stage)

ListChallenges(e) ==
  /\ At(e, "list")
  /\ exec' = [exec EXCEPT ![e] =
       CASE @.stage \in {"challenge_pending", "challenge_processing"} ->
              TurnTo([@ EXCEPT !.list = challenge], 1)
         [] @.stage = "challenge_valid" -> Executing(@.job, "finalizing", @.stage)
         [] @.stage = "finalizing"      -> Executing(@.job, "finalize", @.stage)
         [] @.stage = "issued"          -> Executing(@.job, "persist", @.stage)
         [] OTHER                       -> Executing(@.job, "over", "none")]
  /\ UNCHANGED <<stores, submitter, faults>>

(* On to the next challenge; waits: this one is not ready, or not valid.   *)
NextTurn(e, waits) ==
  LET x == [exec[e] EXCEPT !.waits = exec[e].waits \/ waits, !.todo = << >>]
  IN  exec' = [exec EXCEPT ![e] = TurnTo(x, x.at + 1)]

Write(e, statuses) == exec' = [exec EXCEPT ![e].todo = statuses, ![e].step = "write"]

(* UpdateChallengeStatus.  A challenge stored as presenting is presented   *)
(* before its next status; one that propagates or is being verified waits  *)
(* for the outside world.                                                  *)
WriteChallenge(e) ==
  LET i      == exec[e].at
      status == Head(exec[e].todo)
      legal  == status \in ChallengeMoves(challenge[i])
      Then(step) == exec' = [exec EXCEPT ![e].todo = Tail(@), ![e].step = step]
  IN  /\ At(e, "write")
      /\ challenge' = IF legal THEN [challenge EXCEPT ![i] = status] ELSE challenge
      /\ CASE status \in {"cleaned", "cleanup_failed"} -> Then("reject")
           [] status \notin {"cleaned", "cleanup_failed"} /\ ~legal -> Return(e, "over")
           [] legal /\ status = "presenting"                -> Then("present")
           [] legal /\ status = "cleanup_pending"           -> Then("cleanup")
           [] legal /\ status \in {"presented", "invalid"} -> Then("write")
           [] OTHER -> NextTurn(e, status \in {"propagating", "verifying"})
      /\ UNCHANGED <<challengeType, request, flow, published, asset, jobs, submitter, faults>>

PresentRegardless(e) ==                                                    \* mutant
  /\ At(e, "present")
  /\ Go(e, "write") /\ published' \in {published, published \cup {exec[e].at}}
  /\ UNCHANGED <<challengeType, request, flow, challenge, asset, jobs, submitter, faults>>

Present(e) ==
  /\ At(e, "present")
  /\ \/ published' = published \cup {exec[e].at} /\ Go(e, "write") /\ UNCHANGED faults
     \/ Fails(e, "present") /\ UNCHANGED published
  /\ UNCHANGED <<challengeType, request, flow, challenge, asset, jobs, submitter>>

(* Not yet: an answer that costs a retry.                                  *)
NotYet(e) == Fault /\ NextTurn(e, TRUE)

CheckPropagation(e) ==
  /\ At(e, "propagation")
  /\ \/ Write(e, <<"ready">>) /\ UNCHANGED faults
     \/ NotYet(e)
     \/ Fails(e, "propagation")
  /\ UNCHANGED <<stores, submitter>>

(* Transition: into challenge_processing, challenge_valid, finalizing.     *)
StartProcessing(e) ==
  /\ At(e, "process")
  /\ EnterStage(e, "challenge_processing", "schedule")
  /\ UNCHANGED <<challengeType, request, challenge, published, asset, jobs, submitter, faults>>

NotifyReady(e) ==
  /\ At(e, "notify")
  /\ \/ Write(e, <<"verifying">>) /\ UNCHANGED faults
     \/ Fails(e, "notify")
  /\ UNCHANGED <<stores, submitter>>

(* The adapter declares three statuses; any other ends the job only.       *)
PollAuthorization(e) ==
  /\ At(e, "poll")
  /\ \/ Write(e, <<"valid">>) /\ UNCHANGED faults
     \/ /\ "authorization" \in Permanent
        /\ Write(e, <<"invalid", "cleanup_pending">>) /\ UNCHANGED faults
     \/ "unknown" \in Permanent /\ Return(e, "over") /\ UNCHANGED faults
     \/ NotYet(e)
     \/ Fails(e, "poll")
  /\ UNCHANGED <<stores, submitter>>

Cleanup(e) ==
  /\ At(e, "cleanup")
  /\ \/ published' = published \ {exec[e].at} /\ Write(e, <<"cleaned">>)
     \/ UNCHANGED published /\ Write(e, <<"cleanup_failed">>)
  /\ UNCHANGED <<challengeType, request, flow, challenge, asset, jobs, submitter, faults>>

MarkValid(e) ==
  /\ At(e, "validate")
  /\ EnterStage(e, "challenge_valid", "schedule")
  /\ UNCHANGED <<challengeType, request, challenge, published, asset, jobs, submitter, faults>>

-----------------------------------------------------------------------------
(* continueFinalizing and completeIssued.                                  *)

StartFinalizing(e) ==
  /\ At(e, "finalizing")
  /\ EnterStage(e, "finalizing", "finalize")
  /\ UNCHANGED <<challengeType, request, challenge, published, asset, jobs, submitter, faults>>

FinalizeOrder(e) ==
  /\ At(e, "finalize")
  /\ \/ Go(e, "download") /\ UNCHANGED faults
     \/ Fails(e, "finalize")
  /\ UNCHANGED <<stores, submitter>>

Download(e) ==
  /\ At(e, "download")
  /\ \/ Go(e, "issue") /\ UNCHANGED faults
     \/ Fails(e, "download")
  /\ UNCHANGED <<stores, submitter>>

MarkIssued(e) ==
  /\ At(e, "issue")
  /\ EnterStage(e, "issued", "schedule")
  /\ UNCHANGED <<challengeType, request, challenge, published, asset, jobs, submitter, faults>>

PersistAgain(e) ==                                                         \* mutant
  /\ At(e, "persist")
  /\ \/ /\ asset' = [asset EXCEPT !.versions = @ + 1]
        /\ Go(e, "link") /\ UNCHANGED faults
     \/ Fails(e, "persist") /\ UNCHANGED asset
  /\ UNCHANGED <<challengeType, request, flow, challenge, published, jobs, submitter>>

(* UpsertIssued: one version per workflow.                                 *)
PersistVersion(e) ==
  /\ At(e, "persist")
  /\ \/ /\ asset' = [asset EXCEPT !.versions = IF @ = 0 THEN 1 ELSE @]
        /\ Go(e, "link") /\ UNCHANGED faults
     \/ Fails(e, "persist") /\ UNCHANGED asset
  /\ UNCHANGED <<challengeType, request, flow, challenge, published, jobs, submitter>>

LinkFromZero(e) ==                                                         \* mutant
  LET i == exec[e].at
  IN  /\ At(e, "link")
      /\ \/ /\ asset' = [asset EXCEPT !.linked = @ \cup {i}]
            /\ exec' = [exec EXCEPT ![e].at = i + 1,
                                    ![e].step = IF i + 1 = Challenges THEN "complete" ELSE "link"]
            /\ UNCHANGED faults
         \/ Fails(e, "link") /\ UNCHANGED asset
      /\ UNCHANGED <<challengeType, request, flow, challenge, published, jobs, submitter>>

(* LinkCertificateAsset, for one domain of the request after the other.    *)
LinkDomain(e) ==
  LET i == exec[e].at + 1
  IN  /\ At(e, "link")
      /\ \/ /\ asset' = [asset EXCEPT !.linked = @ \cup {i}]
            /\ exec' = [exec EXCEPT ![e].at = i,
                                    ![e].step = IF i = Challenges THEN "complete" ELSE "link"]
            /\ UNCHANGED faults
         \/ Fails(e, "link") /\ UNCHANGED asset
      /\ UNCHANGED <<challengeType, request, flow, challenge, published, jobs, submitter>>

MarkCompleted(e) ==
  /\ At(e, "complete")
  /\ MoveRequest(e, "completed", "over")
  /\ UNCHANGED <<challengeType, flow, challenge, published, asset, jobs, submitter, faults>>

(* A rejected challenge, or an adapter's permanent error, fails the        *)
(* workflow and then the request.  After a permanent error the workflow's  *)
(* own refusal to fail is ignored.                                         *)
RejectWorkflow(e) ==
  /\ At(e, "reject")
  /\ IF "failed" \in FlowMoves(flow) THEN flow' = "failed" /\ GoOn(e, "none", "fail request")
     ELSE UNCHANGED flow /\ Return(e, "over")
  /\ UNCHANGED <<challengeType, request, challenge, published, asset, jobs, submitter, faults>>

GiveUp(e) ==
  /\ At(e, "give up")
  /\ flow' = IF "failed" \in FlowMoves(flow) THEN "failed" ELSE flow
  /\ GoOn(e, "none", "fail request")
  /\ UNCHANGED <<challengeType, request, challenge, published, asset, jobs, submitter, faults>>

FailRequest(e) ==
  /\ At(e, "fail request")
  /\ MoveRequest(e, "failed", "over")
  /\ UNCHANGED <<challengeType, flow, challenge, published, asset, jobs, submitter, faults>>

-----------------------------------------------------------------------------
StartStep(e) ==
  \/ MarkAccepted(e) \/ MarkRunning(e) \/ EnsureWorkflow(e) \/ CreateOrder(e)
  \/ RecordOrder(e) \/ EnsureChallenges(e)

ContinueStep(e) ==
  \/ ReadFlow(e) \/ ListChallenges(e)
  \/ Present(e) \/ CheckPropagation(e) \/ StartProcessing(e)
  \/ NotifyReady(e) \/ PollAuthorization(e) \/ Cleanup(e) \/ MarkValid(e)
  \/ WriteChallenge(e)
  \/ StartFinalizing(e) \/ FinalizeOrder(e) \/ Download(e) \/ MarkIssued(e)
  \/ PersistVersion(e) \/ LinkDomain(e) \/ MarkCompleted(e)

ExecutionStep(e) ==
  \/ ReadRequest(e) \/ StartStep(e) \/ ContinueStep(e) \/ ScheduleNext(e)
  \/ RejectWorkflow(e) \/ GiveUp(e) \/ FailRequest(e)
  \/ Report(e)

SubmitStep == ScheduleStart \/ AcceptRequest

Next ==
  \/ Create \/ SubmitStep \/ LoseSubmitter \/ Resubmit
  \/ \E e \in Executors, k \in JobKeys : Take(e, k)
  \/ \E e \in Executors : ExecutionStep(e) \/ Crash(e)
  \/ \E k \in JobKeys : Reap(k)

Spec == Init /\ [][Next]_vars

(* Workers poll for any job, executions and submissions go on, the reaper  *)
(* runs.                                                                   *)
FairSpec ==
  /\ Spec
  /\ WF_vars(SubmitStep)
  /\ WF_vars(\E e \in Executors, k \in JobKeys : Take(e, k))
  /\ \A e \in Executors : WF_vars(ExecutionStep(e))
  /\ WF_vars(\E k \in JobKeys : Reap(k))

-----------------------------------------------------------------------------
TypeOK ==
  /\ request \in RequestStatuses /\ flow \in FlowStatuses
  /\ challengeType \in {"none"} \cup ChallengeTypes
  /\ challenge \in Seq(ChallengeStatuses) /\ Len(challenge) \in {0, Challenges}
  /\ published \subseteq 1 .. Challenges
  /\ asset \in [versions : Nat, linked : SUBSET (1 .. Challenges)]
  /\ jobs \in [JobKeys -> JobStates]
  /\ submitter \in {"idle", "schedule", "accept"}
  /\ exec \in [Executors -> Execution]
  /\ faults \in 0 .. MaxFaults

(* A request is completed "when an issued certificate has been persisted   *)
(* into an asset version" (t08 design): the workflow is issued, it has     *)
(* exactly one version however often its last stage was executed, and all  *)
(* domains refer to the asset.                                             *)
CompletedMeansIssued ==
  /\ asset.versions <= 1
  /\ asset.versions = 1 => flow = "issued"
  /\ request = "completed" => asset.versions = 1 /\ asset.linked = 1 .. Challenges

(* No certificate without control of every identifier: the workflow        *)
(* leaves challenge_processing only when every challenge is valid, although *)
(* an execution decides by a list it read long before it decides.          *)
IssuedMeansValid ==
  flow \in {"challenge_valid", "finalizing", "issued"} =>
    \A i \in DOMAIN challenge : challenge[i] = "valid"

(* A challenge is only said to be presented, and the CA only told so,      *)
(* while its material is in place.                                         *)
PresentedMeansPublished ==
  \A i \in DOMAIN challenge :
    challenge[i] \in {"presented", "propagating", "ready", "verifying", "valid"} => i \in published

(* "failed when workflow reaches terminal failure" (t08 design), and not   *)
(* before: no request is given up while its workflow goes on or issues.    *)
FailedMeansFlowFailed == request = "failed" => flow = "failed"

(* From accepted on the system has promised to create or resume the        *)
(* workflow (doc/一期GA详细设计.md, 7.3): as long as the request is neither *)
(* completed nor failed, some job will take it further.                    *)
AcceptedIsDriven ==
  request \in {"accepted", "running"} => \E k \in JobKeys : Live(k)

(* What the stores say of the certificate.                                 *)
OutcomeOf == IF request \in {"submitted", "accepted", "running"} THEN "open" ELSE request
ControlOf == {i \in DOMAIN challenge : challenge[i] = "valid"}
CertificateOf ==
  CASE asset.versions > 1                        -> "twice"
    [] asset.versions = 1                        -> "kept"
    [] asset.versions = 0 /\ flow = "issued"     -> "issued"
    [] asset.versions = 0 /\ flow = "failed"     -> "refused"
    [] OTHER                                     -> "none"

Lifecycle == INSTANCE CertificateLifecycle
  WITH Identifiers <- 1 .. Challenges, status <- OutcomeOf, controlled <- ControlOf,
       certificate <- CertificateOf, listed <- asset.linked

(* The workflow implements its abstract specification: whatever stops, is  *)
(* repeated or overlaps, a request that is over is not reopened, a         *)
(* workflow that failed never issues, and issuing, persisting, linking and *)
(* completing come once and in this order.                                 *)
ImplementsCertificateLifecycle == Lifecycle!LifecycleSpec

(* "failed when workflow reaches terminal failure" (t08 design): the       *)
(* failure of the workflow reaches the request.                            *)
FailureReachesRequest == (flow = "failed") ~> (request = "failed")

(* Whether validation succeeds or fails, the challenges are cleaned up, so *)
(* that no file or record lingers (doc/一期GA详细设计.md:1038): nothing is  *)
(* in place once the request is over and nobody works on it.               *)
NothingLingers ==
  request \in {"completed", "failed"} /\ (\A e \in Executors : exec[e] = Idle) => published = {}

(* Every request that is submitted is completed or fails.                  *)
RequestsEnd == (request # "none") ~> (request \in {"completed", "failed"})
=============================================================================
