# AutoCertX in TLA+

AutoCertX issues TLS certificates through ACME, stores them as assets and deploys
them to NGINX hosts through agents. Everything slow or unreliable is a *job*: a row
with a lease, a retry budget and a history of attempts, executed by worker
processes. This directory models that machinery, checks it with TLC and proves part
of it with TLAPS.

All paths below are under `src/internal/` unless they say otherwise.

## 1. The system

| part | state | operations | correct when |
|---|---|---|---|
| job domain, `domain/job` | `Job` (status, lease, next run, attempt count), `Attempt` (worker, status) | `New`, `Claim`, `MarkRunning`, `Renew`, `Mark*`, `ExpireLease`, `ScheduleRetry` | a job over is over; attempts are immutable once closed |
| job commands, `application/command/jobs` | in-memory `jobs`, `attempts` and an idempotency index, one mutex | `Schedule`, `EnsurePlanned`, `Claim`, `MarkRunning`, `Heartbeat`, `Complete`, `Cancel`, `ReapExpired` | lease, attempt, budget and outcome agree |
| PostgreSQL store, `repository/postgres/jobstore` | the same two tables | the same, one transaction each, rows taken `FOR UPDATE [SKIP LOCKED]` | no job is handed out twice |
| scheduler, `scheduler` | a worker's claims in hand, its renewal goroutine | `Worker.RunOnce`, `renewLoop`, `Reaper.RunOnce`, `Planner.RunOnce` | a running worker keeps its lease, a crashed one loses it, every job ends |
| workflow engine, `workflow`, `domain/issueworkflow` | a workflow per certificate request with its challenges | `SubmitRequest`, `RenewAsset`, `ProcessJob` (start and continue jobs) | a request completes exactly when its workflow issued; every workflow ends |
| requests and assets, `domain/certificaterequest`, `domain/certificateasset` | request status; asset, versions, current version | `Submit`, `Accept`, `Start`, `Complete`, `Fail`; `UpsertIssued` | one version per workflow, the asset's current version is one of its versions |
| drivers, `driver/acme`, `driver/dns` | fakes of the CA and the DNS provider | orders, challenges, records | external: environment of the workflow |
| agent transport, `driver/agenttransport`, `domain/agentnode` | registration token, nodes, jobs dispatched to agents, a queue per node | `Register`, `Heartbeat`, `Dispatch`, `Poll`, `ReportProgress`, `CompleteJob`, `Disable` | an open job is executed once at a time, the engine hears of it once, a job that is over is not handed out again, nor any job to a disabled node |
| NGINX deployment, `agent/deploy/nginx`, `agent/verify` | the files of one host, the process that serves them | `Deploy`: precheck, backup, install, reload, verify, rollback | what a run reports is what is on disk and what is served |
| identity, `domain/identity`, `application/command/auth` | users, sessions, an index from refresh tokens | `Login`, `Refresh`, `Logout`, `UpdateLocale` | a logout stands once no refresh of its session is under way, a replaced refresh token is refused |
| tenancy, `domain/tenancy` | tenants, projects, environments, roles, bindings (seeded) | `Resolve` | a user gets a scope and the roles a binding gives there |
| registries, `domain/{domains,dnscredential,caaccount,deploymenttarget,certificateasset}` and their commands | records by id, an index from names to ids | create, update, bind, disable; `LinkCertificateAsset` | the index names exactly the records; assets, versions and domain lists agree |
| settings and audit, `domain/{settings,audit}`, `application/command/settings` | security settings, webhook endpoints, events with notifications, exports | updates, `RecordEvent`, deliveries with retries, `CreateExportRecord` | nothing under way is forgotten; a sparse update keeps what it does not name |
| queries, HTTP, console, platform | none of their own | views, routing, decoding, configuration | pure I/O |

How they interact. The workflow engine and the planner *schedule* jobs in the job
store; workers *claim* them, call an executor (the workflow engine for issue jobs),
*heartbeat* meanwhile and *complete*; the reaper *reaps* leases that ran out; a
user may *cancel*. All of these meet only in the store, under its mutex or in its
transactions: no caller is told that its lease is gone until its next call fails.
The control-plane wiring (`app/controlplane/wiring/build.go`) uses the in-memory
stores; it starts no worker, planner or reaper, which is left to the embedding
process. The workflow engine reads domains, credentials and accounts, and writes assets
and the domains' certificate lists when a request completes. The agent transport is a
second, independent way to hand out work: the deployment engine (not part of this
repository) dispatches to a node, whose agent polls. Commands on settings end in an
audit event, whose webhook notifications are delivered before the command returns.

What is hard about it: the holder of a lease does not know when it loses it; its
calls carry a time it read earlier; two rows (job and attempt) stand for one fact;
a batch of claims is executed one after the other under leases that all started at
the same moment; the call that reports a finished job may be lost, late or repeated;
a reaper pass is limited and may stop in the middle; the continuation of a workflow
lives in a job with a budget of its own. Outside the job machinery, every service locks
for one call and nearly every command makes several: a record is read, changed as a
copy and written back whole, while another caller does the same; an answer of the
transport is lost after its effect; a deployment stops between two files. `PROJECT.json`
lists every such point with its line under `hazards`.

## 2. The modules

| module | models |
|---|---|
| `JobLifecycle` | the abstract specification of a job: queued, held by one worker, over, with its history of runs |
| `JobQueue` | the store: one action per repository operation; refines `JobLifecycle` |
| `Scheduler` | workers, planner, reaper and users on top of `JobQueue` |
| `CertificateLifecycle` | the abstract specification of a request: control demonstrated, certificate refused or issued and kept, domains listed, completed or failed |
| `IssueWorkflow` | one certificate request and its workflow, driven by jobs as `JobLifecycle` promises them; refines `CertificateLifecycle` |
| `AgentTransport` | agents, their registry and the jobs handed to them, with lost answers |
| `NginxDeploy` | deployment runs on one host, one action per call on files, process and verifier |
| `Tenancy` | scope resolution, a pure function of the tenancy data |
| `Sessions` | login, refresh, logout, locale, one action per store call; resolves scopes with `Tenancy` |
| `Registry` | named resources and their commands, the part that is shared |
| `Governance` | `Registry` with requests and their completions: assets, versions, domain lists |
| `AuditTrail` | `Registry` with settings, webhook endpoints, events, notifications and exports |
| `JobQueueProofs`, `SchedulerProofs`, `IssueWorkflowProofs`, `AgentTransportProofs`, `NginxDeployProofs`, `SessionsProofs`, `AuditTrailProofs`, `GovernanceProofs` | the theorems about them |
| `MC*` | the instances TLC checks |

### JobQueue

`jobs[j]` is the jobs row of job `j`: `status`, `owner` (lease_owner), `expireIn`
(lease_expire_at − now), `runIn` (next_run_at − now), `count` (attempt_count).
`attempts[j]` is the sequence of its job_attempts rows, oldest first. A job that was
never created has the status `absent`; one model job stands for one idempotency key,
which both stores keep unique. Fields that no operation decides by (payload,
result, error text, timestamps of the record) are left out.

Each repository operation is one action: the in-memory store holds one mutex for the
length of each, the PostgreSQL store runs each in a transaction that locks the job
row before it decides. `PostgresStore` chooses the store. They differ in two ways
that matter: the PostgreSQL claim and reaper skip rows that others have locked
(`Locked`), and its calls fail when their context is cancelled (`Scheduler`).

The callers are unconstrained in `JobQueue`: any worker may send any call about any
job at any time, which covers late, repeated and forged calls at once. An operation
that returns an error changes nothing and is not a step, except a reaper pass, which
can fail half-way (`Reap`), and `Cancel`, which changes the attempt before it looks
at the status and is modelled in that order.

Time. A call carries a `now` that its caller read before it waited for the mutex or
the row. `lag` is how old it is, 0 to `MaxLag`. Instants are stored relative to the
present, and `Tick` lowers them. No comparison can tell apart two instants older
than `MaxLag`, so both stop at `-MaxLag`; the only effect is that claims order two
such jobs either way, more behaviours than the code has. `Complete` with no delay of
its own reads the attempt count outside the lock before it asks the policy: the
model lets it see any earlier count (`CompletionDelays`).

### Scheduler

`worker[w]` is the program counter of `Worker.RunOnce` for the process with worker
id `w` (`phase`), the claims it still has in hand (`batch`, first the one it deals
with, each with the number of its attempt) and `renewLost`, the error the renewal
goroutine left behind. The renewal goroutine and the execution interleave:
`RenewLease` and `FailToRenew` happen any number of times while the worker is
`executing`. As in the code, an error ends the renewals and not the execution.
`ReturnDuringRenewal` is `cancel()` after `Execute` while a heartbeat is under way.
`Report` and `Drop` are the two ways out of `executeClaim`. `StoreFaults` lets each
call fail before or after it took effect, `Crashes` lets a worker die at any point
and come back under the same id, `Timely` says that leases are renewed in time.

### IssueWorkflow

`request`, `flow` and `challenge[i]` are the statuses of the certificate request, its
workflow and its challenges; `asset` is the number of versions this workflow has
persisted and the domains that refer to the asset. `jobs[k]` is the job with
idempotency key `k`, the start job or the continue job of a stage, reduced to what
`JobLifecycle` (which the queue is proved to implement) promises of it: queued, held
or over, with the attempts it has used. `exec[e]` is what an executor process
remembers between two calls: `step`, the next call; `stage`, the status of the
workflow as last read or written; `list`, `at`, `todo` and `waits`, the locals of the
loop over the challenges.

`ProcessJob` is a sequence of calls: the services of the stores lock for one call at
a time, the adapters talk to the outside. Each call is one action, so executions of
the same job may interleave after any of them. `Overlap` lets a lease run out under
an execution that goes on, which section 5 shows to happen; `Crashes` ends an
execution anywhere, or the API process between the calls of `SubmitRequest`;
`Temporary` and `Permanent` say which adapter calls may fail how; `StoreFaults` lets
the scheduling of a job fail; without `Prompt` a worker may claim the start job
before `SubmitRequest` has returned. `RenewAsset` is a `SubmitRequest` with other
input. The fields that nothing decides by (order URL, tokens, error text, times) are
left out, and so is `Requests.Cancel`, which nothing calls.

The CA and the DNS provider are external: a call succeeds, is not ready, or fails. With
`"unknown"` in `Permanent` an authorization may also come back with a status that the
adapter does not declare, which ends the job and nothing else; `workflow_safety` has it.
`published` is the set of identifiers whose challenge material is in place.

`CertificateLifecycle` forgets jobs, executions and stages. The refinement mapping reads
only the stores: `OutcomeOf` is the request's status with everything before an outcome
open, `ControlOf` the valid challenges, `CertificateOf` the workflow's status and the
persisted version, `asset.linked` the listed domains; a second version would have no counterpart. Its `Fail` has no guard on the
certificate, and `Demonstrate` may follow `Refuse`: a late execution may fail a request
whose certificate another one obtains, and may validate a challenge of a workflow that
another one failed.

### AgentTransport

`node[n]` is the registry record of agent `n`, `job[j]` the record of a dispatched job
(its node, the lease's remaining ticks, its result), `queue[n]` the list of jobs
dispatched to `n`, which the code never prunes. `Dispatch` and `Poll` read the node under
the registry's lock and then take the transport's: two actions each, `dispatching` and
`polling` in between. What happens outside the repository is `slot[n][s]`, what the agent
executes; `told[j]`, what the completion callback was told; `answer[n]`, the jobs in the
answer to a poll that is on its way; and `heard[n]`, whether the agent still waits for it. A
poll is three steps: `PollLookup`, `PollLease`, which takes the jobs and sends the answer
off when it lets the lock go, and `Receive`, which starts them. In between the agent may
give up (`LoseAnswer`) or stop, and any result may be recorded: a late execution may report
a job whose next lease is travelling. A completion may be repeated (`CompleteAgain`)
because its answer was lost. The loop of the agent is not in
`src/`; it is modelled from what its client can call. `Timely` says that agents report
progress, and get their answers or give them up, before a lease runs out. Times are
relative, as in `JobQueue`. A restart of the control plane, which would lose these
in-memory records, is not modelled, nor are `MatchCapable`, labels and rates.

### NginxDeploy

`disk` and `active` are the material of the two files and of the process; `step[r]` is
the call run `r` makes next and `status[r]` its `DeployResult.Status`. Every call may
fail, the agent may stop between two (`Crash`), and NGINX may ignore a reload that
succeeded (`deaf`). `Deploy` takes no lock, so runs overlap at will. The file store keeps
the contract of the tests' fake: both files exist, and a restored file is the one that
was backed up. Under that contract the first installation on an empty host fails at its
backup; `FileStore.Remove` is never called. `found` and `alone` record, for the
properties, what run `r` found and whether it has been alone since.

### Sessions and Tenancy

`session[s]`, `index[t]` and `locale` are the store's rows, `call[c]` the request a caller
is and its copies: each store call is an action, since the operations of
`domain/identity` take no lock. Tokens are random in the code and successive numbers
here. `auth` resolves the caller's scope after the session is stored or rotated, so the
answer may still be an error (`Answer`): the client then has no token. `world` is the
tenancy data, which is seeded and never changed; `Tenancy!Resolve` follows the code's
choice of tenant, project, environment and roles, and `ScopesResolve` compares it with
what the bindings say. `selectEnvironment` opens every environment below a binding at
tenant or project level. Passwords, the format of tokens and the expiry of access tokens
are left out.

### Registry, Governance, AuditTrail

`name[x]` and `index[k][n]` are the records and the name index of each service; a service
holds its lock for a whole operation, so an operation is one action. A domain command
looks its credential up first; credentials are never removed, so the lookup cannot go
stale and the command is one action as well.

`Governance` adds requests, their completion jobs, `asset`, `versions` and `links` (the
domains' certificate lists). `Submit` is one action although it reads several stores:
everything it reads stays true until its only write. A completion is run by a worker in
one action per store call, may crash, lose its lease and be repeated. Challenge and
certificate types and idempotency keys are left out; so are `MarkActive` and
`MarkDeployFailed`, which nothing calls.

`AuditTrail` adds the endpoints' subscriptions, `note[n]` (a notification and its
attempts), `export[x]` and the security settings. `RecordEvent` creates one notification
per endpoint that listens, and its caller delivers them in turn; the network call lies
between `StartDelivery` and `EndDelivery`, and its outcome is the environment's
(`src/` has a stub). `ProcessDueNotifications` has no caller in `src/`; it is an action
like the other calls, as the service offers it, and only it makes retries happen.
`UpdateSecuritySettings` reads and writes under two locks, hence two actions.

## 3. What TLC checks

| run | question | properties |
|---|---|---|
| `queue` | does the store stay consistent under any calls, and does it implement the life of a job? | `TypeOK`, `LeaseIsOneOpenAttempt`, `BudgetIsKept`, `OutcomeIsLastResult`, `HistoryOnlyGrows`, `ImplementsLifecycle` |
| `scheduler_safety` | may a late call hit a later attempt? | `OwnerHoldsItsClaim`, `ClaimsAreRecorded` |
| `scheduler_liveness` | does every job end, with crashes and lost calls? | `EveryJobEnds` |
| `scheduler_healthy` | do timely workers with batches of one keep their leases, and the jobs to themselves? | `HealthyWorkKeepsItsLease`, `OneExecutorPerJob`, `LiveLeaseIsInHand` |
| `workflow_safety` | is anything issued, persisted or completed that should not be, or twice, or in another order, under every fault? | `TypeOK`, `CompletedMeansIssued`, `IssuedMeansValid`, `PresentedMeansPublished`, `ImplementsCertificateLifecycle` |
| `workflow_healthy` | without crashes, overlaps and quick workers, does every request end? | `AcceptedIsDriven`, `FailedMeansFlowFailed`, `RequestsEnd` |
| `workflow_submit_race` | and with a quick worker, is an accepted request driven until it ends? No. | violates `AcceptedIsDriven` |
| `agents` | with lost answers, crashes and disabling: one execution at a time, one report, no work for the disabled, and an end? | `TypeOK`, `OneExecutionPerOpenJob`, `EngineHearsTheRecord`, `OverIsNotHandedOut`, `DisabledIsOutOfWork`, `DispatchedJobsEnd` |
| `deploy` | does a run that had the host to itself report what it did, and is it served? | `OutcomeTellsTheDisk`, `ReportedIsServed` |
| `sessions` | do logout, refresh and locale survive each other, and do scopes resolve to what bindings grant? | `TypeOK`, `IndexIsExact`, `SettledIsRevoked`, `LocaleIsTheWish`, `ScopesResolve`, `SpentTokensAreRefused` |
| `governance` | do names, assets, versions and lists agree after renamings and repeated completions? | `TypeOK`, `NamesAreIndexed`, `CertificatesAreOnRecord` |
| `audit` | is anything under way forgotten or retried for ever, and do sparse updates keep the rest? | `TypeOK`, `NothingIsLeftBehind`, `SettingsAreTheWish` |

`workflow_submit_race` must fail: it checks a sentence of the design document, which the code
breaks. More configurations of this kind are kept beside the runs; each takes the passing run of
its component, with the constant named here changed or against a sentence of the repository
that is taken at its word, and TLC finds it violated within seconds. They show what the
passing runs leave out, and why; section 5 goes through them.

| configuration | module | what is changed | violates |
|---|---|---|---|
| `SchedulerBatch.cfg` | `MCScheduler` | `MaxJobs = 2` | `BatchKeepsItsLeases` |
| `SchedulerOverlap.cfg` | `MCScheduler` | `Timely = FALSE` | `OneExecutorPerJob` |
| `WorkflowCrash.cfg` | `MCIssueWorkflow` | `Crashes = TRUE` | `AcceptedIsDriven` |
| `WorkflowPresent.cfg` | `MCIssueWorkflow` | `Temporary = {"present"}` | `AcceptedIsDriven` |
| `WorkflowWaits.cfg` | `MCIssueWorkflow` | `MaxFaults = 2` | `AcceptedIsDriven` |
| `WorkflowStoreFault.cfg` | `MCIssueWorkflow` | `StoreFaults = TRUE` | `AcceptedIsDriven` |
| `WorkflowOverlap.cfg` | `MCIssueWorkflow` | `Overlap = TRUE` | `FailedMeansFlowFailed` |
| `WorkflowLostFailure.cfg` | `MCIssueWorkflow` | `Crashes = TRUE` | `FailureReachesRequest` |
| `WorkflowCleanup.cfg` | `MCIssueWorkflow` | nothing | `NothingLingers` |
| `AgentsDisableRace.cfg` | `MCAgentTransport` | nothing | `NoNewWorkWhenDisabled` |
| `SessionsLogoutRace.cfg` | `MCSessions` | nothing | `RevokedStaysRevoked` |
| `SessionsLocaleRace.cfg` | `MCSessions` | nothing | `LocaleIsPersisted` |
| `AuditDoubleDelivery.cfg` | `MCAuditTrail` | nothing | `OneDeliveryAtATime` |
| `AuditRedelivery.cfg` | `MCAuditTrail` | nothing | `SucceededIsFinal` |
| `AuditSettingsRace.cfg` | `MCAuditTrail` | nothing | `UpdatesAreSparse` |

Bounds. Two jobs of different priority, one with a budget of two and one of one, so
that both a retry and an exhausted budget occur next to each other; two workers, so
that each job can change hands; leases of two ticks and a lag of at most one, so
that a call can be judged by a clock on the other side of the expiry, and a renewal
can come in the last tick; a reaper that takes one lease per pass and claims that
take two jobs, so that both limits bite. Delays are 0 or 1 in `StartDelays`, the
policy's delay is 1, and `RetryDelays` holds 0 (ask the policy) and -1 (which
`ScheduleRetry` refuses). `queue` and `scheduler_safety` are of the PostgreSQL store,
whose behaviours include those of the in-memory one: it may find no row locked.

The workflow runs have two executors, so that an execution can be overtaken by its
repetition, and two challenges, so that one can be valid or cleaned up while the other
is on its way; a request asks for either type of challenge. `MaxFaults` bounds the
crashes, lost leases, failures and "not yet" answers of a behaviour together. Two of
them are enough for an error to meet an execution that is itself a repetition: an
execution that lost its lease may also stop for ever after any call.
`workflow_safety` has a budget of two attempts per job, the smallest with a
repetition; the runs that ask whether the budget suffices have the code's default of
three. `workflow_healthy` allows one fault, of those that are not crashes, overlaps or
a failing job store, and leaves "present" out of the calls that fail temporarily and "unknown" out of the
answers: see section 5. Executors are symmetric, which the runs without liveness use. These runs do
not check for deadlock: a request that has ended, or has no job left, is still.

`agents` has one agent, since nodes share nothing but the token, with two slots, so that
it could execute one job twice; two jobs of different needs; leases of two ticks, a lag of
one and one fault (a lost answer, a crash, a failing callback): enough for an execution to
outlive its lease while the job is handed out again, and to report it before the second
answer arrives. `deploy` has two runs, so
that a run begins on what another left, and four faults, one for each of: the step that
fails, a step of the rollback, a crash and an ignored reload. `sessions` has two callers on
one session and three tokens, a login and two rotations, over nine tenancy worlds of two
tenants that differ in one binding or one inactive thing, and three selections.
`governance` has two requests for up to two domains, two workers, two assets, a budget of
two and one fault: enough for a completion to be overtaken by its repetition while the
domain bears another name, and for the second request to meet the first one's asset.
`audit` has two callers, two endpoints, one event type, two notifications, two attempts
(three in the code) and one export: two processors meet on a notification at its limit.
The last four check no deadlock, as their bounds and outcomes leave them still.

Fairness. `EveryJobEnds` assumes the reaper loop, the clock, that idle workers poll,
that `Execute` returns (it is given no deadline, so the executor must), that `RunOnce`
goes on to its end, and that a crashed worker is restarted. It assumes nothing of
renewals and reports: each may fail each time. Faults, crashes and cancellations have
no fairness. It is checked over the in-memory store with a lag of zero: which locked rows
a PostgreSQL claim skips is the database's choice, and a claim that is skipped for ever is
not the code's doing.

`RequestsEnd` assumes that a submission and an execution that have begun go on to
their end, that some executor takes a queued job, and that the reaper recovers jobs
whose holder is gone: what `EveryJobEnds` and its fairness say of the queue. Users
that submit the same request again, and faults, have no fairness.

`DispatchedJobsEnd` assumes the clock, the second half of a dispatch that was let in, that
agents poll, that executions end, and that a result is reported until it is answered. It
promises an end to a job only as long as its node stays schedulable: registration,
heartbeats and disabling are the environment's and have no fairness. Nothing marks a
silent node offline, so a job of an agent that never comes back stays open.

## 4. What is proved

Every theorem holds for every value of the constants that the module's assumption
allows: any number of jobs, workers, callers, domains and notifications, any budget,
delay or bound. In each proof module, one lemma per action (or per group of actions that
change the same thing) shows that the invariant is kept, and the theorems follow.

*The queue* (`JobQueueProofs`; also for either store):

- `TypeCorrectness`, `LeaseCorrectness`, `BudgetCorrectness`, `OutcomeCorrectness`:
  the four invariants of `queue`. None is inductive alone: that the reaper
  finds the attempt of a lease needs `LeaseIsOneOpenAttempt`, that the count stays
  within the budget needs that a queued job has an attempt left, that an outcome is
  the last result needs to know which attempt is open. `QueueInv` is their
  conjunction. `NextIsChange` shows that every operation, on every job, is one of a
  few changes of a single row pair; `ChangeKeepsInv` shows that each such change keeps
  the job's part of the invariant.
- `FinalJobsStayFinal`, `HistoryIsImmutable`: action properties from the same case
  split.
- `QueueImplementsLifecycle`: the refinement, step by step (`ChangeIsStep`).

*The scheduler* (`SchedulerProofs`):

- `QueueSteps`: every behaviour of the scheduler is one of the queue, so all of the
  above hold with workers, crashes and faults.
- `LeaseOwnerIsFenced`, `AttemptsAreNotShared`: the store identifies a lease by worker
  id alone, and that is enough. `HandsInv` adds to the queue's invariant that claims
  in hand are recorded under their holder's id, that no claim in hand is newer than
  the job's last attempt, and that a worker's older claims are closed.
  `WorkerTypeCorrectness` follows from it as well.
- `HealthyWorkIsNotReaped`, `TimelyWorkersExcludeEachOther`: for workers that renew in time
  (`Timely`), with batches of one and a lag shorter than a lease, and with crashes, lost
  calls and either store. `KeptInv` adds to `HandsInv` that a claim in hand is of the job's
  newest attempt and that its job is cancelled or has a lease that still runs, so that
  neither the reaper nor a claim of another worker touches it. Batches of more than one
  do break it: section 5.
- `LiveLeasesAreInHand`: the in-memory store, no crashes and no faulty calls, but any
  batch, lag and timing. `LiveInv`: every live lease is in the hands of its owner, claims not
  started yet are still `claimed`, and once a renewal was lost the lease is over.

*The workflow* (`IssueWorkflowProofs`). With crashes, overlaps and every fault:
`CompletedRequestsHaveCertificates`, `IssuedOnlyWithControl`, `PresentedIsInPlace`, and
the refinement `WorkflowImplementsLifecycle`, shown one store at a time
(`RequestKeepsPromise`, `FlowKeepsPromise`, `WriteKeepsPromise`, `AssetKeepsPromise`). An
execution decides by copies it read before others wrote, so the invariant `WorkInv` says
what a copy still proves: `Knows` ties the stage and the list an executor holds to the
stores, and `Grows` states which facts about workflow and challenges are never
withdrawn (a valid challenge stays valid, a persisted version stays, material is only
taken away behind the point where a list says it is needed). Each call is then shown to
need only facts that last. The refinement needs no more than `WorkInv`: that only an
issued workflow persists and links is what `Knows` says of the execution, that control is
complete when the workflow issues is `IssuedMeansValid` of the stages before.

Two more theorems are about executions that are neither cut off nor overtaken (`~Crashes`,
`~Overlap`):

- `RequestFailsWithItsWorkflow`. `SoleInv`: at most one job is under way and one execution
  holds it, and that execution knows the workflow's status, not only an earlier one; a
  workflow that is to fail cannot refuse.
- `AcceptedRequestsAreDriven`: a request that is accepted has a job that is queued or held
  until it ends, that is, the retry budget suffices. Besides, it assumes a job store that
  does not fail (`~StoreFaults`), no quick worker (`Prompt`), that `Present` fails for good
  or not at all, that the CA answers with a declared status, and `MaxAttempts >= MaxFaults + 2`. Section 5 shows what breaks it without each
  of the first six; the last one leaves an attempt for each fault, one that only begins the
  challenges and is retried to wait for them, and one to succeed. `DrivenInv` says which
  job drives a request: the one of the workflow's stage, the jobs of later stages unused,
  the challenges such as its loop can begin with, and its attempts within the faults so far,
  plus one once the loop has nothing left to begin. Each call either leaves the job in that
  state, ends the request, or has scheduled the job of the next stage.

*Agents* (`AgentTransportProofs`): `OneRecordOneAnswer`, `OverJobsAreNotHandedOut`,
`DisabledStaysOutOfWork` and `TimelyAgentsDoNotOverlap`. `OverJobsAreNotHandedOut` does not say
that a job that is over is never started: an answer that was on its way still starts it,
and the theorem says that nothing else does, once for each. `TimelyInv` is what the last one
needs: the lease of an open job runs while the job is executed or in an answer on its way, and
it is in the hands of one agent, in one slot or one answer.

*Deployment* (`NginxDeployProofs`): `OutcomeIsTrue`, `ReportIsServed`, from `DeployInv`: for a
run that has been alone, `disk` is a function of what it found, of its material and of the
step it is at, and the backup references are what it found as soon as they were taken.

*Sessions* (`SessionsProofs`): `IndexStaysExact`, `SettledLogoutsStand`, `LocaleStands`,
`SpentTokensStayRefused`, `ScopesAlwaysResolve`. Callers write stale rows back, old tokens included; `SessionInv`
says that a token never belongs to two sessions all the same, neither to two rows nor to
a row and the copy of a logout that will write another one. The index is exact for that
reason, and a logout that was written while no refresh held the session stands. Refreshes that
had read the session before are excluded from both: they undo a logout, and several of them
are let in with one token (section 5).
`ScopesAlwaysResolve` compares `Tenancy!Resolve` with the bindings for any tenants, projects,
environments and roles; it assumes of a world (`WorldsAssumption`) that a role is bound at its
own level and that the ids of a binding are of one chain (`WellBound`), as in the data that
`app/controlplane/wiring/auth.go` seeds. Nothing in `src/` writes other bindings.

*Settings and audit* (`AuditTrailProofs`): `WorkIsNotLeftBehind`, `SettingsStand`. `AuditInv`
bounds the attempts of a notification plus the callers that have it on their list by
`MaxAttempts - 1` plus the number of callers: a notification is only listed below the
limit, and an attempt takes its caller's place on the list. A notification that is over is
taken up again by a caller that had listed it: the theorem bounds that, it does not exclude it.

*Registries and assets* (`GovernanceProofs`): `NamesStayIndexed` and `IssuedIsOnRecord`.
`UpsertIssued` looks for a workflow's version in one asset only, the one it chooses at that
moment.
`GovernanceInv` gives every request a home (`HomeOf`: the asset it asked for, else the one the
index finds under the name the request keeps) and says that its version is there or
nowhere. The home stays because requests keep what they were submitted with, assets are
never renamed and the index never lets go of one; the rest says what a running completion
has copied and done so far, and what the stores never take back (`Grows`).

`TypeCorrectness` of each of these modules stands beside them; for the scheduler and the
deployment, typing is proved and left out of the runs.

Every invariant and every action property of a passing run is proved. Only model-checked
are the three properties that need fairness, `EveryJobEnds`, `RequestsEnd` and
`DispatchedJobsEnd`: TLAPS does not cover `ENABLED`, on which fairness rests. The safety half
of the second is `AcceptedRequestsAreDriven`.

## 5. Where code and words differ

Each item names the configuration that shows it (section 3) and the sentence it breaks;
the third is the run that must fail.

1. *A batch starves its own leases* (`SchedulerBatch.cfg`). `RunOnce` claims `MaxJobs` jobs and
   executes them in turn; only the current one is renewed. The next one's lease runs out under
   a running worker, and the reaper charges it an attempt. `scheduler/worker.go:108`: renewals
   "avoid being reaped while healthy work is still in progress".
2. *Losing a lease does not stop the work* (`SchedulerOverlap.cfg`). A renewal that is late or
   fails ends the renewals; `Execute` goes on, and two workers execute the job at once. The
   store refuses the report of the first, but what it did outside stays done. The design
   document says that leases keep workers from each other's tasks
   (`src/doc/一期GA详细设计.md:1470`).
3. *A quick worker strands the request* (`workflow_submit_race`). The start job is scheduled
   before the request is accepted. Worker and API both accept it, the one that comes second
   fails; if that is the worker, the only start job the request will ever have is over. The
   design document promises that an accepted request is driven (`:907`); so for 4 to 7.
4. *So does a crash* (`WorkflowCrash.cfg`): the start job goes on with a workflow in
   `order_pending`, but `RecordOrder` is legal from `created` only.
5. *So does a failing `Present`* (`WorkflowPresent.cfg`): the challenge is stored as
   `presenting` before the call; when that fails and the job is retried, no stage knows what
   to do with the status, and the job fails for good.
6. *So does waiting* (`WorkflowWaits.cfg`): "not ready" is a failed attempt out of the same
   budget as errors; two of them after the presentation end the continue job.
7. *So does the job store* (`WorkflowStoreFault.cfg`): a stage is entered before its job is
   scheduled, and a scheduling error is not retried.
8. *A request fails while its workflow issues* (`WorkflowOverlap.cfg`). `classifyAdapterFailure`
   ignores that the workflow refused to fail. The t08 design (`:210`) has a request "`failed`
   when workflow reaches terminal failure".
9. *A failure is lost* (`WorkflowLostFailure.cfg`). Workflow and request are failed by two
   calls; a crash between them is not made up for, under the fairness of `RequestsEnd`. The
   same sentence.
10. *Challenge material lingers* (`WorkflowCleanup.cfg`). Only a challenge that was found invalid
    is cleaned up; files and TXT records of all others stay, when the request fails and when
    it completes. The design document (`:1038`) has every outcome enter cleanup.
11. *A disabled node gets work* (`AgentsDisableRace.cfg`). `Poll` lets a node in under the
    registry's lock and hands out jobs under the transport's. `domain/agentnode/service.go:340`:
    "Disable prevents a node from receiving new work."
12. *A refresh undoes a logout* (`SessionsLogoutRace.cfg`): it writes back, as active, the
    session it had read before. `domain/identity/service.go:111`: refresh tokens "cannot
    recreate access after logout".
13. *A locale is lost* (`SessionsLocaleRace.cfg`): a login or a refresh writes the whole user
    back. `domain/identity/service.go:175`: "UpdateLocale persists the user's locale preference."
14. *A notification is delivered twice at once* (`AuditDoubleDelivery.cfg`), *and again after it
    succeeded* (`AuditRedelivery.cfg`): `processNotification` writes the status and does not look
    at it. Two processors may thus exceed the attempt limit, each by one.
    `domain/audit/service.go:676` wants them to "observe that this notification is already
    in-flight"; no transition of the design document (7.10) leaves succeeded.
15. *Sparse updates undo each other* (`AuditSettingsRace.cfg`): the settings are read and
    written under two locks. `domain/settings/service.go:159`: they are sent "without
    accidentally resetting other controls".

In 3 to 7 and in 9 the request stays `accepted` or `running` for ever: submitting it again
finds the request and its start job, and schedules nothing. Two more ways lead there.
`Overlap = TRUE`: two executions of the start job read the request as accepted; the one that
comes second cannot mark it running and fails for good, and if it holds the lease the job is
over, while the first one's result is refused. `Permanent` with `"unknown"`: a status the
adapter does not declare ends the job and leaves the workflow in `challenge_processing`
(`workflow/service.go:564`); none of the adapters in `src/` returns one.

The passing runs and the theorems state what is left: `HealthyWorkKeepsItsLease`,
`OneExecutorPerJob` and `AcceptedIsDriven` under the constants of their runs,
`DisabledIsOutOfWork`, `SettledIsRevoked`, `LocaleIsTheWish` and `SettingsAreTheWish` of behaviours
without the overlap in question, which their auxiliary variables recognise. None of them says
that the hazard cannot happen.

The rest contradicts no sentence of the repository:

- *Scheduler.* The `cancel()` after `Execute` fails a heartbeat that is under way, and
  `executeClaim` takes it for a lost lease: a finished result is dropped with the lease in
  hand. `SchedulerHealthy.cfg` with `PostgresStore = TRUE` violates `LiveLeaseIsInHand`.
- *Agents.* An agent may start a job that is over: the answer that hands it out was on its way
  when a late execution reported the result. The engine keeps the first result.
- *Deployment.* Two runs on one host may leave the certificate of one with the key of the
  other, whatever they report: both deploy properties are stated of runs that were alone,
  and nothing in `src/` keeps runs apart. The reload of a rollback is not verified, hence
  the exception in `ReportedIsServed`.
- *Sessions.* Two refreshes that both read the session before either replaced the token are
  both let in with it; the second rotation replaces the token of the first. A refresh whose
  scope fails to resolve has rotated the token all the same.
- *Assets.* A repeated completion makes its own, possibly older, version the current one
  again; the clause "current is newest" of `CertificatesAreOnRecord` is stated while no
  completion was repeated. A request for an unknown asset id is accepted and fails after
  it spent its job's retries. `SubmitRequest` takes any conflict for a repeated idempotency key
  (`workflow/service.go:170`), a domain that is listed twice among them.
- *Audit.* No one in `src/` calls `ProcessDueNotifications`, so no retry ever happens.

## 6. Plan and limits

Done: the job queue, the scheduler, the issue workflow, agents, deployment, sessions with
tenancy, registries with assets, settings and audit; proofs of their invariants and of the
two refinements, of a job and of a request.

Still worth doing: `Planner`'s count of created jobs; a restart of the control plane, which
loses what the in-memory stores hold while agents keep their work.

Not modelled, and why: HTTP routing and decoding, the console, configuration and logging
(pure I/O); queries (read-only); the float arithmetic of `BackoffPolicy.Delay` (the model
takes the delay as a constant and no property depends on its value); `EnsurePlanned`'s race
of insert and read inside PostgreSQL (the model has its outcome, one job per key);
field validation, labels, statistics and rates (nothing decides by them); operations that
nothing calls (`Requests.Cancel`, `MarkActive`, `MarkDeployFailed`).
