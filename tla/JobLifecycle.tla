---------------------------- MODULE JobLifecycle ----------------------------
(***************************************************************************)
(* What the job queue promises its users, without clocks, leases, delays   *)
(* or batches: a job is handed to one worker at a time, at most            *)
(* MaxAttempts[j] times; every hand-over leaves one run in the job's       *)
(* history; a run ends with one result, which never changes; a successful  *)
(* run is the last; a job that is over stays over.                         *)
(***************************************************************************)
EXTENDS Naturals, Sequences

CONSTANTS Jobs, Workers, MaxAttempts

VARIABLE life      \* life[j]: the stage of job j and its runs, oldest first

Results == {"succeeded", "failed", "timed_out", "abandoned"}
Run     == [worker : Workers, result : {"open"} \cup Results]
Life    == [stage : {"none", "queued", "held", "over"}, runs : Seq(Run)]

LifecycleInit == life = [j \in Jobs |-> [stage |-> "none", runs |-> << >>]]

(* The runs after the open one ended with result.                          *)
Ended(runs, result) == [runs EXCEPT ![Len(runs)].result = result]

(* The steps of one job, from l to m.                                      *)
Submitted(l, m) == l.stage = "none" /\ m = [stage |-> "queued", runs |-> << >>]

Granted(j, l, m) ==
  /\ l.stage = "queued"
  /\ Len(l.runs) < MaxAttempts[j]
  /\ \E w \in Workers :
       m = [stage |-> "held", runs |-> Append(l.runs, [worker |-> w, result |-> "open"])]

Requeued(j, l, m) ==
  /\ l.stage = "held"
  /\ Len(l.runs) < MaxAttempts[j]
  /\ \E r \in Results \ {"succeeded"} : m = [stage |-> "queued", runs |-> Ended(l.runs, r)]

Concluded(l, m) ==
  /\ l.stage = "held"
  /\ \E r \in Results : m = [stage |-> "over", runs |-> Ended(l.runs, r)]

Withdrawn(l, m) == l.stage = "queued" /\ m = [stage |-> "over", runs |-> l.runs]

Step(j, l, m) ==
  \/ Submitted(l, m)
  \/ Granted(j, l, m)
  \/ Requeued(j, l, m)
  \/ Concluded(l, m)
  \/ Withdrawn(l, m)

(* One operation may move several jobs: a claim or a reaper pass.          *)
LifecycleNext == \A j \in Jobs : life'[j] = life[j] \/ Step(j, life[j], life'[j])

LifecycleSpec == LifecycleInit /\ [][LifecycleNext]_life
=============================================================================
