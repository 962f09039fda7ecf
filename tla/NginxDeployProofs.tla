------------------------- MODULE NginxDeployProofs --------------------------
(***************************************************************************)
(* Proofs about NginxDeploy, for any number of deployments, materials and  *)
(* faults.                                                                 *)
(*                                                                         *)
(* The properties speak of a run that had the host to itself.  While such  *)
(* a run is under way no other run is (AloneInv), so only its own calls    *)
(* change the files, and what they hold can be read off the call it makes  *)
(* next (DiskInv).                                                         *)
(***************************************************************************)
EXTENDS NginxDeploy, TLAPS

(* A run is under way exactly while it has a call to make.                 *)
StepInv(r) == UnderWay(r) <=> step[r] \in Calls \cup {"precheck"}

AloneInv(r) == alone[r] /\ UnderWay(r) => \A q \in Runs \ {r} : ~UnderWay(q)

Untouched == {"precheck", "backup certificate", "backup key", "write certificate",
              "test again", "reload again"}
Saved     == {"write certificate", "write key", "test", "reload", "verify",
              "restore certificate", "restore key"}

DiskInv(r) ==
  alone[r] /\ UnderWay(r) =>
    /\ step[r] \in Untouched => disk = found[r]
    /\ step[r] = "backup key" => backup[r]["certificate"] = found[r]["certificate"]
    /\ step[r] \in Saved => backup[r] = found[r]
    /\ step[r] = "write key" => disk["certificate"] = Material[r]
    /\ step[r] \in {"test", "reload", "verify"} => disk = Pair(Material[r])
    /\ step[r] = "restore key" => disk["certificate"] = found[r]["certificate"]
    /\ step[r] = "reload again" => Whole

DeployInv == TypeOK /\ \A r \in Runs : StepInv(r) /\ AloneInv(r) /\ DiskInv(r)

(* The moves a run can make once it has begun.                             *)
Ends == Outcomes \cup {"crashed"}
Moves == {m \in [call : Calls \cup {"none"}, stage : Stages \cup Ends] :
            IF m.call = "none" THEN m.stage \in Ends ELSE m.stage \in Stages \ {"pending"}}

LEMMA ToFields ==
  ASSUME NEW call, NEW stage
  PROVE  To(call, stage).call = call /\ To(call, stage).stage = stage
  BY DEF To

LEMMA KnownMoves ==
  /\ \A outcome \in Ends : End(outcome) \in Moves
  /\ {RollBack, To("backup certificate", "backing_up"), ToBackupKey, ToWriteCertificate,
      ToWriteKey, ToTest, ToReload, ToVerify, ToRestoreKey, ToTestAgain, ToReloadAgain,
      RolledBack, RollbackFailed} \subseteq Moves
  <1> USE DEF To, Moves, Ends, Outcomes, Calls, Stages
  <1>1. \A outcome \in Ends : End(outcome) \in Moves
    BY DEF End
  <1>2. /\ RollBack \in Moves /\ To("backup certificate", "backing_up") \in Moves
        /\ ToBackupKey \in Moves /\ ToWriteCertificate \in Moves
        /\ ToWriteKey \in Moves /\ ToTest \in Moves
    BY DEF RollBack, ToBackupKey, ToWriteCertificate, ToWriteKey, ToTest
  <1>3. /\ ToReload \in Moves /\ ToVerify \in Moves /\ ToRestoreKey \in Moves
        /\ ToTestAgain \in Moves /\ ToReloadAgain \in Moves
    BY DEF ToReload, ToVerify, ToRestoreKey, ToTestAgain, ToReloadAgain
  <1>4. RolledBack \in Moves /\ RollbackFailed \in Moves
    BY DEF RolledBack, RollbackFailed, End
  <1> HIDE DEF To, Moves, Ends, Outcomes, Calls, Stages
  <1> QED
    BY <1>1, <1>2, <1>3, <1>4

(* What every step of a run that has begun leaves alone.                   *)
Own(r) ==
  /\ step[r] \in Calls \cup {"precheck"}
  /\ \E m \in Moves : GoOn(r, m)
  /\ UNCHANGED history
  /\ backup' = [backup EXCEPT ![r] = backup'[r]]
  /\ backup'[r] \in [Paths -> Materials]
  /\ disk' \in [Paths -> Materials]
  /\ active' \in Materials
  /\ deaf' \in BOOLEAN
  /\ faults' \in 0 .. MaxFaults

LEMMA StepIsOwn ==
  ASSUME DeployInv, NEW r \in Runs, Deploy(r) \/ Crash(r), ~Begin(r)
  PROVE  Own(r)
  <1>1. /\ TypeOK /\ StepInv(r) /\ Material[r] \in Materials /\ MaxFaults \in Nat
        /\ \A path \in Paths : disk[path] \in Materials /\ backup[r][path] \in Materials
        /\ disk \in [Paths -> Materials] /\ backup \in [Runs -> [Paths -> Materials]]
        /\ faults \in 0 .. MaxFaults /\ (Fault => faults' \in 0 .. MaxFaults)
        /\ active \in Materials /\ deaf \in BOOLEAN
        /\ "certificate" \in Paths /\ "key" \in Paths
    BY DeployAssumption DEF DeployInv, TypeOK, DeployAssumption, Fault, Paths
  <1>2. /\ backup' = backup => backup' = [backup EXCEPT ![r] = backup'[r]]
        /\ \A path \in Paths, m \in Materials : backup' = [backup EXCEPT ![r][path] = m] =>
             /\ backup' = [backup EXCEPT ![r] = backup'[r]]
             /\ backup'[r] \in [Paths -> Materials]
    BY <1>1
  <1>3. Precheck(r) => Own(r)
    BY <1>1, <1>2, KnownMoves DEF Precheck, Own, server, Ends, Outcomes
  <1>4. ASSUME NEW path \in Paths, NEW call \in Calls, NEW next \in Moves, Backup(r, path, call, next)
        PROVE  Own(r)
    BY <1>1, <1>2, <1>4, KnownMoves DEF Backup, Own, server, history, Ends, Outcomes
  <1>5. ASSUME NEW path \in Paths, NEW call \in Calls, NEW next \in Moves, Write(r, path, call, next)
        PROVE  Own(r)
    BY <1>1, <1>2, <1>5, KnownMoves DEF Write, Own, server, history
  <1>6. ASSUME NEW call \in Calls, NEW next \in Moves, NEW giveUp \in Moves,
               ConfigTest(r, call, next, giveUp)
        PROVE  Own(r)
    BY <1>1, <1>2, <1>6 DEF ConfigTest, Own, server, history
  <1>7. ASSUME NEW call \in Calls, NEW next \in Moves, NEW giveUp \in Moves,
               Reload(r, call, next, giveUp)
        PROVE  Own(r)
    BY <1>1, <1>2, <1>7 DEF Reload, TakesOver, Ignores, Own, history
  <1>8. Verify(r) => Own(r)
    BY <1>1, <1>2, KnownMoves DEF Verify, Own, server, history, Calls, Ends, Outcomes
  <1>9. ASSUME NEW path \in Paths, NEW call \in Calls, NEW next \in Moves, Restore(r, path, call, next)
        PROVE  Own(r)
    BY <1>1, <1>2, <1>9, KnownMoves DEF Restore, Own, server, history, Ends, Outcomes
  <1>10. Crash(r) => Own(r)
    BY <1>1, <1>2, KnownMoves DEF Crash, StepInv, Own, server, history, Ends
  <1>11. /\ BackupCertificate(r) \/ BackupKey(r) => Own(r)
         /\ WriteCertificate(r) \/ WriteKey(r) => Own(r)
    BY <1>1, <1>4, <1>5, KnownMoves DEF BackupCertificate, BackupKey, WriteCertificate, WriteKey, Calls
  <1>12. /\ TestInstalled(r) \/ ReloadInstalled(r) => Own(r)
         /\ TestRestored(r) \/ ReloadRestored(r) => Own(r)
    BY <1>6, <1>7, KnownMoves
       DEF TestInstalled, ReloadInstalled, TestRestored, ReloadRestored, Calls
  <1>13. RestoreCertificate(r) \/ RestoreKey(r) => Own(r)
    BY <1>1, <1>9, KnownMoves DEF RestoreCertificate, RestoreKey, Calls
  <1> QED
    BY <1>3, <1>8, <1>10, <1>11, <1>12, <1>13 DEF Deploy

(* A step of a run keeps the types and says nothing about other runs, none *)
(* of which had the host to itself.                                        *)
LEMMA OwnKeepsTheRest ==
  ASSUME DeployInv, NEW r \in Runs, Own(r)
  PROVE  /\ TypeOK'
         /\ \A q \in Runs : StepInv(q)' /\ AloneInv(q)'
         /\ \A q \in Runs \ {r} : DiskInv(q)'
  <1>1. /\ TypeOK
        /\ \A q \in Runs : StepInv(q) /\ AloneInv(q)
    BY DEF DeployInv
  <1>2. PICK m \in Moves : GoOn(r, m)
    BY DEF Own
  <1>3. /\ step'[r] = m.call /\ status'[r] = m.stage
        /\ \A q \in Runs \ {r} : step'[q] = step[q] /\ status'[q] = status[q]
    BY <1>1, <1>2 DEF GoOn, TypeOK
  <1>4. TypeOK'
    <2>1. m.call \in Calls \cup {"begin", "precheck", "none"} /\ m.stage \in Stages \cup Outcomes \cup {"crashed"}
      BY DEF Moves, Ends
    <2>2. step' \in [Runs -> Calls \cup {"begin", "precheck", "none"}]
          /\ status' \in [Runs -> Stages \cup Outcomes \cup {"crashed"}]
      BY <1>1, <1>2, <2>1 DEF GoOn, TypeOK
    <2>3. backup' \in [Runs -> [Paths -> Materials]] /\ found' = found /\ alone' = alone
      BY <1>1 DEF Own, TypeOK, history
    <2> QED
      BY <1>1, <2>2, <2>3 DEF Own, TypeOK
  <1>5. UnderWay(r)
    BY <1>1 DEF Own, StepInv
  <1>6. UnderWay(r)' <=> step'[r] \in Calls \cup {"precheck"}
    BY <1>3 DEF Moves, Ends, Outcomes, Stages, Calls, UnderWay
  <1>7. \A q \in Runs \ {r} : (UnderWay(q)' <=> UnderWay(q)) /\ ~(alone'[q] /\ UnderWay(q)')
    BY <1>1, <1>3, <1>5 DEF UnderWay, AloneInv, Own, history
  <1>8. \A q \in Runs : StepInv(q)'
    BY <1>1, <1>3, <1>6, <1>7 DEF StepInv
  <1>9. \A q \in Runs : AloneInv(q)'
    BY <1>1, <1>5, <1>7 DEF AloneInv, Own, history
  <1> QED
    BY <1>4, <1>7, <1>8, <1>9 DEF DiskInv

(* The files before and after a step of a run that has the host to itself. *)
LEMMA StepKeepsDisk ==
  ASSUME DeployInv, NEW r \in Runs, Deploy(r) \/ Crash(r), ~Begin(r)
  PROVE  DiskInv(r)'
  <1>1. Own(r)
    BY StepIsOwn
  <1>2. SUFFICES ASSUME alone'[r], UnderWay(r)'
                 PROVE  DiskInv(r)'
    BY DEF DiskInv
  <1>3. /\ disk \in [Paths -> Materials] /\ backup \in [Runs -> [Paths -> Materials]]
        /\ found \in [Runs -> [Paths -> Materials]] /\ found' = found /\ Material[r] \in Materials
        /\ step \in [Runs -> Calls \cup {"begin", "precheck", "none"}]
        /\ Paths = {"certificate", "key"}
    BY <1>1, DeployAssumption DEF DeployInv, TypeOK, Own, history, Paths, DeployAssumption
  <1>4. DiskInv(r) /\ UnderWay(r) /\ alone[r]
    BY <1>1, <1>2 DEF DeployInv, StepInv, Own, history
  <1>5. /\ \A f, g \in [Paths -> Materials] :
             f["certificate"] = g["certificate"] /\ f["key"] = g["key"] => f = g
        /\ disk' \in [Paths -> Materials] /\ backup'[r] \in [Paths -> Materials]
        /\ found[r] \in [Paths -> Materials] /\ Pair(Material[r]) \in [Paths -> Materials]
        /\ Pair(Material[r])["certificate"] = Material[r] /\ Pair(Material[r])["key"] = Material[r]
    BY <1>1, <1>3 DEF Own, Pair
  <1>6. step'[r] # "none"
    <2>1. Own(r) /\ StepInv(r)'
      BY <1>1, OwnKeepsTheRest
    <2> QED
      BY <1>2, <2>1 DEF StepInv, Calls
  <1> USE DEF Untouched, Saved, GoOn, To
  <1>7. CASE Precheck(r)
    BY <1>3, <1>4, <1>6, <1>7 DEF Precheck, DiskInv, End
  <1>8. CASE BackupCertificate(r)
    <2>1. /\ step[r] = "backup certificate" /\ disk' = disk /\ step'[r] = "backup key"
          /\ backup' = [backup EXCEPT ![r]["certificate"] = disk["certificate"]]
      BY <1>3, <1>6, <1>8 DEF BackupCertificate, Backup, End, ToBackupKey
    <2>2. backup'[r]["certificate"] = disk["certificate"]
      BY <1>3, <2>1
    <2> QED
      BY <1>3, <1>4, <2>1, <2>2 DEF DiskInv
  <1>9. CASE BackupKey(r)
    <2>1. /\ step[r] = "backup key" /\ disk' = disk /\ step'[r] = "write certificate"
          /\ backup' = [backup EXCEPT ![r]["key"] = disk["key"]]
      BY <1>3, <1>6, <1>9 DEF BackupKey, Backup, End, ToWriteCertificate
    <2>2. backup'[r]["key"] = disk["key"] /\ backup'[r]["certificate"] = backup[r]["certificate"]
      BY <1>3, <2>1
    <2>3. backup'[r] = found[r]
      BY <1>4, <1>5, <2>1, <2>2 DEF DiskInv
    <2> QED
      BY <1>3, <1>4, <2>1, <2>3 DEF DiskInv
  <1>10. CASE WriteCertificate(r)
    BY <1>3, <1>4, <1>6, <1>10
       DEF WriteCertificate, Write, DiskInv, RollBack, ToWriteKey
  <1>11. CASE WriteKey(r)
    <2>1. step[r] = "write key" /\ backup' = backup
      BY <1>11 DEF WriteKey, Write
    <2>2. CASE disk' = [disk EXCEPT !["key"] = Material[r]] /\ step'[r] = "test"
      <3>1. disk'["key"] = Material[r] /\ disk'["certificate"] = Material[r]
        BY <1>3, <1>4, <2>1, <2>2 DEF DiskInv
      <3>2. disk' = Pair(Material[r])
        BY <1>5, <3>1
      <3> QED
        BY <1>3, <1>4, <2>1, <2>2, <3>2 DEF DiskInv
    <2>3. CASE step'[r] = "restore certificate"
      BY <1>3, <1>4, <2>1, <2>3 DEF DiskInv
    <2> QED
      BY <1>3, <1>11, <2>2, <2>3 DEF WriteKey, Write, RollBack, ToTest
  <1>12. CASE TestInstalled(r)
    BY <1>3, <1>4, <1>6, <1>12
       DEF TestInstalled, ConfigTest, DiskInv, RollBack, ToReload
  <1>13. CASE ReloadInstalled(r)
    BY <1>3, <1>4, <1>6, <1>13
       DEF ReloadInstalled, Reload, DiskInv, RollBack, ToVerify
  <1>14. CASE Verify(r)
    BY <1>3, <1>4, <1>6, <1>14 DEF Verify, DiskInv, RollBack, End
  <1>15. CASE RestoreCertificate(r)
    BY <1>3, <1>4, <1>6, <1>15
       DEF RestoreCertificate, Restore, DiskInv, End, ToRestoreKey
  <1>16. CASE RestoreKey(r)
    <2>1. /\ step[r] = "restore key" /\ step'[r] = "test again"
          /\ disk' = [disk EXCEPT !["key"] = backup[r]["key"]]
      BY <1>3, <1>6, <1>16 DEF RestoreKey, Restore, End, ToTestAgain
    <2>2. disk'["key"] = found[r]["key"] /\ disk'["certificate"] = found[r]["certificate"]
      BY <1>3, <1>4, <2>1 DEF DiskInv
    <2>3. disk' = found[r]
      BY <1>5, <2>2
    <2> QED
      BY <1>3, <2>1, <2>3 DEF DiskInv
  <1>17. CASE TestRestored(r)
    BY <1>3, <1>4, <1>6, <1>17
       DEF TestRestored, ConfigTest, DiskInv, End, ToReloadAgain, RollbackFailed, Whole
  <1>18. CASE ReloadRestored(r)
    BY <1>3, <1>4, <1>6, <1>18
       DEF ReloadRestored, Reload, DiskInv, End, RolledBack, RollbackFailed
  <1>19. CASE Crash(r)
    BY <1>3, <1>6, <1>19 DEF Crash, End
  <1> QED
    BY <1>7, <1>8, <1>9, <1>10, <1>11, <1>12, <1>13, <1>14, <1>15, <1>16, <1>17, <1>18, <1>19
       DEF Deploy

(* A run that begins has the host to itself if no other run is under way,  *)
(* and ends that of the others.                                            *)
LEMMA BeginKeepsInv ==
  ASSUME DeployInv, NEW r \in Runs, Begin(r)
  PROVE  DeployInv'
  <1> DEFINE others == {q \in Runs \ {r} : UnderWay(q)}
  <1>1. /\ TypeOK
        /\ \A q \in Runs : StepInv(q) /\ AloneInv(q) /\ DiskInv(q)
    BY DEF DeployInv
  <1>2. /\ step'[r] = "precheck" /\ status'[r] = "prechecking" /\ found'[r] = disk
        /\ \A q \in Runs \ {r} : step'[q] = step[q] /\ status'[q] = status[q] /\ found'[q] = found[q]
        /\ UNCHANGED <<disk, server, backup, faults>>
    BY <1>1, ToFields DEF Begin, GoOn, TypeOK
  <1>3. alone' = [q \in Runs |-> IF q = r THEN others = {} ELSE q \notin others /\ alone[q]]
    BY DEF Begin
  <1>4. TypeOK'
    <2>1. step' \in [Runs -> Calls \cup {"begin", "precheck", "none"}]
          /\ status' \in [Runs -> Stages \cup Outcomes \cup {"crashed"}]
      BY <1>1, ToFields DEF Begin, GoOn, TypeOK, Stages
    <2>2. found' \in [Runs -> [Paths -> Materials]]
      BY <1>1 DEF Begin, TypeOK
    <2>3. alone' \in [Runs -> BOOLEAN]
      <3>1. \A q \in Runs : (IF q = r THEN others = {} ELSE q \notin others /\ alone[q]) \in BOOLEAN
        BY <1>1 DEF TypeOK
      <3> QED
        BY <1>3, <3>1
    <2> QED
      BY <1>1, <1>2, <2>1, <2>2, <2>3 DEF TypeOK, server
  <1>5. UnderWay(r)' /\ \A q \in Runs \ {r} : UnderWay(q)' <=> UnderWay(q)
    BY <1>2 DEF UnderWay, Stages
  <1>6. \A q \in Runs : StepInv(q)'
    BY <1>1, <1>2, <1>5 DEF StepInv
  <1>7. \A q \in Runs \ {r} : ~(alone'[q] /\ UnderWay(q)')
    BY <1>3, <1>5
  <1>8. \A q \in Runs : AloneInv(q)'
    BY <1>3, <1>5, <1>7 DEF AloneInv
  <1>9. \A q \in Runs : DiskInv(q)'
    BY <1>2, <1>7 DEF DiskInv, Untouched, Saved
  <1> QED
    BY <1>4, <1>6, <1>8, <1>9 DEF DeployInv

LEMMA InitInv == Init => DeployInv
  <1> SUFFICES ASSUME Init PROVE DeployInv
    OBVIOUS
  <1>1. /\ Pair(Old) \in [Paths -> Materials] /\ Old \in Materials
    BY DeployAssumption DEF DeployAssumption, Pair
  <1>2. TypeOK
    <2>1. 0 \in 0 .. MaxFaults /\ "pending" \in Stages
      BY DeployAssumption DEF DeployAssumption, Stages
    <2> QED
      BY <1>1, <2>1 DEF Init, TypeOK
  <1>3. \A r \in Runs : ~UnderWay(r) /\ step[r] = "begin"
    BY DEF Init, UnderWay
  <1> QED
    BY <1>2, <1>3 DEF DeployInv, StepInv, AloneInv, DiskInv, Calls

LEMMA StutterKeepsInv == DeployInv /\ UNCHANGED vars => DeployInv'
  BY DEF DeployInv, vars, server, TypeOK, StepInv, AloneInv, DiskInv, UnderWay, Whole

LEMMA NextKeepsInv == DeployInv /\ [Next]_vars => DeployInv'
  <1>1. ASSUME DeployInv, NEW r \in Runs, Deploy(r) \/ Crash(r), ~Begin(r)
        PROVE  DeployInv'
    <2>1. Own(r)
      BY <1>1, StepIsOwn
    <2>2. DiskInv(r)'
      BY <1>1, StepKeepsDisk
    <2> QED
      BY <1>1, <2>1, <2>2, OwnKeepsTheRest DEF DeployInv
  <1> QED
    BY <1>1, BeginKeepsInv, StutterKeepsInv DEF Next, Deploy

LEMMA SpecInv == Spec => []DeployInv
  BY InitInv, NextKeepsInv, PTL DEF Spec

-----------------------------------------------------------------------------
(* What a run that has the host to itself has done when it reports.        *)
Reported(r) == status'[r] \in {"succeeded", "failed", "rolled_back"}
Served(r) ==
  /\ status'[r] = "succeeded" => disk' = Pair(Material[r]) /\ active' = Material[r]
  /\ status'[r] \in {"failed", "rolled_back"} => disk' = found[r]
  /\ status'[r] = "rolled_back" => Whole' /\ (deaf' \/ disk' = Pair(active'))

LEMMA OthersSayNothing ==
  ASSUME DeployInv, Next, NEW r \in Runs, ~(Deploy(r) \/ Crash(r))
  PROVE  status'[r] = status[r]
  <1>1. PICK q \in Runs : Deploy(q) \/ Crash(q)
    BY DEF Next
  <1>2. q # r /\ status \in [Runs -> Stages \cup Outcomes \cup {"crashed"}]
    BY <1>1 DEF DeployInv, TypeOK
  <1>3. CASE Begin(q)
    BY <1>2, <1>3 DEF Begin, GoOn
  <1>4. CASE ~Begin(q)
    <2>1. Own(q)
      BY <1>1, <1>4, StepIsOwn
    <2> QED
      BY <1>2, <2>1 DEF Own, GoOn
  <1> QED
    BY <1>3, <1>4

LEMMA ReportsNothing ==
  ASSUME NEW r \in Runs, UnderWay(r), status'[r] = status[r]
  PROVE  ~Reported(r)
  BY DEF UnderWay, Reported, Stages

LEMMA OwnOutcome ==
  ASSUME DeployInv, NEW r \in Runs, Deploy(r) \/ Crash(r), UnderWay(r), alone[r]
  PROVE  Served(r)
  <1> SUFFICES ASSUME Reported(r) PROVE Served(r)
    BY DEF Reported, Served
  <1>1. /\ DiskInv(r) /\ StepInv(r) /\ status \in [Runs -> Stages \cup Outcomes \cup {"crashed"}]
        /\ disk \in [Paths -> Materials] /\ Paths = {"certificate", "key"}
    BY DEF DeployInv, TypeOK, Paths
  <1>2. ~Begin(r)
    BY <1>1 DEF StepInv, Begin, Calls
  <1> USE DEF GoOn, To, End, Reported
  <1>3. CASE Precheck(r)
    BY <1>1, <1>3 DEF Precheck, Served, DiskInv, Untouched
  <1>4. CASE BackupCertificate(r) \/ BackupKey(r)
    BY <1>1, <1>4
       DEF BackupCertificate, BackupKey, Backup, ToBackupKey, ToWriteCertificate, Served, DiskInv, Untouched
  <1>5. ~WriteCertificate(r) /\ ~WriteKey(r)
    BY <1>1 DEF WriteCertificate, WriteKey, Write, RollBack, ToWriteKey, ToTest
  <1>6. ~TestInstalled(r) /\ ~ReloadInstalled(r)
    BY <1>1 DEF TestInstalled, ReloadInstalled, ConfigTest, Reload, RollBack, ToReload, ToVerify
  <1>7. CASE Verify(r)
    BY <1>1, <1>7 DEF Verify, RollBack, server, Served, DiskInv
  <1>8. ~RestoreCertificate(r) /\ ~RestoreKey(r)
    BY <1>1 DEF RestoreCertificate, RestoreKey, Restore, ToRestoreKey, ToTestAgain
  <1>9. ~TestRestored(r)
    BY <1>1 DEF TestRestored, ConfigTest, ToReloadAgain, RollbackFailed
  <1>10. CASE ReloadRestored(r)
    <2>1. step[r] = "reload again" /\ disk' = disk /\ status'[r] = "rolled_back"
      BY <1>1, <1>10 DEF ReloadRestored, Reload, RolledBack, RollbackFailed
    <2>2. Whole /\ disk = found[r]
      BY <1>1, <2>1 DEF DiskInv, Untouched
    <2>3. deaf' \/ active' = disk["certificate"]
      BY <1>10 DEF ReloadRestored, Reload, TakesOver, Ignores
    <2>4. disk = Pair(disk["certificate"])
      BY <1>1, <2>2 DEF Whole, Pair
    <2> QED
      BY <2>1, <2>2, <2>3, <2>4 DEF Served, Whole
  <1>11. ~Crash(r)
    BY <1>1 DEF Crash
  <1> QED
    BY <1>2, <1>3, <1>4, <1>5, <1>6, <1>7, <1>8, <1>9, <1>10, <1>11 DEF Deploy

LEMMA StepServes ==
  ASSUME DeployInv, [Next]_vars, NEW r \in Runs, UnderWay(r), alone[r], Reported(r)
  PROVE  Served(r)
  <1>1. CASE Next
    BY <1>1, OwnOutcome, OthersSayNothing, ReportsNothing
  <1>2. CASE UNCHANGED vars
    BY <1>2, ReportsNothing DEF vars
  <1> QED
    BY <1>1, <1>2

(* Every variable keeps its type.                                          *)
THEOREM TypeCorrectness == Spec => []TypeOK
  BY SpecInv, PTL DEF DeployInv

(* What a run that had the host to itself reports of the files is so       *)
(* (Deploy, the rollback of its later stages).                             *)
THEOREM OutcomeIsTrue == Spec => OutcomeTellsTheDisk
  <1> DEFINE Told(r) == UnderWay(r) /\ alone[r] =>
        /\ status'[r] = "succeeded" => disk' = Pair(Material[r])
        /\ status'[r] \in {"failed", "rolled_back"} => disk' = found[r]
  <1>1. ASSUME DeployInv, [Next]_vars, NEW r \in Runs
        PROVE  Told(r)
    BY <1>1, StepServes DEF Reported, Served
  <1>2. DeployInv /\ [Next]_vars => [\A r \in Runs : Told(r)]_vars
    BY <1>1
  <1> QED
    BY <1>2, SpecInv, PTL DEF OutcomeTellsTheDisk, Spec

(* What it reports is also what NGINX serves, unless NGINX ignored the     *)
(* reload of a rollback (Verify, and the reload of rollback).              *)
THEOREM ReportIsServed == Spec => ReportedIsServed
  <1> DEFINE Told(r) == UnderWay(r) /\ alone[r] =>
        /\ status'[r] = "succeeded" => disk' = Pair(active')
        /\ status'[r] = "rolled_back" => Whole' /\ (deaf' \/ disk' = Pair(active'))
  <1>1. ASSUME DeployInv, [Next]_vars, NEW r \in Runs
        PROVE  Told(r)
    BY <1>1, StepServes DEF Reported, Served
  <1>2. DeployInv /\ [Next]_vars => [\A r \in Runs : Told(r)]_vars
    BY <1>1
  <1> QED
    BY <1>2, SpecInv, PTL DEF ReportedIsServed, Spec
=============================================================================
