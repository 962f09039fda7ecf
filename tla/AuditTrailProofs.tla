-------------------------- MODULE AuditTrailProofs --------------------------
(***************************************************************************)
(* Proofs about AuditTrail, for any number of callers, endpoints, settings *)
(* and notifications.                                                      *)
(*                                                                         *)
(* Nothing keeps two processors from taking up the same notification, so   *)
(* its attempts have no bound of their own.  What bounds them is that a    *)
(* notification is only listed below the limit and that each caller holds  *)
(* at most one pending place for it: attempts made and places held never   *)
(* exceed the limit by more than the other callers (DeliveryInv).          *)
(***************************************************************************)
EXTENDS AuditTrail, FiniteSetTheorems, TLAPS

CallRecords == [step : Steps, type : EventTypes \cup {"none"}, todo : SUBSET Notes,
                at : Notes \cup {0}, export : Exports \cup {None}, patch : Patches \cup {<< >>},
                copy : [Fields -> Values], late : BOOLEAN]
NoteRecords == [status : NoteStatuses, endpoint : Endpoints \cup {None},
                attempts : 0 .. MaxAttempts - 1 + Cardinality(Callers), due : BOOLEAN]

(* The callers that will yet take up notification n.                       *)
Waiting(n) == {c \in Callers : n \in call[c].todo}

DeliveryInv ==
  /\ \A n \in Notes : n > notes => note[n] = NoNote
  /\ \A c \in Callers :
       /\ call[c].todo \subseteq 1 .. notes
       /\ call[c].todo # {} => call[c].step \in {"notify", "deliver"}
       /\ call[c].step = "deliver" => call[c].at \in 1 .. notes /\ note[call[c].at].attempts >= 1
  /\ \A n \in Notes :
       /\ note[n].status = "pending" => note[n].attempts = 0 /\ \E c \in Callers : n \in call[c].todo
       /\ note[n].status = "delivering" => \E c \in Callers : call[c].step = "deliver" /\ call[c].at = n
       /\ note[n].status = "retry" => note[n].attempts \in 1 .. MaxAttempts - 1
       /\ note[n].status = "failed" => note[n].attempts >= MaxAttempts
       /\ note[n].due => note[n].status = "retry"
       /\ note[n].attempts + Cardinality(Waiting(n)) <= MaxAttempts - 1 + Cardinality(Callers)

ExportInv ==
  /\ \A c \in Callers : call[c].step = "export" => call[c].export \in Exports
  /\ \A x \in Exports : export[x] = "running" =>
       \E c \in Callers : call[c].step = "export" /\ call[c].export = x

(* Whoever is about to write has either seen what is there, or is late.    *)
SettingsInv ==
  /\ \A c \in Callers : call[c].step = "write settings" =>
       call[c].patch \in Patches /\ (~call[c].late => call[c].copy = security)
  /\ SettingsAreTheWish

AuditInv == TypeOK /\ DeliveryInv /\ ExportInv /\ SettingsInv

-----------------------------------------------------------------------------
LEMMA Constants ==
  /\ MaxNotes \in Nat /\ MaxAttempts \in Nat \ {0}
  /\ IsFiniteSet(Callers) /\ Cardinality(Callers) \in Nat
  /\ \A S \in SUBSET Endpoints : Cardinality(S) \in Nat
  /\ SettingsChanged \in EventTypes /\ Exported \in EventTypes /\ Default \in [Fields -> Values]
  <1>1. IsFiniteSet(Callers)
    BY AuditAssumption DEF AuditAssumption
  <1>2. \A S \in SUBSET Endpoints : Cardinality(S) \in Nat
    BY AuditAssumption, FS_Subset, FS_CardinalityType DEF AuditAssumption
  <1> QED
    BY <1>1, <1>2, FS_CardinalityType, AuditAssumption DEF AuditAssumption

LEMMA PatchesAre ==
  ASSUME NEW patch \in Patches
  PROVE  \A f \in Fields : f \in DOMAIN patch => patch[f] \in Values
  BY AuditAssumption DEF AuditAssumption

LEMMA WaitingIsBounded ==
  ASSUME NEW S, S \subseteq Callers
  PROVE  /\ IsFiniteSet(S) /\ Cardinality(S) \in Nat /\ Cardinality(S) <= Cardinality(Callers)
         /\ \A c \in S : Cardinality(S \ {c}) = Cardinality(S) - 1 /\ Cardinality(S) >= 1
  <1>1. IsFiniteSet(S) /\ Cardinality(S) \in Nat /\ Cardinality(S) <= Cardinality(Callers)
    BY Constants, FS_Subset, FS_CardinalityType
  <1>2. ASSUME NEW c \in S
        PROVE  Cardinality(S \ {c}) = Cardinality(S) - 1 /\ Cardinality(S) >= 1
    <2>1. IsFiniteSet(S \ {c}) /\ Cardinality(S \ {c}) = Cardinality(S) - 1
      BY <1>1, FS_RemoveElement
    <2>2. Cardinality(S \ {c}) \in Nat
      BY <2>1, FS_CardinalityType
    <2> QED
      BY <1>1, <2>1, <2>2
  <1> QED
    BY <1>1, <1>2

LEMMA NoCallIs ==
  /\ NoCall \in CallRecords
  /\ NoCall.todo = {} /\ NoCall.step = "none" /\ NoCall.late = FALSE
  BY Constants DEF NoCall, CallRecords, Steps

(* A call that begins a step from nothing.                                 *)
LEMMA RecordingIs ==
  ASSUME NEW type \in EventTypes, NEW y, y = [NoCall EXCEPT !.step = "record", !.type = type]
  PROVE  y \in CallRecords /\ y.todo = {} /\ y.step = "record"
  BY Constants DEF NoCall, CallRecords, Steps

LEMMA ListingIs ==
  ASSUME NEW todo \in SUBSET Notes, NEW y, y = [NoCall EXCEPT !.step = "notify", !.todo = todo]
  PROVE  y \in CallRecords /\ y.todo = todo /\ y.step = "notify"
  BY Constants DEF NoCall, CallRecords, Steps

LEMMA InitIsConsistent == Init => AuditInv
  <1> SUFFICES ASSUME Init PROVE AuditInv
    OBVIOUS
  <1>1. RegistryTypeOK
    BY DEF Init, RegistryInit, RegistryTypeOK
  <1>2. NoNote \in NoteRecords
    BY Constants DEF NoNote, NoteRecords, NoteStatuses
  <1>3. TypeOK
    BY <1>1, <1>2, NoCallIs, Constants DEF Init, TypeOK, NoteRecords, CallRecords
  <1>4. \A n \in Notes : Waiting(n) = {}
    BY NoCallIs DEF Init, Waiting
  <1>5. DeliveryInv
    <2>1. \A n \in Notes : note[n] = NoNote /\ Cardinality(Waiting(n)) = 0
      BY <1>4, FS_EmptySet DEF Init
    <2>2. \A c \in Callers : call[c].todo = {} /\ call[c].step = "none"
      BY NoCallIs DEF Init
    <2>3. NoNote.status = "none" /\ NoNote.attempts = 0 /\ NoNote.due = FALSE
      BY DEF NoNote
    <2> QED
      BY <2>1, <2>2, <2>3, Constants DEF DeliveryInv
  <1>6. ExportInv /\ SettingsInv
    BY NoCallIs, Constants DEF Init, ExportInv, SettingsInv, SettingsAreTheWish
  <1> QED
    BY <1>3, <1>5, <1>6 DEF AuditInv

-----------------------------------------------------------------------------
(* Steps that have nothing to do with notifications.                       *)

(* How a call may change in them.                                          *)
Aside(d) ==
  \/ call'[d].todo = call[d].todo /\ call'[d].step = call[d].step /\ call'[d].at = call[d].at
  \/ /\ call[d].step \notin {"notify", "deliver"}
     /\ call'[d].todo = {} /\ call'[d].step \notin {"notify", "deliver"}

LEMMA AsideKeepsDelivery ==
  ASSUME AuditInv, UNCHANGED <<note, notes>>, \A d \in Callers : Aside(d)
  PROVE  DeliveryInv'
  <1>1. \A d \in Callers : /\ call'[d].todo = call[d].todo
                           /\ call'[d].step = "deliver" <=> call[d].step = "deliver"
                           /\ call'[d].step = "notify" <=> call[d].step = "notify"
                           /\ call'[d].step = "deliver" => call'[d].at = call[d].at
    BY DEF AuditInv, DeliveryInv, Aside
  <1>2. \A n \in Notes : Waiting(n)' = Waiting(n)
    BY <1>1 DEF Waiting
  <1> QED
    BY <1>1, <1>2 DEF AuditInv, DeliveryInv

(* Caller c goes on as y, and only the registry may change besides.        *)
LEMMA CommandKeepsInv ==
  ASSUME AuditInv, NEW c \in Callers, NEW y \in CallRecords, call' = [call EXCEPT ![c] = y],
         call[c].step = "none",
         y.todo = {}, y.step \in {"record", "write settings"},
         y.step = "write settings" => y.patch \in Patches /\ y.copy = security,
         RegistryTypeOK', subscribed' \in [Endpoints -> SUBSET EventTypes],
         UNCHANGED <<note, notes, export, security, wish>>
  PROVE  AuditInv'
  <1>1. call \in [Callers -> CallRecords]
    BY DEF AuditInv, TypeOK, CallRecords
  <1>2. call' \in [Callers -> CallRecords] /\ call'[c] = y /\ \A d \in Callers \ {c} : call'[d] = call[d]
    BY <1>1
  <1>3. TypeOK'
    BY <1>2 DEF AuditInv, TypeOK, CallRecords
  <1>4. DeliveryInv'
    BY <1>2, AsideKeepsDelivery DEF Aside
  <1>5. ExportInv'
    BY <1>2 DEF AuditInv, ExportInv
  <1>6. SettingsInv'
    BY <1>2 DEF AuditInv, SettingsInv, SettingsAreTheWish
  <1> QED
    BY <1>3, <1>4, <1>5, <1>6 DEF AuditInv

(* An endpoint is of the kind of the endpoints.                            *)
LEMMA EndpointsAre ==
  ASSUME NEW e \in Endpoints
  PROVE  KindOf(e) = Endpoints /\ Endpoints \in Kinds /\ e \in Resources
  <1>1. Endpoints \in Kinds
    BY DEF Kinds
  <1>2. \A k \in Kinds : e \in k => k = Endpoints
    BY <1>1, RegistryAssumption DEF RegistryAssumption
  <1> QED
    BY <1>1, <1>2 DEF KindOf, Resources

LEMMA RegistryIsTyped ==
  ASSUME AuditInv, NEW e \in Endpoints, NEW n \in DisplayNames, Create(e, n) \/ Rename(e, n), Configure(e)
  PROVE  RegistryTypeOK' /\ subscribed' \in [Endpoints -> SUBSET EventTypes]
  <1>1. n \in Names /\ KindOf(e) \in Kinds /\ e \in Resources
    BY EndpointsAre DEF Names
  <1>2. RegistryTypeOK /\ subscribed \in [Endpoints -> SUBSET EventTypes]
    BY DEF AuditInv, TypeOK
  <1>3. name' \in [Resources -> Names \cup {None}]
    BY <1>1, <1>2 DEF RegistryTypeOK, Create, Rename
  <1>4. index' \in [Kinds -> [Names -> Resources \cup {None}]]
    <2>1. index[KindOf(e)] \in [Names -> Resources \cup {None}]
      BY <1>1, <1>2 DEF RegistryTypeOK
    <2>2. PICK g \in [Names -> Resources \cup {None}] : index' = [index EXCEPT ![KindOf(e)] = g]
      <3>1. CASE Create(e, n)
        <4>1. index' = [index EXCEPT ![KindOf(e)] = [index[KindOf(e)] EXCEPT ![n] = e]]
          BY <1>1, <1>2, <3>1 DEF RegistryTypeOK, Create
        <4>2. [index[KindOf(e)] EXCEPT ![n] = e] \in [Names -> Resources \cup {None}]
          BY <1>1, <2>1
        <4> QED
          BY <4>1, <4>2
      <3>2. CASE Rename(e, n)
        <4>1. index' = [index EXCEPT ![KindOf(e)] =
                          [[index[KindOf(e)] EXCEPT ![name[e]] = None] EXCEPT ![n] = e]]
          BY <1>1, <1>2, <3>2 DEF RegistryTypeOK, Rename
        <4>2. [index[KindOf(e)] EXCEPT ![name[e]] = None] \in [Names -> Resources \cup {None}]
          BY <2>1
        <4>3. [[index[KindOf(e)] EXCEPT ![name[e]] = None] EXCEPT ![n] = e] \in [Names -> Resources \cup {None}]
          BY <1>1, <4>2
        <4> QED
          BY <4>1, <4>3
      <3> QED
        BY <3>1, <3>2
    <2> QED
      BY <1>2, <2>2 DEF RegistryTypeOK
  <1>5. disabled' \subseteq Targets \cup Endpoints /\ UNCHANGED credential
    BY <1>2 DEF RegistryTypeOK, Configure
  <1>6. subscribed' \in [Endpoints -> SUBSET EventTypes]
    BY <1>2 DEF Configure
  <1> QED
    BY <1>2, <1>3, <1>4, <1>5, <1>6 DEF RegistryTypeOK

LEMMA CommandsKeepInv ==
  ASSUME AuditInv, NEW c \in Callers,
         \/ \E e \in Endpoints, n \in DisplayNames :
              CreateWebhookEndpoint(c, e, n) \/ UpdateWebhookEndpoint(c, e, n)
         \/ OtherCommand(c)
         \/ \E patch \in Patches : ReadSecuritySettings(c, patch)
  PROVE  AuditInv'
  <1>0. RegistryTypeOK /\ subscribed \in [Endpoints -> SUBSET EventTypes] /\ security \in [Fields -> Values]
    BY DEF AuditInv, TypeOK
  <1>1. Idle(c) => call[c].step = "none"
    BY NoCallIs DEF Idle
  <1>2. ASSUME NEW e \in Endpoints, NEW n \in DisplayNames,
               CreateWebhookEndpoint(c, e, n) \/ UpdateWebhookEndpoint(c, e, n)
        PROVE  AuditInv'
    <2>1. RegistryTypeOK' /\ subscribed' \in [Endpoints -> SUBSET EventTypes]
      BY <1>2, RegistryIsTyped DEF CreateWebhookEndpoint, UpdateWebhookEndpoint
    <2>2. PICK y : y = [NoCall EXCEPT !.step = "record", !.type = SettingsChanged]
      OBVIOUS
    <2>3. y \in CallRecords /\ y.todo = {} /\ y.step = "record"
      BY <2>2, Constants, RecordingIs
    <2>4. /\ call' = [call EXCEPT ![c] = y] /\ Idle(c)
          /\ UNCHANGED <<note, notes, export, security, wish>>
      BY <1>2, <2>2 DEF CreateWebhookEndpoint, UpdateWebhookEndpoint, Recording
    <2> QED
      BY <1>1, <2>1, <2>3, <2>4, CommandKeepsInv
  <1>3. CASE OtherCommand(c)
    <2>1. PICK type \in EventTypes : Recording(c, type)
      BY <1>3 DEF OtherCommand
    <2>2. PICK y : y = [NoCall EXCEPT !.step = "record", !.type = type]
      OBVIOUS
    <2>3. y \in CallRecords /\ y.todo = {} /\ y.step = "record"
      BY <2>2, RecordingIs
    <2>4. /\ call' = [call EXCEPT ![c] = y] /\ Idle(c)
          /\ UNCHANGED <<note, notes, export, security, wish>>
          /\ UNCHANGED <<name, index, disabled, credential, subscribed>>
      BY <1>3, <2>1, <2>2 DEF OtherCommand, Recording, registry
    <2>5. RegistryTypeOK' /\ subscribed' \in [Endpoints -> SUBSET EventTypes]
      BY <1>0, <2>4 DEF RegistryTypeOK
    <2> QED
      BY <1>1, <2>3, <2>4, <2>5, CommandKeepsInv
  <1>4. ASSUME NEW patch \in Patches, ReadSecuritySettings(c, patch)
        PROVE  AuditInv'
    <2>1. PICK y : y = [NoCall EXCEPT !.step = "write settings", !.patch = patch, !.copy = security]
      OBVIOUS
    <2>2. y \in CallRecords /\ y.todo = {} /\ y.step = "write settings" /\ y.patch = patch /\ y.copy = security
      BY <1>0, <2>1 DEF NoCall, CallRecords, Steps
    <2>3. /\ call' = [call EXCEPT ![c] = y] /\ Idle(c)
          /\ UNCHANGED <<note, notes, export, security, wish>>
          /\ UNCHANGED <<name, index, disabled, credential, subscribed>>
      BY <1>4, <2>1 DEF ReadSecuritySettings, registry
    <2>4. RegistryTypeOK' /\ subscribed' \in [Endpoints -> SUBSET EventTypes]
      BY <1>0, <2>3 DEF RegistryTypeOK
    <2> QED
      BY <1>1, <2>2, <2>3, <2>4, CommandKeepsInv
  <1> QED
    BY <1>2, <1>3, <1>4

LEMMA WriteKeepsInv ==
  ASSUME AuditInv, NEW c \in Callers, WriteSecuritySettings(c)
  PROVE  AuditInv'
  <1> DEFINE patch == call[c].patch
             over(f, old) == IF f \in DOMAIN patch THEN patch[f] ELSE old
             mine == [NoCall EXCEPT !.step = "record", !.type = SettingsChanged]
  <1>0. /\ call \in [Callers -> CallRecords] /\ security \in [Fields -> Values]
        /\ wish \in [Fields -> Values \cup {"unclear"}]
        /\ call[c].step = "write settings" /\ patch \in Patches
        /\ ~call[c].late => call[c].copy = security
        /\ call[c].copy \in [Fields -> Values]
    BY DEF AuditInv, TypeOK, CallRecords, SettingsInv, WriteSecuritySettings
  <1>1. /\ security' = [f \in Fields |-> over(f, call[c].copy[f])]
        /\ wish' = [f \in Fields |-> over(f, IF call[c].late THEN "unclear" ELSE wish[f])]
        /\ UNCHANGED <<name, index, disabled, credential, subscribed, note, notes, export>>
    BY DEF WriteSecuritySettings, registry
  <1>2. mine \in CallRecords /\ mine.todo = {} /\ mine.step = "record"
    BY Constants, RecordingIs
  <1>3. \A d \in Callers :
          IF d = c THEN call'[d] = mine
          ELSE call'[d] = [call[d] EXCEPT !.late = @ \/ (d # c /\ call[d].step = "write settings")]
    BY DEF WriteSecuritySettings
  <1>4. DOMAIN call' = Callers /\ call' = [d \in Callers |-> call'[d]]
    BY DEF WriteSecuritySettings
  <1> HIDE DEF mine
  <1>5. ASSUME NEW d \in Callers \ {c}
        PROVE  /\ call'[d] \in CallRecords
               /\ call'[d].step = call[d].step /\ call'[d].todo = call[d].todo /\ call'[d].at = call[d].at
               /\ call'[d].export = call[d].export /\ call'[d].patch = call[d].patch
               /\ call'[d].step = "write settings" => call'[d].late
    <2>1. call[d] \in CallRecords
      BY <1>0
    <2> DEFINE late == call[d].late \/ (d # c /\ call[d].step = "write settings")
    <2>2. /\ late \in BOOLEAN /\ (call[d].step = "write settings" => late)
          /\ call'[d] = [call[d] EXCEPT !.late = late]
      BY <1>3
    <2> HIDE DEF late
    <2>3. /\ call'[d] \in CallRecords /\ call'[d].late = late
          /\ call'[d].step = call[d].step /\ call'[d].todo = call[d].todo /\ call'[d].at = call[d].at
          /\ call'[d].export = call[d].export /\ call'[d].patch = call[d].patch
      BY <2>1, <2>2 DEF CallRecords
    <2> QED
      BY <2>2, <2>3
  <1>6. call' \in [Callers -> CallRecords]
    BY <1>2, <1>3, <1>4, <1>5
  <1>7. TypeOK'
    <2>1. \A f \in Fields : f \in DOMAIN patch => patch[f] \in Values
      BY <1>0, PatchesAre
    <2>2. security' \in [Fields -> Values] /\ wish' \in [Fields -> Values \cup {"unclear"}]
      BY <1>0, <1>1, <2>1
    <2> QED
      BY <1>1, <1>6, <2>2 DEF AuditInv, TypeOK, CallRecords, RegistryTypeOK
  <1>8. DeliveryInv'
    <2>1. \A d \in Callers : Aside(d)
      BY <1>0, <1>2, <1>3, <1>5 DEF Aside
    <2> QED
      BY <1>1, <2>1, AsideKeepsDelivery
  <1>9. ExportInv'
    <2>1. call'[c].step = "record"
      BY <1>2, <1>3
    <2>2. \A d \in Callers : call'[d].step = "export" =>
            d # c /\ call[d].step = "export" /\ call'[d].export = call[d].export
      BY <1>5, <2>1
    <2>3. \A d \in Callers : call[d].step = "export" =>
            call'[d].step = "export" /\ call'[d].export = call[d].export
      BY <1>0, <1>5
    <2>4. ExportInv /\ UNCHANGED export
      BY <1>1 DEF AuditInv
    <2> QED
      BY <2>2, <2>3, <2>4 DEF ExportInv
  <1>10. SettingsInv'
    <2>1. \A d \in Callers : call'[d].step = "write settings" =>
            call'[d].patch \in Patches /\ call'[d].late
      BY <1>2, <1>3, <1>5 DEF AuditInv, SettingsInv
    <2>2. SettingsAreTheWish'
      BY <1>0, <1>1 DEF AuditInv, SettingsInv, SettingsAreTheWish
    <2> QED
      BY <2>1, <2>2 DEF SettingsInv
  <1> QED
    BY <1>7, <1>8, <1>9, <1>10 DEF AuditInv

LEMMA ExportsKeepInv ==
  ASSUME AuditInv, NEW c \in Callers,
         \/ \E x \in Exports : CreateExportRecord(c, x)
         \/ MarkExportSucceeded(c) \/ MarkExportFailed(c)
  PROVE  AuditInv'
  <1>0. /\ call \in [Callers -> CallRecords]
        /\ export \in [Exports -> {"none", "running", "succeeded", "failed"}]
    BY DEF AuditInv, TypeOK, CallRecords
  <1>1. UNCHANGED <<name, index, disabled, credential, subscribed, note, notes, security, wish>>
    BY DEF CreateExportRecord, MarkExportSucceeded, MarkExportFailed, registry
  <1>2. ASSUME NEW y \in CallRecords, call' = [call EXCEPT ![c] = y],
               call[c].step \in {"none", "export"}, y.todo = {}, y.step \in {"none", "export", "record"},
               export' \in [Exports -> {"none", "running", "succeeded", "failed"}], ExportInv'
        PROVE  AuditInv'
    <2>1. call' \in [Callers -> CallRecords] /\ call'[c] = y /\ \A d \in Callers \ {c} : call'[d] = call[d]
      BY <1>0, <1>2
    <2>2. TypeOK'
      BY <1>1, <1>2, <2>1 DEF AuditInv, TypeOK, CallRecords, RegistryTypeOK
    <2>3. DeliveryInv'
      BY <1>1, <1>2, <2>1, AsideKeepsDelivery DEF Aside
    <2>4. SettingsInv'
      BY <1>1, <1>2, <2>1 DEF AuditInv, SettingsInv, SettingsAreTheWish
    <2> QED
      BY <1>2, <2>2, <2>3, <2>4 DEF AuditInv
  <1>3. ASSUME NEW x \in Exports, CreateExportRecord(c, x) PROVE AuditInv'
    <2>1. PICK y : y = [NoCall EXCEPT !.step = "export", !.export = x]
      OBVIOUS
    <2>2. y \in CallRecords /\ y.todo = {} /\ y.step = "export" /\ y.export = x
      BY <2>1, Constants DEF NoCall, CallRecords, Steps
    <2>3. /\ call' = [call EXCEPT ![c] = y] /\ call[c].step = "none"
          /\ export' = [export EXCEPT ![x] = "running"]
      BY <1>3, <2>1, NoCallIs DEF CreateExportRecord, Idle
    <2>4. ExportInv'
      BY <1>0, <2>2, <2>3 DEF AuditInv, ExportInv
    <2> QED
      BY <1>0, <1>2, <2>2, <2>3, <2>4
  <1>4. CASE MarkExportSucceeded(c) \/ MarkExportFailed(c)
    <2>1. PICK status \in {"succeeded", "failed"} : export' = [export EXCEPT ![call[c].export] = status]
      BY <1>4 DEF MarkExportSucceeded, MarkExportFailed
    <2>2. PICK y \in CallRecords :
            call' = [call EXCEPT ![c] = y] /\ y.todo = {} /\ y.step \in {"none", "record"}
      <3>1. CASE MarkExportSucceeded(c)
        <4>1. PICK y : y = [NoCall EXCEPT !.step = "record", !.type = Exported]
          OBVIOUS
        <4>2. y \in CallRecords /\ y.todo = {} /\ y.step = "record"
          BY <4>1, Constants, RecordingIs
        <4>3. call' = [call EXCEPT ![c] = y]
          BY <3>1, <4>1 DEF MarkExportSucceeded, Recording
        <4> QED
          BY <4>2, <4>3
      <3>2. CASE MarkExportFailed(c)
        BY <3>2, NoCallIs DEF MarkExportFailed
      <3> QED
        BY <1>4, <3>1, <3>2
    <2>3. call[c].step = "export" /\ call[c].export \in Exports
      BY <1>4 DEF MarkExportSucceeded, MarkExportFailed, AuditInv, ExportInv
    <2>4. ExportInv'
      BY <1>0, <2>1, <2>2, <2>3 DEF AuditInv, ExportInv
    <2> QED
      BY <1>0, <1>2, <2>1, <2>2, <2>3, <2>4
  <1> QED
    BY <1>3, <1>4

-----------------------------------------------------------------------------
(* Events and notifications.                                               *)

(* What the other two parts of the invariant ask of a step of c.           *)
LEMMA NoticeKeepsRest ==
  ASSUME AuditInv, NEW c \in Callers, NEW y \in CallRecords, call' = [call EXCEPT ![c] = y],
         call[c].step \in {"none", "record", "notify", "deliver"}, y.step \in {"none", "notify", "deliver"},
         UNCHANGED <<name, index, disabled, credential, subscribed, export, security, wish>>,
         note' \in [Notes -> NoteRecords], notes' \in 0 .. MaxNotes
  PROVE  TypeOK' /\ ExportInv' /\ SettingsInv'
  <1>1. call \in [Callers -> CallRecords]
    BY DEF AuditInv, TypeOK, CallRecords
  <1>2. call' \in [Callers -> CallRecords] /\ call'[c] = y /\ \A d \in Callers \ {c} : call'[d] = call[d]
    BY <1>1
  <1>3. TypeOK'
    BY <1>2 DEF AuditInv, TypeOK, CallRecords, NoteRecords, RegistryTypeOK
  <1>4. ExportInv'
    BY <1>2 DEF AuditInv, ExportInv
  <1>5. SettingsInv'
    BY <1>2 DEF AuditInv, SettingsInv, SettingsAreTheWish
  <1> QED
    BY <1>3, <1>4, <1>5

LEMMA NoticeIs ==
  ASSUME AuditInv
  PROVE  /\ call \in [Callers -> CallRecords] /\ note \in [Notes -> NoteRecords]
         /\ notes \in 0 .. MaxNotes /\ DeliveryInv
         /\ \A n \in Notes : note[n].attempts \in Nat
         /\ \A n \in Notes, S \in SUBSET Callers : Cardinality(S) \in Nat
  <1>1. \A n \in Notes : note[n].attempts \in 0 .. MaxAttempts - 1 + Cardinality(Callers)
    BY DEF AuditInv, TypeOK
  <1>2. \A S \in SUBSET Callers : Cardinality(S) \in Nat
    BY WaitingIsBounded
  <1> QED
    BY <1>1, <1>2 DEF AuditInv, TypeOK, CallRecords, NoteRecords

LEMMA RecordEventKeepsInv ==
  ASSUME AuditInv, NEW c \in Callers, RecordEvent(c)
  PROVE  AuditInv'
  <1> DEFINE heard == Listeners(call[c].type)
             new   == notes + 1 .. notes + Cardinality(heard)
  <1>0. /\ call \in [Callers -> CallRecords] /\ note \in [Notes -> NoteRecords]
        /\ notes \in 0 .. MaxNotes /\ DeliveryInv
    BY NoticeIs
  <1>1. PICK for \in [new -> heard] :
          /\ \A e \in heard : \E n \in new : for[n] = e
          /\ note' = [n \in Notes |->
               IF n \in new THEN [NoNote EXCEPT !.status = "pending", !.endpoint = for[n]] ELSE note[n]]
    BY DEF RecordEvent
  <1>2. /\ call[c].step = "record" /\ new \subseteq Notes /\ notes' = notes + Cardinality(heard)
        /\ call' = [call EXCEPT ![c] = IF new = {} THEN NoCall
                                       ELSE [NoCall EXCEPT !.step = "notify", !.todo = new]]
        /\ UNCHANGED <<name, index, disabled, credential, subscribed, export, security, wish>>
    BY DEF RecordEvent, registry
  <1>3. heard \subseteq Endpoints
    BY DEF Listeners
  <1>4. /\ notes' \in notes .. MaxNotes
        /\ \A n \in new : n > notes /\ n <= notes'
        /\ \A n \in Notes : n > notes' => n > notes /\ n \notin new
    <2>1. PICK k \in Nat : k = Cardinality(heard)
      BY <1>3, Constants
    <2>2. /\ notes \in Nat /\ MaxNotes \in Nat /\ notes <= MaxNotes
          /\ notes + 1 .. notes + k \subseteq 1 .. MaxNotes
      BY <1>0, <1>2, <2>1, Constants DEF Notes
    <2>3. notes + k <= MaxNotes
      BY <2>2
    <2> QED
      BY <1>2, <2>1, <2>2, <2>3 DEF Notes
  <1>5. \A n \in new : /\ note'[n].status = "pending" /\ note'[n].attempts = 0 /\ note'[n].due = FALSE
                       /\ note'[n] \in NoteRecords
    <2> SUFFICES ASSUME NEW n \in new
                 PROVE  /\ note'[n].status = "pending" /\ note'[n].attempts = 0 /\ note'[n].due = FALSE
                        /\ note'[n] \in NoteRecords
      OBVIOUS
    <2>1. note'[n] = [NoNote EXCEPT !.status = "pending", !.endpoint = for[n]] /\ for[n] \in Endpoints
      BY <1>1, <1>2, <1>3
    <2>2. 0 \in 0 .. MaxAttempts - 1 + Cardinality(Callers)
      BY Constants
    <2> QED
      BY <2>1, <2>2 DEF NoNote, NoteRecords, NoteStatuses
  <1>6. \A n \in Notes \ new : note'[n] = note[n]
    BY <1>1
  <1>7. note' \in [Notes -> NoteRecords]
    BY <1>0, <1>1, <1>5, <1>6
  <1> HIDE DEF heard, new
  <1>8. PICK y \in CallRecords :
          /\ call' = [call EXCEPT ![c] = y] /\ y.todo = new /\ y.step \in {"none", "notify"}
          /\ y.todo # {} => y.step = "notify"
    <2>1. CASE new = {}
      BY <1>2, <2>1, NoCallIs
    <2>2. CASE new # {}
      <3>1. PICK y : y = [NoCall EXCEPT !.step = "notify", !.todo = new]
        OBVIOUS
      <3>2. y \in CallRecords /\ y.todo = new /\ y.step = "notify"
        <4>1. new \in SUBSET Notes
          BY <1>2
        <4> QED
          BY <3>1, <4>1, ListingIs
      <3> QED
        BY <1>2, <2>2, <3>1, <3>2
    <2> QED
      BY <2>1, <2>2
  <1>9. call'[c] = y /\ \A d \in Callers \ {c} : call'[d] = call[d]
    BY <1>0, <1>8
  <1>10. call[c].todo = {}
    BY <1>0, <1>2 DEF DeliveryInv
  <1>11. TypeOK' /\ ExportInv' /\ SettingsInv'
    <2>1. notes' \in 0 .. MaxNotes
      BY <1>0, <1>4, Constants
    <2> QED
      BY <1>2, <1>7, <1>8, <2>1, NoticeKeepsRest
  <1>12. ASSUME NEW d \in Callers
         PROVE  /\ call'[d].todo \subseteq 1 .. notes'
                /\ call'[d].todo # {} => call'[d].step \in {"notify", "deliver"}
                /\ call'[d].step = "deliver" => call'[d].at \in 1 .. notes' /\ note'[call'[d].at].attempts >= 1
    <2>1. 1 .. notes \subseteq 1 .. notes' /\ new \subseteq 1 .. notes' /\ new \cap (1 .. notes) = {}
          /\ 1 .. notes \subseteq Notes
      BY <1>0, <1>2, <1>4, Constants DEF Notes
    <2>2. CASE d = c
      BY <1>8, <1>9, <2>1, <2>2
    <2>3. CASE d # c
      <3>1. call'[d] = call[d]
        BY <1>9, <2>3
      <3>2. /\ call[d].todo \subseteq 1 .. notes
            /\ call[d].todo # {} => call[d].step \in {"notify", "deliver"}
            /\ call[d].step = "deliver" => call[d].at \in 1 .. notes /\ note[call[d].at].attempts >= 1
        BY <1>0 DEF DeliveryInv
      <3>3. call[d].step = "deliver" => note'[call[d].at] = note[call[d].at]
        BY <1>6, <2>1, <3>2
      <3> QED
        BY <2>1, <3>1, <3>2, <3>3
    <2> QED
      BY <2>2, <2>3
  <1>13. ASSUME NEW n \in Notes \ new
         PROVE  Waiting(n)' = Waiting(n)
    BY <1>8, <1>9, <1>10 DEF Waiting
  <1>14. ASSUME NEW n \in Notes
         PROVE  /\ note'[n].status = "pending" =>
                     note'[n].attempts = 0 /\ \E d \in Callers : n \in call'[d].todo
                /\ note'[n].status = "delivering" => \E d \in Callers : call'[d].step = "deliver" /\ call'[d].at = n
                /\ note'[n].status = "retry" => note'[n].attempts \in 1 .. MaxAttempts - 1
                /\ note'[n].status = "failed" => note'[n].attempts >= MaxAttempts
                /\ note'[n].due => note'[n].status = "retry"
                /\ note'[n].attempts + Cardinality(Waiting(n)') <= MaxAttempts - 1 + Cardinality(Callers)
    <2>1. CASE n \in new
      <3>1. Waiting(n)' \subseteq Callers
        BY DEF Waiting
      <3>2. Cardinality(Waiting(n)') \in Nat /\ Cardinality(Waiting(n)') <= Cardinality(Callers)
        BY <3>1, WaitingIsBounded
      <3> QED
        BY <1>5, <1>8, <1>9, <2>1, <3>2, Constants
    <2>2. CASE n \notin new
      <3>1. note'[n] = note[n] /\ Waiting(n)' = Waiting(n)
        BY <1>6, <1>13, <2>2
      <3>2. (\E d \in Callers : n \in call[d].todo) => \E d \in Callers : n \in call'[d].todo
        BY <1>9, <1>10
      <3>3. (\E d \in Callers : call[d].step = "deliver" /\ call[d].at = n)
              => \E d \in Callers : call'[d].step = "deliver" /\ call'[d].at = n
        BY <1>2, <1>9
      <3> QED
        BY <1>0, <3>1, <3>2, <3>3 DEF DeliveryInv
    <2> QED
      BY <2>1, <2>2
  <1>15. DeliveryInv'
    <2>1. \A n \in Notes : n > notes' => note'[n] = NoNote
      BY <1>0, <1>4, <1>6 DEF DeliveryInv
    <2> QED
      BY <1>12, <1>14, <2>1 DEF DeliveryInv
  <1> QED
    BY <1>11, <1>15 DEF AuditInv

LEMMA ListDueKeepsInv ==
  ASSUME AuditInv, NEW c \in Callers, ProcessDueNotifications(c)
  PROVE  AuditInv'
  <1> DEFINE due == {n \in Notes : note[n].status = "pending" \/ note[n].due}
  <1>0. /\ call \in [Callers -> CallRecords] /\ note \in [Notes -> NoteRecords]
        /\ notes \in 0 .. MaxNotes /\ DeliveryInv /\ \A n \in Notes : note[n].attempts \in Nat
    BY NoticeIs
  <1>1. PICK y : y = [NoCall EXCEPT !.step = "notify", !.todo = due]
    OBVIOUS
  <1>2. /\ call' = [call EXCEPT ![c] = y] /\ call[c].step = "none" /\ call[c].todo = {}
        /\ UNCHANGED <<name, index, disabled, credential, subscribed, note, notes, export, security, wish>>
    BY <1>1, NoCallIs DEF ProcessDueNotifications, Idle, registry
  <1>3. y \in CallRecords /\ y.todo = due /\ y.step = "notify"
    <2>1. due \in SUBSET Notes
      OBVIOUS
    <2> QED
      BY <1>1, <2>1, ListingIs
  <1>4. due \subseteq 1 .. notes /\ \A n \in due : note[n].attempts <= MaxAttempts - 1
    <2> SUFFICES ASSUME NEW n \in due PROVE n \in 1 .. notes /\ note[n].attempts <= MaxAttempts - 1
      OBVIOUS
    <2>1. n \in Notes /\ note[n].status \in {"pending", "retry"}
      BY <1>0 DEF DeliveryInv
    <2>2. note[n] # NoNote
      BY <2>1 DEF NoNote
    <2>3. ~(n > notes) /\ n \in 1 .. MaxNotes
      BY <1>0, <2>1, <2>2 DEF DeliveryInv, Notes
    <2>4. n \in 1 .. notes
      BY <1>0, <2>3, Constants
    <2>5. note[n].attempts = 0 \/ note[n].attempts \in 1 .. MaxAttempts - 1
      BY <1>0, <2>1 DEF DeliveryInv
    <2> QED
      BY <2>4, <2>5, Constants
  <1> HIDE DEF due
  <1>5. TypeOK' /\ ExportInv' /\ SettingsInv'
    BY <1>0, <1>2, <1>3, NoticeKeepsRest
  <1>6. call'[c] = y /\ \A d \in Callers \ {c} : call'[d] = call[d]
    BY <1>0, <1>2
  <1>7. ASSUME NEW n \in Notes
        PROVE  note[n].attempts + Cardinality(Waiting(n)') <= MaxAttempts - 1 + Cardinality(Callers)
    <2>1. CASE n \in due
      <3>1. Waiting(n)' \subseteq Callers
        BY DEF Waiting
      <3>2. Cardinality(Waiting(n)') \in Nat /\ Cardinality(Waiting(n)') <= Cardinality(Callers)
        BY <3>1, WaitingIsBounded
      <3> QED
        BY <1>0, <1>4, <2>1, <3>2, Constants
    <2>2. CASE n \notin due
      <3>1. Waiting(n)' = Waiting(n)
        BY <1>2, <1>3, <1>6, <2>2 DEF Waiting
      <3> QED
        BY <1>0, <3>1 DEF DeliveryInv
    <2> QED
      BY <2>1, <2>2
  <1>8. DeliveryInv'
    <2>1. \A n \in Notes : (\E d \in Callers : n \in call[d].todo) => \E d \in Callers : n \in call'[d].todo
      BY <1>2, <1>6
    <2>2. \A n \in Notes : (\E d \in Callers : call[d].step = "deliver" /\ call[d].at = n)
                           => \E d \in Callers : call'[d].step = "deliver" /\ call'[d].at = n
      BY <1>2, <1>6
    <2>3. \A d \in Callers :
            /\ call'[d].todo \subseteq 1 .. notes
            /\ call'[d].todo # {} => call'[d].step \in {"notify", "deliver"}
            /\ call'[d].step = "deliver" => call'[d].at \in 1 .. notes /\ note[call'[d].at].attempts >= 1
      BY <1>0, <1>3, <1>4, <1>6 DEF DeliveryInv
    <2>4. UNCHANGED <<note, notes>>
      BY <1>2
    <2> QED
      BY <1>0, <1>7, <2>1, <2>2, <2>3, <2>4 DEF DeliveryInv
  <1> QED
    BY <1>5, <1>8 DEF AuditInv

LEMMA StartKeepsInv ==
  ASSUME AuditInv, NEW c \in Callers, StartDelivery(c)
  PROVE  AuditInv'
  <1>0. /\ call \in [Callers -> CallRecords] /\ note \in [Notes -> NoteRecords]
        /\ notes \in 0 .. MaxNotes /\ DeliveryInv /\ \A m \in Notes : note[m].attempts \in Nat
    BY NoticeIs
  <1>1. PICK n \in call[c].todo :
          /\ note' = [note EXCEPT ![n].status = "delivering", ![n].attempts = @ + 1, ![n].due = FALSE]
          /\ call' = [call EXCEPT ![c].step = "deliver", ![c].at = n, ![c].todo = @ \ {n}]
    BY DEF StartDelivery
  <1>2. /\ call[c].step = "notify" /\ call[c] \in CallRecords
        /\ UNCHANGED <<name, index, disabled, credential, subscribed, notes, export, security, wish>>
    BY <1>0 DEF StartDelivery, registry
  <1>3. n \in Notes /\ n \in 1 .. notes /\ call[c].todo \subseteq 1 .. notes /\ call[c].todo \in SUBSET Notes
    BY <1>0, <1>1, <1>2 DEF CallRecords, DeliveryInv
  <1>4. PICK y : y = [call[c] EXCEPT !.step = "deliver", !.at = n, !.todo = call[c].todo \ {n}]
    OBVIOUS
  <1>5. y \in CallRecords /\ y.step = "deliver" /\ y.at = n /\ y.todo = call[c].todo \ {n}
    <2>1. PICK t \in SUBSET Notes : t = call[c].todo \ {n}
      BY <1>3
    <2>2. y = [call[c] EXCEPT !.step = "deliver", !.at = n, !.todo = t]
      BY <1>4, <2>1
    <2>3. y \in CallRecords /\ y.step = "deliver" /\ y.at = n /\ y.todo = t
      BY <1>2, <1>3, <2>2 DEF CallRecords, Steps
    <2> QED
      BY <2>1, <2>3
  <1>6. call' = [call EXCEPT ![c] = y]
    BY <1>0, <1>1, <1>4
  <1>7. call'[c] = y /\ \A d \in Callers \ {c} : call'[d] = call[d]
    BY <1>0, <1>6
  <1>8. Waiting(n)' = Waiting(n) \ {c} /\ c \in Waiting(n)
        /\ \A m \in Notes \ {n} : Waiting(m)' = Waiting(m)
    BY <1>1, <1>5, <1>7 DEF Waiting
  <1>9. /\ Cardinality(Waiting(n)') = Cardinality(Waiting(n)) - 1 /\ Cardinality(Waiting(n)) >= 1
        /\ Cardinality(Waiting(n)) \in Nat
    <2>1. Waiting(n) \subseteq Callers
      BY DEF Waiting
    <2> QED
      BY <1>8, <2>1, WaitingIsBounded
  <1>10. note[n].attempts + 1 \in 1 .. MaxAttempts - 1 + Cardinality(Callers)
         /\ note[n].attempts + 1 + (Cardinality(Waiting(n)) - 1) <= MaxAttempts - 1 + Cardinality(Callers)
    <2>1. note[n].attempts + Cardinality(Waiting(n)) <= MaxAttempts - 1 + Cardinality(Callers)
          /\ note[n].attempts \in Nat
      BY <1>0, <1>3 DEF DeliveryInv
    <2> QED
      BY <1>9, <2>1, Constants
  <1>11. /\ note' \in [Notes -> NoteRecords]
         /\ note'[n].status = "delivering" /\ note'[n].attempts = note[n].attempts + 1 /\ note'[n].due = FALSE
         /\ \A m \in Notes \ {n} : note'[m] = note[m]
    <2>1. PICK k \in 0 .. MaxAttempts - 1 + Cardinality(Callers) : k = note[n].attempts + 1
      BY <1>10, Constants
    <2>2. PICK z : z = [note[n] EXCEPT !.status = "delivering", !.attempts = k, !.due = FALSE]
      OBVIOUS
    <2>3. z \in NoteRecords /\ z.status = "delivering" /\ z.attempts = k /\ z.due = FALSE
      BY <1>0, <1>3, <2>2 DEF NoteRecords, NoteStatuses
    <2>4. note' = [note EXCEPT ![n] = z]
      BY <1>0, <1>1, <1>3, <2>1, <2>2
    <2> QED
      BY <1>0, <1>3, <2>1, <2>3, <2>4
  <1>12. TypeOK' /\ ExportInv' /\ SettingsInv'
    BY <1>0, <1>2, <1>5, <1>6, <1>11, NoticeKeepsRest
  <1>13. ASSUME NEW d \in Callers
         PROVE  /\ call'[d].todo \subseteq 1 .. notes
                /\ call'[d].todo # {} => call'[d].step \in {"notify", "deliver"}
                /\ call'[d].step = "deliver" => call'[d].at \in 1 .. notes /\ note'[call'[d].at].attempts >= 1
    <2>1. CASE d = c
      <3>1. note'[n].attempts >= 1
        BY <1>10, <1>11
      <3> QED
        BY <1>3, <1>5, <1>7, <2>1, <3>1
    <2>2. CASE d # c
      <3>1. call'[d] = call[d] /\ (call[d].step = "deliver" => call[d].at \in 1 .. notes /\ note[call[d].at].attempts >= 1)
        BY <1>0, <1>7, <2>2 DEF DeliveryInv
      <3>2. 1 .. notes \subseteq Notes
        BY <1>0, Constants DEF Notes
      <3>3. call[d].step = "deliver" => note'[call[d].at].attempts >= 1
        BY <1>10, <1>11, <3>1, <3>2
      <3> QED
        BY <1>0, <3>1, <3>3 DEF DeliveryInv
    <2> QED
      BY <2>1, <2>2
  <1>14. ASSUME NEW m \in Notes
         PROVE  /\ note'[m].status = "pending" =>
                     note'[m].attempts = 0 /\ \E d \in Callers : m \in call'[d].todo
                /\ note'[m].status = "delivering" => \E d \in Callers : call'[d].step = "deliver" /\ call'[d].at = m
                /\ note'[m].status = "retry" => note'[m].attempts \in 1 .. MaxAttempts - 1
                /\ note'[m].status = "failed" => note'[m].attempts >= MaxAttempts
                /\ note'[m].due => note'[m].status = "retry"
                /\ note'[m].attempts + Cardinality(Waiting(m)') <= MaxAttempts - 1 + Cardinality(Callers)
    <2>1. CASE m = n
      BY <1>5, <1>7, <1>9, <1>10, <1>11, <2>1
    <2>2. CASE m # n
      <3>1. note'[m] = note[m] /\ Waiting(m)' = Waiting(m)
        BY <1>8, <1>11, <2>2
      <3>2. (\E d \in Callers : m \in call[d].todo) => \E d \in Callers : m \in call'[d].todo
        BY <1>5, <1>7, <2>2
      <3>3. (\E d \in Callers : call[d].step = "deliver" /\ call[d].at = m)
              => \E d \in Callers : call'[d].step = "deliver" /\ call'[d].at = m
        BY <1>2, <1>7
      <3> QED
        BY <1>0, <3>1, <3>2, <3>3 DEF DeliveryInv
    <2> QED
      BY <2>1, <2>2
  <1>15. DeliveryInv'
    <2>1. \A m \in Notes : m > notes => note'[m] = NoNote
      <3>1. ~(n > notes)
        BY <1>0, <1>3
      <3> QED
        BY <1>0, <1>11, <3>1 DEF DeliveryInv
    <2>2. UNCHANGED notes
      BY <1>2
    <2> QED
      BY <1>13, <1>14, <2>1, <2>2 DEF DeliveryInv
  <1> QED
    BY <1>12, <1>15 DEF AuditInv

LEMMA EndKeepsInv ==
  ASSUME AuditInv, NEW c \in Callers, EndDelivery(c)
  PROVE  AuditInv'
  <1> DEFINE n == call[c].at
  <1>0. /\ call \in [Callers -> CallRecords] /\ note \in [Notes -> NoteRecords]
        /\ notes \in 0 .. MaxNotes /\ DeliveryInv /\ \A m \in Notes : note[m].attempts \in Nat
    BY NoticeIs
  <1>1. PICK status \in {"succeeded", AfterFailure(n)} :
          /\ note' = [note EXCEPT ![n].status = status, ![n].due = FALSE]
          /\ call' = [call EXCEPT ![c] = Onward(c, status)]
    BY DEF EndDelivery
  <1>2. /\ call[c].step = "deliver" /\ call[c] \in CallRecords
        /\ UNCHANGED <<name, index, disabled, credential, subscribed, notes, export, security, wish>>
    BY <1>0 DEF EndDelivery, registry
  <1>3. n \in Notes /\ n \in 1 .. notes /\ note[n].attempts >= 1
    <2>1. 1 .. notes \subseteq Notes
      BY <1>0, Constants DEF Notes
    <2> QED
      BY <1>0, <1>2, <2>1 DEF DeliveryInv
  <1>4. /\ status \in {"succeeded", "failed", "retry"}
        /\ status = "failed" => note[n].attempts >= MaxAttempts
        /\ status = "retry" => note[n].attempts \in 1 .. MaxAttempts - 1
    BY <1>0, <1>3, Constants DEF AfterFailure
  <1> HIDE DEF n
  <1>5. PICK y \in CallRecords :
          /\ call' = [call EXCEPT ![c] = y] /\ y.todo = call[c].todo /\ y.step \in {"none", "notify"}
          /\ y.todo # {} => y.step = "notify"
    <2>1. CASE call[c].todo = {}
      BY <1>1, <2>1, NoCallIs DEF Onward
    <2>2. CASE call[c].todo # {}
      <3>1. PICK y : y = [NoCall EXCEPT !.step = "notify", !.todo = call[c].todo]
        OBVIOUS
      <3>2. call[c].todo \in SUBSET Notes
        BY <1>2 DEF CallRecords
      <3>3. y \in CallRecords /\ y.todo = call[c].todo /\ y.step = "notify"
        BY <3>1, <3>2, ListingIs
      <3> QED
        BY <1>1, <2>2, <3>1, <3>3 DEF Onward
    <2> QED
      BY <2>1, <2>2
  <1>6. call'[c] = y /\ \A d \in Callers \ {c} : call'[d] = call[d]
    BY <1>0, <1>5
  <1>7. \A m \in Notes : Waiting(m)' = Waiting(m)
    BY <1>5, <1>6 DEF Waiting
  <1>8. /\ note' \in [Notes -> NoteRecords]
        /\ note'[n].status = status /\ note'[n].attempts = note[n].attempts /\ note'[n].due = FALSE
        /\ \A m \in Notes \ {n} : note'[m] = note[m]
    <2>1. PICK z : z = [note[n] EXCEPT !.status = status, !.due = FALSE]
      OBVIOUS
    <2>2. z \in NoteRecords /\ z.status = status /\ z.attempts = note[n].attempts /\ z.due = FALSE
      BY <1>0, <1>3, <1>4, <2>1 DEF NoteRecords, NoteStatuses
    <2>3. note' = [note EXCEPT ![n] = z]
      BY <1>0, <1>1, <1>3, <2>1
    <2> QED
      BY <1>0, <1>3, <2>2, <2>3
  <1>9. TypeOK' /\ ExportInv' /\ SettingsInv'
    BY <1>0, <1>2, <1>5, <1>8, NoticeKeepsRest
  <1>10. ASSUME NEW d \in Callers
         PROVE  /\ call'[d].todo \subseteq 1 .. notes
                /\ call'[d].todo # {} => call'[d].step \in {"notify", "deliver"}
                /\ call'[d].step = "deliver" => call'[d].at \in 1 .. notes /\ note'[call'[d].at].attempts >= 1
    <2>1. /\ call[d].todo \subseteq 1 .. notes
          /\ call[d].todo # {} => call[d].step \in {"notify", "deliver"}
          /\ call[d].step = "deliver" => call[d].at \in 1 .. notes /\ note[call[d].at].attempts >= 1
      BY <1>0 DEF DeliveryInv
    <2>2. CASE d = c
      BY <1>5, <1>6, <2>1, <2>2
    <2>3. CASE d # c
      <3>1. 1 .. notes \subseteq Notes
        BY <1>0, Constants DEF Notes
      <3>2. call[d].step = "deliver" => note'[call[d].at].attempts = note[call[d].at].attempts
        BY <1>8, <2>1, <3>1
      <3> QED
        BY <1>6, <2>1, <2>3, <3>2
    <2> QED
      BY <2>2, <2>3
  <1>11. ASSUME NEW m \in Notes
         PROVE  /\ note'[m].status = "pending" =>
                     note'[m].attempts = 0 /\ \E d \in Callers : m \in call'[d].todo
                /\ note'[m].status = "delivering" => \E d \in Callers : call'[d].step = "deliver" /\ call'[d].at = m
                /\ note'[m].status = "retry" => note'[m].attempts \in 1 .. MaxAttempts - 1
                /\ note'[m].status = "failed" => note'[m].attempts >= MaxAttempts
                /\ note'[m].due => note'[m].status = "retry"
                /\ note'[m].attempts + Cardinality(Waiting(m)') <= MaxAttempts - 1 + Cardinality(Callers)
    <2>0. note[m].attempts + Cardinality(Waiting(m)') <= MaxAttempts - 1 + Cardinality(Callers)
      BY <1>0, <1>7 DEF DeliveryInv
    <2>1. CASE m = n
      BY <1>4, <1>8, <2>0, <2>1
    <2>2. CASE m # n
      <3>1. note'[m] = note[m]
        BY <1>8, <2>2
      <3>2. (\E d \in Callers : m \in call[d].todo) => \E d \in Callers : m \in call'[d].todo
        BY <1>5, <1>6
      <3>3. (\E d \in Callers : call[d].step = "deliver" /\ call[d].at = m)
              => \E d \in Callers : call'[d].step = "deliver" /\ call'[d].at = m
        BY <1>6, <2>2 DEF n
      <3> QED
        BY <1>0, <2>0, <3>1, <3>2, <3>3 DEF DeliveryInv
    <2> QED
      BY <2>1, <2>2
  <1>12. DeliveryInv'
    <2>1. \A m \in Notes : m > notes => note'[m] = NoNote
      <3>1. ~(n > notes)
        BY <1>0, <1>3
      <3> QED
        BY <1>0, <1>8, <3>1 DEF DeliveryInv
    <2>2. UNCHANGED notes
      BY <1>2
    <2> QED
      BY <1>10, <1>11, <2>1, <2>2 DEF DeliveryInv
  <1> QED
    BY <1>9, <1>12 DEF AuditInv

LEMMA DueKeepsInv ==
  ASSUME AuditInv, NEW n \in Notes, RetryComesDue(n)
  PROVE  AuditInv'
  <1>0. /\ call \in [Callers -> CallRecords] /\ note \in [Notes -> NoteRecords]
        /\ notes \in 0 .. MaxNotes /\ DeliveryInv
    BY NoticeIs
  <1>1. /\ note[n].status = "retry" /\ note' = [note EXCEPT ![n].due = TRUE]
        /\ UNCHANGED <<name, index, disabled, credential, subscribed, notes, export, security, wish, call>>
    BY DEF RetryComesDue, registry
  <1>2. /\ note' \in [Notes -> NoteRecords]
        /\ \A m \in Notes : /\ note'[m].status = note[m].status /\ note'[m].attempts = note[m].attempts
                            /\ m # n => note'[m] = note[m]
    <2>1. PICK z : z = [note[n] EXCEPT !.due = TRUE]
      OBVIOUS
    <2>2. z \in NoteRecords /\ z.status = note[n].status /\ z.attempts = note[n].attempts
      BY <1>0, <2>1 DEF NoteRecords
    <2>3. note' = [note EXCEPT ![n] = z]
      BY <1>0, <1>1, <2>1
    <2> QED
      BY <1>0, <2>2, <2>3
  <1>3. \A m \in Notes : Waiting(m)' = Waiting(m)
    BY <1>1 DEF Waiting
  <1>4. note[n] # NoNote
    BY <1>1 DEF NoNote
  <1>5. 1 .. notes \subseteq Notes
    BY <1>0, Constants DEF Notes
  <1>6. DeliveryInv'
    <2>1. \A m \in Notes : m > notes => note'[m] = NoNote
      BY <1>0, <1>2, <1>4 DEF DeliveryInv
    <2>2. \A d \in Callers : call[d].step = "deliver" =>
            call[d].at \in 1 .. notes /\ note'[call[d].at].attempts >= 1
      BY <1>0, <1>2, <1>5 DEF DeliveryInv
    <2>3. \A m \in Notes : note'[m].due => note'[m].status = "retry"
      BY <1>0, <1>1, <1>2 DEF DeliveryInv
    <2>4. \A m \in Notes : note'[m].status = note[m].status /\ note'[m].attempts = note[m].attempts
      BY <1>2
    <2> QED
      BY <1>0, <1>1, <1>3, <2>1, <2>2, <2>3, <2>4 DEF DeliveryInv
  <1>7. TypeOK' /\ ExportInv' /\ SettingsInv'
    <2>1. TypeOK'
      BY <1>1, <1>2 DEF AuditInv, TypeOK, RegistryTypeOK, NoteRecords
    <2>2. ExportInv' /\ SettingsInv'
      BY <1>1 DEF AuditInv, ExportInv, SettingsInv, SettingsAreTheWish
    <2> QED
      BY <2>1, <2>2
  <1> QED
    BY <1>6, <1>7 DEF AuditInv

-----------------------------------------------------------------------------
(* The invariant.                                                          *)

LEMMA StepKeepsInv == AuditInv /\ [Next]_vars => AuditInv'
  <1> SUFFICES ASSUME AuditInv, [Next]_vars PROVE AuditInv'
    OBVIOUS
  <1>1. ASSUME NEW c \in Callers,
               \/ \E e \in Endpoints, n \in DisplayNames :
                    CreateWebhookEndpoint(c, e, n) \/ UpdateWebhookEndpoint(c, e, n)
               \/ OtherCommand(c)
               \/ \E patch \in Patches : ReadSecuritySettings(c, patch)
        PROVE  AuditInv'
    BY <1>1, CommandsKeepInv
  <1>2. ASSUME NEW c \in Callers, WriteSecuritySettings(c) PROVE AuditInv'
    BY <1>2, WriteKeepsInv
  <1>3. ASSUME NEW c \in Callers,
               \/ \E x \in Exports : CreateExportRecord(c, x)
               \/ MarkExportSucceeded(c) \/ MarkExportFailed(c)
        PROVE  AuditInv'
    BY <1>3, ExportsKeepInv
  <1>4. ASSUME NEW c \in Callers, RecordEvent(c) PROVE AuditInv'
    BY <1>4, RecordEventKeepsInv
  <1>5. ASSUME NEW c \in Callers, ProcessDueNotifications(c) PROVE AuditInv'
    BY <1>5, ListDueKeepsInv
  <1>6. ASSUME NEW c \in Callers, StartDelivery(c) PROVE AuditInv'
    BY <1>6, StartKeepsInv
  <1>7. ASSUME NEW c \in Callers, EndDelivery(c) PROVE AuditInv'
    BY <1>7, EndKeepsInv
  <1>8. ASSUME NEW n \in Notes, RetryComesDue(n) PROVE AuditInv'
    BY <1>8, DueKeepsInv
  <1>9. CASE UNCHANGED vars
    <2>1. UNCHANGED <<name, index, disabled, credential, subscribed, note, notes, export, security, wish, call>>
      BY <1>9 DEF vars, registry
    <2>2. DeliveryInv'
      BY <2>1, AsideKeepsDelivery DEF Aside
    <2> QED
      BY <2>1, <2>2 DEF AuditInv, TypeOK, RegistryTypeOK, ExportInv, SettingsInv, SettingsAreTheWish
  <1>10. CASE \E n \in Notes : RetryComesDue(n)
    BY <1>8, <1>10
  <1> QED
    BY <1>1, <1>2, <1>3, <1>4, <1>5, <1>6, <1>7, <1>9, <1>10 DEF Next

(* What the callers hold and what is stored agree, whoever interleaves.    *)
THEOREM AuditInvariance == Spec => []AuditInv
  BY InitIsConsistent, StepKeepsInv, PTL DEF Spec

(* Every variable keeps its type; in particular no notification is tried   *)
(* more often than the limit and one time for each other caller            *)
(* (processNotification, which has no limit of its own).                   *)
THEOREM TypeCorrectness == Spec => []TypeOK
  <1>1. AuditInv => TypeOK
    BY DEF AuditInv
  <1> QED
    BY <1>1, AuditInvariance, PTL

(* Notifications and exports under way have somebody who ends them, a      *)
(* notification waits for a retry only below the limit and has failed only *)
(* at it.  One that is over is delivered again when another caller had it  *)
(* on its list; that is bounded: each other caller adds one attempt at     *)
(* most (processNotification and ExportAuditCSV).                          *)
THEOREM WorkIsNotLeftBehind == Spec => []NothingIsLeftBehind
  <1>1. AuditInv => NothingIsLeftBehind
    <2> SUFFICES ASSUME AuditInv PROVE NothingIsLeftBehind
      OBVIOUS
    <2>1. /\ \A n \in Notes : note[n].attempts \in Nat /\ Cardinality(Waiting(n)) \in Nat
          /\ DeliveryInv /\ ExportInv
      <3>1. \A n \in Notes : Waiting(n) \in SUBSET Callers
        BY DEF Waiting
      <3> QED
        BY <3>1, NoticeIs DEF AuditInv
    <2>2. \A n \in Notes : note[n].attempts < MaxAttempts + Cardinality(Callers)
      <3> SUFFICES ASSUME NEW n \in Notes PROVE note[n].attempts < MaxAttempts + Cardinality(Callers)
        OBVIOUS
      <3>1. /\ note[n].attempts + Cardinality(Waiting(n)) <= MaxAttempts - 1 + Cardinality(Callers)
            /\ note[n].attempts \in Nat /\ Cardinality(Waiting(n)) \in Nat
        BY <2>1 DEF DeliveryInv
      <3> QED
        BY <3>1, Constants
    <2> QED
      BY <2>1, <2>2 DEF DeliveryInv, ExportInv, NothingIsLeftBehind
  <1> QED
    BY <1>1, AuditInvariance, PTL

(* A sparse update of the security settings leaves the other fields alone, *)
(* unless another update came between (UpdateSecuritySettings).            *)
THEOREM SettingsStand == Spec => []SettingsAreTheWish
  <1>1. AuditInv => SettingsAreTheWish
    BY DEF AuditInv, SettingsInv
  <1> QED
    BY <1>1, AuditInvariance, PTL

=============================================================================
