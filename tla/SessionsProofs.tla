--------------------------- MODULE SessionsProofs ---------------------------
(***************************************************************************)
(* Proofs about Sessions, for any number of callers, sessions, tokens and  *)
(* locales, over any tenancy data.                                         *)
(*                                                                         *)
(* The index stays exact although callers write stale rows back because a  *)
(* token never belongs to two sessions: not in two rows, and not in a row  *)
(* and the copy of a logout that will write another one (OwnInv, TwoInv).  *)
(***************************************************************************)
EXTENDS Sessions, WellFoundedInduction, TLAPS

RowInv(s) == \/ session[s] = NeverSaved
             \/ session[s].status \in {"active", "revoked"} /\ session[s].token \in 1 .. issued

(* What the local copies of a request are worth.                           *)
CallInv(c) ==
  /\ call[c].step = "save session" => call[c].op = "login"
  /\ call[c].step = "find user" => call[c].op \in {"refresh", "locale"}
  /\ call[c].step = "update session" => call[c].op \in {"refresh", "logout"}
  /\ call[c].op \in {"refresh", "logout"} =>
       call[c].session \in Sessions /\ session[call[c].session] # NeverSaved
  /\ call[c].op \in {"login", "refresh"} /\ call[c].step \in {"update user", "resolve"} =>
       call[c].session \in Sessions /\ call[c].token \in Tokens
  /\ /\ call[c].op \in {"login", "refresh"}
     /\ call[c].step \in {"save session", "update session", "update user"}
     => call[c].locale \in Locales

(* A logout that has read its session and will write it back.              *)
Revoking(c) == call[c].op = "logout" /\ call[c].step = "update session"

OwnInv(c) == Revoking(c) =>
  /\ call[c].token \in 1 .. issued
  /\ \A s \in Sessions \ {call[c].session} : session[s].token # call[c].token

TwoInv(c, d) == Revoking(c) /\ Revoking(d) /\ call[c].token = call[d].token
                  => call[c].session = call[d].session

ActiveInv(s) == session[s].status = "active" => session[s].token \notin spent

SettledInv(s) == s \in settled => session[s].status = "revoked" /\ ~Refreshing(s)

WishInv == wish = "unclear" \/ /\ locale = wish
                               /\ \A c \in Callers : CopiesUser(c) => call[c].locale = wish

SessionInv ==
  /\ TypeOK
  /\ IndexIsExact
  /\ spent \subseteq 1 .. issued
  /\ \A s \in Sessions : RowInv(s) /\ ActiveInv(s) /\ SettledInv(s)
  /\ \A c \in Callers : CallInv(c) /\ OwnInv(c)
  /\ \A c, d \in Callers : TwoInv(c, d)
  /\ WishInv

-----------------------------------------------------------------------------

LEMMA Constants ==
  /\ NoSession \notin Sessions /\ MaxTokens \in Nat
  /\ "none" \notin Locales /\ "unclear" \notin Locales
  /\ 0 \notin Tokens /\ Tokens \subseteq Nat
  /\ NoCall.op = "none" /\ NoCall.step = "none" /\ NoCall.session = NoSession
  /\ NoCall.token = 0 /\ NoCall.status = "none" /\ NoCall.locale = "none"
  /\ NeverSaved.token = 0 /\ NeverSaved.status = "none"
  BY SessionsAssumption DEF SessionsAssumption, Tokens, NoCall, NeverSaved

LEMMA InitIsConsistent == Init => SessionInv
  <1> SUFFICES ASSUME Init PROVE SessionInv
    OBVIOUS
  <1>1. TypeOK
    BY Constants DEF Init, TypeOK, NeverSaved, NoCall, Tokens, Operations, Steps
  <1>2. IndexIsExact /\ WishInv
    BY Constants DEF Init, IndexIsExact, WishInv, CopiesUser
  <1>3. \A s \in Sessions : RowInv(s) /\ ActiveInv(s) /\ SettledInv(s)
    BY DEF Init, RowInv, ActiveInv, SettledInv
  <1>4. \A c \in Callers : CallInv(c) /\ ~Revoking(c)
    BY Constants DEF Init, CallInv, Revoking
  <1>5. spent \subseteq 1 .. issued
    BY DEF Init
  <1> QED
    BY <1>1, <1>2, <1>3, <1>4, <1>5 DEF SessionInv, OwnInv, TwoInv

LEMMA OneRowPerToken ==
  ASSUME SessionInv, NEW s \in Sessions, session[s] # NeverSaved
  PROVE  /\ session[s].token \in 1 .. issued /\ session[s].token \in Tokens
         /\ \A q \in Sessions : session[q].token = session[s].token => q = s
  <1>1. session[s].token \in 1 .. issued
    BY DEF SessionInv, RowInv
  <1>2. issued \in 0 .. MaxTokens /\ MaxTokens \in Nat
    BY Constants DEF SessionInv, TypeOK
  <1>3. session[s].token \in Tokens
    BY <1>1, <1>2 DEF Tokens
  <1>4. \A t \in Tokens, q \in Sessions : index[t] = q <=> session[q].token = t
    BY DEF SessionInv, IndexIsExact
  <1> QED
    BY <1>1, <1>3, <1>4

(* Steps of one caller, and what they do to its copies.                    *)
Moves(c, k) == call' = [call EXCEPT ![c] = k]

CallType == [op : Operations, step : Steps, session : Sessions \cup {NoSession},
             token : Tokens \cup {0}, status : {"none", "active", "revoked"},
             locale : Locales \cup {"none"}]

(* What has to be known of copies k of caller c.                           *)
Worth(c, k) ==
  /\ k \in CallType
  /\ k.step = "save session" => k.op = "login"
  /\ k.step = "find user" => k.op \in {"refresh", "locale"}
  /\ k.step = "update session" => k.op \in {"refresh", "logout"}
  /\ k.op \in {"refresh", "logout"} => k.session \in Sessions /\ session[k.session] # NeverSaved
  /\ k.op \in {"login", "refresh"} /\ k.step \in {"update user", "resolve"} =>
       k.session \in Sessions /\ k.token \in Tokens
  /\ /\ k.op \in {"login", "refresh"}
     /\ k.step \in {"save session", "update session", "update user"}
     => k.locale \in Locales
  /\ k.op = "logout" /\ k.step = "update session" => k.token = session[k.session].token
  /\ k.op = "refresh" /\ k.step \in {"find user", "update session"} =>
       \/ session[k.session].status # "revoked"
       \/ /\ call[c].op = "refresh" /\ call[c].session = k.session
          /\ call[c].step \in {"find user", "update session"}

(* A request goes on, the rows of the sessions stay.                       *)
LEMMA CopiesKeepInv ==
  ASSUME SessionInv, NEW c \in Callers, NEW k, Moves(c, k), Worth(c, k),
         UNCHANGED <<session, index, issued, spent, settled>>
  PROVE  /\ call' \in [Callers -> CallType]
         /\ IndexIsExact' /\ (spent \subseteq 1 .. issued)'
         /\ \A s \in Sessions : RowInv(s)' /\ ActiveInv(s)' /\ SettledInv(s)'
         /\ \A d \in Callers : CallInv(d)' /\ OwnInv(d)'
         /\ \A d, e \in Callers : TwoInv(d, e)'
  <1>1. call \in [Callers -> CallType]
    BY DEF SessionInv, TypeOK, CallType
  <1>2. call' \in [Callers -> CallType] /\ call'[c] = k /\ \A d \in Callers \ {c} : call'[d] = call[d]
    BY <1>1 DEF Moves, Worth
  <1>3. IndexIsExact' /\ (spent \subseteq 1 .. issued)'
    BY DEF SessionInv, IndexIsExact
  <1>4. \A s \in Sessions : RowInv(s)' /\ ActiveInv(s)'
    BY DEF SessionInv, RowInv, ActiveInv
  <1>5. \A s \in Sessions : SettledInv(s)'
    BY <1>2 DEF SessionInv, SettledInv, Refreshing, Worth
  <1>6. \A d \in Callers : CallInv(d)'
    <2>1. CallInv(c)'
      BY <1>2 DEF CallInv, Worth
    <2>2. \A d \in Callers \ {c} : CallInv(d)'
      BY <1>2 DEF SessionInv, CallInv
    <2> QED
      BY <2>1, <2>2
  <1>7. k.op = "logout" /\ k.step = "update session" =>
          /\ k.token \in 1 .. issued
          /\ \A s \in Sessions \ {k.session} : session[s].token # k.token
    <2> SUFFICES ASSUME k.op = "logout", k.step = "update session"
                 PROVE  /\ k.token \in 1 .. issued
                        /\ \A s \in Sessions \ {k.session} : session[s].token # k.token
      OBVIOUS
    <2>1. k.session \in Sessions /\ session[k.session] # NeverSaved /\ k.token = session[k.session].token
      BY DEF Worth
    <2> QED
      BY <2>1, OneRowPerToken
  <1>8. \A d \in Callers : OwnInv(d)'
    <2>1. OwnInv(c)'
      BY <1>2, <1>7 DEF OwnInv, Revoking
    <2>2. \A d \in Callers \ {c} : OwnInv(d)'
      BY <1>2 DEF SessionInv, OwnInv, Revoking
    <2> QED
      BY <2>1, <2>2
  <1>9. \A d, e \in Callers : TwoInv(d, e)'
    <2>1. \A d \in Callers \ {c} : TwoInv(c, d)' /\ TwoInv(d, c)'
      <3> SUFFICES ASSUME NEW d \in Callers \ {c}, Revoking(c)', Revoking(d)',
                          call'[c].token = call'[d].token
                   PROVE  call'[c].session = call'[d].session
        BY DEF TwoInv
      <3>1. Revoking(d) /\ OwnInv(d) /\ call'[d] = call[d] /\ call'[c] = k
        BY <1>2 DEF SessionInv, Revoking
      <3>2. k.session \in Sessions /\ session[k.session].token = call[d].token
        BY <3>1 DEF Revoking, Worth
      <3>3. k.session = call[d].session
        BY <3>1, <3>2 DEF OwnInv
      <3> QED
        BY <3>1, <3>3
    <2>2. \A d, e \in Callers \ {c} : TwoInv(d, e)'
      <3> SUFFICES ASSUME NEW d \in Callers \ {c}, NEW e \in Callers \ {c} PROVE TwoInv(d, e)'
        OBVIOUS
      <3>1. TwoInv(d, e) /\ call'[d] = call[d] /\ call'[e] = call[e]
        BY <1>2 DEF SessionInv
      <3> QED
        BY <3>1 DEF TwoInv, Revoking
    <2> QED
      BY <2>1, <2>2 DEF TwoInv
  <1> QED
    BY <1>2, <1>3, <1>4, <1>5, <1>6, <1>8, <1>9

LEMMA GoesOnKeepsInv ==
  ASSUME SessionInv, NEW c \in Callers, NEW k, Moves(c, k), Worth(c, k),
         UNCHANGED <<session, index, issued, spent, settled, world, expired>>,
         locale' \in Locales, wish' \in Locales \cup {"unclear"},
         delivered' \subseteq Tokens, known' \subseteq Sessions,
         WishInv'
  PROVE  SessionInv'
  <1>1. /\ call' \in [Callers -> CallType]
        /\ IndexIsExact' /\ (spent \subseteq 1 .. issued)'
        /\ \A s \in Sessions : RowInv(s)' /\ ActiveInv(s)' /\ SettledInv(s)'
        /\ \A d \in Callers : CallInv(d)' /\ OwnInv(d)'
        /\ \A d, e \in Callers : TwoInv(d, e)'
    BY CopiesKeepInv
  <1>2. TypeOK'
    BY <1>1 DEF SessionInv, TypeOK, CallType
  <1> QED
    BY <1>1, <1>2 DEF SessionInv

(* The wish stands when no copy of the user's row gets to say otherwise.   *)
LEMMA WishStands ==
  ASSUME SessionInv, NEW c \in Callers, NEW k, Moves(c, k), UNCHANGED <<locale, wish>>,
         k.locale \in {"none", locale, call[c].locale}
  PROVE  WishInv'
  BY Constants DEF SessionInv, TypeOK, WishInv, CopiesUser, Moves

LEMMA ReadsKeepInv ==
  ASSUME SessionInv, NEW c \in Callers, NEW k, Moves(c, k), Worth(c, k),
         k.locale \in {"none", locale, call[c].locale},
         UNCHANGED <<world, rows, expired, issued, clients, history>>
  PROVE  SessionInv'
  <1>1. UNCHANGED <<session, index, issued, spent, settled, world, expired, locale, wish, delivered, known>>
    BY DEF rows, clients, history
  <1>2. /\ locale \in Locales /\ wish \in Locales \cup {"unclear"}
        /\ delivered \subseteq Tokens /\ known \subseteq Sessions
    BY DEF SessionInv, TypeOK
  <1>3. WishInv'
    BY <1>1, WishStands
  <1> QED
    BY <1>1, <1>2, <1>3, GoesOnKeepsInv

(* A request begins: nothing is known of it but its session.               *)
LEMMA BeginKeepsInv ==
  ASSUME SessionInv, NEW c \in Callers,
         \/ FindByUsername(c)
         \/ \E t \in Tokens : FindByRefreshToken(c, t)
         \/ \E s \in Sessions : BeginLogout(c, s) \/ BeginLocale(c, s)
  PROVE  SessionInv'
  <1>0. locale \in Locales
    BY DEF SessionInv, TypeOK
  <1>1. CASE FindByUsername(c)
    <2> DEFINE k == [NoCall EXCEPT !.op = "login", !.step = "save session", !.locale = locale]
    <2>1. Worth(c, k) /\ k.locale = locale
      BY <1>0, Constants DEF Worth, NoCall, CallType, Operations, Steps
    <2>2. Moves(c, k) /\ UNCHANGED <<world, rows, expired, issued, clients, history>>
      BY <1>1 DEF FindByUsername, Moves
    <2> HIDE DEF k
    <2> QED
      BY <2>1, <2>2, ReadsKeepInv
  <1>2. CASE \E t \in Tokens : FindByRefreshToken(c, t)
    <2>1. PICK t \in Tokens : FindByRefreshToken(c, t)
      BY <1>2
    <2> DEFINE s == index[t]
               k == [NoCall EXCEPT !.op = "refresh", !.step = "find user", !.session = s,
                                   !.token = session[s].token, !.status = session[s].status]
    <2>2. /\ s \in Sessions /\ session[s].status = "active"
          /\ session[s].token \in Tokens \cup {0}
      BY <2>1 DEF FindByRefreshToken, Live, SessionInv, TypeOK
    <2>3. session[s] # NeverSaved
      BY <2>2, Constants
    <2>4. Worth(c, k) /\ k.locale = "none"
      BY <2>2, <2>3, Constants DEF Worth, NoCall, CallType, Operations, Steps
    <2>5. Moves(c, k) /\ UNCHANGED <<world, rows, expired, issued, clients, history>>
      BY <2>1 DEF FindByRefreshToken, Moves
    <2> HIDE DEF k
    <2> QED
      BY <2>4, <2>5, ReadsKeepInv
  <1>3. CASE \E s \in Sessions : BeginLogout(c, s) \/ BeginLocale(c, s)
    <2>1. PICK s \in Sessions, op \in {"logout", "locale"} :
            /\ Authenticated(c, s, op, IF op = "logout" THEN "find session" ELSE "find user")
      BY <1>3 DEF BeginLogout, BeginLocale
    <2> DEFINE step == IF op = "logout" THEN "find session" ELSE "find user"
               k == [NoCall EXCEPT !.op = op, !.step = step, !.session = s]
    <2>2. session[s] # NeverSaved
      BY <2>1, Constants DEF Authenticated, Live
    <2>3. Worth(c, k) /\ k.locale = "none"
      BY <2>2, Constants DEF Worth, NoCall, CallType, Operations, Steps
    <2>4. Moves(c, k) /\ UNCHANGED <<world, rows, expired, issued, clients, history>>
      BY <2>1 DEF Authenticated, Moves
    <2> HIDE DEF k
    <2> QED
      BY <2>3, <2>4, ReadsKeepInv
  <1> QED
    BY <1>1, <1>2, <1>3

LEMMA ReadKeepsInv ==
  ASSUME SessionInv, NEW c \in Callers, FindUser(c) \/ FindSessionByID(c)
  PROVE  SessionInv'
  <1>0. call[c] \in CallType /\ CallInv(c) /\ locale \in Locales
    BY DEF SessionInv, TypeOK, CallType
  <1>1. CASE FindUser(c) /\ call[c].op = "locale"
    <2> DEFINE k == [call[c] EXCEPT !.step = "update user"]
    <2>1. Worth(c, k) /\ k.locale = call[c].locale
      BY <1>0, <1>1 DEF Worth, CallType, Steps
    <2>2. Moves(c, k) /\ UNCHANGED <<world, rows, expired, issued, clients, history>>
      BY <1>1 DEF FindUser, Moves
    <2> HIDE DEF k
    <2> QED
      BY <2>1, <2>2, ReadsKeepInv
  <1>2. CASE FindUser(c) /\ call[c].op # "locale"
    <2> DEFINE k == [call[c] EXCEPT !.step = "update session", !.locale = locale]
    <2>1. Worth(c, k) /\ k.locale = locale
      BY <1>0, <1>2 DEF Worth, CallType, Steps, CallInv, FindUser
    <2>2. Moves(c, k) /\ UNCHANGED <<world, rows, expired, issued, clients, history>>
      BY <1>2 DEF FindUser, Moves
    <2> HIDE DEF k
    <2> QED
      BY <2>1, <2>2, ReadsKeepInv
  <1>3. CASE FindSessionByID(c)
    <2> DEFINE k == [call[c] EXCEPT !.token = session[call[c].session].token, !.step = "update session"]
    <2>1. call[c].session \in Sessions /\ session[call[c].session] # NeverSaved
      BY <1>0, <1>3 DEF CallInv, FindSessionByID
    <2>2. session[call[c].session].token \in Tokens
      BY <2>1, OneRowPerToken
    <2>3. Worth(c, k) /\ k.locale = call[c].locale
      BY <1>0, <1>3, <2>1, <2>2 DEF Worth, CallType, Steps, FindSessionByID
    <2>4. Moves(c, k) /\ UNCHANGED <<world, rows, expired, issued, clients, history>>
      <3>1. call' = [call EXCEPT ![c].token = session[call[c].session].token, ![c].step = "update session"]
        BY <1>3 DEF FindSessionByID
      <3>2. call \in [Callers -> CallType]
        BY DEF SessionInv, TypeOK, CallType
      <3> QED
        BY <1>3, <3>1, <3>2 DEF FindSessionByID, Moves
    <2> HIDE DEF k
    <2> QED
      BY <2>3, <2>4, ReadsKeepInv
  <1> QED
    BY <1>1, <1>2, <1>3

(* The end of a request, and the writing of the user's row.                *)
LEMMA UserKeepsInv ==
  ASSUME SessionInv, NEW c \in Callers,
         \/ UpdateLastLogin(c)
         \/ \E l \in Locales : SaveLocale(c, l)
         \/ \E selection \in Selections : Answer(c, selection)
  PROVE  SessionInv'
  <1>0. /\ call \in [Callers -> CallType] /\ CallInv(c)
        /\ locale \in Locales /\ wish \in Locales \cup {"unclear"}
        /\ delivered \subseteq Tokens /\ known \subseteq Sessions
    BY DEF SessionInv, TypeOK, CallType
  <1>1. Worth(c, NoCall) /\ NoCall.locale = "none"
    BY Constants DEF Worth, NoCall, CallType, Operations, Steps
  <1>2. CASE UpdateLastLogin(c)
    <2> DEFINE k == [call[c] EXCEPT !.step = "resolve", !.locale = "none"]
    <2>1. /\ call[c].op \in {"login", "refresh"} /\ call[c].step = "update user"
          /\ call[c].session \in Sessions /\ call[c].token \in Tokens /\ call[c].locale \in Locales
          /\ call[c].op = "refresh" => session[call[c].session] # NeverSaved
      BY <1>0, <1>2 DEF UpdateLastLogin, CallInv
    <2>2. Worth(c, k) /\ k.locale = "none"
      BY <1>0, <2>1 DEF Worth, CallType, Steps
    <2>3. Moves(c, k)
      <3>1. call' = [call EXCEPT ![c].step = "resolve", ![c].locale = "none"]
        BY <1>2 DEF UpdateLastLogin
      <3> QED
        BY <1>0, <3>1 DEF Moves
    <2>4. /\ UNCHANGED <<session, index, issued, spent, settled, world, expired, wish, delivered, known>>
          /\ locale' = call[c].locale
      BY <1>2 DEF UpdateLastLogin, clients, history
    <2> HIDE DEF k
    <2>5. WishInv'
      <3>1. wish = "unclear" \/ call[c].locale = wish
        BY <2>1, Constants DEF SessionInv, WishInv, CopiesUser
      <3>2. \A d \in Callers \ {c} : call'[d] = call[d]
        BY <1>0, <2>3 DEF Moves
      <3>3. call'[c].locale = "none"
        BY <1>0, <2>2, <2>3 DEF Moves
      <3> QED
        BY <2>4, <3>1, <3>2, <3>3 DEF SessionInv, WishInv, CopiesUser
    <2> QED
      BY <1>0, <2>1, <2>2, <2>3, <2>4, <2>5, GoesOnKeepsInv
  <1>3. CASE \E l \in Locales : SaveLocale(c, l)
    <2>1. PICK l \in Locales : SaveLocale(c, l)
      BY <1>3
    <2>2. Moves(c, NoCall)
      BY <2>1 DEF SaveLocale, Moves
    <2>3. /\ UNCHANGED <<session, index, issued, spent, settled, world, expired, delivered, known>>
          /\ locale' = l
          /\ wish' = IF \E d \in Callers \ {c} : CopiesUser(d) THEN "unclear" ELSE l
      BY <2>1 DEF SaveLocale, clients
    <2>4. WishInv'
      BY <1>0, <1>1, <2>2, <2>3 DEF Moves, WishInv, CopiesUser
    <2> QED
      BY <1>0, <1>1, <2>2, <2>3, <2>4, GoesOnKeepsInv
  <1>4. CASE \E selection \in Selections : Answer(c, selection)
    <2>1. PICK selection \in Selections : Answer(c, selection)
      BY <1>4
    <2>2. call[c].session \in Sessions /\ call[c].token \in Tokens
      BY <1>0, <2>1 DEF Answer, CallInv
    <2>3. /\ Moves(c, NoCall)
          /\ UNCHANGED <<session, index, issued, spent, settled, world, expired, locale, wish>>
          /\ delivered' \in {delivered, delivered \cup {call[c].token}}
          /\ known' \in {known, known \cup {call[c].session}}
      BY <2>1 DEF Answer, Moves, rows, clients, history
    <2>4. WishInv'
      BY <1>1, <2>3, WishStands
    <2> QED
      BY <1>0, <1>1, <2>2, <2>3, <2>4, GoesOnKeepsInv
  <1> QED
    BY <1>2, <1>3, <1>4

(* Writing a row whose token is that of no other session, and not of the   *)
(* copy that a logout of another one has.                                  *)
LEMMA WriteKeepsInv ==
  ASSUME SessionInv, NEW c \in Callers, NEW k, Moves(c, k), k.op # "logout",
         NEW s \in Sessions, NEW status \in {"active", "revoked"}, NEW t \in 1 .. issued', t \in Tokens,
         UpdateSession(s, status, t),
         issued' \in {issued, issued + 1},
         \A q \in Sessions \ {s} : session[q].token # t,
         \A d \in Callers \ {c} : Revoking(d) /\ call[d].token = t => call[d].session = s
  PROVE  /\ IndexIsExact'
         /\ \A q \in Sessions : RowInv(q)' /\ session'[q] = IF q = s THEN [status |-> status, token |-> t] ELSE session[q]
         /\ \A d \in Callers \ {c} : CallInv(d)' /\ call'[d] = call[d]
         /\ \A d \in Callers : OwnInv(d)'
         /\ \A d, e \in Callers : TwoInv(d, e)'
  <1>0. /\ session \in [Sessions -> [status : {"none", "active", "revoked"}, token : Tokens \cup {0}]]
        /\ index \in [Tokens -> Sessions \cup {NoSession}]
        /\ call \in [Callers -> CallType]
        /\ issued \in Nat
    BY DEF SessionInv, TypeOK, CallType
  <1>1. /\ \A q \in Sessions : session'[q] = IF q = s THEN [status |-> status, token |-> t] ELSE session[q]
        /\ \A u \in Tokens : index'[u] = IF u = t THEN s ELSE IF u = session[s].token THEN NoSession
                                                             ELSE index[u]
    BY <1>0 DEF UpdateSession
  <1>2. call'[c] = k /\ \A d \in Callers \ {c} : call'[d] = call[d]
    BY <1>0 DEF Moves
  <1>3. IndexIsExact'
    <2> SUFFICES ASSUME NEW u \in Tokens, NEW q \in Sessions PROVE index'[u] = q <=> session'[q].token = u
      BY DEF IndexIsExact
    <2>1. index[u] = q <=> session[q].token = u
      BY DEF SessionInv, IndexIsExact
    <2>2. index[u] = s <=> session[s].token = u
      BY DEF SessionInv, IndexIsExact
    <2> QED
      BY <1>1, <2>1, <2>2, Constants
  <1>4. \A q \in Sessions : RowInv(q)'
    BY <1>0, <1>1 DEF SessionInv, RowInv
  <1>5. \A d \in Callers \ {c} : CallInv(d)'
    <2>1. \A q \in Sessions : session[q] # NeverSaved => session'[q] # NeverSaved
      BY <1>1, Constants
    <2> QED
      BY <1>2, <2>1 DEF SessionInv, CallInv
  <1>6. \A d \in Callers : OwnInv(d)'
    <2>1. \A d \in Callers : Revoking(d)' => d # c /\ Revoking(d) /\ call'[d] = call[d]
      BY <1>2 DEF Revoking
    <2> SUFFICES ASSUME NEW d \in Callers \ {c}, Revoking(d), call'[d] = call[d] PROVE OwnInv(d)'
      BY <2>1 DEF OwnInv
    <2>2. OwnInv(d)
      BY DEF SessionInv
    <2> QED
      BY <1>0, <1>1, <2>2 DEF OwnInv
  <1>7. \A d, e \in Callers : TwoInv(d, e)'
    <2> SUFFICES ASSUME NEW d \in Callers, NEW e \in Callers, Revoking(d)', Revoking(e)',
                        call'[d].token = call'[e].token
                 PROVE  call'[d].session = call'[e].session
      BY DEF TwoInv
    <2>1. Revoking(d) /\ call'[d] = call[d] /\ Revoking(e) /\ call'[e] = call[e]
      BY <1>2 DEF Revoking
    <2> QED
      BY <2>1 DEF SessionInv, TwoInv
  <1> QED
    BY <1>1, <1>2, <1>3, <1>4, <1>5, <1>6, <1>7

(* The request of a write goes on without a copy of the session.           *)
LEMMA NobodyStartsRefreshing ==
  ASSUME SessionInv, NEW c \in Callers, NEW k, Moves(c, k),
         k.op # "refresh" \/ k.step \notin {"find user", "update session"}, NEW s
  PROVE  Refreshing(s)' => Refreshing(s)
  BY DEF SessionInv, TypeOK, Moves, Refreshing

(* A token that was never issued becomes the token of a session.           *)
LEMMA NextTokenIsNew ==
  ASSUME SessionInv, issued < MaxTokens, issued' = issued + 1
  PROVE  /\ issued + 1 \in Tokens /\ issued + 1 \in 1 .. issued' /\ issued' \in 0 .. MaxTokens
         /\ issued + 1 \notin spent
         /\ \A q \in Sessions : session[q].token # issued + 1
         /\ \A d \in Callers : Revoking(d) => call[d].token # issued + 1
         /\ 1 .. issued \subseteq 1 .. issued'
  <1>1. issued \in Nat /\ MaxTokens \in Nat
    BY Constants DEF SessionInv, TypeOK
  <1>2. /\ \A q \in Sessions : session[q].token # issued + 1
        /\ \A d \in Callers : Revoking(d) => call[d].token # issued + 1
    BY <1>1, Constants DEF SessionInv, RowInv, OwnInv
  <1> QED
    BY <1>1, <1>2 DEF SessionInv, Tokens

LEMMA SaveNewSessionKeepsInv ==
  ASSUME SessionInv, NEW c \in Callers, SaveNewSession(c) PROVE SessionInv'
  <1>0. call \in [Callers -> CallType] /\ CallInv(c) /\ TypeOK
    BY DEF SessionInv, TypeOK, CallType
  <1>1. PICK s \in Sessions :
          /\ session[s] = NeverSaved
          /\ SaveSession(s, issued + 1)
          /\ call' = [call EXCEPT ![c].session = s, ![c].token = issued + 1, ![c].step = "update user"]
    BY DEF SaveNewSession
  <1> DEFINE k == [call[c] EXCEPT !.session = s, !.token = issued + 1, !.step = "update user"]
  <1>2. /\ call[c].step = "save session" /\ call[c].op = "login"
        /\ issued < MaxTokens /\ issued' = issued + 1
        /\ UNCHANGED <<world, locale, expired, delivered, known, spent, settled, wish>>
    BY <1>0 DEF SaveNewSession, CallInv, clients, history
  <1>3. Moves(c, k)
    BY <1>0, <1>1 DEF Moves
  <1>4. /\ issued + 1 \in Tokens /\ issued + 1 \in 1 .. issued' /\ issued' \in 0 .. MaxTokens
        /\ issued + 1 \notin spent
        /\ \A q \in Sessions : session[q].token # issued + 1
        /\ \A d \in Callers : Revoking(d) => call[d].token # issued + 1
        /\ 1 .. issued \subseteq 1 .. issued'
    BY <1>2, NextTokenIsNew
  <1>5. k \in CallType /\ k.op = "login" /\ k.step = "update user" /\ k.session = s
        /\ k.token = issued + 1 /\ k.locale = call[c].locale
    BY <1>0, <1>2, <1>4 DEF CallType, Steps
  <1>6. UpdateSession(s, "active", issued + 1)
    <2>1. session[s].token \notin Tokens
      BY <1>1, Constants
    <2>2. [index EXCEPT ![session[s].token] = NoSession] = index
      BY <1>0, <2>1 DEF TypeOK
    <2> QED
      BY <1>1, <2>2 DEF SaveSession, UpdateSession
  <1> HIDE DEF k
  <1>7. /\ IndexIsExact'
        /\ \A q \in Sessions : /\ RowInv(q)'
                             /\ session'[q] = IF q = s THEN [status |-> "active", token |-> issued + 1]
                                                       ELSE session[q]
        /\ \A d \in Callers \ {c} : CallInv(d)' /\ call'[d] = call[d]
        /\ \A d \in Callers : OwnInv(d)'
        /\ \A d, e \in Callers : TwoInv(d, e)'
    <2>1. /\ k.op # "logout" /\ issued' \in {issued, issued + 1}
          /\ \A q \in Sessions \ {s} : session[q].token # issued + 1
          /\ \A d \in Callers \ {c} : Revoking(d) /\ call[d].token = issued + 1 => call[d].session = s
      BY <1>2, <1>4, <1>5
    <2> QED
      BY <1>3, <1>4, <2>1, <1>6, WriteKeepsInv
  <1>8. call'[c] = k /\ call' \in [Callers -> CallType]
    BY <1>0, <1>3, <1>5 DEF Moves
  <1>9. CallInv(c)'
    BY <1>0, <1>2, <1>4, <1>5, <1>8 DEF CallInv
  <1>10. \A q \in Sessions : ActiveInv(q)'
    <2> SUFFICES ASSUME NEW q \in Sessions PROVE ActiveInv(q)'
      OBVIOUS
    <2>1. ActiveInv(q) /\ issued + 1 \notin spent'
      BY <1>2, <1>4 DEF SessionInv
    <2>2. session'[q].token = issued + 1 \/ session'[q] = session[q]
      BY <1>7
    <2> QED
      BY <1>2, <2>1, <2>2 DEF ActiveInv
  <1>11. \A q \in Sessions : SettledInv(q)'
    <2> SUFFICES ASSUME NEW q \in Sessions, q \in settled PROVE SettledInv(q)'
      BY <1>2 DEF SettledInv
    <2>1. session[q].status = "revoked" /\ ~Refreshing(q)
      BY DEF SessionInv, SettledInv
    <2>2. q # s
      BY <1>1, <2>1, Constants
    <2>3. ~Refreshing(q)'
      BY <1>3, <1>5, <2>1, NobodyStartsRefreshing
    <2> QED
      BY <1>7, <2>1, <2>2, <2>3 DEF SettledInv
  <1>12. WishInv'
    BY <1>2, <1>3, <1>5, WishStands
  <1>13. TypeOK'
    <2>1. /\ session' \in [Sessions -> [status : {"none", "active", "revoked"}, token : Tokens \cup {0}]]
          /\ index' \in [Tokens -> Sessions \cup {NoSession}]
      BY <1>0, <1>4, <1>6 DEF TypeOK, UpdateSession
    <2> QED
      BY <1>0, <1>2, <1>4, <1>8, <2>1 DEF TypeOK, CallType
  <1>14. (spent \subseteq 1 .. issued)'
    BY <1>2, <1>4 DEF SessionInv
  <1> QED
    BY <1>7, <1>9, <1>10, <1>11, <1>12, <1>13, <1>14 DEF SessionInv

LEMMA RotateSessionKeepsInv ==
  ASSUME SessionInv, NEW c \in Callers, RotateSession(c) PROVE SessionInv'
  <1>0. call \in [Callers -> CallType] /\ CallInv(c) /\ TypeOK
    BY DEF SessionInv, TypeOK, CallType
  <1>a. call[c].op = "refresh" /\ call[c].step = "update session"
    BY DEF RotateSession
  <1>b. PICK s \in Sessions : s = call[c].session
    BY <1>0, <1>a DEF CallInv
  <1> DEFINE k == [call[c] EXCEPT !.token = issued + 1, !.step = "update user"]
  <1>1. /\ call[c].op = "refresh" /\ call[c].step = "update session"
        /\ s \in Sessions /\ session[s] # NeverSaved /\ call[c].locale \in Locales
    BY <1>0, <1>a, <1>b DEF CallInv
  <1>c. Refreshing(s)
    BY <1>1, <1>b DEF Refreshing
  <1>2. /\ issued < MaxTokens /\ issued' = issued + 1
        /\ UpdateSession(s, "active", issued + 1)
        /\ spent' = spent \cup {session[s].token}
        /\ call' = [call EXCEPT ![c].token = issued + 1, ![c].step = "update user"]
        /\ UNCHANGED <<world, locale, expired, delivered, known, settled, wish>>
    BY <1>b DEF RotateSession, clients
  <1>3. Moves(c, k)
    BY <1>0, <1>2 DEF Moves
  <1>4. /\ issued + 1 \in Tokens /\ issued + 1 \in 1 .. issued' /\ issued' \in 0 .. MaxTokens
        /\ issued + 1 \notin spent
        /\ \A q \in Sessions : session[q].token # issued + 1
        /\ \A d \in Callers : Revoking(d) => call[d].token # issued + 1
        /\ 1 .. issued \subseteq 1 .. issued'
    BY <1>2, NextTokenIsNew
  <1>5. k \in CallType /\ k.op = "refresh" /\ k.step = "update user" /\ k.session = s
        /\ k.token = issued + 1 /\ k.locale = call[c].locale
    BY <1>0, <1>1, <1>4, <1>b DEF CallType, Steps
  <1>6. /\ session[s].token \in 1 .. issued /\ session[s].token \in Tokens
        /\ \A q \in Sessions : session[q].token = session[s].token => q = s
    BY <1>1, OneRowPerToken
  <1> HIDE DEF k
  <1>7. /\ IndexIsExact'
        /\ \A q \in Sessions : /\ RowInv(q)'
                             /\ session'[q] = IF q = s THEN [status |-> "active", token |-> issued + 1]
                                                       ELSE session[q]
        /\ \A d \in Callers \ {c} : CallInv(d)' /\ call'[d] = call[d]
        /\ \A d \in Callers : OwnInv(d)'
        /\ \A d, e \in Callers : TwoInv(d, e)'
    <2>1. /\ k.op # "logout" /\ issued' \in {issued, issued + 1}
          /\ \A q \in Sessions \ {s} : session[q].token # issued + 1
          /\ \A d \in Callers \ {c} : Revoking(d) /\ call[d].token = issued + 1 => call[d].session = s
      BY <1>2, <1>4, <1>5
    <2>2. issued + 1 \in Tokens /\ issued + 1 \in 1 .. issued' /\ UpdateSession(s, "active", issued + 1)
      BY <1>2, <1>4
    <2> QED
      BY <1>3, <2>1, <2>2, WriteKeepsInv
  <1>8. call'[c] = k /\ call' \in [Callers -> CallType]
    BY <1>0, <1>3, <1>5 DEF Moves
  <1>9. CallInv(c)'
    <2>1. session'[s] # NeverSaved
      <3>1. session'[s].status = "active"
        BY <1>7
      <3> QED
        BY <3>1, Constants
    <2> QED
      BY <1>1, <1>4, <1>5, <1>8, <2>1 DEF CallInv
  <1>10. \A q \in Sessions : ActiveInv(q)'
    <2> SUFFICES ASSUME NEW q \in Sessions PROVE ActiveInv(q)'
      OBVIOUS
    <2>1. ActiveInv(q) /\ issued \in Nat
      BY <1>0 DEF SessionInv, TypeOK
    <2>2. CASE q = s
      <3>1. session'[q].token = issued + 1
        BY <1>7, <2>2
      <3>2. issued + 1 # session[s].token
        BY <1>6, <2>1
      <3> QED
        BY <1>2, <1>4, <3>1, <3>2 DEF ActiveInv
    <2>3. CASE q # s
      <3>1. session'[q] = session[q] /\ session[q].token # session[s].token
        BY <1>6, <1>7, <2>3
      <3> QED
        BY <1>2, <2>1, <3>1 DEF ActiveInv
    <2> QED
      BY <2>2, <2>3
  <1>11. \A q \in Sessions : SettledInv(q)'
    <2> SUFFICES ASSUME NEW q \in Sessions, q \in settled PROVE SettledInv(q)'
      BY <1>2 DEF SettledInv
    <2>1. session[q].status = "revoked" /\ ~Refreshing(q)
      BY DEF SessionInv, SettledInv
    <2>2. q # s
      BY <1>c, <2>1
    <2>3. ~Refreshing(q)'
      BY <1>3, <1>5, <2>1, NobodyStartsRefreshing
    <2> QED
      BY <1>7, <2>1, <2>2, <2>3 DEF SettledInv
  <1>12. WishInv'
    BY <1>2, <1>3, <1>5, WishStands
  <1>13. TypeOK'
    <2>1. /\ session' \in [Sessions -> [status : {"none", "active", "revoked"}, token : Tokens \cup {0}]]
          /\ index' \in [Tokens -> Sessions \cup {NoSession}]
      BY <1>0, <1>1, <1>2, <1>4 DEF TypeOK, UpdateSession
    <2>2. spent' \subseteq Tokens
      BY <1>0, <1>2, <1>6 DEF TypeOK
    <2> QED
      BY <1>0, <1>2, <1>4, <1>8, <2>1, <2>2 DEF TypeOK, CallType
  <1>14. (spent \subseteq 1 .. issued)'
    BY <1>2, <1>4, <1>6 DEF SessionInv
  <1> QED
    BY <1>7, <1>9, <1>10, <1>11, <1>12, <1>13, <1>14 DEF SessionInv

LEMMA RevokeKeepsInv ==
  ASSUME SessionInv, NEW c \in Callers, Revoke(c) PROVE SessionInv'
  <1>0. call \in [Callers -> CallType] /\ CallInv(c) /\ TypeOK
    BY DEF SessionInv, TypeOK, CallType
  <1> DEFINE s == call[c].session
             t == call[c].token
  <1>1. /\ s \in Sessions /\ session[s] # NeverSaved /\ Revoking(c)
        /\ t \in 1 .. issued /\ \A q \in Sessions \ {s} : session[q].token # t
    BY <1>0 DEF Revoke, CallInv, Revoking, SessionInv, OwnInv
  <1>2. /\ UpdateSession(s, "revoked", t)
        /\ settled' = IF Refreshing(s) THEN settled ELSE settled \cup {s}
        /\ Moves(c, NoCall)
        /\ UNCHANGED <<world, locale, expired, issued, delivered, known, spent, wish>>
    BY DEF Revoke, Moves, clients
  <1>3. t \in Tokens
    <2>1. issued \in 0 .. MaxTokens
      BY <1>0 DEF TypeOK
    <2> QED
      BY <1>1, <2>1, Constants DEF Tokens
  <1>4. \A d \in Callers \ {c} : Revoking(d) /\ call[d].token = t => call[d].session = s
    BY <1>1 DEF SessionInv, TwoInv
  <1> HIDE DEF s, t
  <1>5. /\ IndexIsExact'
        /\ \A q \in Sessions : /\ RowInv(q)'
                             /\ session'[q] = IF q = s THEN [status |-> "revoked", token |-> t]
                                                       ELSE session[q]
        /\ \A d \in Callers \ {c} : CallInv(d)' /\ call'[d] = call[d]
        /\ \A d \in Callers : OwnInv(d)'
        /\ \A d, e \in Callers : TwoInv(d, e)'
    BY <1>1, <1>2, <1>3, <1>4, Constants, WriteKeepsInv
  <1>6. call'[c] = NoCall /\ call' \in [Callers -> CallType]
    BY <1>0, <1>2, Constants DEF Moves, NoCall, CallType, Operations, Steps
  <1>7. CallInv(c)'
    BY <1>6, Constants DEF CallInv
  <1>8. \A q \in Sessions : ActiveInv(q)'
    BY <1>2, <1>5 DEF SessionInv, ActiveInv
  <1>9. \A q \in Sessions : SettledInv(q)'
    <2> SUFFICES ASSUME NEW q \in Sessions, q \in settled' PROVE session'[q].status = "revoked" /\ ~Refreshing(q)'
      BY DEF SettledInv
    <2>1. Refreshing(q)' => Refreshing(q)
      BY <1>2, Constants, NobodyStartsRefreshing
    <2>2. CASE q \in settled
      BY <1>5, <2>1, <2>2 DEF SessionInv, SettledInv
    <2>3. CASE q = s /\ ~Refreshing(s)
      BY <1>5, <2>1, <2>3
    <2> QED
      BY <1>2, <2>2, <2>3
  <1>10. WishInv'
    BY <1>2, Constants, WishStands
  <1>11. TypeOK'
    <2>1. /\ session' \in [Sessions -> [status : {"none", "active", "revoked"}, token : Tokens \cup {0}]]
          /\ index' \in [Tokens -> Sessions \cup {NoSession}]
      BY <1>0, <1>1, <1>2, <1>3 DEF TypeOK, UpdateSession
    <2> QED
      BY <1>0, <1>1, <1>2, <1>6, <2>1 DEF TypeOK, CallType
  <1>12. (spent \subseteq 1 .. issued)'
    BY <1>2 DEF SessionInv
  <1> QED
    BY <1>5, <1>7, <1>8, <1>9, <1>10, <1>11, <1>12 DEF SessionInv

LEMMA ExpireKeepsInv ==
  ASSUME SessionInv, NEW t \in Tokens, Expire(t) PROVE SessionInv'
  <1>1. TypeOK'
    BY DEF SessionInv, TypeOK, Expire, rows, clients, history
  <1> QED
    BY <1>1 DEF SessionInv, Expire, rows, history, IndexIsExact, RowInv, ActiveInv, SettledInv, Refreshing,
                CallInv, OwnInv, TwoInv, Revoking, WishInv, CopiesUser

LEMMA StutteringKeepsInv ==
  ASSUME SessionInv, UNCHANGED vars PROVE SessionInv'
  <1>1. UNCHANGED <<world, session, index, locale, expired, issued, call, delivered, known, spent, settled, wish>>
    BY DEF vars, rows, clients, history
  <1>2. TypeOK' /\ IndexIsExact' /\ (spent \subseteq 1 .. issued)'
    BY <1>1 DEF SessionInv, TypeOK, IndexIsExact
  <1>3. \A s \in Sessions : RowInv(s)' /\ ActiveInv(s)' /\ SettledInv(s)'
    BY <1>1 DEF SessionInv, RowInv, ActiveInv, SettledInv, Refreshing
  <1>4. \A c \in Callers : CallInv(c)' /\ OwnInv(c)'
    BY <1>1 DEF SessionInv, CallInv, OwnInv, Revoking
  <1>5. (\A c, d \in Callers : TwoInv(c, d)') /\ WishInv'
    BY <1>1 DEF SessionInv, TwoInv, Revoking, WishInv, CopiesUser
  <1> QED
    BY <1>2, <1>3, <1>4, <1>5 DEF SessionInv

LEMMA StepKeepsInv ==
  SessionInv /\ [Next]_vars => SessionInv'
  <1> SUFFICES ASSUME SessionInv, [Next]_vars PROVE SessionInv'
    OBVIOUS
  <1>1. ASSUME NEW c \in Callers,
               \/ FindByUsername(c)
               \/ \E t \in Tokens : FindByRefreshToken(c, t)
               \/ \E s \in Sessions : BeginLogout(c, s) \/ BeginLocale(c, s)
        PROVE  SessionInv'
    BY <1>1, BeginKeepsInv
  <1>2. ASSUME NEW c \in Callers, FindUser(c) \/ FindSessionByID(c) PROVE SessionInv'
    BY <1>2, ReadKeepsInv
  <1>3. ASSUME NEW c \in Callers,
               \/ UpdateLastLogin(c)
               \/ \E l \in Locales : SaveLocale(c, l)
               \/ \E selection \in Selections : Answer(c, selection)
        PROVE  SessionInv'
    BY <1>3, UserKeepsInv
  <1>4. ASSUME NEW c \in Callers, SaveNewSession(c) \/ RotateSession(c) \/ Revoke(c) PROVE SessionInv'
    BY <1>4, SaveNewSessionKeepsInv, RotateSessionKeepsInv, RevokeKeepsInv
  <1>5. ASSUME NEW t \in Tokens, Expire(t) PROVE SessionInv'
    BY <1>5, ExpireKeepsInv
  <1>6. CASE UNCHANGED vars
    BY <1>6, StutteringKeepsInv
  <1>7. CASE Next
    BY <1>1, <1>2, <1>3, <1>4, <1>5, <1>7 DEF Next
  <1> QED
    BY <1>6, <1>7

THEOREM SessionInvariance == Spec => []SessionInv
  <1> QED
    BY InitIsConsistent, StepKeepsInv, PTL DEF Spec

-----------------------------------------------------------------------------

(* The state keeps its type: rows, index and copies, with a status that is *)
(* active or revoked (model.go:20) and never another.                      *)
THEOREM TypeCorrectness == Spec => []TypeOK
  <1>1. SessionInv => TypeOK
    BY DEF SessionInv
  <1> QED
    BY <1>1, SessionInvariance, PTL

(* The index of refresh tokens is exact although sessions are written from *)
(* copies read before (memory_store.go:163).                               *)
THEOREM IndexStaysExact == Spec => []IndexIsExact
  <1>1. SessionInv => IndexIsExact
    BY DEF SessionInv
  <1> QED
    BY <1>1, SessionInvariance, PTL

(* A logout stands, unless a refresh of the session was under way when it  *)
(* was written: that one had read the session before, and its write        *)
(* undoes the logout (service.go:169).                                     *)
THEOREM SettledLogoutsStand == Spec => []SettledIsRevoked
  <1>1. SessionInv => SettledIsRevoked
    BY DEF SessionInv, TypeOK, SettledInv, SettledIsRevoked
  <1> QED
    BY <1>1, SessionInvariance, PTL

(* A saved locale stands against everything but a copy of the user's row   *)
(* made before (service.go:185).                                           *)
THEOREM LocaleStands == Spec => []LocaleIsTheWish
  <1>1. SessionInv => LocaleIsTheWish
    BY DEF SessionInv, WishInv, LocaleIsTheWish
  <1> QED
    BY <1>1, SessionInvariance, PTL

(* The only way a request becomes a refresh is FindByRefreshToken, which   *)
(* wants a row that is active (service.go:113); an active row never has a  *)
(* token that a rotation has replaced.                                     *)
LEMMA ActiveTokensAreFresh ==
  ASSUME SessionInv, [Next]_vars, NEW c \in Callers, Idle(c), call'[c].op = "refresh"
  PROVE  call'[c].token \notin spent
  <1>0. call \in [Callers -> CallType]
    BY DEF SessionInv, TypeOK, CallType
  <1>1. call[c].op = "none" /\ call[c].step = "none"
    BY Constants DEF Idle
  <1>2. CASE \E d \in Callers, t \in Tokens : FindByRefreshToken(d, t)
    <2>1. PICK d \in Callers, t \in Tokens : FindByRefreshToken(d, t)
      BY <1>2
    <2>2. d = c
      BY <1>0, <1>1, <2>1 DEF FindByRefreshToken
    <2>3. /\ index[t] \in Sessions /\ session[index[t]].status = "active"
          /\ call'[c].token = session[index[t]].token
      BY <1>0, <2>1, <2>2 DEF FindByRefreshToken, Live, SessionInv, TypeOK, NoCall
    <2> QED
      BY <2>3 DEF SessionInv, ActiveInv
  <1>3. ASSUME NEW d \in Callers, NEW e \in Sessions, BeginLogout(d, e) \/ BeginLocale(d, e) PROVE FALSE
    BY <1>0, <1>1, <1>3 DEF BeginLogout, BeginLocale, Authenticated, NoCall
  <1>4. ASSUME NEW d \in Callers, SaveNewSession(d) \/ RotateSession(d) \/ FindSessionByID(d) PROVE FALSE
    BY <1>0, <1>1, <1>4 DEF SaveNewSession, RotateSession, FindSessionByID
  <1>5. ASSUME NEW d \in Callers, FindUser(d) \/ UpdateLastLogin(d) PROVE FALSE
    BY <1>0, <1>1, <1>5 DEF FindUser, UpdateLastLogin
  <1>6. ASSUME NEW d \in Callers, Revoke(d) PROVE FALSE
    BY <1>0, <1>1, <1>6, Constants DEF Revoke
  <1>7. ASSUME NEW d \in Callers, NEW l \in Locales, SaveLocale(d, l) PROVE FALSE
    BY <1>0, <1>1, <1>7, Constants DEF SaveLocale
  <1>8. ASSUME NEW d \in Callers, NEW selection \in Selections, Answer(d, selection) PROVE FALSE
    BY <1>0, <1>1, <1>8, Constants DEF Answer
  <1>9. call' # call
    BY <1>1
  <1>10. Next /\ ~\E t \in Tokens : Expire(t)
    BY <1>9 DEF vars, Expire
  <1>11. CASE \E d \in Callers : FindByUsername(d)
    BY <1>0, <1>1, <1>11 DEF FindByUsername, NoCall
  <1> QED
    BY <1>2, <1>3, <1>4, <1>5, <1>6, <1>7, <1>8, <1>10, <1>11 DEF Next

(* A refresh that begins after its token was replaced is refused           *)
(* (service.go:113).  Two refreshes that both read the session before      *)
(* either replaced the token are both let in.                              *)
THEOREM SpentTokensStayRefused == Spec => SpentTokensAreRefused
  <1>1. SessionInv /\ [Next]_vars
          => [\A c \in Callers :
                Idle(c) /\ call'[c].op = "refresh" => call'[c].token \notin spent]_vars
    BY ActiveTokensAreFresh
  <1> QED
    BY <1>1, SessionInvariance, PTL DEF Spec, SpentTokensAreRefused

-----------------------------------------------------------------------------
(* The scope of a request.                                                 *)

(* Choose never substitutes: what it returns can be reached, and is what   *)
(* was asked for if anything was.                                          *)
LEMMA ChoosesReachable ==
  ASSUME NEW requested, NEW reachable, reachable \subseteq Nat \ {0}
  PROVE  /\ Choose(requested, reachable) \in reachable \cup {0}
         /\ Choose(requested, reachable) # 0 => requested \in {0, Choose(requested, reachable)}
         /\ requested \in reachable => Choose(requested, reachable) = requested
  <1>1. CASE requested \in reachable
    BY <1>1 DEF Choose
  <1>2. CASE requested \notin reachable /\ requested = 0 /\ reachable # {}
    <2>1. PICK k \in reachable : \A m \in reachable : ~ (<<m, k>> \in OpToRel(<, Nat))
      BY <1>2, NatLessThanWellFounded, WFMin
    <2>2. \A m \in reachable : ~ (m < k)
      BY <2>1 DEF OpToRel
    <2>3. Choose(requested, reachable) = CHOOSE x \in reachable : \A y \in reachable : x <= y
      BY <1>2 DEF Choose
    <2>4. \A m \in reachable : k <= m
      BY <2>2
    <2> QED
      BY <1>2, <2>3, <2>4
  <1>3. CASE requested \notin reachable /\ ~(requested = 0 /\ reachable # {})
    BY <1>3 DEF Choose
  <1> QED
    BY <1>1, <1>2, <1>3

openProjects(w, t) ==
  UNION {projectsOpenedBy(w, b, t) : b \in {x \in ActiveBindings(w) : x.tenant = t}}
openEnvironments(w, p) == UNION {environmentsOpenedBy(w, b, p) : b \in ActiveBindings(w)}

LEMMA OpenAreActive ==
  ASSUME NEW w \in World, NEW t, NEW p
  PROVE  /\ {b.tenant : b \in ActiveBindings(w)} \subseteq Nat \ {0}
         /\ openProjects(w, t) \subseteq {q \in w.projects : TenantOf[q] = t}
         /\ openEnvironments(w, p) \subseteq {e \in w.environments : ProjectOf[e] = p}
         /\ w.projects \cup w.environments \subseteq Nat \ {0}
  <1>1. /\ {b.tenant : b \in ActiveBindings(w)} \subseteq Nat \ {0}
        /\ w.projects \cup w.environments \subseteq Nat \ {0}
    BY TenancyAssumption DEF TenancyAssumption, World, Binding, ActiveBindings
  <1>2. openProjects(w, t) \subseteq {q \in w.projects : TenantOf[q] = t}
    <2>1. \A b : projectsOpenedBy(w, b, t) \subseteq projectsOf(w, t)
      BY DEF projectsOpenedBy
    <2> QED
      BY <2>1 DEF openProjects, projectsOf
  <1>3. openEnvironments(w, p) \subseteq {e \in w.environments : ProjectOf[e] = p}
    <2>1. \A b : environmentsOpenedBy(w, b, p) \subseteq environmentsOf(w, p)
      BY DEF environmentsOpenedBy
    <2> QED
      BY <2>1 DEF openEnvironments, environmentsOf
  <1> QED
    BY <1>1, <1>2, <1>3

LEMMA ResolvedIsCoherent ==
  ASSUME NEW w \in World, NEW selection
  PROVE  Coherent(w, selection)
  <1> DEFINE t == selectTenant(w, selection.tenant)
             p == selectProject(w, t, selection.project)
             e == selectEnvironment(w, p, selection.environment)
             r == Resolve(w, selection)
  <1> SUFFICES ASSUME r.ok
               PROVE  /\ r.tenant \in w.tenants /\ r.project \in w.projects /\ r.environment \in w.environments
                      /\ TenantOf[r.project] = r.tenant /\ ProjectOf[r.environment] = r.project
                      /\ selection.tenant \in {0, r.tenant}
                      /\ selection.project \in {0, r.project}
                      /\ selection.environment \in {0, r.environment}
    BY DEF Coherent
  <1>1. t \in w.tenants /\ p # 0 /\ e # 0 /\ r.tenant = t /\ r.project = p /\ r.environment = e
    BY DEF Resolve, Refused
  <1>2. t # 0
    BY <1>1, TenancyAssumption DEF TenancyAssumption, World
  <1>3. /\ t = Choose(selection.tenant, {b.tenant : b \in ActiveBindings(w)})
        /\ p = Choose(selection.project, openProjects(w, t))
        /\ e = Choose(selection.environment, openEnvironments(w, p))
    BY DEF selectTenant, selectProject, selectEnvironment, openProjects, openEnvironments
  <1> HIDE DEF t, p, e, r
  <1>4. selection.tenant \in {0, t}
    BY <1>2, <1>3, OpenAreActive, ChoosesReachable
  <1>5. openProjects(w, t) \subseteq Nat \ {0} /\ openEnvironments(w, p) \subseteq Nat \ {0}
    BY OpenAreActive
  <1>6. p \in openProjects(w, t) /\ selection.project \in {0, p}
    BY <1>1, <1>3, <1>5, ChoosesReachable
  <1>7. e \in openEnvironments(w, p) /\ selection.environment \in {0, e}
    BY <1>1, <1>3, <1>5, ChoosesReachable
  <1> QED
    BY <1>1, <1>4, <1>6, <1>7, OpenAreActive

LEMMA CoveredIsReached ==
  ASSUME NEW w \in World, NEW b \in ActiveBindings(w), WellBound(b), NEW e \in Covers(w, b)
  PROVE  Reached(w, b, e)
  <1> DEFINE p == ProjectOf[e]
             t == TenantOf[p]
             selection == [tenant |-> t, project |-> p, environment |-> e]
  <1>1. /\ e \in w.environments /\ p \in w.projects /\ t \in w.tenants
        /\ bindingAppliesToContext(b, t, p, e)
    BY DEF Covers
  <1>2. p # 0 /\ e # 0
    BY <1>1, OpenAreActive
  <1>3. b.scope \in Levels /\ b.scope = LevelOf[b.role]
    BY DEF ActiveBindings, World, Binding, WellBound
  <1>4. b.tenant = t
    BY <1>1, <1>3 DEF bindingAppliesToContext, WellBound, Levels
  <1>5. p \in projectsOpenedBy(w, b, t)
    BY <1>1, <1>3 DEF projectsOpenedBy, projectsOf, bindingAppliesToContext, Levels
  <1>6. e \in environmentsOpenedBy(w, b, p)
    BY <1>1, <1>3 DEF environmentsOpenedBy, environmentsOf, bindingAppliesToContext, Levels
  <1>7. /\ t \in {x.tenant : x \in ActiveBindings(w)}
        /\ p \in openProjects(w, t) /\ e \in openEnvironments(w, p)
    BY <1>4, <1>5, <1>6 DEF openProjects, openEnvironments
  <1> HIDE DEF p, t
  <1>8. /\ selectTenant(w, t) = t /\ selectProject(w, t, p) = p /\ selectEnvironment(w, p, e) = e
    <2>1. openProjects(w, t) \subseteq Nat \ {0} /\ openEnvironments(w, p) \subseteq Nat \ {0}
      BY OpenAreActive
    <2>2. /\ Choose(t, {x.tenant : x \in ActiveBindings(w)}) = t
          /\ Choose(p, openProjects(w, t)) = p /\ Choose(e, openEnvironments(w, p)) = e
      BY <1>7, <2>1, OpenAreActive, ChoosesReachable
    <2> QED
      BY <2>2 DEF selectTenant, selectProject, selectEnvironment, openProjects, openEnvironments
  <1>9. Resolve(w, selection) = [ok |-> TRUE, tenant |-> t, project |-> p, environment |-> e,
                                 roles |-> RolesIn(w, t, p, e)]
    BY <1>1, <1>2, <1>8 DEF Resolve
  <1>10. b.role \in RolesIn(w, t, p, e)
    BY <1>1 DEF RolesIn
  <1> QED
    BY <1>9, <1>10 DEF Reached, p, t

(* Resolve answers with an active chain and never with a substitute for    *)
(* what was asked (tenancy/service.go:142), and a user reaches all that a   *)
(* binding covers, with its role, at whatever level it is bound            *)
(* (tenancy/service.go:188): whatever ids and worlds there are, as long as *)
(* roles are bound at their own level (WellBound).                         *)
THEOREM ScopesAlwaysResolve == Spec => []ScopesResolve
  <1>1. SessionInv => ScopesResolve
    <2> SUFFICES ASSUME world \in Worlds PROVE ScopesResolve
      BY DEF SessionInv, TypeOK
    <2>1. world \in World /\ \A b \in world.bindings : WellBound(b)
      BY WorldsAssumption DEF WorldsAssumption
    <2>2. \A b \in ActiveBindings(world) : WellBound(b)
      BY <2>1 DEF ActiveBindings
    <2> QED
      BY <2>1, <2>2, ResolvedIsCoherent, CoveredIsReached DEF ScopesResolve
  <1> QED
    BY <1>1, SessionInvariance, PTL
=============================================================================
