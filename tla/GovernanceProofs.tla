-------------------------- MODULE GovernanceProofs --------------------------
(***************************************************************************)
(* Proofs about Registry and Governance, for any number of resources,      *)
(* requests and workers.                                                   *)
(*                                                                         *)
(* UpsertIssued looks for a workflow's version in one asset only.  That a  *)
(* repeated completion finds it there rests on three facts that no single  *)
(* operation shows: a request keeps the asset id and the name it was       *)
(* submitted with, assets are never renamed, and the index of names never  *)
(* lets go of an asset.  So every request has a home (HomeOf) that stays,  *)
(* and its version is there or nowhere.                                    *)
(***************************************************************************)
EXTENDS Governance, FiniteSetTheorems, SequenceTheorems, TLAPS

-----------------------------------------------------------------------------
(* The registry.                                                           *)

LEMMA KindIs ==
  ASSUME NEW k \in Kinds, NEW x \in k
  PROVE  KindOf(x) = k /\ x \in Resources /\ x # None
  <1>1. \A l \in Kinds : x \in l => l = k
    BY RegistryAssumption DEF RegistryAssumption
  <1>2. x \in Resources
    BY DEF Resources
  <1> QED
    BY <1>1, <1>2, RegistryAssumption DEF KindOf, RegistryAssumption

LEMMA KindsAre == {Domains, Credentials, Accounts, Targets, Endpoints, Assets} \subseteq Kinds
  BY DEF Kinds

Writes(k, x, n, g) == name' = [name EXCEPT ![x] = n] /\ index' = [index EXCEPT ![k] = g]

(* Resource x of kind k takes the name n, which nobody else bears.         *)
LEMMA NamingKeepsIndex ==
  ASSUME RegistryTypeOK, NamesAreIndexed, NEW k \in Kinds, NEW x \in k, NEW n \in Names,
         index[k][n] \in {None, x},
         NEW g \in [Names -> Resources \cup {None}], Writes(k, x, n, g),
         g[n] = x, \A m \in Names \ {n} : g[m] = IF m = name[x] THEN None ELSE index[k][m]
  PROVE  /\ NamesAreIndexed'
         /\ name' \in [Resources -> Names \cup {None}]
         /\ index' \in [Kinds -> [Names -> Resources \cup {None}]]
         /\ name'[x] = n /\ \A y \in Resources \ {x} : name'[y] = name[y]
         /\ index'[k][n] = x /\ \A l \in Kinds \ {k} : index'[l] = index[l]
  <1>1. /\ name \in [Resources -> Names \cup {None}] /\ x \in Resources /\ x # None
        /\ index \in [Kinds -> [Names -> Resources \cup {None}]] /\ None \notin Names
    BY KindIs, RegistryAssumption DEF RegistryTypeOK, RegistryAssumption
  <1>2. /\ name' \in [Resources -> Names \cup {None}]
        /\ name'[x] = n /\ \A y \in Resources \ {x} : name'[y] = name[y]
    BY <1>1 DEF Writes
  <1>3. /\ index' \in [Kinds -> [Names -> Resources \cup {None}]]
        /\ index'[k] = g /\ \A l \in Kinds \ {k} : index'[l] = index[l]
    BY <1>1 DEF Writes
  <1>4. ASSUME NEW l \in Kinds, NEW m \in Names
        PROVE  /\ index'[l][m] \in l \cup {None}
               /\ \A y \in l : index'[l][m] = y <=> name'[y] = m
    <2>1. /\ index[l][m] \in l \cup {None}
          /\ \A y \in l : index[l][m] = y <=> name[y] = m
      BY DEF NamesAreIndexed
    <2>2. \A y \in l : y \in Resources /\ y # None
      BY KindIs
    <2>3. CASE l # k
      <3>1. x \notin l
        BY <2>3, KindIs
      <3> QED
        BY <1>2, <1>3, <2>1, <2>2, <2>3, <3>1
    <2>4. CASE l = k /\ m = n
      <3>1. \A y \in k \ {x} : name[y] # n
        BY <2>1, <2>2, <2>4
      <3> QED
        BY <1>2, <1>3, <2>2, <2>4, <3>1
    <2>5. CASE l = k /\ m # n
      <3>1. index'[k][m] = IF m = name[x] THEN None ELSE index[k][m]
        BY <1>3, <2>5
      <3>2. CASE m = name[x]
        <4>1. \A y \in k \ {x} : name[y] # m
          BY <2>1, <2>5, <3>2
        <4> QED
          BY <1>2, <2>2, <2>5, <3>1, <3>2, <4>1
      <3>3. CASE m # name[x]
        BY <1>2, <2>1, <2>2, <2>5, <3>1, <3>3
      <3> QED
        BY <3>2, <3>3
    <2> QED
      BY <2>3, <2>4, <2>5
  <1>5. NamesAreIndexed'
    BY <1>4 DEF NamesAreIndexed
  <1> QED
    BY <1>2, <1>3, <1>5

LEMMA WritesKeepIndex ==
  ASSUME RegistryTypeOK, NamesAreIndexed, NEW k \in Kinds, NEW x \in k, NEW n \in Names,
         Create(x, n) \/ Rename(x, n)
  PROVE  /\ NamesAreIndexed'
         /\ name' \in [Resources -> Names \cup {None}]
         /\ index' \in [Kinds -> [Names -> Resources \cup {None}]]
         /\ name'[x] = n /\ \A y \in Resources \ {x} : name'[y] = name[y]
         /\ index'[k][n] = x /\ \A l \in Kinds \ {k} : index'[l] = index[l]
         /\ Create(x, n) => index[k][n] = None /\ \A m \in Names \ {n} : index'[k][m] = index[k][m]
  <1>1. /\ KindOf(x) = k /\ x \in Resources /\ None \notin Names /\ x # None
        /\ name \in [Resources -> Names \cup {None}]
        /\ index \in [Kinds -> [Names -> Resources \cup {None}]]
        /\ index[k] \in [Names -> Resources \cup {None}]
    BY KindIs, RegistryAssumption DEF RegistryTypeOK, RegistryAssumption
  <1>2. name' = [name EXCEPT ![x] = n] /\ index[k][n] \in {None, x}
    BY <1>1 DEF Create, Rename
  <1>3. CASE Create(x, n)
    <2> DEFINE g == [index[k] EXCEPT ![n] = x]
    <2>1. index' = [index EXCEPT ![k] = g] /\ name[x] = None /\ index[k][n] = None
      BY <1>1, <1>3 DEF Create, Exists
    <2>0. Writes(k, x, n, g)
      BY <1>2, <2>1 DEF Writes
    <2>2. g \in [Names -> Resources \cup {None}] /\ g[n] = x /\ \A m \in Names \ {n} : g[m] = index[k][m]
      BY <1>1
    <2> HIDE DEF g
    <2>3. \A m \in Names \ {n} : g[m] = IF m = name[x] THEN None ELSE index[k][m]
      BY <1>1, <2>1, <2>2
    <2>4. /\ NamesAreIndexed'
          /\ name' \in [Resources -> Names \cup {None}]
          /\ index' \in [Kinds -> [Names -> Resources \cup {None}]]
          /\ name'[x] = n /\ \A y \in Resources \ {x} : name'[y] = name[y]
          /\ index'[k][n] = x /\ \A l \in Kinds \ {k} : index'[l] = index[l]
      BY <1>2, <2>0, <2>2, <2>3, NamingKeepsIndex
    <2>5. \A m \in Names \ {n} : index'[k][m] = index[k][m]
      BY <1>1, <2>1, <2>2
    <2> QED
      BY <2>1, <2>4, <2>5
  <1>4. CASE Rename(x, n) /\ ~Create(x, n)
    <2> DEFINE h == [index[k] EXCEPT ![name[x]] = None]
               g == [h EXCEPT ![n] = x]
    <2>1. index' = [index EXCEPT ![k] = g] /\ name[x] \in Names
      BY <1>1, <1>4 DEF Rename, Exists
    <2>0. Writes(k, x, n, g)
      BY <1>2, <2>1 DEF Writes
    <2>2. h \in [Names -> Resources \cup {None}]
          /\ \A m \in Names : h[m] = IF m = name[x] THEN None ELSE index[k][m]
      BY <1>1, <2>1
    <2>3. g \in [Names -> Resources \cup {None}] /\ g[n] = x /\ \A m \in Names \ {n} : g[m] = h[m]
      BY <1>1, <2>2
    <2> HIDE DEF g, h
    <2>4. \A m \in Names \ {n} : g[m] = IF m = name[x] THEN None ELSE index[k][m]
      BY <2>2, <2>3
    <2>5. /\ NamesAreIndexed'
          /\ name' \in [Resources -> Names \cup {None}]
          /\ index' \in [Kinds -> [Names -> Resources \cup {None}]]
          /\ name'[x] = n /\ \A y \in Resources \ {x} : name'[y] = name[y]
          /\ index'[k][n] = x /\ \A l \in Kinds \ {k} : index'[l] = index[l]
      BY <1>2, <2>0, <2>3, <2>4, NamingKeepsIndex
    <2> QED
      BY <1>4, <2>5
  <1> QED
    BY <1>3, <1>4

(* What commands on names leave of the index, and of assets.               *)
RegistryGoesOn ==
  /\ RegistryTypeOK' /\ NamesAreIndexed'
  /\ index'[Assets] = index[Assets]
  /\ \A a \in Assets : name'[a] = name[a]

LEMMA CommandGoesOn ==
  ASSUME RegistryTypeOK, NamesAreIndexed, NEW k \in Kinds, k \cap Assets = {}, NEW x \in k,
         NEW n \in Names, Create(x, n) \/ Rename(x, n),
         disabled' \subseteq Targets \cup Endpoints,
         credential' \in [Domains -> Credentials \cup {None}]
  PROVE  RegistryGoesOn
  <1>1. /\ NamesAreIndexed'
        /\ name' \in [Resources -> Names \cup {None}]
        /\ index' \in [Kinds -> [Names -> Resources \cup {None}]]
        /\ \A y \in Resources \ {x} : name'[y] = name[y]
        /\ \A l \in Kinds \ {k} : index'[l] = index[l]
    BY WritesKeepIndex
  <1>2. Assets \in Kinds /\ Assets # k /\ \A a \in Assets : a \in Resources \ {x}
    BY KindsAre, KindIs
  <1> QED
    BY <1>1, <1>2 DEF RegistryGoesOn, RegistryTypeOK

LEMMA RegistryStep ==
  ASSUME RegistryTypeOK, NamesAreIndexed, RegistryNext
  PROVE  RegistryGoesOn
  <1>1. /\ credential \in [Domains -> Credentials \cup {None}] /\ disabled \subseteq Targets \cup Endpoints
        /\ Resolvable \subseteq Credentials \cup {None}
        /\ DomainNames \subseteq Names /\ DisplayNames \subseteq Names
    BY DEF RegistryTypeOK, Resolvable, Names
  <1>2. \A k \in {Domains, Credentials, Accounts, Targets} : k \in Kinds /\ k \cap Assets = {}
    BY KindsAre, GovernanceAssumption DEF GovernanceAssumption
  <1>3. ASSUME NEW d \in Domains, NEW n \in DomainNames, CreateDomain(d, n) \/ UpdateDomain(d, n)
        PROVE  RegistryGoesOn
    <2>1. n \in Names /\ Domains \in Kinds /\ Domains \cap Assets = {}
      BY <1>1, <1>2
    <2>2. (Create(d, n) \/ Rename(d, n)) /\ disabled' = disabled
          /\ credential' \in [Domains -> Credentials \cup {None}]
      BY <1>1, <1>3 DEF CreateDomain, UpdateDomain
    <2> QED
      BY <1>1, <2>1, <2>2, CommandGoesOn
  <1>4. ASSUME NEW c \in Credentials, NEW n \in DisplayNames,
               CreateDNSCredential(c, n) \/ UpdateDNSCredential(c, n)
        PROVE  RegistryGoesOn
    <2>1. (Create(c, n) \/ Rename(c, n)) /\ disabled' = disabled /\ credential' = credential
      BY <1>4 DEF CreateDNSCredential, UpdateDNSCredential
    <2>2. n \in Names /\ Credentials \in Kinds /\ Credentials \cap Assets = {}
      BY <1>1, <1>2
    <2> QED
      BY <1>1, <2>1, <2>2, CommandGoesOn
  <1>5. ASSUME NEW a \in Accounts, NEW n \in DisplayNames, CreateCAAccount(a, n)
        PROVE  RegistryGoesOn
    <2>1. Create(a, n) /\ disabled' = disabled /\ credential' = credential
      BY <1>5 DEF CreateCAAccount
    <2>2. n \in Names /\ Accounts \in Kinds /\ Accounts \cap Assets = {}
      BY <1>1, <1>2
    <2> QED
      BY <1>1, <2>1, <2>2, CommandGoesOn
  <1>6. ASSUME NEW t \in Targets, NEW n \in DisplayNames, CreateTarget(t, n) \/ UpdateTarget(t, n)
        PROVE  RegistryGoesOn
    <2>1. /\ Create(t, n) \/ Rename(t, n)
          /\ disabled' \subseteq Targets \cup Endpoints /\ credential' = credential
      BY <1>1, <1>6 DEF CreateTarget, UpdateTarget
    <2>2. n \in Names /\ Targets \in Kinds /\ Targets \cap Assets = {}
      BY <1>1, <1>2
    <2> QED
      BY <1>1, <2>1, <2>2, CommandGoesOn
  <1>7. ASSUME name' = name, index' = index, disabled' \subseteq Targets \cup Endpoints,
               credential' \in [Domains -> Credentials \cup {None}]
        PROVE  RegistryGoesOn
    BY <1>7 DEF RegistryGoesOn, RegistryTypeOK, NamesAreIndexed
  <1>8. ASSUME NEW d \in Domains, BindDNSCredential(d)
        PROVE  RegistryGoesOn
    BY <1>1, <1>7, <1>8 DEF BindDNSCredential
  <1>9. ASSUME NEW t \in Targets, DisableTarget(t)
        PROVE  RegistryGoesOn
    BY <1>1, <1>7, <1>9 DEF DisableTarget
  <1> QED
    BY <1>3, <1>4, <1>5, <1>6, <1>8, <1>9 DEF RegistryNext, Command

-----------------------------------------------------------------------------
(* Sequences.                                                              *)

LEMMA Bounded ==
  ASSUME NEW S, NEW n \in Nat, NEW s
  PROVE  s \in BoundedSeq(S, n) <=> s \in Seq(S) /\ Len(s) <= n
  <1>1. ASSUME NEW m \in 0 .. n, s \in [1 .. m -> S]
        PROVE  s \in Seq(S) /\ Len(s) <= n
    <2>1. s \in Seq(S)
      BY <1>1, SeqDef
    <2>2. DOMAIN s = 1 .. m /\ DOMAIN s = 1 .. Len(s) /\ Len(s) \in Nat
      BY <1>1, <2>1, LenProperties
    <2>3. Len(s) = m
      BY <2>2
    <2> QED
      BY <2>1, <2>3
  <1>2. ASSUME s \in Seq(S), Len(s) <= n
        PROVE  s \in UNION {[1 .. m -> S] : m \in 0 .. n}
    <2>1. Len(s) \in 0 .. n /\ s \in [1 .. Len(s) -> S]
      BY <1>2, LenProperties
    <2> QED
      BY <2>1
  <1> QED
    BY <1>1, <1>2 DEF BoundedSeq, SeqOf

LEMMA CountsOnce ==
  ASSUME NEW s \in Seq(Requests), IsInjective(s)
  PROVE  Len(s) \in Nat /\ Len(s) <= Cardinality(Requests)
  <1>1. Len(s) \in Nat /\ s \in [1 .. Len(s) -> Requests] /\ DOMAIN s = 1 .. Len(s)
    BY LenProperties
  <1>2. s \in Injection(1 .. Len(s), Requests)
    BY <1>1 DEF Injection, IsInjective
  <1>3. Cardinality(1 .. Len(s)) <= Cardinality(Requests)
    BY <1>2, FS_Injection, GovernanceAssumption DEF GovernanceAssumption
  <1>4. Cardinality(1 .. Len(s)) = Len(s)
    <2>1. 1 \in Int /\ Len(s) \in Int
      BY <1>1
    <2>2. Cardinality(1 .. Len(s)) = IF 1 > Len(s) THEN 0 ELSE Len(s) - 1 + 1
      BY <2>1, FS_Interval
    <2> QED
      BY <1>1, <2>2
  <1> QED
    BY <1>1, <1>3, <1>4

LEMMA ListsAre ==
  ASSUME NEW ds \in DomainLists
  PROVE  /\ ds \in Seq(Domains) /\ ds # << >> /\ Len(ds) \in Nat /\ Len(ds) >= 1
         /\ Head(ds) \in Listed(ds) /\ Listed(ds) \subseteq Domains
         /\ Listed(ds) = {Head(ds)} \cup Listed(Tail(ds))
         /\ Len(ds) = 1 => Tail(ds) = << >> /\ Listed(Tail(ds)) = {}
         /\ Len(ds) # 1 => Tail(ds) \in DomainLists
  <1>0. MaxDomains \in Nat
    BY GovernanceAssumption DEF GovernanceAssumption
  <1>1. ds \in Seq(Domains) /\ ds # << >> /\ Len(ds) <= MaxDomains /\ IsInjective(ds)
    BY <1>0, Bounded DEF DomainLists
  <1>2. Len(ds) \in Nat /\ Len(ds) >= 1 /\ DOMAIN ds = 1 .. Len(ds)
    BY <1>1, LenProperties, EmptySeq
  <1>3. /\ Tail(ds) \in Seq(Domains) /\ Len(Tail(ds)) = Len(ds) - 1
        /\ \A i \in 1 .. Len(Tail(ds)) : Tail(ds)[i] = ds[i + 1]
    BY <1>1, HeadTailProperties
  <1>4. DOMAIN Tail(ds) = 1 .. Len(ds) - 1
    BY <1>3, LenProperties
  <1>5. Head(ds) = ds[1]
    BY <1>1
  <1>6. Listed(ds) \subseteq Domains /\ Head(ds) \in Listed(ds)
    BY <1>1, <1>2, <1>5, ElementOfSeq DEF Listed
  <1>7. Listed(ds) = {Head(ds)} \cup Listed(Tail(ds))
    <2>1. ASSUME NEW i \in 1 .. Len(ds)
          PROVE  ds[i] \in {Head(ds)} \cup Listed(Tail(ds))
      <3>1. CASE i = 1
        BY <1>5, <3>1
      <3>2. CASE i # 1
        <4>1. i - 1 \in 1 .. Len(ds) - 1 /\ (i - 1) + 1 = i
          BY <1>2, <3>2
        <4> QED
          BY <1>3, <1>4, <4>1 DEF Listed
      <3> QED
        BY <3>1, <3>2
    <2>2. ASSUME NEW i \in 1 .. Len(ds) - 1
          PROVE  Tail(ds)[i] \in Listed(ds)
      <3>1. i + 1 \in 1 .. Len(ds)
        BY <1>2
      <3> QED
        BY <1>2, <1>3, <3>1 DEF Listed
    <2> QED
      BY <1>2, <1>4, <1>6, <2>1, <2>2 DEF Listed
  <1>8. Len(ds) = 1 => Len(Tail(ds)) = 0 /\ DOMAIN Tail(ds) = {}
    BY <1>3, <1>4
  <1>10. Len(ds) = 1 => Tail(ds) = << >>
    BY <1>3, <1>8, EmptySeq
  <1>11. ASSUME DOMAIN Tail(ds) = {} PROVE Listed(Tail(ds)) = {}
    <2>1. {Tail(ds)[i] : i \in DOMAIN Tail(ds)} = {}
      BY <1>11
    <2> QED
      BY <2>1 DEF Listed
  <1>9. ASSUME Len(ds) # 1
        PROVE  Tail(ds) \in DomainLists
    <2>1. Len(Tail(ds)) >= 1 /\ Len(Tail(ds)) <= MaxDomains
      BY <1>0, <1>1, <1>2, <1>3, <1>9
    <2>2. Tail(ds) # << >>
      <3>1. Len(<< >>) = 0
        OBVIOUS
      <3>2. Len(Tail(ds)) # 0
        BY <1>2, <1>3, <2>1
      <3> QED
        BY <3>1, <3>2
    <2>3. IsInjective(Tail(ds))
      <3>1. ASSUME NEW i \in 1 .. Len(ds) - 1, NEW j \in 1 .. Len(ds) - 1, Tail(ds)[i] = Tail(ds)[j]
            PROVE  i = j
        <4>1. ds[i + 1] = ds[j + 1] /\ i + 1 \in 1 .. Len(ds) /\ j + 1 \in 1 .. Len(ds)
          BY <1>2, <1>3, <3>1
        <4>2. i + 1 = j + 1
          BY <1>1, <1>2, <4>1 DEF IsInjective
        <4> QED
          BY <4>2
      <3> QED
        BY <1>4, <3>1 DEF IsInjective
    <2> QED
      BY <1>0, <1>3, <2>1, <2>2, <2>3, Bounded DEF DomainLists
  <1> QED
    BY <1>1, <1>2, <1>6, <1>7, <1>8, <1>9, <1>10, <1>11

-----------------------------------------------------------------------------
(* The invariant.                                                          *)

RequestRecords == [status : {"none", "running", "completed"}, asset : AssetIDs,
                   domains : DomainLists \cup {<< >>}, name : Names \cup {None}]
JobRecords     == [tries : 0 .. MaxAttempts, holder : Workers \cup {None}, over : BOOLEAN]
AssetRecords   == [domains : DomainLists \cup {<< >>}, current : 0 .. Cardinality(Requests)]
CallRecords    == [step : Steps, request : Requests \cup {None}, asset : AssetIDs,
                   domains : DomainLists \cup {<< >>}, name : Names \cup {None}]

Typed ==
  /\ RegistryTypeOK
  /\ request \in [Requests -> RequestRecords] /\ job \in [Requests -> JobRecords]
  /\ asset \in [Assets -> AssetRecords]
  /\ versions \in [Assets -> BoundedSeq(Requests, Cardinality(Requests))]
  /\ links \in [Domains -> SUBSET Assets] /\ call \in [Workers -> CallRecords]
  /\ faults \in 0 .. MaxFaults

LEMMA TypesAre == (TypeOK <=> Typed) /\ (TypeOK' <=> Typed')
  BY DEF TypeOK, Typed, RequestRecords, JobRecords, AssetRecords, CallRecords

(* Asset a has the version of request r.                                   *)
Holds(a, r) == \E i \in DOMAIN versions[a] : versions[a][i] = r

(* Where the version of request r is, or will be: the asset it asked for,  *)
(* else the one that bears its name.                                       *)
HomeOf(r) == IF request[r].asset # None THEN request[r].asset ELSE index[Assets][request[r].name]

Recorded(r) == \E a \in Assets : Holds(a, r) /\ \A d \in Listed(request[r].domains) : a \in links[d]

Known(r) == request[r].status # "none"

RequestInv(r) ==
  /\ Known(r) => request[r].domains \in DomainLists /\ request[r].name \in Names
  /\ request[r].asset \in Assets => Exists(request[r].asset)
  /\ job[r].tries > 0 => Known(r)
  /\ request[r].status = "completed" => Recorded(r)

PersistInv(x, r) ==
  /\ x.asset = request[r].asset /\ x.domains = request[r].domains
  /\ job[r].tries = 1 => \A a \in Assets : ~Holds(a, r)

LinkInv(x, r) ==
  /\ x.asset \in Assets /\ Holds(x.asset, r)
  /\ x.domains \in DomainLists /\ Listed(x.domains) \subseteq Listed(request[r].domains)
  /\ \A d \in Listed(request[r].domains) : d \in Listed(x.domains) \/ x.asset \in links[d]

(* What an execution has copied and done so far.                           *)
WorkInv(x, r) ==
  x.step # "none" =>
    /\ r \in Requests /\ job[r].tries > 0 /\ x.name = request[r].name
    /\ x.step = "persist" => PersistInv(x, r)
    /\ x.step = "link" => LinkInv(x, r)
    /\ x.step = "complete" => Recorded(r)

CallInv(c) == WorkInv(call[c], call[c].request)

(* A request tried once has one execution.                                 *)
TwoInv(c, d) ==
  c # d /\ call[c].step # "none" /\ call[d].step # "none" /\ call[c].request = call[d].request
    => job[call[c].request].tries > 1

AssetInv(a) ==
  /\ Exists(a) <=> versions[a] # << >>
  /\ IsInjective(versions[a])
  /\ \A i \in DOMAIN versions[a] : HomeOf(versions[a][i]) = a /\ job[versions[a][i]].tries > 0
  /\ Exists(a) => /\ asset[a].current \in DOMAIN versions[a]
                  /\ asset[a].domains = request[Last(versions[a])].domains

LinksInv ==
  \A d \in Domains : \A a \in links[d] :
    \E i \in DOMAIN versions[a] : d \in Listed(request[versions[a][i]].domains)

NewestInv ==
  (\A r \in Requests : job[r].tries <= 1) =>
    \A a \in Assets : Exists(a) => asset[a].current = Len(versions[a])

GovernanceInv ==
  /\ TypeOK /\ NamesAreIndexed
  /\ \A r \in Requests : RequestInv(r)
  /\ \A c \in Workers : CallInv(c)
  /\ \A c, d \in Workers : TwoInv(c, d)
  /\ \A a \in Assets : AssetInv(a)
  /\ LinksInv /\ NewestInv

-----------------------------------------------------------------------------
(* What every step leaves true.                                            *)

(* What the stores know is never taken back.                               *)
Grows ==
  /\ \A r \in Requests : Known(r) =>
       /\ request'[r].status # "none" /\ request'[r].domains = request[r].domains
       /\ request'[r].name = request[r].name /\ request'[r].asset = request[r].asset
  /\ \A r \in Requests : job'[r].tries \in Nat /\ job'[r].tries >= job[r].tries
  /\ \A a \in Assets, r \in Requests : Holds(a, r) => Holds(a, r)'
  /\ \A d \in Domains : links[d] \subseteq links'[d]
  /\ \A n \in Names : index[Assets][n] # None => index'[Assets][n] = index[Assets][n]
  /\ \A a \in Assets : Exists(a) => Exists(a)'

LEMMA TriesAreNaturals ==
  ASSUME TypeOK, NEW r \in Requests
  PROVE  job[r].tries \in Nat
  BY TypesAre DEF Typed, JobRecords

LEMMA VersionsAreSequences ==
  ASSUME TypeOK, NEW a \in Assets
  PROVE  /\ versions[a] \in Seq(Requests) /\ Len(versions[a]) \in Nat
         /\ DOMAIN versions[a] = 1 .. Len(versions[a])
         /\ \A i \in DOMAIN versions[a] : versions[a][i] \in Requests
         /\ versions[a] # << >> => Len(versions[a]) \in DOMAIN versions[a]
  <1>1. Cardinality(Requests) \in Nat
    BY FS_CardinalityType, GovernanceAssumption DEF GovernanceAssumption
  <1>2. versions[a] \in BoundedSeq(Requests, Cardinality(Requests))
    BY TypesAre DEF Typed
  <1>3. versions[a] \in Seq(Requests)
    BY <1>1, <1>2, Bounded
  <1>4. /\ Len(versions[a]) \in Nat /\ DOMAIN versions[a] = 1 .. Len(versions[a])
        /\ \A i \in DOMAIN versions[a] : versions[a][i] \in Requests
    BY <1>3, LenProperties, ElementOfSeq
  <1>5. versions[a] # << >> => Len(versions[a]) \in DOMAIN versions[a]
    BY <1>3, <1>4, EmptySeq
  <1> QED
    BY <1>3, <1>4, <1>5

LEMMA HomeStays ==
  ASSUME Grows, NEW r \in Requests, RequestInv(r), Known(r), HomeOf(r) # None
  PROVE  HomeOf(r)' = HomeOf(r)
  <1>1. /\ request'[r].name = request[r].name /\ request'[r].asset = request[r].asset
        /\ request[r].name \in Names
    BY DEF Grows, RequestInv
  <1>2. \A n \in Names : index[Assets][n] # None => index'[Assets][n] = index[Assets][n]
    BY DEF Grows
  <1>3. CASE request[r].asset # None
    BY <1>1, <1>3 DEF HomeOf
  <1>4. CASE request[r].asset = None
    BY <1>1, <1>2, <1>4 DEF HomeOf
  <1> QED
    BY <1>3, <1>4

LEMMA RecordedStays ==
  ASSUME Grows, NEW r \in Requests, RequestInv(r), Known(r), Recorded(r)
  PROVE  Recorded(r)'
  <1>1. PICK a \in Assets : Holds(a, r) /\ \A d \in Listed(request[r].domains) : a \in links[d]
    BY DEF Recorded
  <1>2. Holds(a, r)' /\ request'[r].domains = request[r].domains /\ request[r].domains \in DomainLists
    BY <1>1 DEF Grows, RequestInv
  <1>3. \A d \in Listed(request[r].domains) : d \in Domains
    BY <1>2, ListsAre
  <1>4. \A d \in Listed(request[r].domains) : a \in links'[d]
    BY <1>1, <1>3 DEF Grows
  <1> QED
    BY <1>2, <1>4 DEF Recorded, Listed

LEMMA RequestStays ==
  ASSUME Grows, NEW r \in Requests, RequestInv(r), request'[r] = request[r],
         job'[r].tries > 0 => Known(r)
  PROVE  RequestInv(r)'
  <1>1. request[r].asset \in Assets => Exists(request[r].asset)'
    BY DEF Grows, RequestInv
  <1>2. request[r].status = "completed" => Recorded(r)'
    BY RecordedStays DEF RequestInv, Known
  <1> QED
    BY <1>1, <1>2 DEF RequestInv, Known, Exists

LEMMA CallStays ==
  ASSUME GovernanceInv, Grows, NEW c \in Workers, call'[c] = call[c],
         call[c].step = "persist" /\ job'[call[c].request].tries = 1 =>
           \A a \in Assets : Holds(a, call[c].request)' => Holds(a, call[c].request)
  PROVE  CallInv(c)'
  <1> DEFINE x == call[c]
             r == call[c].request
  <1>0. CallInv(c)' <=> WorkInv(x, r)'
    BY DEF CallInv
  <1>1. CASE x.step = "none"
    BY <1>1 DEF CallInv, WorkInv
  <1>2. CASE x.step # "none"
    <2>1. WorkInv(x, r) /\ r \in Requests /\ RequestInv(r) /\ TypeOK
      BY <1>2 DEF GovernanceInv, CallInv, WorkInv
    <2>2. Known(r) /\ job[r].tries \in Nat
      BY <1>2, <2>1, TriesAreNaturals DEF WorkInv, RequestInv
    <2>3. /\ request'[r].domains = request[r].domains /\ request'[r].name = request[r].name
          /\ request'[r].asset = request[r].asset
          /\ job'[r].tries \in Nat /\ job'[r].tries >= job[r].tries
      BY <2>1, <2>2 DEF Grows
    <2>4. /\ r \in Requests /\ job'[r].tries > 0 /\ x.name = request'[r].name
      BY <1>2, <2>1, <2>2, <2>3 DEF WorkInv
    <2>5. x.step = "complete" => Recorded(r)'
      BY <2>1, <2>2, RecordedStays DEF WorkInv
    <2>6. ASSUME x.step = "persist"
          PROVE  /\ x.asset = request'[r].asset /\ x.domains = request'[r].domains
                 /\ job'[r].tries = 1 => \A a \in Assets : ~Holds(a, r)'
      <3>1. PersistInv(x, r) /\ job[r].tries > 0
        BY <2>1, <2>6 DEF WorkInv
      <3>2. job'[r].tries = 1 => job[r].tries = 1
        BY <2>2, <2>3, <3>1
      <3> QED
        BY <2>3, <2>6, <3>1, <3>2 DEF PersistInv
    <2>7. ASSUME x.step = "link"
          PROVE  /\ x.asset \in Assets /\ Holds(x.asset, r)'
                 /\ x.domains \in DomainLists
                 /\ Listed(x.domains) \subseteq Listed(request[r].domains)
                 /\ \A d \in Listed(request[r].domains) : d \in Listed(x.domains) \/ x.asset \in links'[d]
      <3>1. LinkInv(x, r)
        BY <2>1, <2>7 DEF WorkInv
      <3>2. Holds(x.asset, r)'
        BY <2>1, <3>1 DEF LinkInv, Grows
      <3>3. \A d \in Listed(request[r].domains) : d \in Domains
        BY <2>1, <2>2, ListsAre DEF RequestInv
      <3>4. \A d \in Domains : links[d] \subseteq links'[d]
        BY DEF Grows
      <3> QED
        BY <3>1, <3>2, <3>3, <3>4 DEF LinkInv
    <2> HIDE DEF x, r
    <2>8. x' = x /\ r' = r
      BY DEF x, r
    <2> QED
      BY <1>0, <2>3, <2>4, <2>5, <2>6, <2>7, <2>8 DEF WorkInv, PersistInv, LinkInv, Holds
  <1> QED
    BY <1>1, <1>2

(* No execution begins.                                                    *)
GoesOn(c) == call'[c].step # "none" => call[c].step # "none" /\ call'[c].request = call[c].request

LEMMA TwoStay ==
  ASSUME GovernanceInv, Grows, NEW c \in Workers, NEW d \in Workers, GoesOn(c), GoesOn(d)
  PROVE  TwoInv(c, d)'
  <1> SUFFICES ASSUME c # d, call'[c].step # "none", call'[d].step # "none",
                      call'[c].request = call'[d].request
               PROVE  job'[call'[c].request].tries > 1
    BY DEF TwoInv
  <1>1. /\ call[c].step # "none" /\ call[d].step # "none" /\ call[c].request = call[d].request
        /\ call'[c].request = call[c].request
    BY DEF GoesOn
  <1>2. job[call[c].request].tries > 1 /\ call[c].request \in Requests /\ TypeOK
    BY <1>1 DEF GovernanceInv, TwoInv, CallInv, WorkInv
  <1> QED
    BY <1>1, <1>2, TriesAreNaturals DEF Grows

LEMMA HeldIsKnown ==
  ASSUME GovernanceInv, NEW a \in Assets, NEW i \in DOMAIN versions[a]
  PROVE  /\ versions[a][i] \in Requests /\ Known(versions[a][i]) /\ RequestInv(versions[a][i])
         /\ HomeOf(versions[a][i]) = a /\ a # None
  <1>1. versions[a][i] \in Requests
    BY VersionsAreSequences DEF GovernanceInv
  <1>2. a # None
    BY KindsAre, KindIs
  <1> QED
    BY <1>1, <1>2 DEF GovernanceInv, AssetInv, RequestInv

LEMMA AssetStays ==
  ASSUME GovernanceInv, Grows, NEW a \in Assets, asset'[a] = asset[a], versions'[a] = versions[a],
         name'[a] = name[a]
  PROVE  AssetInv(a)'
  <1>1. AssetInv(a) /\ TypeOK
    BY DEF GovernanceInv
  <1>2. ASSUME NEW i \in DOMAIN versions[a]
        PROVE  /\ HomeOf(versions[a][i])' = a /\ job'[versions[a][i]].tries > 0
               /\ request'[versions[a][i]].domains = request[versions[a][i]].domains
    <2>1. /\ versions[a][i] \in Requests /\ Known(versions[a][i]) /\ RequestInv(versions[a][i])
          /\ HomeOf(versions[a][i]) = a /\ a # None
      BY HeldIsKnown
    <2>3. job[versions[a][i]].tries > 0 /\ job[versions[a][i]].tries \in Nat
      BY <1>1, <2>1, TriesAreNaturals DEF AssetInv
    <2> DEFINE r == versions[a][i]
    <2>4. r' = r
      OBVIOUS
    <2>5. /\ job'[r].tries > 0 /\ request'[r].domains = request[r].domains
      BY <2>1, <2>3 DEF Grows
    <2>6. (IF request'[r].asset # None THEN request'[r].asset ELSE index'[Assets][request'[r].name]) = a
      <3>1. \A q \in Requests : Known(q) /\ RequestInv(q) /\ HomeOf(q) = a =>
               (IF request'[q].asset # None THEN request'[q].asset ELSE index'[Assets][request'[q].name]) = a
        BY <2>1, HomeStays DEF HomeOf
      <3> QED
        BY <2>1, <3>1
    <2> QED
      BY <2>4, <2>5, <2>6 DEF HomeOf
  <1>3. versions[a] # << >> => Len(versions[a]) \in DOMAIN versions[a]
    BY <1>1, VersionsAreSequences
  <1>4. Exists(a)' <=> Exists(a)
    BY DEF Exists
  <1>5. Exists(a) => request'[Last(versions[a])].domains = request[Last(versions[a])].domains
    BY <1>1, <1>2, <1>3 DEF AssetInv, Last
  <1> QED
    BY <1>1, <1>2, <1>4, <1>5 DEF AssetInv, HomeOf, Last, IsInjective, Exists

LEMMA LinksStay ==
  ASSUME GovernanceInv, Grows, versions' = versions, links' = links
  PROVE  LinksInv'
  <1> SUFFICES ASSUME NEW d \in Domains, NEW a \in links[d]
               PROVE  \E i \in DOMAIN versions[a] : d \in Listed(request'[versions[a][i]].domains)
    BY DEF LinksInv
  <1>1. a \in Assets
    BY TypesAre DEF GovernanceInv, Typed
  <1>2. PICK i \in DOMAIN versions[a] : d \in Listed(request[versions[a][i]].domains)
    BY DEF GovernanceInv, LinksInv
  <1>3. versions[a][i] \in Requests /\ Known(versions[a][i])
    BY <1>1, HeldIsKnown
  <1>4. request'[versions[a][i]].domains = request[versions[a][i]].domains
    BY <1>3 DEF Grows
  <1> QED
    BY <1>2, <1>4 DEF Listed

LEMMA NewestStays ==
  ASSUME GovernanceInv, Grows, UNCHANGED <<asset, versions>>, \A a \in Assets : name'[a] = name[a]
  PROVE  NewestInv'
  <1>1. TypeOK /\ NewestInv
    BY DEF GovernanceInv
  <1>2. \A r \in Requests : job'[r].tries <= 1 => job[r].tries <= 1
    BY <1>1, TriesAreNaturals DEF Grows
  <1> QED
    BY <1>1, <1>2 DEF NewestInv, Exists

-----------------------------------------------------------------------------
(* The actions.                                                            *)

LEMMA InitKeepsInv == Init => GovernanceInv
  <1> SUFFICES ASSUME Init PROVE GovernanceInv
    OBVIOUS
  <1>0. /\ {MaxDomains, MaxAttempts, MaxFaults} \subseteq Nat /\ None \notin Names \cup Resources
        /\ Cardinality(Requests) \in Nat /\ None \notin Requests \cup Workers
    BY FS_CardinalityType, GovernanceAssumption, RegistryAssumption
       DEF GovernanceAssumption, RegistryAssumption
  <1>1. /\ \A x \in Resources : name[x] = None
        /\ \A k \in Kinds : \A n \in Names : index[k][n] = None
        /\ \A r \in Requests : request[r] = NoRequest /\ job[r] = NoJob
        /\ \A a \in Assets : versions[a] = << >>
        /\ \A c \in Workers : call[c] = NoCall
        /\ \A d \in Domains : links[d] = {}
    BY DEF Init, RegistryInit
  <1>2. Typed
    <2>1. RegistryTypeOK
      BY DEF RegistryTypeOK, Init, RegistryInit
    <2>2. NoRequest \in RequestRecords /\ NoJob \in JobRecords /\ NoCall \in CallRecords
      BY <1>0 DEF NoRequest, NoJob, NoCall, RequestRecords, JobRecords, CallRecords, AssetIDs, Steps
    <2>3. [domains |-> << >>, current |-> 0] \in AssetRecords
      BY <1>0 DEF AssetRecords
    <2>4. << >> \in BoundedSeq(Requests, Cardinality(Requests))
      <3>1. << >> \in Seq(Requests) /\ Len(<< >>) = 0 /\ 0 <= Cardinality(Requests)
        BY <1>0
      <3> QED
        BY <1>0, <3>1, Bounded
    <2> QED
      BY <1>0, <2>1, <2>2, <2>3, <2>4 DEF Typed, Init
  <1>3. NamesAreIndexed
    <2>1. \A k \in Kinds : \A x \in k : x \in Resources /\ x # None
      BY KindIs
    <2> QED
      BY <1>0, <1>1, <2>1 DEF NamesAreIndexed
  <1>4. \A r \in Requests : RequestInv(r)
    <2>1. None \notin Assets
      BY KindsAre, KindIs
    <2> QED
      BY <1>1, <2>1 DEF RequestInv, NoRequest, NoJob, Known
  <1>5. \A c, d \in Workers : CallInv(c) /\ TwoInv(c, d)
    <2>1. \A c \in Workers : call[c].step = "none"
      BY <1>1 DEF NoCall
    <2> QED
      BY <2>1 DEF CallInv, WorkInv, TwoInv
  <1>6. \A a \in Assets : AssetInv(a) /\ ~Exists(a)
    <2>1. \A a \in Assets : name[a] = None
      BY <1>1, KindsAre, KindIs
    <2>2. DOMAIN << >> = {}
      OBVIOUS
    <2> QED
      BY <1>1, <2>1, <2>2 DEF AssetInv, Exists, IsInjective
  <1>7. TypeOK
    BY <1>2, TypesAre
  <1>8. LinksInv /\ NewestInv
    BY <1>1, <1>6 DEF LinksInv, NewestInv
  <1> QED
    BY <1>3, <1>4, <1>5, <1>6, <1>7, <1>8 DEF GovernanceInv

LEMMA CommandKeepsInv ==
  ASSUME GovernanceInv, RegistryNext, UNCHANGED <<request, job, issued, call, faults>>
  PROVE  GovernanceInv'
  <1>1. RegistryGoesOn /\ TypeOK
    BY RegistryStep, TypesAre DEF GovernanceInv, Typed
  <1>2. Grows
    BY <1>1, TriesAreNaturals DEF Grows, RegistryGoesOn, Holds, Known, Exists, issued
  <1>3. TypeOK' /\ NamesAreIndexed'
    BY <1>1, TypesAre DEF Typed, RegistryGoesOn, issued
  <1>4. \A r \in Requests : RequestInv(r)'
    <2>1. \A r \in Requests : job[r].tries > 0 => Known(r)
      BY DEF GovernanceInv, RequestInv
    <2> QED
      BY <1>2, <2>1, RequestStays DEF GovernanceInv
  <1>5. \A c \in Workers : CallInv(c)'
    BY <1>2, CallStays DEF Holds, issued
  <1>6. \A c, d \in Workers : TwoInv(c, d)'
    BY <1>2, TwoStay DEF GoesOn
  <1>7. \A a \in Assets : AssetInv(a)'
    BY <1>1, <1>2, AssetStays DEF issued, RegistryGoesOn
  <1>8. LinksInv' /\ NewestInv'
    BY <1>1, <1>2, LinksStay, NewestStays DEF issued, RegistryGoesOn
  <1> QED
    BY <1>3, <1>4, <1>5, <1>6, <1>7, <1>8 DEF GovernanceInv

LEMMA SubmitKeepsInv ==
  ASSUME GovernanceInv, NEW ds \in DomainLists, NEW b \in AssetIDs, b \in Assets => Exists(b),
         Submit(ds, b)
  PROVE  GovernanceInv'
  <1>0. TypeOK /\ Typed
    BY TypesAre DEF GovernanceInv
  <1>1. PICK r \in Requests :
          /\ request[r] = NoRequest
          /\ request' = [request EXCEPT ![r] = [status |-> "running", asset |-> b, domains |-> ds,
                                               name |-> name[Head(ds)]]]
    BY DEF Submit
  <1>2. /\ UNCHANGED <<registry, job, issued, call, faults>>
        /\ \A d \in Listed(ds) : Exists(d)
    BY DEF Submit
  <1>3. Head(ds) \in Resources /\ name[Head(ds)] \in Names
    <2>1. Head(ds) \in Domains /\ Head(ds) \in Listed(ds)
      BY ListsAre
    <2> QED
      BY <1>0, <1>2, <2>1, KindsAre, KindIs DEF Typed, RegistryTypeOK, Exists
  <1>4. /\ \A q \in Requests \ {r} : request'[q] = request[q]
        /\ request'[r].status = "running" /\ request'[r].asset = b /\ request'[r].domains = ds
        /\ request'[r].name \in Names /\ request' \in [Requests -> RequestRecords]
        /\ ~Known(r)
    BY <1>0, <1>1, <1>3 DEF Typed, RequestRecords, NoRequest, Known
  <1>5. Grows
    BY <1>0, <1>2, <1>4, TriesAreNaturals DEF Grows, Holds, Known, Exists, issued, registry
  <1>6. TypeOK' /\ NamesAreIndexed'
    <2>1. RegistryTypeOK'
      BY <1>0, <1>2 DEF Typed, RegistryTypeOK, registry
    <2>2. NamesAreIndexed'
      BY <1>2 DEF GovernanceInv, NamesAreIndexed, registry
    <2> QED
      BY <1>0, <1>2, <1>4, <2>1, <2>2, TypesAre DEF Typed, issued
  <1>7. \A q \in Requests : RequestInv(q)'
    <2>1. RequestInv(r)'
      BY <1>2, <1>4 DEF RequestInv, Known, Exists, registry
    <2>2. \A q \in Requests \ {r} : RequestInv(q)'
      <3>1. \A q \in Requests : RequestInv(q) /\ (job'[q].tries > 0 => Known(q))
        BY <1>2 DEF GovernanceInv, RequestInv
      <3> QED
        BY <1>4, <1>5, <3>1, RequestStays
    <2> QED
      BY <2>1, <2>2
  <1>8. \A c \in Workers : CallInv(c)'
    BY <1>2, <1>5, CallStays DEF Holds, issued
  <1>9. \A c, d \in Workers : TwoInv(c, d)'
    BY <1>2, <1>5, TwoStay DEF GoesOn
  <1>10. \A a \in Assets : AssetInv(a)'
    BY <1>2, <1>5, AssetStays DEF issued, registry
  <1>11. LinksInv' /\ NewestInv'
    BY <1>2, <1>5, LinksStay, NewestStays DEF issued, registry
  <1> QED
    BY <1>6, <1>7, <1>8, <1>9, <1>10, <1>11 DEF GovernanceInv

LEMMA SubmissionsKeepInv ==
  ASSUME GovernanceInv,
         (\E ds \in DomainLists : CreateRequest(ds)) \/ (\E a \in Assets : RenewAsset(a))
  PROVE  GovernanceInv'
  <1>1. ASSUME NEW ds \in DomainLists, CreateRequest(ds)
        PROVE  GovernanceInv'
    <2>1. PICK b \in {None, Unknown} \cup {x \in Assets : Exists(x)} : Submit(ds, b)
      BY <1>1 DEF CreateRequest
    <2>2. b \in AssetIDs /\ (b \in Assets => Exists(b))
      <3>1. None \notin Assets /\ Unknown \notin Assets
        BY KindsAre, KindIs, GovernanceAssumption DEF GovernanceAssumption
      <3> QED
        BY <3>1 DEF AssetIDs
    <2> QED
      BY <2>1, <2>2, SubmitKeepsInv
  <1>2. ASSUME NEW a \in Assets, RenewAsset(a)
        PROVE  GovernanceInv'
    <2>1. Exists(a) /\ Submit(asset[a].domains, a) /\ AssetInv(a) /\ TypeOK
      BY <1>2 DEF RenewAsset, GovernanceInv
    <2>2. Len(versions[a]) \in DOMAIN versions[a]
      BY <2>1, VersionsAreSequences DEF AssetInv
    <2>3. asset[a].domains \in DomainLists
      BY <2>1, <2>2, HeldIsKnown DEF AssetInv, Last, RequestInv
    <2> QED
      BY <2>1, <2>3, SubmitKeepsInv DEF AssetIDs
  <1> QED
    BY <1>1, <1>2

(* Executions.                                                             *)

(* Nothing but executions and jobs changes.                                *)
Only == UNCHANGED <<registry, request, issued>>

(* An execution may end, a job be handed back; attempts are not returned.  *)
LEMMA EndsKeepInv ==
  ASSUME GovernanceInv, Only, faults' \in 0 .. MaxFaults,
         job' \in [Requests -> JobRecords], \A r \in Requests : job'[r].tries = job[r].tries,
         \A c \in Workers : call'[c] \in {call[c], NoCall}, call' \in [Workers -> CallRecords]
  PROVE  GovernanceInv'
  <1>0. TypeOK /\ Typed
    BY TypesAre DEF GovernanceInv
  <1>1. Grows
    BY <1>0, TriesAreNaturals DEF Grows, Holds, Known, Exists, Only, issued, registry
  <1>2. TypeOK' /\ NamesAreIndexed'
    <2>1. RegistryTypeOK' /\ NamesAreIndexed'
      BY <1>0 DEF Only, registry, Typed, RegistryTypeOK, GovernanceInv, NamesAreIndexed
    <2> QED
      BY <1>0, <2>1, TypesAre DEF Only, issued, Typed
  <1>3. \A r \in Requests : RequestInv(r)'
    <2>1. \A r \in Requests : RequestInv(r) /\ (job'[r].tries > 0 => Known(r)) /\ request'[r] = request[r]
      BY DEF GovernanceInv, RequestInv, Only
    <2> QED
      BY <1>1, <2>1, RequestStays
  <1>4. NoCall.step = "none"
    BY DEF NoCall
  <1>5. \A c \in Workers : CallInv(c)'
    <2>1. ASSUME NEW c \in Workers, call'[c] = NoCall
          PROVE  CallInv(c)'
      BY <1>4, <2>1 DEF CallInv, WorkInv
    <2>2. ASSUME NEW c \in Workers, call'[c] = call[c]
          PROVE  CallInv(c)'
      BY <1>1, <2>2, CallStays DEF Holds, Only, issued
    <2> QED
      BY <2>1, <2>2
  <1>6. \A c, d \in Workers : TwoInv(c, d)'
    BY <1>1, <1>4, TwoStay DEF GoesOn
  <1>7. \A a \in Assets : AssetInv(a)'
    BY <1>1, AssetStays DEF Only, issued, registry
  <1>8. LinksInv' /\ NewestInv'
    BY <1>1, LinksStay, NewestStays DEF Only, issued, registry
  <1> QED
    BY <1>2, <1>3, <1>5, <1>6, <1>7, <1>8 DEF GovernanceInv

LEMMA NoCallIsTyped == NoCall \in CallRecords
  BY DEF NoCall, CallRecords, Steps, AssetIDs

LEMMA CallsAreTyped ==
  ASSUME TypeOK, NEW c \in Workers, call' = [call EXCEPT ![c] = NoCall]
  PROVE  /\ call' \in [Workers -> CallRecords]
         /\ \A d \in Workers : call'[d] \in {call[d], NoCall}
  BY NoCallIsTyped, TypesAre DEF Typed

LEMMA ReleasesAreTyped ==
  ASSUME TypeOK, NEW r \in Requests, NEW c, NEW over \in BOOLEAN, Release(c, r, over)
  PROVE  job' \in [Requests -> JobRecords] /\ \A q \in Requests : job'[q].tries = job[q].tries
  <1>1. job \in [Requests -> JobRecords]
    BY TypesAre DEF Typed
  <1> QED
    BY <1>1 DEF Release, JobRecords

LEMMA LossesKeepInv ==
  ASSUME GovernanceInv, (\E c \in Workers : Report(c) \/ Crash(c)) \/ (\E r \in Requests : LoseLease(r))
  PROVE  GovernanceInv'
  <1>0. /\ TypeOK /\ faults \in 0 .. MaxFaults /\ MaxFaults \in Nat
        /\ job \in [Requests -> JobRecords] /\ call \in [Workers -> CallRecords]
    BY TypesAre, GovernanceAssumption DEF GovernanceInv, Typed, GovernanceAssumption
  <1>1. ASSUME NEW c \in Workers, Report(c)
        PROVE  GovernanceInv'
    <2>1. call[c].request \in Requests
      BY <1>1 DEF Report, GovernanceInv, CallInv, WorkInv
    <2>2. Only /\ faults' = faults /\ Release(c, call[c].request, TRUE) /\ call' = [call EXCEPT ![c] = NoCall]
      BY <1>1 DEF Report, Only
    <2> QED
      BY <1>0, <2>1, <2>2, ReleasesAreTyped, CallsAreTyped, EndsKeepInv
  <1>2. ASSUME NEW c \in Workers, Crash(c)
        PROVE  GovernanceInv'
    <2>1. Only /\ job' = job /\ call' = [call EXCEPT ![c] = NoCall] /\ faults' \in 0 .. MaxFaults
      BY <1>0, <1>2 DEF Crash, Only
    <2> QED
      BY <1>0, <2>1, CallsAreTyped, EndsKeepInv
  <1>3. ASSUME NEW r \in Requests, LoseLease(r)
        PROVE  GovernanceInv'
    <2>1. Only /\ call' = call /\ faults' \in 0 .. MaxFaults /\ job' = [job EXCEPT ![r].holder = None]
      BY <1>0, <1>3 DEF LoseLease, Only
    <2>2. job' \in [Requests -> JobRecords] /\ \A q \in Requests : job'[q].tries = job[q].tries
      BY <1>0, <2>1 DEF JobRecords
    <2> QED
      BY <1>0, <2>1, <2>2, EndsKeepInv
  <1> QED
    BY <1>1, <1>2, <1>3

LEMMA StartKeepsInv ==
  ASSUME GovernanceInv, NEW c \in Workers, NEW r \in Requests, StartCompletion(c, r)
  PROVE  GovernanceInv'
  <1>0. /\ TypeOK /\ Typed /\ MaxAttempts \in Nat /\ RequestInv(r)
        /\ job \in [Requests -> JobRecords] /\ call \in [Workers -> CallRecords]
        /\ request[r] \in RequestRecords
    BY TypesAre, GovernanceAssumption DEF GovernanceInv, Typed, GovernanceAssumption
  <1>1. /\ call[c].step = "none" /\ Known(r) /\ job[r].tries < MaxAttempts
        /\ UNCHANGED <<registry, request, issued, faults>>
    BY DEF StartCompletion, Claimable, Known, Idle
  <1>2. /\ job' \in [Requests -> JobRecords] /\ job[r].tries \in Nat
        /\ job'[r].tries = job[r].tries + 1 /\ \A q \in Requests \ {r} : job'[q] = job[q]
    <2> DEFINE m == [job EXCEPT ![r].tries = job[r].tries + 1]
    <2>1. /\ m \in [Requests -> JobRecords] /\ job[r].tries \in Nat
          /\ m[r].tries = job[r].tries + 1 /\ \A q \in Requests \ {r} : m[q] = job[q]
      BY <1>0, <1>1 DEF JobRecords
    <2>2. job' = [m EXCEPT ![r].holder = c]
      BY DEF StartCompletion
    <2> HIDE DEF m
    <2> QED
      BY <2>1, <2>2 DEF JobRecords
  <1> DEFINE x == [step |-> "persist", request |-> r, asset |-> request[r].asset,
                   domains |-> request[r].domains, name |-> request[r].name]
  <1>3. x \in CallRecords
    BY <1>0 DEF CallRecords, RequestRecords, Steps
  <1>4. /\ call' \in [Workers -> CallRecords] /\ call'[c] = x
        /\ \A d \in Workers \ {c} : call'[d] = call[d]
    BY <1>0, <1>3 DEF StartCompletion
  <1>5. Grows
    BY <1>0, <1>1, <1>2, TriesAreNaturals DEF Grows, Holds, Known, Exists, issued, registry
  <1>6. TypeOK' /\ NamesAreIndexed'
    <2>1. RegistryTypeOK' /\ NamesAreIndexed'
      BY <1>0, <1>1 DEF registry, Typed, RegistryTypeOK, GovernanceInv, NamesAreIndexed
    <2> QED
      BY <1>0, <1>1, <1>2, <1>4, <2>1, TypesAre DEF issued, Typed
  <1>7. \A q \in Requests : RequestInv(q)'
    <2>1. \A q \in Requests : RequestInv(q) /\ (job'[q].tries > 0 => Known(q)) /\ request'[q] = request[q]
      BY <1>1, <1>2 DEF GovernanceInv, RequestInv
    <2> QED
      BY <1>5, <2>1, RequestStays
  <1>8. \A d \in Workers : CallInv(d)'
    <2>1. CallInv(c)'
      <3>1. job'[r].tries = 1 => \A a \in Assets : ~Holds(a, r)
        BY <1>2 DEF GovernanceInv, AssetInv, Holds
      <3>2. /\ x.step = "persist" /\ x.request = r /\ x.asset = request'[r].asset
            /\ x.domains = request'[r].domains /\ x.name = request'[r].name
        BY <1>1
      <3>3. job'[r].tries > 0 /\ versions' = versions
        BY <1>1, <1>2 DEF issued
      <3> HIDE DEF x
      <3>4. /\ call'[c].step = "persist" /\ call'[c].request = r /\ call'[c].asset = request'[r].asset
            /\ call'[c].domains = request'[r].domains /\ call'[c].name = request'[r].name
        BY <1>4, <3>2
      <3> QED
        BY <3>1, <3>3, <3>4 DEF CallInv, WorkInv, PersistInv, Holds
    <2>2. ASSUME NEW d \in Workers \ {c} PROVE CallInv(d)'
      BY <1>1, <1>4, <1>5, CallStays DEF Holds, issued
    <2> QED
      BY <2>1, <2>2
  <1>9. \A d, e \in Workers : TwoInv(d, e)'
    <2>1. ASSUME NEW d \in Workers \ {c}, call[d].step # "none", call[d].request = r
          PROVE  job'[r].tries > 1
      BY <1>2, <2>1 DEF GovernanceInv, CallInv, WorkInv
    <2>2. x.request = r
      OBVIOUS
    <2>3. ASSUME NEW d \in Workers \ {c} PROVE TwoInv(c, d)' /\ TwoInv(d, c)'
      <3> HIDE DEF x
      <3> QED
        BY <1>4, <2>1, <2>2 DEF TwoInv
    <2>4. ASSUME NEW d \in Workers \ {c}, NEW e \in Workers \ {c} PROVE TwoInv(d, e)'
      BY <1>4, <1>5, TwoStay DEF GoesOn
    <2>5. TwoInv(c, c)'
      BY DEF TwoInv
    <2> QED
      BY <2>3, <2>4, <2>5
  <1>10. \A a \in Assets : AssetInv(a)'
    BY <1>1, <1>5, AssetStays DEF issued, registry
  <1>11. LinksInv' /\ NewestInv'
    BY <1>1, <1>5, LinksStay, NewestStays DEF issued, registry
  <1> QED
    BY <1>6, <1>7, <1>8, <1>9, <1>10, <1>11 DEF GovernanceInv

LEMMA CompleteKeepsInv ==
  ASSUME GovernanceInv, NEW c \in Workers, Complete(c)
  PROVE  GovernanceInv'
  <1>0. /\ TypeOK /\ Typed /\ call \in [Workers -> CallRecords] /\ request \in [Requests -> RequestRecords]
    BY TypesAre DEF GovernanceInv, Typed
  <1>a. PICK r \in Requests : r = call[c].request
    BY DEF Complete, GovernanceInv, CallInv, WorkInv
  <1>1. /\ call[c].step = "complete" /\ r \in Requests /\ RequestInv(r) /\ Known(r) /\ Recorded(r)
        /\ UNCHANGED <<registry, job, issued, faults>>
    BY <1>a DEF Complete, GovernanceInv, CallInv, WorkInv, RequestInv
  <1>2. /\ request' = [request EXCEPT ![r].status = "completed"]
        /\ call' = [call EXCEPT ![c].step = "report"]
    BY <1>a DEF Complete
  <1>3. /\ request' \in [Requests -> RequestRecords]
        /\ \A q \in Requests \ {r} : request'[q] = request[q]
        /\ request'[r].status = "completed" /\ request'[r].asset = request[r].asset
        /\ request'[r].domains = request[r].domains /\ request'[r].name = request[r].name
    BY <1>0, <1>1, <1>2 DEF RequestRecords
  <1>4. /\ call' \in [Workers -> CallRecords] /\ call'[c].step = "report" /\ call'[c].request = r
        /\ call'[c].name = call[c].name /\ \A d \in Workers \ {c} : call'[d] = call[d]
    BY <1>0, <1>a, <1>2 DEF CallRecords, Steps
  <1>5. Grows
    BY <1>0, <1>1, <1>3, TriesAreNaturals DEF Grows, Holds, Known, Exists, issued, registry
  <1>6. TypeOK' /\ NamesAreIndexed'
    <2>1. RegistryTypeOK' /\ NamesAreIndexed'
      BY <1>0, <1>1 DEF registry, Typed, RegistryTypeOK, GovernanceInv, NamesAreIndexed
    <2> QED
      BY <1>0, <1>1, <1>3, <1>4, <2>1, TypesAre DEF issued, Typed
  <1>7. \A q \in Requests : RequestInv(q)'
    <2>1. RequestInv(r)'
      <3>1. Recorded(r)'
        BY <1>1, <1>5, RecordedStays
      <3>2. /\ request'[r].domains \in DomainLists /\ request'[r].name \in Names
            /\ request'[r].asset \in Assets => Exists(request[r].asset)'
        BY <1>1, <1>3, <1>5 DEF RequestInv, Grows
      <3> QED
        BY <1>3, <3>1, <3>2 DEF RequestInv, Known, Exists
    <2>2. \A q \in Requests \ {r} : RequestInv(q)'
      <3>1. \A q \in Requests : RequestInv(q) /\ (job'[q].tries > 0 => Known(q))
        BY <1>1 DEF GovernanceInv, RequestInv
      <3> QED
        BY <1>3, <1>5, <3>1, RequestStays
    <2> QED
      BY <2>1, <2>2
  <1>8. \A d \in Workers : CallInv(d)'
    <2>1. CallInv(c)'
      <3>1. job[r].tries > 0 /\ call[c].name = request[r].name
        BY <1>a, <1>1 DEF GovernanceInv, CallInv, WorkInv
      <3> QED
        BY <1>1, <1>3, <1>4, <3>1 DEF CallInv, WorkInv
    <2>2. ASSUME NEW d \in Workers \ {c} PROVE CallInv(d)'
      BY <1>1, <1>4, <1>5, CallStays DEF Holds, issued
    <2> QED
      BY <2>1, <2>2
  <1>9. \A d, e \in Workers : TwoInv(d, e)'
    <2>1. \A d \in Workers : GoesOn(d)
      BY <1>a, <1>1, <1>4 DEF GoesOn
    <2> QED
      BY <1>5, <2>1, TwoStay
  <1>10. \A a \in Assets : AssetInv(a)'
    BY <1>1, <1>5, AssetStays DEF issued, registry
  <1>11. LinksInv' /\ NewestInv'
    BY <1>1, <1>5, LinksStay, NewestStays DEF issued, registry
  <1> QED
    BY <1>6, <1>7, <1>8, <1>9, <1>10, <1>11 DEF GovernanceInv

LEMMA LinkKeepsInv ==
  ASSUME GovernanceInv, NEW c \in Workers, Link(c)
  PROVE  GovernanceInv'
  <1> DEFINE ds == call[c].domains
  <1>0. /\ TypeOK /\ Typed /\ call \in [Workers -> CallRecords] /\ links \in [Domains -> SUBSET Assets]
    BY TypesAre DEF GovernanceInv, Typed
  <1>a. PICK r \in Requests, a \in Assets : r = call[c].request /\ a = call[c].asset
    BY DEF Link, GovernanceInv, CallInv, WorkInv, LinkInv
  <1>1. /\ call[c].step = "link" /\ r \in Requests /\ RequestInv(r) /\ Known(r) /\ LinkInv(call[c], r)
        /\ job[r].tries > 0 /\ call[c].name = request[r].name
        /\ UNCHANGED <<registry, request, job, asset, versions, faults>>
    BY <1>a DEF Link, GovernanceInv, CallInv, WorkInv, RequestInv
  <1>2. /\ a \in Assets /\ Holds(a, r) /\ ds \in DomainLists
        /\ Listed(ds) \subseteq Listed(request[r].domains)
        /\ \A d \in Listed(request[r].domains) : d \in Listed(ds) \/ a \in links[d]
    BY <1>a, <1>1 DEF LinkInv
  <1>3. /\ Head(ds) \in Domains /\ Head(ds) \in Listed(ds)
        /\ Listed(ds) = {Head(ds)} \cup Listed(Tail(ds))
        /\ Len(ds) = 1 => Tail(ds) = << >> /\ Listed(Tail(ds)) = {}
        /\ Len(ds) # 1 => Tail(ds) \in DomainLists
    BY <1>2, ListsAre
  <1>4. /\ links' = [links EXCEPT ![Head(ds)] = links[Head(ds)] \cup {a}]
        /\ call' = [call EXCEPT ![c].domains = Tail(ds),
                               ![c].step = IF Len(ds) = 1 THEN "complete" ELSE "link"]
    BY <1>a DEF Link
  <1> HIDE DEF ds
  <1>5. /\ call' \in [Workers -> CallRecords] /\ call'[c].request = r /\ call'[c].asset = a
        /\ call'[c].name = call[c].name /\ call'[c].domains = Tail(ds)
        /\ call'[c].step = (IF Len(ds) = 1 THEN "complete" ELSE "link")
        /\ \A d \in Workers \ {c} : call'[d] = call[d]
    <2> DEFINE m == [call EXCEPT ![c].domains = Tail(ds)]
    <2>1. /\ m \in [Workers -> CallRecords] /\ m[c].request = r /\ m[c].asset = a
          /\ m[c].name = call[c].name /\ m[c].domains = Tail(ds)
          /\ \A d \in Workers \ {c} : m[d] = call[d]
      BY <1>0, <1>a, <1>3 DEF CallRecords
    <2>2. call' = [m EXCEPT ![c].step = IF Len(ds) = 1 THEN "complete" ELSE "link"]
      BY <1>4
    <2> HIDE DEF m
    <2> QED
      BY <2>1, <2>2 DEF CallRecords, Steps
  <1>6. /\ links' \in [Domains -> SUBSET Assets] /\ a \in links'[Head(ds)]
        /\ \A d \in Domains : links[d] \subseteq links'[d]
        /\ \A d \in Domains : \A b \in links'[d] : b \in links[d] \/ (d = Head(ds) /\ b = a)
    BY <1>0, <1>2, <1>3, <1>4
  <1>7. Grows
    BY <1>0, <1>1, <1>6, TriesAreNaturals DEF Grows, Holds, Known, Exists, registry
  <1>8. TypeOK' /\ NamesAreIndexed'
    <2>1. RegistryTypeOK' /\ NamesAreIndexed'
      BY <1>0, <1>1 DEF registry, Typed, RegistryTypeOK, GovernanceInv, NamesAreIndexed
    <2> QED
      BY <1>0, <1>1, <1>5, <1>6, <2>1, TypesAre DEF Typed
  <1>9. \A q \in Requests : RequestInv(q)'
    <2>1. \A q \in Requests : RequestInv(q) /\ (job'[q].tries > 0 => Known(q)) /\ request'[q] = request[q]
      BY <1>1 DEF GovernanceInv, RequestInv
    <2> QED
      BY <1>7, <2>1, RequestStays
  <1>10. \A d \in Workers : CallInv(d)'
    <2>1. CallInv(c)'
      <3>1. \A d \in Listed(request[r].domains) : d \in Domains
        BY <1>1, ListsAre DEF RequestInv
      <3>2. \A d \in Listed(request[r].domains) : d \in Listed(Tail(ds)) \/ a \in links'[d]
        BY <1>2, <1>3, <1>6, <3>1
      <3>3. CASE Len(ds) = 1
        <4>1. Recorded(r)'
          BY <1>1, <1>2, <1>3, <3>2, <3>3 DEF Recorded, Holds
        <4> QED
          BY <1>1, <1>5, <3>3, <4>1 DEF CallInv, WorkInv
      <3>4. CASE Len(ds) # 1
        <4>1. LinkInv(call[c], r)'
          BY <1>1, <1>2, <1>3, <1>5, <3>2, <3>4 DEF LinkInv, Holds
        <4> QED
          BY <1>1, <1>5, <3>4, <4>1 DEF CallInv, WorkInv, LinkInv, Holds
      <3> QED
        BY <3>3, <3>4
    <2>2. ASSUME NEW d \in Workers \ {c} PROVE CallInv(d)'
      BY <1>1, <1>5, <1>7, CallStays DEF Holds
    <2> QED
      BY <2>1, <2>2
  <1>11. \A d, e \in Workers : TwoInv(d, e)'
    <2>1. \A d \in Workers : GoesOn(d)
      BY <1>a, <1>1, <1>5 DEF GoesOn
    <2> QED
      BY <1>7, <2>1, TwoStay
  <1>12. \A b \in Assets : AssetInv(b)'
    BY <1>1, <1>7, AssetStays DEF registry
  <1>13. LinksInv'
    <2> SUFFICES ASSUME NEW d \in Domains, NEW b \in links'[d]
                 PROVE  \E i \in DOMAIN versions'[b] : d \in Listed(request'[versions'[b][i]].domains)
      BY DEF LinksInv
    <2>1. CASE b \in links[d]
      BY <1>1, <2>1 DEF GovernanceInv, LinksInv
    <2>2. CASE d = Head(ds) /\ b = a
      <3>1. PICK i \in DOMAIN versions[a] : versions[a][i] = r
        BY <1>2 DEF Holds
      <3>2. d \in Listed(request[r].domains)
        BY <1>2, <1>3, <2>2
      <3> QED
        BY <1>1, <2>2, <3>1, <3>2
    <2> QED
      BY <1>6, <2>1, <2>2
  <1>14. NewestInv'
    BY <1>1, <1>7, NewestStays DEF registry
  <1> QED
    BY <1>8, <1>9, <1>10, <1>11, <1>12, <1>13, <1>14 DEF GovernanceInv

-----------------------------------------------------------------------------
(* A version is stored.                                                    *)

LEMMA StoredVersion ==
  ASSUME TypeOK, NEW a \in Assets, AssetInv(a), NEW r \in Requests, NEW ds \in DomainLists,
         AddVersion(a, r, ds)
  PROVE  /\ asset' \in [Assets -> AssetRecords]
         /\ versions' \in [Assets -> BoundedSeq(Requests, Cardinality(Requests))]
         /\ \A b \in Assets \ {a} : asset'[b] = asset[b] /\ versions'[b] = versions[b]
         /\ IsInjective(versions'[a]) /\ versions'[a] # << >>
         /\ \A i \in DOMAIN versions[a] : i \in DOMAIN versions'[a] /\ versions'[a][i] = versions[a][i]
         /\ \A i \in DOMAIN versions'[a] :
              versions'[a][i] = r \/ (i \in DOMAIN versions[a] /\ versions'[a][i] = versions[a][i])
         /\ \E i \in DOMAIN versions'[a] : versions'[a][i] = r
         /\ asset'[a].current \in DOMAIN versions'[a]
         /\ \/ /\ versions'[a] = versions[a] /\ Holds(a, r)
               /\ asset'[a].domains = asset[a].domains
            \/ /\ ~Holds(a, r) /\ asset'[a].domains = ds /\ Last(versions'[a]) = r
               /\ asset'[a].current = Len(versions'[a])
  <1> DEFINE N == Cardinality(Requests)
             s == versions[a]
             known == {i \in DOMAIN s : s[i] = r}
  <1>0. N \in Nat
    BY FS_CardinalityType, GovernanceAssumption DEF GovernanceAssumption
  <1>1. /\ s \in Seq(Requests) /\ Len(s) \in Nat /\ DOMAIN s = 1 .. Len(s) /\ IsInjective(s)
        /\ \A i \in DOMAIN s : s[i] \in Requests
    BY VersionsAreSequences DEF AssetInv
  <1>2. /\ asset \in [Assets -> AssetRecords] /\ asset[a] \in AssetRecords
        /\ versions \in [Assets -> BoundedSeq(Requests, N)]
    BY TypesAre DEF Typed
  <1>3. Len(s) <= N
    BY <1>1, CountsOnce
  <1>4. Holds(a, r) <=> known # {}
    BY DEF Holds
  <1>5. CASE known # {}
    <2> DEFINE k == CHOOSE i \in known : TRUE
    <2>1. k \in known
      BY <1>5
    <2>2. asset' = [asset EXCEPT ![a].current = k] /\ versions' = versions
      BY <1>5 DEF AddVersion
    <2> HIDE DEF k
    <2>3. k \in 0 .. N /\ k \in DOMAIN s /\ s[k] = r
      BY <1>0, <1>1, <1>3, <2>1
    <2>4. /\ asset' \in [Assets -> AssetRecords] /\ asset'[a].current = k
          /\ asset'[a].domains = asset[a].domains /\ \A b \in Assets \ {a} : asset'[b] = asset[b]
      BY <1>2, <2>2, <2>3 DEF AssetRecords
    <2>5. s # << >>
      BY <2>3
    <2> QED
      BY <1>1, <1>2, <1>4, <1>5, <2>2, <2>3, <2>4, <2>5
  <1>6. CASE known = {}
    <2> DEFINE t == Append(s, r)
               x == [domains |-> ds, current |-> Len(s) + 1]
    <2>1. /\ t \in Seq(Requests) /\ t # << >> /\ Len(t) = Len(s) + 1
          /\ \A i \in 1 .. Len(s) : t[i] = s[i]
          /\ t[Len(s) + 1] = r
      BY <1>1, AppendProperties
    <2>2. DOMAIN t = 1 .. Len(s) + 1
      BY <2>1, LenProperties
    <2>3. versions' = [versions EXCEPT ![a] = t] /\ asset' = [asset EXCEPT ![a] = x]
      BY <1>6 DEF AddVersion
    <2>4. x.domains = ds /\ x.current = Len(s) + 1
      OBVIOUS
    <2> HIDE DEF t
    <2>5. IsInjective(t)
      <3>1. \A i \in 1 .. Len(s) : s[i] # r
        BY <1>1, <1>6
      <3>2. ASSUME NEW i \in 1 .. Len(s) + 1, NEW j \in 1 .. Len(s) + 1, t[i] = t[j]
            PROVE  i = j
        <4>1. CASE i \in 1 .. Len(s) /\ j \in 1 .. Len(s)
          BY <1>1, <2>1, <3>2, <4>1 DEF IsInjective
        <4>2. CASE i = Len(s) + 1 \/ j = Len(s) + 1
          <5>1. \A k \in 1 .. Len(s) + 1 : t[k] = r => k = Len(s) + 1
            BY <1>1, <2>1, <3>1
          <5> QED
            BY <2>1, <3>2, <4>2, <5>1
        <4> QED
          BY <1>1, <4>1, <4>2
      <3> QED
        BY <2>2, <3>2 DEF IsInjective
    <2>6. Len(s) + 1 <= N
      BY <2>1, <2>5, CountsOnce
    <2>7. t \in BoundedSeq(Requests, N)
      BY <1>0, <2>1, <2>6, Bounded
    <2>8. x \in AssetRecords
      BY <1>0, <1>1, <2>6 DEF AssetRecords
    <2> HIDE DEF x
    <2>9. /\ asset' \in [Assets -> AssetRecords] /\ asset'[a] = x
          /\ versions' \in [Assets -> BoundedSeq(Requests, N)] /\ versions'[a] = t
          /\ \A b \in Assets \ {a} : asset'[b] = asset[b] /\ versions'[b] = versions[b]
      BY <1>2, <2>3, <2>7, <2>8
    <2>10. Last(t) = r
      BY <2>1 DEF Last
    <2>11. /\ \A i \in 1 .. Len(s) : i \in 1 .. Len(s) + 1
           /\ \A i \in 1 .. Len(s) + 1 : i = Len(s) + 1 \/ i \in 1 .. Len(s)
           /\ Len(s) + 1 \in 1 .. Len(s) + 1
      BY <1>1
    <2>12. /\ \A i \in DOMAIN s : i \in DOMAIN t /\ t[i] = s[i]
           /\ \A i \in DOMAIN t : t[i] = r \/ (i \in DOMAIN s /\ t[i] = s[i])
           /\ \E i \in DOMAIN t : t[i] = r
      BY <1>1, <2>1, <2>2, <2>11
    <2>13. asset'[a].current \in DOMAIN t /\ asset'[a].current = Len(t) /\ asset'[a].domains = ds
      BY <2>1, <2>2, <2>4, <2>9, <2>11
    <2> QED
      BY <1>4, <1>6, <2>1, <2>5, <2>9, <2>10, <2>12, <2>13
  <1> QED
    BY <1>5, <1>6

(* The execution goes on to the domains.                                   *)
NowLinks(c, a) == call' = [call EXCEPT ![c].step = "link", ![c].asset = a]

LEMMA NowLinksIs ==
  ASSUME TypeOK, NEW c \in Workers, NEW a \in Assets, NowLinks(c, a)
  PROVE  /\ call' \in [Workers -> CallRecords] /\ \A d \in Workers \ {c} : call'[d] = call[d]
         /\ call'[c].step = "link" /\ call'[c].asset = a /\ call'[c].request = call[c].request
         /\ call'[c].domains = call[c].domains /\ call'[c].name = call[c].name
  <1> DEFINE m == [call EXCEPT ![c].step = "link"]
  <1>0. call \in [Workers -> CallRecords] /\ a \in AssetIDs
    BY TypesAre DEF Typed, AssetIDs
  <1>1. /\ m \in [Workers -> CallRecords] /\ \A d \in Workers \ {c} : m[d] = call[d]
        /\ m[c].step = "link" /\ m[c].request = call[c].request
        /\ m[c].domains = call[c].domains /\ m[c].name = call[c].name
    BY <1>0 DEF CallRecords, Steps
  <1>2. call' = [m EXCEPT ![c].asset = a]
    BY DEF NowLinks
  <1> HIDE DEF m
  <1> QED
    BY <1>0, <1>1, <1>2 DEF CallRecords

LEMMA VersionKeepsInv ==
  ASSUME GovernanceInv, NEW c \in Workers, NEW a \in Assets, NEW r \in Requests,
         r = call[c].request, call[c].step = "persist",
         AddVersion(a, r, call[c].domains), NowLinks(c, a), UNCHANGED <<request, job, links, faults>>,
         RegistryTypeOK', NamesAreIndexed',
         \A n \in Names : index[Assets][n] # None => index'[Assets][n] = index[Assets][n],
         \A b \in Assets \ {a} : name'[b] = name[b], Exists(a)', HomeOf(r)' = a
  PROVE  GovernanceInv'
  <1>0. TypeOK /\ Typed
    BY TypesAre DEF GovernanceInv
  <1>1. /\ job[r].tries > 0 /\ job[r].tries \in Nat /\ Known(r) /\ RequestInv(r) /\ AssetInv(a)
        /\ PersistInv(call[c], r) /\ call[c].name = request[r].name
    BY <1>0, TriesAreNaturals DEF GovernanceInv, CallInv, WorkInv, RequestInv
  <1>2. /\ request[r].domains \in DomainLists /\ call[c].domains = request[r].domains
        /\ job[r].tries = 1 => \A b \in Assets : ~Holds(b, r)
    BY <1>1 DEF PersistInv, RequestInv
  <1>3. /\ asset' \in [Assets -> AssetRecords]
        /\ versions' \in [Assets -> BoundedSeq(Requests, Cardinality(Requests))]
        /\ \A b \in Assets \ {a} : asset'[b] = asset[b] /\ versions'[b] = versions[b]
        /\ IsInjective(versions'[a]) /\ versions'[a] # << >>
        /\ \A i \in DOMAIN versions[a] : i \in DOMAIN versions'[a] /\ versions'[a][i] = versions[a][i]
        /\ \A i \in DOMAIN versions'[a] :
             versions'[a][i] = r \/ (i \in DOMAIN versions[a] /\ versions'[a][i] = versions[a][i])
        /\ \E i \in DOMAIN versions'[a] : versions'[a][i] = r
        /\ asset'[a].current \in DOMAIN versions'[a]
        /\ \/ /\ versions'[a] = versions[a] /\ Holds(a, r)
              /\ asset'[a].domains = asset[a].domains
           \/ /\ ~Holds(a, r) /\ asset'[a].domains = request[r].domains /\ Last(versions'[a]) = r
              /\ asset'[a].current = Len(versions'[a])
    BY <1>0, <1>1, <1>2, StoredVersion
  <1>4. /\ call' \in [Workers -> CallRecords] /\ \A d \in Workers \ {c} : call'[d] = call[d]
        /\ call'[c].step = "link" /\ call'[c].asset = a /\ call'[c].request = r
        /\ call'[c].domains = request[r].domains /\ call'[c].name = request[r].name
    BY <1>0, <1>1, <1>2, NowLinksIs
  <1>5. \A b \in Assets, q \in Requests :
          /\ Holds(b, q) => Holds(b, q)'
          /\ Holds(b, q)' => Holds(b, q) \/ (b = a /\ q = r)
    BY <1>3 DEF Holds
  <1>6. Grows
    BY <1>0, <1>5, TriesAreNaturals DEF Grows, Known, Exists
  <1>7. TypeOK' /\ NamesAreIndexed'
    BY <1>0, <1>3, <1>4, TypesAre DEF Typed
  <1>8. \A q \in Requests : RequestInv(q)'
    <2>1. \A q \in Requests : RequestInv(q) /\ (job'[q].tries > 0 => Known(q)) /\ request'[q] = request[q]
      BY DEF GovernanceInv, RequestInv
    <2> QED
      BY <1>6, <2>1, RequestStays
  <1>9. \A d \in Workers : CallInv(d)'
    <2>1. CallInv(c)'
      <3>1. LinkInv(call[c], r)'
        <4>1. Holds(a, r)'
          BY <1>3 DEF Holds
        <4> QED
          BY <1>2, <1>4, <4>1 DEF LinkInv, Holds
      <3> QED
        BY <1>1, <1>4, <3>1 DEF CallInv, WorkInv, LinkInv, Holds
    <2>2. ASSUME NEW d \in Workers \ {c} PROVE CallInv(d)'
      <3>1. ASSUME call[d].step = "persist", job'[call[d].request].tries = 1
            PROVE  call[d].request \in Requests /\ call[d].request # r
        BY <1>1, <3>1 DEF GovernanceInv, CallInv, WorkInv, TwoInv
      <3>2. ASSUME call[d].step = "persist", job'[call[d].request].tries = 1
            PROVE  \A b \in Assets : Holds(b, call[d].request)' => Holds(b, call[d].request)
        <4>1. PICK q \in Requests : q = call[d].request /\ q # r
          BY <3>1, <3>2
        <4>2. call'[d] = call[d]
          BY <1>4
        <4> QED
          BY <1>5, <4>1, <4>2 DEF Holds
      <3> QED
        BY <1>4, <1>6, <3>2, CallStays
    <2> QED
      BY <2>1, <2>2
  <1>10. \A d, e \in Workers : TwoInv(d, e)'
    <2>1. \A d \in Workers : GoesOn(d)
      BY <1>4 DEF GoesOn
    <2> QED
      BY <1>6, <2>1, TwoStay
  <1>11. AssetInv(a)'
    <2>1. ASSUME NEW i \in DOMAIN versions[a]
          PROVE  \E q \in Requests : q = versions[a][i] /\ HomeOf(q)' = a /\ job[q].tries > 0
      <3>1. PICK q \in Requests : q = versions[a][i] /\ Known(q) /\ RequestInv(q) /\ HomeOf(q) = a /\ a # None
        BY HeldIsKnown
      <3>2. HomeOf(q)' = a
        BY <1>6, <3>1, HomeStays
      <3> QED
        BY <1>1, <3>1, <3>2 DEF AssetInv
    <2>2. \A i \in DOMAIN versions'[a] : HomeOf(versions[a][i])' = a /\ job'[versions'[a][i]].tries > 0
      BY <1>1, <1>3, <2>1 DEF HomeOf
    <2>3. asset'[a].domains = request'[Last(versions'[a])].domains
      <3>1. CASE versions'[a] = versions[a] /\ asset'[a].domains = asset[a].domains
        <4>1. Exists(a)
          BY <1>1, <1>3, <3>1 DEF AssetInv
        <4> QED
          BY <1>1, <3>1, <4>1 DEF AssetInv
      <3>2. CASE asset'[a].domains = request[r].domains /\ Last(versions'[a]) = r
        BY <3>2
      <3> QED
        BY <1>3, <3>1, <3>2
    <2> QED
      BY <1>3, <2>2, <2>3 DEF AssetInv, Last, Exists, HomeOf, IsInjective
  <1>12. \A b \in Assets \ {a} : AssetInv(b)'
    BY <1>3, <1>6, AssetStays
  <1>13. LinksInv'
    <2> SUFFICES ASSUME NEW d \in Domains, NEW b \in links[d]
                 PROVE  \E i \in DOMAIN versions'[b] : d \in Listed(request[versions'[b][i]].domains)
      BY DEF LinksInv
    <2>1. b \in Assets
      BY <1>0 DEF Typed
    <2>2. PICK i \in DOMAIN versions[b] : d \in Listed(request[versions[b][i]].domains)
      BY DEF GovernanceInv, LinksInv
    <2>3. i \in DOMAIN versions'[b] /\ versions'[b][i] = versions[b][i]
      BY <1>3, <2>1, <2>2
    <2> QED
      BY <2>2, <2>3
  <1>14. NewestInv'
    <2> SUFFICES ASSUME \A q \in Requests : job[q].tries <= 1, NEW b \in Assets, Exists(b)'
                 PROVE  asset'[b].current = Len(versions'[b])
      BY DEF NewestInv
    <2>1. CASE b = a
      BY <1>1, <1>2, <1>3, <2>1
    <2>2. CASE b # a
      BY <1>3, <2>2 DEF GovernanceInv, NewestInv, Exists
    <2> QED
      BY <2>1, <2>2
  <1> QED
    BY <1>7, <1>8, <1>9, <1>10, <1>11, <1>12, <1>13, <1>14 DEF GovernanceInv

LEMMA PersistKeepsInv ==
  ASSUME GovernanceInv, NEW c \in Workers, Persist(c)
  PROVE  GovernanceInv'
  <1>0. /\ TypeOK /\ Typed /\ RegistryTypeOK /\ NamesAreIndexed /\ faults \in 0 .. MaxFaults
    BY TypesAre DEF GovernanceInv, Typed
  <1>1. PICK r \in Requests, n \in Names :
          /\ r = call[c].request /\ n = call[c].name /\ n = request[r].name
          /\ call[c].asset = request[r].asset /\ RequestInv(r) /\ Known(r)
          /\ call[c].step = "persist"
    BY DEF Persist, Upsert, GovernanceInv, CallInv, WorkInv, PersistInv, RequestInv
  <1> DEFINE home == IF call[c].asset # None THEN call[c].asset ELSE index[Assets][n]
  <1>2. /\ UNCHANGED <<request, links, faults>>
        /\ \/ /\ home \in Assets
              /\ AddVersion(home, r, call[c].domains)
              /\ NowLinks(c, home)
              /\ UNCHANGED <<registry, job>>
           \/ /\ home = None
              /\ \E new \in Assets :
                   /\ Create(new, n)
                   /\ AddVersion(new, r, call[c].domains)
                   /\ NowLinks(c, new)
              /\ UNCHANGED <<disabled, credential, job>>
           \/ /\ home = Unknown
              /\ Release(c, r, FALSE)
              /\ call' = [call EXCEPT ![c] = NoCall]
              /\ UNCHANGED <<registry, asset, versions>>
    BY <1>1 DEF Persist, Upsert, NowLinks
  <1>3. home = HomeOf(r)
    BY <1>1 DEF HomeOf
  <1>4. Assets \in Kinds /\ None \notin Assets /\ None \notin Names
    BY KindsAre, KindIs, RegistryAssumption DEF RegistryAssumption
  <1> HIDE DEF home
  <1>5. ASSUME home \in Assets, AddVersion(home, r, call[c].domains), NowLinks(c, home),
               UNCHANGED <<registry, job>>
        PROVE  GovernanceInv'
    <2>1. PICK a \in Assets : a = home
      BY <1>5
    <2>2. HomeOf(r)' = a
      BY <1>2, <1>3, <1>5, <2>1 DEF HomeOf, registry
    <2>3. Exists(a)
      <3>1. CASE request[r].asset # None
        BY <1>1, <1>3, <2>1, <3>1 DEF HomeOf, RequestInv
      <3>2. CASE request[r].asset = None
        <4>1. index[Assets][n] = a
          BY <1>1, <1>3, <2>1, <3>2 DEF HomeOf
        <4>2. name[a] = n
          BY <1>0, <1>4, <4>1 DEF NamesAreIndexed
        <4> QED
          BY <1>4, <4>2 DEF Exists
      <3> QED
        BY <3>1, <3>2
    <2>4. /\ RegistryTypeOK' /\ NamesAreIndexed' /\ Exists(a)' /\ name' = name /\ index' = index
      BY <1>0, <1>5, <2>3 DEF RegistryTypeOK, NamesAreIndexed, Exists, registry
    <2> QED
      BY <1>1, <1>2, <1>5, <2>1, <2>2, <2>4, VersionKeepsInv
  <1>6. ASSUME home = None, NEW new \in Assets, Create(new, n),
               AddVersion(new, r, call[c].domains), NowLinks(c, new),
               UNCHANGED <<disabled, credential, job>>
        PROVE  GovernanceInv'
    <2>1. /\ NamesAreIndexed'
          /\ name' \in [Resources -> Names \cup {None}]
          /\ index' \in [Kinds -> [Names -> Resources \cup {None}]]
          /\ name'[new] = n /\ \A y \in Resources \ {new} : name'[y] = name[y]
          /\ index'[Assets][n] = new
          /\ index[Assets][n] = None /\ \A m \in Names \ {n} : index'[Assets][m] = index[Assets][m]
      BY <1>0, <1>4, <1>6, WritesKeepIndex
    <2>2. RegistryTypeOK'
      BY <1>0, <1>6, <2>1 DEF RegistryTypeOK
    <2>3. \A m \in Names : index[Assets][m] # None => index'[Assets][m] = index[Assets][m]
      BY <2>1
    <2>4. \A b \in Assets \ {new} : name'[b] = name[b]
      BY <1>4, <2>1, KindIs
    <2>5. Exists(new)'
      BY <1>4, <2>1 DEF Exists
    <2>6. HomeOf(r)' = new
      <3>1. request'[r].asset = None /\ request'[r].name = n
        <4>1. request[r].asset = None
          BY <1>3, <1>6 DEF HomeOf
        <4> QED
          BY <1>1, <1>2, <4>1
      <3> QED
        BY <2>1, <3>1 DEF HomeOf
    <2> QED
      BY <1>1, <1>2, <1>6, <2>1, <2>2, <2>3, <2>4, <2>5, <2>6, VersionKeepsInv
  <1>7. ASSUME Release(c, r, FALSE), call' = [call EXCEPT ![c] = NoCall],
               UNCHANGED <<registry, asset, versions>>
        PROVE  GovernanceInv'
    <2>1. Only /\ faults' \in 0 .. MaxFaults
      BY <1>0, <1>2, <1>7 DEF Only, issued
    <2>2. job' \in [Requests -> JobRecords] /\ \A q \in Requests : job'[q].tries = job[q].tries
      BY <1>0, <1>7, ReleasesAreTyped
    <2>3. /\ call' \in [Workers -> CallRecords]
          /\ \A d \in Workers : call'[d] \in {call[d], NoCall}
      BY <1>0, <1>7, CallsAreTyped
    <2> QED
      BY <2>1, <2>2, <2>3, EndsKeepInv
  <1> QED
    BY <1>2, <1>5, <1>6, <1>7

LEMMA StutterKeepsInv ==
  ASSUME GovernanceInv, UNCHANGED vars
  PROVE  GovernanceInv'
  <1>1. /\ Only /\ faults' \in 0 .. MaxFaults /\ job' = job /\ call' = call
        /\ job \in [Requests -> JobRecords] /\ call \in [Workers -> CallRecords]
    BY TypesAre DEF vars, Only, GovernanceInv, Typed
  <1> QED
    BY <1>1, EndsKeepInv

LEMMA StepKeepsInv == GovernanceInv /\ [Next]_vars => GovernanceInv'
  <1> SUFFICES ASSUME GovernanceInv, [Next]_vars PROVE GovernanceInv'
    OBVIOUS
  <1>1. CASE RegistryNext /\ UNCHANGED <<request, job, issued, call, faults>>
    BY <1>1, CommandKeepsInv
  <1>2. CASE (\E ds \in DomainLists : CreateRequest(ds)) \/ (\E a \in Assets : RenewAsset(a))
    BY <1>2, SubmissionsKeepInv
  <1>3. CASE \E c \in Workers : \E r \in Requests : StartCompletion(c, r)
    BY <1>3, StartKeepsInv
  <1>4. CASE \E c \in Workers : Persist(c) \/ Link(c) \/ Complete(c)
    BY <1>4, PersistKeepsInv, LinkKeepsInv, CompleteKeepsInv
  <1>5. CASE (\E c \in Workers : Report(c) \/ Crash(c)) \/ (\E r \in Requests : LoseLease(r))
    BY <1>5, LossesKeepInv
  <1>6. CASE UNCHANGED vars
    BY <1>6, StutterKeepsInv
  <1> QED
    BY <1>1, <1>2, <1>3, <1>4, <1>5, <1>6 DEF Next

-----------------------------------------------------------------------------
(* The theorems.                                                           *)

(* The stores and the executions stay consistent, through renamings,       *)
(* crashes, lost leases and repetitions.                                   *)
THEOREM GovernanceInvariance == Spec => []GovernanceInv
  BY InitKeepsInv, StepKeepsInv, PTL DEF Spec

(* Every variable keeps its type; in particular an asset never has more    *)
(* versions than there are requests (UpsertIssued).                        *)
THEOREM TypeCorrectness == Spec => []TypeOK
  <1>1. GovernanceInv => TypeOK
    BY DEF GovernanceInv
  <1> QED
    BY <1>1, GovernanceInvariance, PTL

(* The name indexes of all services lead to the one resource that bears    *)
(* the name, for any sequence of creations and renamings.                  *)
THEOREM NamesStayIndexed == Spec => []NamesAreIndexed
  <1>1. GovernanceInv => NamesAreIndexed
    BY DEF GovernanceInv
  <1> QED
    BY <1>1, GovernanceInvariance, PTL

(* All versions of a request's workflow are the one in its home.           *)
LEMMA OneVersion ==
  ASSUME GovernanceInv, NEW r \in Requests
  PROVE  Cardinality(Versions(r)) <= 1
  <1>1. ASSUME NEW v \in Versions(r), NEW w \in Versions(r)
        PROVE  v = w
    <2>1. /\ v \in Assets \X (1 .. Cardinality(Requests)) /\ w \in Assets \X (1 .. Cardinality(Requests))
          /\ v[2] \in DOMAIN versions[v[1]] /\ versions[v[1]][v[2]] = r
          /\ w[2] \in DOMAIN versions[w[1]] /\ versions[w[1]][w[2]] = r
      BY DEF Versions
    <2>2. v[1] = HomeOf(r) /\ w[1] = HomeOf(r) /\ v[1] \in Assets /\ w[1] \in Assets
      BY <2>1, HeldIsKnown
    <2>3. v[2] = w[2]
      BY <2>1, <2>2 DEF GovernanceInv, AssetInv, IsInjective
    <2> QED
      BY <2>1, <2>2, <2>3
  <1>2. CASE Versions(r) = {}
    BY <1>2, FS_EmptySet
  <1>3. CASE Versions(r) # {}
    <2>1. PICK v \in Versions(r) : Versions(r) = {v}
      BY <1>1, <1>3
    <2>2. Cardinality({v}) = 1
      BY FS_Singleton
    <2> QED
      BY <2>1, <2>2
  <1> QED
    BY <1>2, <1>3

(* A position within an asset is one within the bound.                     *)
LEMMA PositionsAreBounded ==
  ASSUME GovernanceInv, NEW a \in Assets, NEW i \in DOMAIN versions[a]
  PROVE  <<a, i>> \in Versions(versions[a][i])
  <1>1. /\ versions[a] \in Seq(Requests) /\ Len(versions[a]) \in Nat
        /\ DOMAIN versions[a] = 1 .. Len(versions[a]) /\ IsInjective(versions[a])
    BY VersionsAreSequences DEF GovernanceInv, AssetInv
  <1>2. Len(versions[a]) <= Cardinality(Requests)
    BY <1>1, CountsOnce
  <1>3. Cardinality(Requests) \in Nat
    BY FS_CardinalityType, GovernanceAssumption DEF GovernanceAssumption
  <1>4. i \in 1 .. Cardinality(Requests)
    BY <1>1, <1>2, <1>3
  <1> QED
    BY <1>4 DEF Versions

(* What was issued is on record, once and under every domain it is for.    *)
THEOREM IssuedIsOnRecord == Spec => []CertificatesAreOnRecord
  <1>1. GovernanceInv => EachIssueIsOneVersion
    <2> SUFFICES ASSUME GovernanceInv PROVE EachIssueIsOneVersion
      OBVIOUS
    <2>1. \A r \in Requests : Cardinality(Versions(r)) <= 1
      BY OneVersion
    <2>2. ASSUME NEW a \in Assets
          PROVE  /\ Exists(a) <=> versions[a] # << >>
                 /\ Exists(a) => /\ asset[a].current \in DOMAIN versions[a]
                                 /\ asset[a].domains = request[Last(versions[a])].domains
                 /\ Exists(a) /\ (\A r \in Requests : job[r].tries <= 1)
                      => asset[a].current = Len(versions[a])
      BY DEF GovernanceInv, AssetInv, NewestInv
    <2> QED
      BY <2>1, <2>2 DEF EachIssueIsOneVersion
  <1>2. GovernanceInv => ListsTellTheVersions
    <2> SUFFICES ASSUME GovernanceInv PROVE ListsTellTheVersions
      OBVIOUS
    <2>1. ASSUME NEW r \in Requests, request[r].status = "completed"
          PROVE  \E v \in Versions(r) : \A d \in Listed(request[r].domains) : v[1] \in links[d]
      <3>1. PICK a \in Assets : Holds(a, r) /\ \A d \in Listed(request[r].domains) : a \in links[d]
        BY <2>1 DEF GovernanceInv, RequestInv, Recorded
      <3>2. PICK i \in DOMAIN versions[a] : versions[a][i] = r
        BY <3>1 DEF Holds
      <3>3. <<a, i>> \in Versions(r)
        BY <3>2, PositionsAreBounded
      <3>4. <<a, i>>[1] = a
        OBVIOUS
      <3> QED
        BY <3>1, <3>3, <3>4
    <2> QED
      BY <2>1 DEF ListsTellTheVersions, GovernanceInv, LinksInv
  <1> QED
    BY <1>1, <1>2, GovernanceInvariance, PTL DEF CertificatesAreOnRecord
=============================================================================
