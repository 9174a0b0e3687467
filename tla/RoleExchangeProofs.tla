------------------------- MODULE RoleExchangeProofs -------------------------
(***************************************************************************)
(* What holds of roles handed from engine to engine, for any number of     *)
(* engines, roles, certificates and messages, and any chain of exports.    *)
(***************************************************************************)
EXTENDS RoleExchange, RoleDataProofs, WellFoundedInduction

-----------------------------------------------------------------------------
(***************************************************************************)
(* The parser of terms.                                                    *)
(***************************************************************************)

\* The number of the first part of a unit that occurs.
LEMMA FirstPart ==
    ASSUME NEW in \in Input, NEW u \in Units(in) PROVE FirstOf(in, u) \in Nat
<1> DEFINE at == {i \in DOMAIN in.parts : in.parts[i].unit = u}
<1>1. in.parts \in Seq(Parts) BY DEF Input
<1>2. at # {} /\ at \subseteq 1..Len(in.parts) /\ Len(in.parts) \in Nat BY <1>1 DEF Units
<1>3. Min(at) \in at
  <2>1. at \subseteq Nat BY <1>2
  <2>2. \E n \in at : \A m \in at : n <= m
    <3> DEFINE R == OpToRel(<, Nat)
    <3>1. IsWellFoundedOn(R, Nat) BY NatLessThanWellFounded
    <3>2. PICK n \in at : \A m \in at : ~(<<m, n>> \in R)
      <4> HIDE DEF R, at
      <4> QED BY <1>2, <2>1, <3>1, WFMin
    <3>3. \A m \in at : ~(m < n) BY <2>1, <3>2 DEF OpToRel
    <3> HIDE DEF R, at
    <3> QED BY <2>1, <3>3
  <2> QED BY <2>2 DEF Min
<1>4. in.parts[Min(at)] \in Parts
  <2>1. \A j \in 1..Len(in.parts) : in.parts[j] \in Parts BY <1>1
  <2>2. Min(at) \in 1..Len(in.parts)
    <3> HIDE DEF at
    <3> QED BY <1>2, <1>3
  <2> QED BY <2>1, <2>2, Zenon
<1> QED BY <1>4 DEF FirstOf, Parts

\* A product that wraps is a number, and one that fits does not wrap.
LEMMA DurationTyped ==
    /\ \A x \in Int : Duration(x) \in Int
    /\ \A x \in Nat : x < DurationBound => Duration(x) = x
<1>1. DurationBound \in Nat \ {0} BY DurationAssumption
<1>2. ASSUME NEW x \in Int PROVE Duration(x) \in Int
  BY <1>1 DEF Duration
<1>3. ASSUME NEW x \in Nat, x < DurationBound PROVE Duration(x) = x
  <2>1. (x + DurationBound) % (2 * DurationBound) = x + DurationBound BY <1>1, <1>3
  <2> QED BY <1>1, <2>1 DEF Duration
<1> QED BY <1>2, <1>3

-----------------------------------------------------------------------------
(***************************************************************************)
(* An export and its message.                                              *)
(***************************************************************************)

\* A message reads back as it was written, flags and zero values included: the
\* recipient's decoder starts from the zero value.
LEMMA ExchangeRoundTrip ==
    ASSUME NEW x \in RoleDataExchange PROVE UnmarshalExchange(MarshalExchange(x)) = x
<1> DEFINE k == x.RoleData
           e == EncodeKeys(k)
<1>1. k \in RoleKeys /\ x = [RoleData |-> k, UsageTerm |-> x.UsageTerm] BY DEF RoleDataExchange
<1>2. DOMAIN k = KeyFields BY <1>1 DEF RoleKeys, KeyFields
<1>3. DOMAIN ZeroKeys = KeyFields BY DEF ZeroKeys, KeyFields
<1>4. Overlay(e, ZeroKeys) = [f \in KeyFields |-> k[f]]
  <2>1. /\ \A f \in KeyFields : f \in DOMAIN e \/ k[f] = ZeroKeys[f]
        /\ \A f \in DOMAIN e : e[f] = k[f]
    BY <1>2 DEF EncodeKeys, Encode
  <2> HIDE DEF e, k
  <2>2. Overlay(e, ZeroKeys) = [f \in DOMAIN ZeroKeys |-> k[f]]
    BY <1>3, <2>1 DEF Overlay
  <2> QED BY <1>3, <2>2
<1>5. k = [f \in KeyFields |-> k[f]] BY <1>1, <1>2 DEF RoleKeys, KeyFields
<1>6. MarshalExchange(x) = [RoleData |-> e, UsageTerm |-> x.UsageTerm]
  BY <1>1 DEF MarshalExchange
<1>7. UnmarshalExchange(MarshalExchange(x)) =
        [RoleData |-> Overlay(e, ZeroKeys), UsageTerm |-> x.UsageTerm]
  <2> HIDE DEF e
  <2> QED BY <1>6 DEF UnmarshalExchange
<1> QED BY <1>1, <1>4, <1>5, <1>7

-----------------------------------------------------------------------------
(***************************************************************************)
(* Types: what is stored is the encoding of well-formed data, private keys *)
(* and messages are among those there are, and a request under way is of   *)
(* a role.                                                                 *)
(***************************************************************************)
KeyEntries == {EncodeKeys(k) : k \in RoleKeys}
UsageEntries == {EncodeUsage(u) : u \in StoredRoleUsage}
Exports == {MarshalExchange(x) : x \in RoleDataExchange}

Certificates == [to : Roles \X Nat, key : Nat \ {0}, NotAfter : Start..(MaxTime + CertLife)]

Records ==
    [key : Nat \ {0}, label : Labels, data : Exports, Term : Int, to : Roles \X Nat,
     from : Nat, at : Int, term : {q.term : q \in Asked}, asked : DesiredRoleExport]

StorageTyped ==
    /\ keyEntry \in [Roles -> KeyEntries \cup {Nil}]
    /\ usageEntry \in [Roles -> UsageEntries \cup {Nil}]
    /\ pkEntry \in [Roles -> 0..generated]

PapersTyped ==
    /\ generated \in 0..MaxKeys
    /\ certificates \subseteq Certificates /\ \A c \in certificates : c.key <= generated
    /\ messages \in Seq(Records) /\ Len(messages) <= MaxMessages
    /\ \A i \in 1..Len(messages) : messages[i].key <= generated

HistoryTyped ==
    /\ born \in [Roles -> Nat]
    /\ source \in [Roles -> 0..Len(messages)]
    /\ limiting \in [Roles -> 0..Len(messages)]
    /\ under \in [1..MaxMessages -> Labels \cup {Nil}]
    /\ imports \in [1..MaxMessages -> Nat]
    /\ made \in [1..MaxMessages -> 0..UsesBound]

Placed(q) ==
    /\ q.step = "idle" => q = Idle
    /\ q.step # "idle" => q.role \in Roles
    /\ q.step = "savePk" => q.pk \in 1..generated
    /\ q.msg \in 0..Len(messages)

RequestsTyped == req \in [Procs -> Requests] /\ \A p \in Procs : Placed(req[p])

TypeInv ==
    /\ now \in Start..MaxTime /\ label \in [Engines -> Labels]
    /\ StorageTyped /\ PapersTyped /\ HistoryTyped /\ RequestsTyped

\* The bounds are numbers.
LEMMA BoundsAreNumbers ==
    /\ CertLife \in Nat /\ Start \in Nat /\ MaxTime \in Nat /\ Start <= MaxTime /\ MaxKeys \in Nat
    /\ MaxBorn \in Nat /\ MaxMessages \in Nat /\ UsesBound \in Nat /\ MaxTime < DurationBound
BY ExchangeAssumption

\* A role that is there has well-formed keys and usage.
LEMMA RoleTyped ==
    ASSUME TypeInv, NEW r \in Roles
    PROVE  /\ keyEntry[r] # Nil => Keys(r) \in RoleKeys
           /\ usageEntry[r] # Nil => Usage(r) \in StoredRoleUsage
<1>1. ASSUME keyEntry[r] # Nil PROVE Keys(r) \in RoleKeys
  <2>1. PICK k \in RoleKeys : keyEntry[r] = EncodeKeys(k)
    BY <1>1 DEF TypeInv, StorageTyped, KeyEntries
  <2> QED BY <2>1, KeysDecodeTyped DEF Keys
<1>2. ASSUME usageEntry[r] # Nil PROVE Usage(r) \in StoredRoleUsage
  <2>1. PICK u \in StoredRoleUsage : usageEntry[r] = EncodeUsage(u)
    BY <1>2 DEF TypeInv, StorageTyped, UsageEntries
  <2> QED BY <2>1, UsageRoundTrip DEF Usage
<1> QED BY <1>1, <1>2

\* A message holds well-formed exchange data.
LEMMA ContentsTyped ==
    ASSUME NEW m \in Records PROVE UnmarshalExchange(m.data) \in RoleDataExchange
<1>1. PICK x \in RoleDataExchange : m.data = MarshalExchange(x) BY DEF Records, Exports
<1> QED BY <1>1, ExchangeRoundTrip

\* What the parser makes of a text it takes is a number.
LEMMA ParsedIsNumber ==
    ASSUME NEW in \in Input, NEW t \in Int, GoTotal(in) \in Int
    PROVE  ParseUserInputDuration(in, t) \in Int
<1>1. DurationBound \in Nat \ {0} /\ Day \in Nat \ {0} /\ MaxInt \in Nat
  BY DurationAssumption
<1>2. ASSUME NEW u \in Units(in) PROVE FirstOf(in, u) \in Nat
  BY <1>2, FirstPart
<1>3. \A x, y \in Int : Duration(x) \in Int /\ Sub(x, y) \in Int
  BY <1>1, DurationTyped DEF Sub
<1>4. \A n \in Nat : Atoi(n) * Day \in Int /\ Atoi(n) * 7 * Day \in Int
  BY <1>1 DEF Atoi
<1>5. GoDuration(in) \in Int BY DEF GoDuration
<1>6. "d" \in Units(in) => Duration(Atoi(FirstOf(in, "d")) * Day) \in Int BY <1>2, <1>3, <1>4
<1>7. "w" \in Units(in) => Duration(Atoi(FirstOf(in, "w")) * 7 * Day) \in Int
  BY <1>2, <1>3, <1>4
<1>8. "date" \in Units(in) => Sub(FirstOf(in, "date"), t) \in Int BY <1>2, <1>3
<1> QED BY <1>5, <1>6, <1>7, <1>8, Zenon DEF ParseUserInputDuration

\* The settings of an export, with the term that was parsed.
LEMMA ParsedTyped ==
    ASSUME NEW q \in Asked, now \in Start..MaxTime
    PROVE  LET s == parseDesiredRoleExport(q)
           IN  /\ s \in DesiredRoleExport
               /\ s.desireExportable = q.settings.desireExportable
<1> DEFINE n == IF q.term = Nil THEN 0 ELSE ParseUserInputDuration(q.term, now)
<1>1. q.settings \in DesiredRoleExport /\ (q.term = Nil \/ q.term \in Input)
  BY ExchangeAssumption
<1>2. n \in Int
  <2>1. now \in Int BY BoundsAreNumbers
  <2> QED BY <1>1, <2>1, TotalAssumption, ParsedIsNumber
<1>3. parseDesiredRoleExport(q) = [q.settings EXCEPT !.desiredTerm = n]
  BY DEF parseDesiredRoleExport
<1> HIDE DEF n
<1> QED BY <1>1, <1>2, <1>3 DEF DesiredRoleExport

\* Each field of the keys is withheld or handed on.
Narrower(mine, theirs) ==
    /\ \A f \in {"AreaId", "Username", "Password"} : mine[f] \in {"", theirs[f]}
    /\ mine.AreaNid \in {0, theirs.AreaNid}
    /\ mine.ApiKey = theirs.ApiKey /\ mine.KeySecret = theirs.KeySecret

\* The message of an export: for whom it is, and what is in it.
LEMMA MessageFacts ==
    ASSUME TypeInv, NEW r \in Roles, keyEntry[r] # Nil, NEW c \in certificates, NEW q \in Asked
    PROVE  LET m == Message(r, c, q)
               d == UnmarshalExchange(m.data).RoleData
           IN  /\ m \in Records /\ m.key = c.key /\ m.to = c.to /\ m.from = source[r]
               /\ d.Exportable = m.asked.desireExportable
               /\ Narrower(d, Keys(r))
<1> DEFINE s == parseDesiredRoleExport(q)
           x == renderEncryptedRoleData(Keys(r), s, now)
           m == Message(r, c, q)
           t == x.UsageTerm.ExplicitTerm
<1>1. Keys(r) \in RoleKeys BY RoleTyped
<1>2. now \in Int /\ s \in DesiredRoleExport
  BY ParsedTyped, BoundsAreNumbers DEF TypeInv
<1>3. /\ x \in RoleDataExchange /\ x.UsageTerm \in RoleUsageTerm
      /\ x.RoleData.Exportable = s.desireExportable
      /\ Narrower(x.RoleData, Keys(r))
  <2> HIDE DEF s
  <2> QED BY <1>1, <1>2, RenderFacts DEF Narrower
<1>4. m = [key |-> c.key, label |-> label[EngineOf[r]], data |-> MarshalExchange(x),
           Term |-> IF t > 0 THEN t ELSE 0,
           to |-> c.to, from |-> source[r], at |-> now, term |-> q.term, asked |-> s]
  BY DEF Message
<1> HIDE DEF m, x, s
<1>5. UnmarshalExchange(m.data) = x BY <1>3, <1>4, ExchangeRoundTrip
<1>6. m \in Records
  <2>1. c.key \in Nat \ {0} /\ c.to \in Roles \X Nat
    BY DEF TypeInv, PapersTyped, Certificates
  <2>2. label[EngineOf[r]] \in Labels BY ExchangeAssumption DEF TypeInv
  <2>3. MarshalExchange(x) \in Exports BY <1>3 DEF Exports
  <2>4. (IF t > 0 THEN t ELSE 0) \in Int
    <3>1. x.UsageTerm \in RoleUsageTerm BY <1>3
    <3>2. t \in Int BY <3>1 DEF RoleUsageTerm
    <3> QED BY <3>2
  <2>5. source[r] \in Nat
    <3>1. Len(messages) \in Nat BY DEF TypeInv, PapersTyped
    <3>2. source[r] \in 0..Len(messages) BY DEF TypeInv, HistoryTyped
    <3> QED BY <3>1, <3>2
  <2>6. q.term \in {a.term : a \in Asked} OBVIOUS
  <2> QED BY <1>2, <1>4, <2>1, <2>2, <2>3, <2>4, <2>5, <2>6, Zenon DEF Records
<1>7. m.key = c.key /\ m.to = c.to /\ m.from = source[r] /\ m.asked = s BY <1>4
<1> QED BY <1>3, <1>5, <1>6, <1>7 DEF m

\* Numbers of keys and messages only grow.
Grown ==
    /\ generated \in Nat /\ generated' \in Nat /\ generated <= generated'
    /\ Len(messages) \in Nat /\ Len(messages') \in Nat /\ Len(messages) <= Len(messages')

\* Neither more messages nor more keys.
LEMMA NotGrown == ASSUME TypeInv, UNCHANGED <<generated, messages>> PROVE Grown
<1>1. generated \in Nat /\ Len(messages) \in Nat BY BoundsAreNumbers DEF TypeInv, PapersTyped
<1> QED BY <1>1 DEF Grown

\* A request that has its place keeps it.
LEMMA PlaceKept == ASSUME Grown, NEW q, Placed(q) PROVE Placed(q)'
<1>1. 1..generated \subseteq 1..generated' /\ 0..Len(messages) \subseteq 0..Len(messages')
  BY DEF Grown
<1> QED BY <1>1 DEF Placed

\* Where no request moves, each stays in its place.
LEMMA RequestsStay == ASSUME TypeInv, UNCHANGED req, Grown PROVE RequestsTyped'
<1>1. ASSUME NEW s \in Procs PROVE Placed(req[s])'
  <2>1. Placed(req[s]) BY DEF TypeInv, RequestsTyped
  <2> HIDE DEF Placed
  <2>2. PICK q : q = req[s] OBVIOUS
  <2>3. Placed(q)' BY <2>1, <2>2, PlaceKept
  <2> QED BY <2>2, <2>3 DEF Placed
<1> QED BY <1>1 DEF TypeInv, RequestsTyped

\* One request moves to a place it may have; the others keep theirs.
LEMMA RequestMoves ==
    ASSUME TypeInv, Grown, NEW p \in Procs, NEW a \in Requests, req' = [req EXCEPT ![p] = a],
           /\ a.step = "idle" => a = Idle
           /\ a.step # "idle" => a.role \in Roles
           /\ a.step = "savePk" => a.pk \in 1..generated'
           /\ a.msg \in 0..Len(messages')
    PROVE  RequestsTyped'
<1>1. req' \in [Procs -> Requests] BY DEF TypeInv, RequestsTyped
<1>2. ASSUME NEW s \in Procs PROVE Placed(req[s])'
  <2>1. CASE s = p BY <2>1 DEF TypeInv, RequestsTyped, Placed
  <2>2. CASE s # p
    <3>1. 1..generated \subseteq 1..generated' /\ 0..Len(messages) \subseteq 0..Len(messages')
      BY DEF Grown
    <3> QED BY <2>2, <3>1 DEF TypeInv, RequestsTyped, Placed
  <2> QED BY <2>1, <2>2
<1> QED BY <1>1, <1>2 DEF RequestsTyped

\* A free slot is well-formed.
LEMMA IdleTyped ==
    /\ Idle \in Requests /\ Idle.step = "idle" /\ Idle.role = Nil /\ Idle.pk = 0 /\ Idle.msg = 0
    /\ Idle.keys = ZeroKeys /\ Idle.usage = ZeroUsage
<1>1. 0 \in 0..MaxKeys /\ 0 \in 0..MaxMessages BY BoundsAreNumbers
<1>2. ZeroKeys \in RoleKeys /\ ZeroUsage \in StoredRoleUsage
  <2>1. "" \in Text BY TextAssumption, Zenon
  <2>2. 0 \in Int /\ FALSE \in BOOLEAN OBVIOUS
  <2> QED BY <2>1, <2>2, InitialRoleTyped, Zenon DEF ZeroKeys, RoleKeys, InitialUsage
<1>3. Idle \in Requests BY <1>1, <1>2 DEF Idle, Requests, Steps
<1> QED BY <1>3 DEF Idle

\* A request about to save what is on its heap.
LEMMA SavingTyped ==
    ASSUME TypeInv, NEW step \in {"saveKeys", "updateKeys"}, NEW r \in Roles,
           NEW i \in 0..Len(messages), NEW k \in RoleKeys, NEW u \in StoredRoleUsage
    PROVE  LET a == Saving(step, r, i, k, u)
           IN  /\ a \in Requests /\ a.step = step /\ a.role = r /\ a.msg = i
               /\ a.keys = k /\ a.usage = u
<1>1. i \in 0..MaxMessages
  <2>1. Len(messages) \in Nat /\ Len(messages) <= MaxMessages BY DEF TypeInv, PapersTyped
  <2> QED BY <2>1, BoundsAreNumbers
<1> QED BY <1>1, IdleTyped DEF Saving, Requests, Steps

\* A request that is at rest begins.
LEMMA BegunIs ==
    ASSUME TypeInv, NEW p \in Procs, NEW a, Begin(p, a)
    PROVE  /\ req[p] = Idle /\ req' = [req EXCEPT ![p] = a] /\ req'[p] = a
           /\ \A s \in Procs : s # p => req'[s] = req[s]
BY DEF Begin, TypeInv, RequestsTyped

\* One that is under way takes its next step with the heap it has.
LEMMA WentTo ==
    ASSUME TypeInv, NEW p \in Procs, NEW step \in Steps, Goto(p, step)
    PROVE  LET q == req[p]
               a == req'[p]
           IN  /\ a \in Requests /\ req' = [req EXCEPT ![p] = a]
               /\ a.step = step /\ a.role = q.role /\ a.pk = q.pk /\ a.msg = q.msg
               /\ a.keys = q.keys /\ a.usage = q.usage
               /\ \A s \in Procs : s # p => req'[s] = req[s]
<1>1. req \in [Procs -> Requests] /\ req[p] \in Requests BY DEF TypeInv, RequestsTyped
<1>2. req' = [req EXCEPT ![p] = [req[p] EXCEPT !.step = step]] BY DEF Goto
<1>3. req'[p] = [req[p] EXCEPT !.step = step] BY <1>1, <1>2
<1> QED BY <1>1, <1>2, <1>3 DEF Requests

\* One that is answered is at rest.
LEMMA Answered ==
    ASSUME TypeInv, NEW p \in Procs, Answer(p)
    PROVE  /\ req' = [req EXCEPT ![p] = Idle] /\ req'[p] = Idle
           /\ \A s \in Procs : s # p => req'[s] = req[s]
BY DEF Answer, TypeInv, RequestsTyped

\* A request that is answered leaves a free slot.
LEMMA EndedTyped ==
    ASSUME TypeInv, NEW p \in Procs, Answer(p), Grown PROVE RequestsTyped'
<1>1. 0 \in 0..Len(messages') BY DEF Grown
<1> QED BY <1>1, IdleTyped, Answered, RequestMoves

\* A request that goes on is in its place.
LEMMA OnwardTyped ==
    ASSUME TypeInv, NEW p \in Procs, NEW step \in Steps \ {"idle", "savePk"}, Goto(p, step),
           req[p].step # "idle", Grown
    PROVE  RequestsTyped'
<1>1. /\ req'[p] \in Requests /\ req' = [req EXCEPT ![p] = req'[p]]
      /\ req'[p].step = step /\ req'[p].role = req[p].role /\ req'[p].msg = req[p].msg
  BY WentTo
<1>2. req[p].role \in Roles /\ req[p].msg \in 0..Len(messages)
  BY DEF TypeInv, RequestsTyped, Placed
<1>3. req[p].msg \in 0..Len(messages') BY <1>2 DEF Grown
<1> QED BY <1>1, <1>2, <1>3, RequestMoves

\* A request that begins to save is in its place.
LEMMA SavingBegun ==
    ASSUME TypeInv, NEW p \in Procs, NEW step \in {"saveKeys", "updateKeys"}, NEW r \in Roles,
           NEW i \in 0..Len(messages), NEW k \in RoleKeys, NEW u \in StoredRoleUsage,
           Begin(p, Saving(step, r, i, k, u)), UNCHANGED <<generated, messages>>
    PROVE  RequestsTyped'
<1> DEFINE a == Saving(step, r, i, k, u)
<1>1. a \in Requests /\ a.step = step /\ a.role = r /\ a.msg = i BY SavingTyped
<1>2. req' = [req EXCEPT ![p] = a] BY BegunIs
<1> HIDE DEF a
<1> QED BY <1>1, <1>2, NotGrown, RequestMoves

\* The storage stays well-formed when nothing is written.
LEMMA StorageStays ==
    ASSUME TypeInv, UNCHANGED storage, generated' \in Nat, generated <= generated'
    PROVE  StorageTyped'
<1>1. generated \in Nat BY BoundsAreNumbers DEF TypeInv, PapersTyped
<1>2. 0..generated \subseteq 0..generated' BY <1>1
<1>3. pkEntry \in [Roles -> 0..generated] BY DEF TypeInv, StorageTyped
<1>4. pkEntry' = pkEntry BY DEF storage
<1>5. pkEntry' \in [Roles -> 0..generated'] BY <1>2, <1>3, <1>4
<1> QED BY <1>5 DEF TypeInv, StorageTyped, storage

\* The papers stay well-formed when none is added.
LEMMA PapersStay == ASSUME TypeInv, UNCHANGED papers PROVE PapersTyped'
BY DEF TypeInv, PapersTyped, papers

\* The history stays well-formed when nothing happens.
LEMMA HistoryStays ==
    ASSUME TypeInv, UNCHANGED <<messages, history>> PROVE HistoryTyped'
BY DEF TypeInv, HistoryTyped, history

\* A role write, and what it stores.
LEMMA WrittenTyped ==
    ASSUME NEW k \in RoleKeys, NEW w \in Writes
    PROVE  updateRoleKeysFromRequest(k, w) \in RoleKeys
BY ExchangeAssumption, OverlaidTyped

\* A role write begins.
LEMMA WriteTyped ==
    ASSUME TypeInv, NEW p \in Procs, NEW r \in Roles, NEW w \in Writes,
           handleWriteRoleKeys(p, r, w) \/ handleUpdateRoleData(p, r, w)
    PROVE  TypeInv'
<1>1. UNCHANGED <<now, label, storage, papers, source, limiting, under, imports, made>>
  BY DEF handleWriteRoleKeys, handleUpdateRoleData, history
<1>2. UNCHANGED <<generated, messages>> /\ Grown /\ 0 \in 0..Len(messages)
  <2>1. UNCHANGED <<generated, messages>> BY <1>1 DEF papers
  <2>2. Grown BY <2>1, NotGrown
  <2> QED BY <2>1, <2>2 DEF Grown
<1>3. RequestsTyped'
  <2>1. CASE handleWriteRoleKeys(p, r, w)
    <3>1. updateRoleKeysFromRequest(InitialKeys, w) \in RoleKeys
      BY InitialRoleTyped, WrittenTyped
    <3>2. ResetToken(UnboundedUsage(InitialUsage)) \in StoredRoleUsage
      BY InitialRoleTyped, UsageOpsTyped
    <3> QED BY <1>2, <2>1, <3>1, <3>2, SavingBegun DEF handleWriteRoleKeys
  <2>2. CASE handleUpdateRoleData(p, r, w)
    <3>1. Keys(r) \in RoleKeys /\ Usage(r) \in StoredRoleUsage
      BY <2>2, RoleTyped DEF handleUpdateRoleData, readRole
    <3>2. updateRoleKeysFromRequest(Keys(r), w) \in RoleKeys BY <3>1, WrittenTyped
    <3>3. source[r] \in 0..Len(messages) BY DEF TypeInv, HistoryTyped
    <3> QED BY <1>2, <2>2, <3>1, <3>2, <3>3, SavingBegun DEF handleUpdateRoleData
  <2> QED BY <2>1, <2>2
<1>4. born' \in [Roles -> Nat]
  <2>1. born' = [born EXCEPT ![r] = born[r] + 1] \/ born' = born
    BY DEF handleWriteRoleKeys, handleUpdateRoleData, history
  <2>2. born \in [Roles -> Nat] BY DEF TypeInv, HistoryTyped
  <2> QED BY <2>1, <2>2
<1>5. HistoryTyped' BY <1>1, <1>2, <1>4 DEF TypeInv, HistoryTyped
<1>6. StorageTyped' /\ PapersTyped' BY <1>1, <1>2, StorageStays, PapersStay DEF Grown
<1> QED BY <1>1, <1>3, <1>5, <1>6 DEF TypeInv

\* What is on the heap is stored.
LEMMA SavedTyped ==
    ASSUME TypeInv, NEW p \in Procs, SaveKeys(p) \/ SaveUsage(p) PROVE TypeInv'
<1> DEFINE q == req[p]
<1>1. /\ UNCHANGED <<now, label, pkEntry, papers, born, under, made>>
      /\ q.step \in {"saveKeys", "updateKeys", "saveUsage"}
  BY DEF SaveKeys, SaveUsage
<1>2. /\ UNCHANGED <<generated, messages>> /\ Grown
  <2>1. UNCHANGED <<generated, messages>> BY <1>1 DEF papers
  <2> QED BY <2>1, NotGrown
<1>3. /\ q.role \in Roles /\ q.msg \in 0..Len(messages)
      /\ q.keys \in RoleKeys /\ q.usage \in StoredRoleUsage
  BY <1>1 DEF TypeInv, RequestsTyped, Placed, Requests
<1>4. EncodeKeys(q.keys) \in KeyEntries /\ EncodeUsage(q.usage) \in UsageEntries
  BY <1>3 DEF KeyEntries, UsageEntries
<1>5. CASE SaveKeys(p)
  <2>1. /\ keyEntry' = [keyEntry EXCEPT ![q.role] = EncodeKeys(q.keys)]
        /\ source' = [source EXCEPT ![q.role] = q.msg]
        /\ Goto(p, "saveUsage") \/ Answer(p)
        /\ UNCHANGED <<usageEntry, limiting, imports>>
    BY <1>5 DEF SaveKeys
  <2>2. RequestsTyped'
    <3>1. q.step # "idle" BY <1>1
    <3> QED BY <1>2, <2>1, <3>1, EndedTyped, OnwardTyped DEF Steps
  <2> HIDE DEF q
  <2>3. StorageTyped' BY <1>1, <1>2, <1>3, <1>4, <2>1 DEF TypeInv, StorageTyped
  <2>4. HistoryTyped' BY <1>1, <1>2, <1>3, <2>1 DEF TypeInv, HistoryTyped
  <2> QED BY <1>1, <2>2, <2>3, <2>4, PapersStay DEF TypeInv
<1>6. CASE SaveUsage(p)
  <2>1. /\ usageEntry' = [usageEntry EXCEPT ![q.role] = EncodeUsage(q.usage)]
        /\ limiting' = [limiting EXCEPT ![q.role] = q.msg]
        /\ imports' = [i \in DOMAIN imports |->
                         IF i = q.msg THEN imports[i] + 1 ELSE imports[i]]
        /\ Answer(p)
        /\ UNCHANGED <<keyEntry, source>>
    BY <1>6 DEF SaveUsage
  <2>2. RequestsTyped' BY <1>2, <2>1, EndedTyped
  <2> HIDE DEF q
  <2>3. StorageTyped' BY <1>1, <1>2, <1>3, <1>4, <2>1 DEF TypeInv, StorageTyped
  <2>4. HistoryTyped' BY <1>1, <1>2, <1>3, <2>1 DEF TypeInv, HistoryTyped
  <2> QED BY <1>1, <2>2, <2>3, <2>4, PapersStay DEF TypeInv
<1> QED BY <1>5, <1>6

\* An entry of a role is deleted.
LEMMA DeletedTyped ==
    ASSUME TypeInv, NEW p \in Procs,
           (\E r \in Roles : DeleteUsage(p, r)) \/ DeletePrivateKey(p) \/ DeleteKeys(p)
    PROVE  TypeInv'
<1>1. UNCHANGED <<now, label, papers, born, under, imports, made>>
  BY DEF DeleteUsage, DeletePrivateKey, DeleteKeys, history
<1>2. /\ UNCHANGED <<generated, messages>> /\ Grown
      /\ 0 \in 0..generated /\ 0 \in 0..Len(messages)
  <2>1. UNCHANGED <<generated, messages>> BY <1>1 DEF papers
  <2>2. Grown BY <2>1, NotGrown
  <2> QED BY <2>1, <2>2 DEF Grown
<1>3. RequestsTyped'
  <2>1. ASSUME NEW r \in Roles, DeleteUsage(p, r) PROVE RequestsTyped'
    <3> DEFINE a == [Idle EXCEPT !.step = "deletePk", !.role = r]
    <3>1. a \in Requests /\ a.step = "deletePk" /\ a.role = r /\ a.msg = 0
      BY IdleTyped DEF Requests, Steps
    <3>2. req' = [req EXCEPT ![p] = a] BY <2>1, BegunIs DEF DeleteUsage
    <3> HIDE DEF a
    <3> QED BY <1>2, <3>1, <3>2, RequestMoves
  <2>2. CASE DeletePrivateKey(p)
    BY <1>2, <2>2, OnwardTyped DEF DeletePrivateKey, Steps
  <2>3. CASE DeleteKeys(p) BY <1>2, <2>3, EndedTyped DEF DeleteKeys
  <2> QED BY <2>1, <2>2, <2>3
<1>4. ASSUME NEW r \in Roles, DeleteUsage(p, r) PROVE StorageTyped' /\ HistoryTyped'
  BY <1>1, <1>2, <1>4 DEF DeleteUsage, TypeInv, StorageTyped, HistoryTyped
<1>5. ASSUME DeletePrivateKey(p) PROVE StorageTyped' /\ HistoryTyped'
  BY <1>1, <1>2, <1>5 DEF DeletePrivateKey, history, TypeInv, StorageTyped, HistoryTyped
<1>6. ASSUME DeleteKeys(p) PROVE StorageTyped' /\ HistoryTyped'
  <2>1. PICK r : r = req[p].role OBVIOUS
  <2>2. r \in Roles BY <1>6, <2>1 DEF DeleteKeys, TypeInv, RequestsTyped, Placed
  <2> QED BY <1>1, <1>2, <1>6, <2>1, <2>2 DEF DeleteKeys, TypeInv, StorageTyped, HistoryTyped
<1> QED BY <1>1, <1>3, <1>4, <1>5, <1>6, PapersStay DEF TypeInv

\* A use of the credentials keeps the types.
LEMMA UseTyped == ASSUME TypeInv, NEW r \in Roles, Use(r) PROVE TypeInv'
<1>1. UNCHANGED <<now, label, keyEntry, pkEntry, req, papers, born, source, limiting, under, imports>>
  BY DEF Use
<1>2. UNCHANGED <<generated, messages>> /\ Grown
  <2>1. UNCHANGED <<generated, messages>> BY <1>1 DEF papers
  <2> QED BY <2>1, NotGrown
<1>3. RequestsTyped' /\ PapersTyped' BY <1>1, <1>2, RequestsStay, PapersStay
<1>4. StorageTyped'
  <2> DEFINE e == IF HasUsageQuota(Usage(r)) THEN EncodeUsage(ReduceRemainingQuota(Usage(r)))
                  ELSE usageEntry[r]
  <2>1. Usage(r) \in StoredRoleUsage BY RoleTyped DEF Use, readRole
  <2>2. ReduceRemainingQuota(Usage(r)) \in StoredRoleUsage BY <2>1, UsageOpsTyped
  <2>3. e \in UsageEntries \cup {Nil}
    BY <2>2 DEF UsageEntries, TypeInv, StorageTyped
  <2>4. usageEntry' = [usageEntry EXCEPT ![r] = e] BY DEF Use
  <2> HIDE DEF e
  <2> QED BY <1>1, <1>2, <2>3, <2>4 DEF TypeInv, StorageTyped
<1>5. HistoryTyped'
  <2>1. \/ UNCHANGED made
        \/ made' = [i \in DOMAIN made |->
                     IF i = limiting[r] /\ made[i] < UsesBound THEN made[i] + 1 ELSE made[i]]
    BY DEF Use
  <2>2. made \in [1..MaxMessages -> 0..UsesBound] BY DEF TypeInv, HistoryTyped
  <2>3. made' \in [1..MaxMessages -> 0..UsesBound]
    <3>1. \A n \in 0..UsesBound : n < UsesBound => n + 1 \in 0..UsesBound
      BY BoundsAreNumbers
    <3> QED BY <2>1, <2>2, <3>1
  <2> QED BY <1>1, <1>2, <2>3 DEF TypeInv, HistoryTyped
<1> QED BY <1>1, <1>3, <1>4, <1>5 DEF TypeInv

\* An export adds one well-formed message, for a key that was generated.
LEMMA ExportTyped ==
    ASSUME TypeInv, NEW r \in Roles, NEW c \in certificates, NEW q \in Asked,
           pathRoleExport(r, c, q)
    PROVE  TypeInv'
<1>1. generated \in Nat /\ Len(messages) \in Nat /\ MaxMessages \in Nat
  BY BoundsAreNumbers DEF TypeInv, PapersTyped
<1>2. UNCHANGED <<now, label, storage, req, generated, certificates, history>>
  BY DEF pathRoleExport
<1> DEFINE m == Message(r, c, q)
<1>3. m \in Records /\ m.key = c.key
  BY MessageFacts DEF pathRoleExport, readRole
<1>4. messages' = Append(messages, m) /\ Len(messages) < MaxMessages
  BY DEF pathRoleExport
<1> HIDE DEF m
<1>5. PapersTyped'
  <2>1. messages \in Seq(Records) /\ c.key <= generated BY DEF TypeInv, PapersTyped
  <2>2. messages' \in Seq(Records) /\ Len(messages') = Len(messages) + 1 BY <1>3, <1>4, <2>1
  <2>3. ASSUME NEW i \in 1..Len(messages') PROVE messages'[i].key <= generated
    <3>1. CASE i = Len(messages) + 1 BY <1>3, <1>4, <2>1, <3>1
    <3>2. CASE i \in 1..Len(messages)
      <4>1. messages'[i] = messages[i] BY <1>4, <2>1, <3>2
      <4> QED BY <3>2, <4>1 DEF TypeInv, PapersTyped
    <3> QED BY <1>1, <2>2, <3>1, <3>2
  <2>4. Len(messages') <= MaxMessages BY <1>1, <1>4, <2>2
  <2> QED BY <1>2, <2>2, <2>3, <2>4 DEF TypeInv, PapersTyped
<1>6. Len(messages') = Len(messages) + 1 BY <1>4 DEF TypeInv, PapersTyped
<1>7. Grown BY <1>1, <1>2, <1>6 DEF Grown
<1>8. HistoryTyped'
  <2>1. 0..Len(messages) \subseteq 0..Len(messages') BY <1>7 DEF Grown
  <2>2. source' \in [Roles -> 0..Len(messages')] /\ limiting' \in [Roles -> 0..Len(messages')]
    BY <1>2, <2>1 DEF TypeInv, HistoryTyped, history
  <2> QED BY <1>2, <2>2 DEF TypeInv, HistoryTyped, history
<1>9. StorageTyped' /\ RequestsTyped'
  BY <1>2, <1>7, StorageStays, RequestsStay DEF Grown
<1> QED BY <1>2, <1>5, <1>8, <1>9 DEF TypeInv

\* A certificate for a key that was generated.
LEMMA CertificateTyped ==
    ASSUME TypeInv, NEW r \in Roles, NEW k \in 1..generated
    PROVE  Certificate(r, k) \in Certificates /\ Certificate(r, k).key <= generated
<1>1. generated \in Nat /\ k \in Nat \ {0} /\ k <= generated
  BY BoundsAreNumbers DEF TypeInv, PapersTyped
<1>2. now + CertLife \in Start..(MaxTime + CertLife) BY BoundsAreNumbers DEF TypeInv
<1>3. <<r, born[r]>> \in Roles \X Nat BY DEF TypeInv, HistoryTyped
<1> QED BY <1>1, <1>2, <1>3 DEF Certificate, Certificates

\* A private key is generated.
LEMMA GeneratedTyped ==
    ASSUME TypeInv, NEW p \in Procs, NEW r \in Roles, BeginWithoutKey(p, r) PROVE TypeInv'
<1>1. generated \in Nat /\ MaxKeys \in Nat /\ Len(messages) \in 0..MaxMessages
  BY BoundsAreNumbers DEF TypeInv, PapersTyped
<1>2. UNCHANGED <<now, label, storage, certificates, messages, history>>
  BY DEF BeginWithoutKey
<1>3. HistoryTyped' BY <1>2, HistoryStays
<1>4. PICK i \in {0} \cup DOMAIN messages : GeneratePrivateKey(p, r, i)
  BY DEF BeginWithoutKey
<1>5. generated' = generated + 1 /\ generated' \in 0..MaxKeys
  BY <1>1, <1>4 DEF GeneratePrivateKey
<1> DEFINE g == generated + 1
           a == [Idle EXCEPT !.step = "savePk", !.role = r, !.pk = g, !.msg = i]
<1>6. i \in 0..Len(messages) /\ i \in 0..MaxMessages
  <2>1. DOMAIN messages = 1..Len(messages) BY DEF TypeInv, PapersTyped
  <2> QED BY <1>1, <2>1, BoundsAreNumbers
<1>7. Begin(p, a) BY <1>4, <1>5 DEF GeneratePrivateKey
<1>8. a \in Requests /\ a.step = "savePk" /\ a.role = r /\ a.pk = g /\ a.msg = i
  BY <1>5, <1>6, IdleTyped DEF Requests, Steps
<1> HIDE DEF a
<1>9. Grown BY <1>1, <1>2, <1>5 DEF Grown
<1>10. RequestsTyped'
  <2>1. a.pk \in 1..generated' /\ a.msg \in 0..Len(messages') BY <1>1, <1>2, <1>5, <1>6, <1>8
  <2> QED BY <1>7, <1>8, <1>9, <2>1, BegunIs, RequestMoves
<1>11. StorageTyped' BY <1>2, <1>9, StorageStays DEF Grown
<1>12. PapersTyped'
  <2>1. \A k \in Nat : k <= generated => k <= generated' BY <1>1, <1>5
  <2>2. \A c \in certificates : c.key \in Nat /\ c.key <= generated
    BY DEF TypeInv, PapersTyped, Certificates
  <2>3. ASSUME NEW j \in 1..Len(messages) PROVE messages[j].key <= generated'
    <3>1. messages[j] \in Records /\ messages[j].key <= generated BY DEF TypeInv, PapersTyped
    <3>2. messages[j].key \in Nat BY <3>1 DEF Records
    <3> QED BY <2>1, <3>1, <3>2
  <2>4. messages \in Seq(Records) /\ Len(messages) <= MaxMessages /\ certificates \subseteq Certificates
    BY DEF TypeInv, PapersTyped
  <2> QED BY <1>2, <1>5, <2>1, <2>2, <2>3, <2>4 DEF PapersTyped
<1> QED BY <1>2, <1>3, <1>10, <1>11, <1>12 DEF TypeInv

\* A certificate is answered for the key there is.
LEMMA PEMTyped ==
    ASSUME TypeInv, NEW p \in Procs, NEW r \in Roles, pathRolePEMRead(p, r) PROVE TypeInv'
<1>1. UNCHANGED <<now, label, storage, req, generated, messages, history>>
  BY DEF pathRolePEMRead
<1>2. Grown BY <1>1, NotGrown
<1>3. certificates' = certificates \cup {Certificate(r, pkEntry[r])}
  BY DEF pathRolePEMRead, renderRoleCertificate
<1>4. pkEntry[r] \in 1..generated
  BY <1>2 DEF Grown, pathRolePEMRead, TypeInv, StorageTyped
<1>5. PapersTyped' BY <1>1, <1>3, <1>4, CertificateTyped DEF TypeInv, PapersTyped
<1>6. RequestsTyped' /\ StorageTyped' /\ HistoryTyped'
  BY <1>1, <1>2, RequestsStay, StorageStays, HistoryStays DEF Grown
<1> QED BY <1>1, <1>5, <1>6 DEF TypeInv

\* The limits of an import.
LEMMA OpenedTyped ==
    ASSUME TypeInv, NEW r \in Roles, readRole(r), NEW i \in DOMAIN messages
    PROVE  /\ i \in 1..Len(messages) /\ i \in 1..MaxMessages
           /\ Contents(i) \in RoleDataExchange
           /\ ImportKeys(Contents(i)) \in RoleKeys
           /\ ImportUsage(Usage(r), Contents(i)) \in StoredRoleUsage
<1>1. i \in 1..Len(messages) /\ messages[i] \in Records BY DEF TypeInv, PapersTyped
<1>2. i \in 1..MaxMessages
  <2>1. Len(messages) \in Nat /\ Len(messages) <= MaxMessages BY DEF TypeInv, PapersTyped
  <2> QED BY <1>1, <2>1, BoundsAreNumbers
<1>3. Usage(r) \in StoredRoleUsage BY RoleTyped DEF readRole
<1>4. Contents(i) \in RoleDataExchange BY <1>1, ContentsTyped DEF Contents
<1> QED BY <1>1, <1>2, <1>3, <1>4, ImportedTyped

\* An import begins, with a message there is.
LEMMA ImportTyped ==
    ASSUME TypeInv, NEW p \in Procs, NEW r \in Roles, pathRoleImport(p, r) PROVE TypeInv'
<1>1. PICK i \in DOMAIN messages :
        /\ readRole(r)
        /\ Begin(p, Saving("saveKeys", r, i, ImportKeys(Contents(i)),
                           ImportUsage(Usage(r), Contents(i))))
        /\ under' = [under EXCEPT ![i] = label[EngineOf[r]]]
        /\ UNCHANGED <<now, label, storage, papers, born, source, limiting, imports, made>>
  BY DEF pathRoleImport
<1>2. UNCHANGED <<generated, messages>> /\ Grown
  <2>1. UNCHANGED <<generated, messages>> BY <1>1 DEF papers
  <2> QED BY <2>1, NotGrown
<1>3. RequestsTyped'
  <2>1. i \in 0..Len(messages) BY <1>1, OpenedTyped
  <2> QED BY <1>1, <1>2, <2>1, OpenedTyped, SavingBegun
<1>4. StorageTyped' /\ PapersTyped' BY <1>1, <1>2, StorageStays, PapersStay DEF Grown
<1>5. HistoryTyped'
  <2>1. label[EngineOf[r]] \in Labels BY ExchangeAssumption DEF TypeInv
  <2> QED BY <1>1, <1>2, <2>1, OpenedTyped DEF TypeInv, HistoryTyped
<1> QED BY <1>1, <1>3, <1>4, <1>5 DEF TypeInv

\* The private key of a request is stored.
LEMMA SavePrivateKeyTyped ==
    ASSUME TypeInv, NEW p \in Procs, SavePrivateKey(p) PROVE TypeInv'
<1> DEFINE q == req[p]
<1>1. /\ q.step = "savePk" /\ Answer(p)
      /\ UNCHANGED <<now, label, keyEntry, usageEntry, generated, messages, history>>
  BY DEF SavePrivateKey
<1>2. q.role \in Roles /\ q.pk \in 1..generated BY <1>1 DEF TypeInv, RequestsTyped, Placed
<1>3. Grown BY <1>1, NotGrown
<1>4. /\ pkEntry' = [pkEntry EXCEPT ![q.role] = q.pk]
      /\ certificates' \in {certificates, certificates \cup {Certificate(q.role, q.pk)}}
  BY DEF SavePrivateKey, renderRoleCertificate
<1> HIDE DEF q
<1>5. StorageTyped'
  <2>1. q.pk \in 0..generated BY <1>2, <1>3 DEF Grown
  <2> QED BY <1>1, <1>2, <1>4, <2>1 DEF TypeInv, StorageTyped
<1>6. PapersTyped' BY <1>1, <1>2, <1>4, CertificateTyped DEF TypeInv, PapersTyped
<1>7. HistoryTyped' BY <1>1, HistoryStays
<1>8. RequestsTyped' BY <1>1, <1>3, EndedTyped
<1> QED BY <1>1, <1>5, <1>6, <1>7, <1>8 DEF TypeInv

\* Time passes, the process dies, a request fails, an engine is configured.
LEMMA OutsideTyped ==
    ASSUME TypeInv,
           \/ Tick \/ Crash
           \/ \E e \in Engines, l \in Labels : ChangeLabel(e, l)
           \/ \E p \in Procs : Fail(p)
    PROVE  TypeInv'
<1>1. UNCHANGED <<storage, papers, history>> BY DEF Tick, Crash, ChangeLabel, Fail
<1>2. UNCHANGED <<generated, messages>> /\ Grown
  <2>1. UNCHANGED <<generated, messages>> BY <1>1 DEF papers
  <2> QED BY <2>1, NotGrown
<1>3. StorageTyped' /\ PapersTyped' /\ HistoryTyped'
  BY <1>1, <1>2, StorageStays, PapersStay, HistoryStays DEF Grown
<1>4. now' \in Start..MaxTime BY BoundsAreNumbers DEF TypeInv, Tick, Crash, ChangeLabel, Fail
<1>5. label' \in [Engines -> Labels] BY DEF TypeInv, Tick, Crash, ChangeLabel, Fail
<1>6. RequestsTyped'
  <2>1. CASE Crash
    <3>1. req' = [p \in Procs |-> Idle] BY <2>1 DEF Crash
    <3>2. 0 \in 0..Len(messages') BY <1>2 DEF Grown
    <3> QED BY <3>1, <3>2, IdleTyped DEF RequestsTyped, Placed
  <2>2. ASSUME NEW p \in Procs, Fail(p) PROVE RequestsTyped'
    BY <1>2, <2>2, EndedTyped DEF Fail
  <2>3. CASE UNCHANGED req BY <1>2, <2>3, RequestsStay
  <2> QED BY <2>1, <2>2, <2>3 DEF Tick, ChangeLabel
<1> QED BY <1>3, <1>4, <1>5, <1>6 DEF TypeInv

\* Every variable holds what it is declared for, and the initial state does.
LEMMA InitTyped == Init => TypeInv
<1> SUFFICES ASSUME Init PROVE TypeInv OBVIOUS
<1>1. now \in Start..MaxTime /\ label \in [Engines -> Labels] BY BoundsAreNumbers DEF Init
<1>2. Len(messages) = 0 /\ messages \in Seq(Records) BY DEF Init
<1>3. StorageTyped BY DEF Init, StorageTyped
<1>4. PapersTyped BY <1>2, BoundsAreNumbers DEF Init, PapersTyped
<1>5. HistoryTyped BY <1>2, BoundsAreNumbers DEF Init, HistoryTyped
<1>6. RequestsTyped BY <1>2, IdleTyped DEF Init, RequestsTyped, Placed
<1> QED BY <1>1, <1>3, <1>4, <1>5, <1>6 DEF TypeInv

\* Every step keeps the types.
LEMMA NextTyped == TypeInv /\ [Next]_vars => TypeInv'
<1> SUFFICES ASSUME TypeInv, [Next]_vars PROVE TypeInv' OBVIOUS
<1>1. CASE Tick \/ Crash BY <1>1, OutsideTyped
<1>2. CASE OneStep BY <1>2, UseTyped, ExportTyped, OutsideTyped DEF OneStep
<1>3. ASSUME NEW p \in Procs, Stepwise(p) PROVE TypeInv'
  BY <1>3, WriteTyped, SavedTyped, DeletedTyped, GeneratedTyped, PEMTyped, ImportTyped,
     SavePrivateKeyTyped, OutsideTyped
     DEF Stepwise
<1>4. CASE UNCHANGED vars
  <2>1. UNCHANGED <<now, label, storage, req, papers, history, generated, messages>>
    BY <1>4 DEF vars, papers
  <2>2. Grown BY <2>1, NotGrown
  <2> QED BY <2>1, <2>2, StorageStays, PapersStay, HistoryStays, RequestsStay DEF TypeInv, Grown
<1> QED BY <1>1, <1>2, <1>3, <1>4 DEF Next

\* The types, always.
LEMMA AlwaysTyped == Spec => []TypeInv
BY InitTyped, NextTyped, PTL DEF Spec

\* Every variable holds what its declaration says, whatever fails and however
\* late messages arrive: what is stored decodes to a well-formed role and what
\* a message holds to well-formed exchange data.
THEOREM TypeCorrect == Spec => []TypeOK
<1>1. TypeInv => TypeOK
  <2> SUFFICES ASSUME TypeInv PROVE TypeOK OBVIOUS
  <2>1. /\ Len(messages) <= MaxMessages /\ DOMAIN messages = 1..Len(messages)
        /\ generated \in 0..MaxKeys /\ generated \in Nat
    BY BoundsAreNumbers DEF TypeInv, PapersTyped
  <2>2. \A i \in DOMAIN messages : Contents(i) \in RoleDataExchange
    BY ContentsTyped DEF TypeInv, PapersTyped, Contents
  <2>3. pkEntry \in [Roles -> 0..MaxKeys]
    <3>1. 0..generated \subseteq 0..MaxKeys BY <2>1, BoundsAreNumbers
    <3> QED BY <3>1 DEF TypeInv, StorageTyped
  <2>4. ASSUME NEW c \in certificates
        PROVE  c.key \in 1..generated /\ c.NotAfter \in Start..(MaxTime + CertLife)
    BY <2>1 DEF TypeInv, PapersTyped, Certificates
  <2> QED BY <2>1, <2>2, <2>3, <2>4, RoleTyped DEF TypeOK, TypeInv, HistoryTyped, RequestsTyped
<1> QED BY <1>1, AlwaysTyped, PTL

-----------------------------------------------------------------------------
(***************************************************************************)
(* Chains of exports: the keys of a role with a source are what its        *)
(* message holds, and every message exported from such a role is narrower  *)
(* than the one the role was made from.                                    *)
(***************************************************************************)
Held(ms, i) == UnmarshalExchange(ms[i].data)

Chain(ms, i) ==
    /\ Held(ms, i).RoleData.Exportable = ms[i].asked.desireExportable
    /\ ms[i].from # 0 =>
          /\ ms[i].from \in 1..Len(ms)
          /\ ms[ms[i].from].asked.desireExportable
          /\ Narrower(Held(ms, i).RoleData, Held(ms, ms[i].from).RoleData)

\* A request about to store the keys of a message has those on its heap, and
\* none updates the keys of a message.
Carries(ms, q) ==
    /\ q.step = "saveKeys" /\ q.msg # 0 => q.keys = ImportKeys(Held(ms, q.msg))
    /\ q.step = "updateKeys" => q.msg = 0

Sourced ==
    /\ \A r \in Roles :
          source[r] # 0 => keyEntry[r] = EncodeKeys(ImportKeys(Held(messages, source[r])))
    /\ \A p \in Procs : Carries(messages, req[p])

Chained == \A i \in 1..Len(messages) : Chain(messages, i)

\* A role with a source is there, is imported, and has the keys, but for the
\* rate, and the permission to export them that the message holds.
LEMMA SourcedKeys ==
    ASSUME TypeInv, Sourced, NEW r \in Roles, source[r] # 0
    PROVE  LET d == Held(messages, source[r]).RoleData
           IN  /\ source[r] \in 1..Len(messages)
               /\ keyEntry[r] # Nil /\ Keys(r).Imported /\ Keys(r).Exportable = d.Exportable
               /\ \A f \in RequestFields \ {"MaxQPS"} : Keys(r)[f] = d[f]
<1> DEFINE x == Held(messages, source[r])
           k == ImportKeys(x)
<1>1. source[r] \in 1..Len(messages)
  <2>1. source[r] \in 0..Len(messages) /\ Len(messages) \in Nat
    BY DEF TypeInv, HistoryTyped, PapersTyped
  <2> QED BY <2>1
<1>2. x \in RoleDataExchange
  <2>1. messages[source[r]] \in Records BY <1>1 DEF TypeInv, PapersTyped
  <2> QED BY <2>1, ContentsTyped DEF Held
<1>3. keyEntry[r] = EncodeKeys(k) BY DEF Sourced
<1>4. /\ k.Imported = TRUE /\ k.Exportable = x.RoleData.Exportable
      /\ \A f \in RequestFields : k[f] = x.RoleData[f]
  <2>1. x.RoleData \in RoleKeys BY <1>2 DEF RoleDataExchange
  <2>2. k = [x.RoleData EXCEPT !.Imported = TRUE] BY DEF ImportKeys
  <2> HIDE DEF x, k
  <2> QED BY <2>1, <2>2 DEF RoleKeys, RequestFields
<1>5. k \in RoleKeys BY <1>2, InitialRoleTyped, ImportedTyped
<1> HIDE DEF x, k
<1>6. keyEntry[r] # Nil BY <1>3, <1>5, KeyEntryIsThere
<1>7. Keys(r).Imported = k.Imported /\ Keys(r).Exportable = k.Exportable
  BY <1>3, <1>5, FlagsReadBack DEF Keys
<1>8. \A f \in RequestFields \ {"MaxQPS"} : Keys(r)[f] = k[f]
  BY <1>3, <1>5, KeysReadBack DEF Keys
<1> QED BY <1>1, <1>4, <1>6, <1>7, <1>8 DEF x

\* A message more leaves the chains of the others as they are.
LEMMA ChainKept ==
    ASSUME NEW S, NEW ms \in Seq(S), NEW m \in S, NEW i \in 1..Len(ms), Chain(ms, i)
    PROVE  Chain(Append(ms, m), i)
<1> DEFINE ns == Append(ms, m)
<1>1. Len(ns) = Len(ms) + 1 /\ \A j \in 1..Len(ms) : ns[j] = ms[j] OBVIOUS
<1> HIDE DEF ns
<1>2. \A j \in 1..Len(ms) : Held(ns, j) = Held(ms, j) BY <1>1 DEF Held
<1>3. 1..Len(ms) \subseteq 1..Len(ns)
  <2>1. Len(ms) \in Nat OBVIOUS
  <2> QED BY <1>1, <2>1
<1>4. Chain(ns, i) BY <1>1, <1>2, <1>3 DEF Chain
<1> QED BY <1>4 DEF ns

\* An export from a role that was imported extends the chain of its source.
LEMMA ChainGrows ==
    ASSUME TypeInv, Sourced, Chained, NEW r \in Roles, NEW c \in certificates, NEW q \in Asked,
           pathRoleExport(r, c, q)
    PROVE  Chained'
<1> DEFINE m == Message(r, c, q)
           n == Len(messages) + 1
<1>1. /\ keyEntry[r] # Nil /\ Keys(r).Exportable /\ messages' = Append(messages, m)
  BY DEF pathRoleExport, readRole, blockNonExportableRole
<1>2. /\ m \in Records /\ m.from = source[r]
      /\ UnmarshalExchange(m.data).RoleData.Exportable = m.asked.desireExportable
      /\ Narrower(UnmarshalExchange(m.data).RoleData, Keys(r))
  BY <1>1, MessageFacts
<1> HIDE DEF m
<1>3. messages \in Seq(Records) /\ Len(messages) \in Nat BY DEF TypeInv, PapersTyped
<1>4. Len(messages') = n /\ messages'[n] = m /\ \A j \in 1..Len(messages) : messages'[j] = messages[j]
  BY <1>1, <1>2, <1>3
<1>5. Chain(messages', n)
  <2>1. Held(messages', n) = UnmarshalExchange(m.data) BY <1>4 DEF Held
  <2>2. ASSUME source[r] # 0
        PROVE  /\ source[r] \in 1..Len(messages')
               /\ messages'[source[r]].asked.desireExportable
               /\ Narrower(Held(messages', n).RoleData, Held(messages', source[r]).RoleData)
    <3> DEFINE j == source[r]
               d == Held(messages, j).RoleData
    <3>1. /\ j \in 1..Len(messages) /\ Keys(r).Exportable = d.Exportable
          /\ \A f \in RequestFields \ {"MaxQPS"} : Keys(r)[f] = d[f]
      BY <2>2, SourcedKeys
    <3>2. d.Exportable = messages[j].asked.desireExportable BY <3>1 DEF Chained, Chain
    <3>3. messages'[j] = messages[j] /\ Held(messages', j).RoleData = d BY <1>4, <3>1 DEF Held
    <3>4. Narrower(UnmarshalExchange(m.data).RoleData, d)
      <4> HIDE DEF d, j
      <4>1. /\ \A f \in {"AreaId", "Username", "Password"} : Keys(r)[f] = d[f]
            /\ Keys(r)["AreaNid"] = d["AreaNid"] /\ Keys(r)["ApiKey"] = d["ApiKey"]
            /\ Keys(r)["KeySecret"] = d["KeySecret"]
        BY <3>1 DEF RequestFields
      <4> QED BY <1>2, <4>1 DEF Narrower
    <3>5. j \in 1..Len(messages') BY <1>3, <1>4, <3>1
    <3> QED BY <1>1, <2>1, <3>1, <3>2, <3>3, <3>4, <3>5
  <2> QED BY <1>2, <1>4, <2>1, <2>2 DEF Chain
<1>6. ASSUME NEW i \in 1..Len(messages) PROVE Chain(messages', i)
  BY <1>1, <1>2, <1>3, <1>6, ChainKept DEF Chained
<1>7. \A i \in 1..Len(messages') : i = n \/ i \in 1..Len(messages) BY <1>3, <1>4
<1> QED BY <1>5, <1>6, <1>7 DEF Chained

\* Where keys, sources and messages stay, and one request moves.
LEMMA SourcesStay ==
    ASSUME Sourced, UNCHANGED <<keyEntry, source, messages>>, NEW p \in Procs,
           \A s \in Procs : s # p => req'[s] = req[s],
           Carries(messages, req'[p])
    PROVE  Sourced'
<1>1. \A s \in Procs : Carries(messages, req'[s]) BY DEF Sourced
<1>2. messages' = messages OBVIOUS
<1> QED BY <1>1, <1>2 DEF Sourced

\* A request that is not about to store keys carries none.
LEMMA CarriesNone ==
    ASSUME NEW q, q.step \notin {"saveKeys", "updateKeys"} PROVE Carries(messages, q)
BY DEF Carries

\* A request comes to a step in which it stores no keys.
Empties(p) ==
    /\ req'[p].step \notin {"saveKeys", "updateKeys"}
    /\ \A s \in Procs : s # p => req'[s] = req[s]

\* A write or an import begins.
LEMMA BegunSourced ==
    ASSUME TypeInv, Sourced, NEW p \in Procs, NEW r \in Roles,
           \/ \E w \in Writes : handleWriteRoleKeys(p, r, w) \/ handleUpdateRoleData(p, r, w)
           \/ pathRoleImport(p, r)
    PROVE  Sourced' /\ UNCHANGED messages
<1>1. UNCHANGED <<keyEntry, source, messages>>
  BY DEF handleWriteRoleKeys, handleUpdateRoleData, pathRoleImport, storage, papers, history
<1>2. ASSUME NEW w \in Writes, handleWriteRoleKeys(p, r, w) PROVE Sourced'
  <2> DEFINE a == Saving("saveKeys", r, 0, updateRoleKeysFromRequest(InitialKeys, w),
                         ResetToken(UnboundedUsage(InitialUsage)))
  <2>1. a.step = "saveKeys" /\ a.msg = 0 BY DEF Saving, Idle
  <2>2. req'[p] = a /\ \A s \in Procs : s # p => req'[s] = req[s]
    BY <1>2, BegunIs DEF handleWriteRoleKeys
  <2> HIDE DEF a
  <2>3. Carries(messages, req'[p]) BY <2>1, <2>2 DEF Carries
  <2> QED BY <1>1, <2>2, <2>3, SourcesStay
<1>3. ASSUME NEW w \in Writes, handleUpdateRoleData(p, r, w) PROVE Sourced'
  <2> DEFINE a == Saving("updateKeys", r, source[r], updateRoleKeysFromRequest(Keys(r), w), Usage(r))
  <2>1. source[r] = 0 BY <1>3, SourcedKeys DEF handleUpdateRoleData
  <2>2. a.step = "updateKeys" /\ a.msg = 0 BY <2>1 DEF Saving, Idle
  <2>3. req'[p] = a /\ \A s \in Procs : s # p => req'[s] = req[s]
    BY <1>3, BegunIs DEF handleUpdateRoleData
  <2> HIDE DEF a
  <2>4. Carries(messages, req'[p]) BY <2>2, <2>3 DEF Carries
  <2> QED BY <1>1, <2>3, <2>4, SourcesStay
<1>4. ASSUME pathRoleImport(p, r) PROVE Sourced'
  <2>1. PICK i \in DOMAIN messages :
          Begin(p, Saving("saveKeys", r, i, ImportKeys(Contents(i)),
                          ImportUsage(Usage(r), Contents(i))))
    BY <1>4 DEF pathRoleImport
  <2> DEFINE k == ImportKeys(Contents(i))
             a == Saving("saveKeys", r, i, k, ImportUsage(Usage(r), Contents(i)))
  <2>2. a.step = "saveKeys" /\ a.msg = i /\ a.keys = k BY DEF Saving, Idle
  <2>3. req'[p] = a /\ \A s \in Procs : s # p => req'[s] = req[s] BY <2>1, BegunIs
  <2>4. k = ImportKeys(Held(messages, i)) BY DEF Contents, Held
  <2> HIDE DEF a, k
  <2>5. Carries(messages, req'[p]) BY <2>2, <2>3, <2>4 DEF Carries
  <2> QED BY <1>1, <2>3, <2>5, SourcesStay
<1> QED BY <1>1, <1>2, <1>3, <1>4

\* Keys are stored with the message they are from, and deleted with it.
LEMMA StoredSourced ==
    ASSUME TypeInv, Sourced, NEW p \in Procs, SaveKeys(p) \/ DeleteKeys(p)
    PROVE  Sourced' /\ UNCHANGED messages
<1>1. UNCHANGED messages BY DEF SaveKeys, DeleteKeys, papers
<1>2. PICK r : r = req[p].role OBVIOUS
<1>3. /\ r \in Roles /\ keyEntry \in [Roles -> KeyEntries \cup {Nil}]
      /\ source \in [Roles -> 0..Len(messages)]
  BY <1>2 DEF SaveKeys, DeleteKeys, TypeInv, RequestsTyped, Placed, StorageTyped, HistoryTyped
<1>4. \A s \in Procs : Carries(messages, req'[s])
  <2>1. Empties(p)
    <3>1. CASE Answer(p) BY <3>1, Answered, IdleTyped DEF Empties
    <3>2. ASSUME NEW step \in {"saveUsage"}, Goto(p, step) PROVE Empties(p)
      BY <3>2, WentTo DEF Steps, Empties
    <3> QED BY <3>1, <3>2 DEF SaveKeys, DeleteKeys
  <2> QED BY <2>1, CarriesNone DEF Sourced, Empties
<1>5. PICK e, i : /\ keyEntry' = [keyEntry EXCEPT ![r] = e]
                  /\ source' = [source EXCEPT ![r] = i]
                  /\ i # 0 => e = EncodeKeys(ImportKeys(Held(messages, i)))
  <2>1. CASE SaveKeys(p)
    <3>1. /\ req[p].step \in {"saveKeys", "updateKeys"}
          /\ keyEntry' = [keyEntry EXCEPT ![r] = EncodeKeys(req[p].keys)]
          /\ source' = [source EXCEPT ![r] = req[p].msg]
      BY <1>2, <2>1 DEF SaveKeys
    <3>2. Carries(messages, req[p]) BY DEF Sourced
    <3>3. req[p].msg # 0 => req[p].keys = ImportKeys(Held(messages, req[p].msg))
      BY <3>1, <3>2 DEF Carries
    <3> QED BY <3>1, <3>3
  <2>2. CASE DeleteKeys(p) BY <1>2, <2>2 DEF DeleteKeys
  <2> QED BY <2>1, <2>2
<1>6. ASSUME NEW s \in Roles, source'[s] # 0
      PROVE  keyEntry'[s] = EncodeKeys(ImportKeys(Held(messages, source'[s])))
  <2>1. CASE s = r BY <1>3, <1>5, <1>6, <2>1
  <2>2. CASE s # r
    <3>1. source'[s] = source[s] /\ keyEntry'[s] = keyEntry[s] BY <1>3, <1>5, <2>2
    <3> QED BY <1>6, <3>1 DEF Sourced
  <2> QED BY <2>1, <2>2
<1> QED BY <1>1, <1>4, <1>6 DEF Sourced

\* The other steps leave the keys and their sources alone.
LEMMA OthersSourced ==
    ASSUME TypeInv, Sourced, NEW p \in Procs,
           \/ \E r \in Roles : DeleteUsage(p, r) \/ BeginWithoutKey(p, r) \/ pathRolePEMRead(p, r)
           \/ SaveUsage(p) \/ SavePrivateKey(p) \/ DeletePrivateKey(p) \/ Fail(p)
    PROVE  Sourced' /\ UNCHANGED messages
<1>1. UNCHANGED <<keyEntry, source, messages>>
  BY DEF DeleteUsage, BeginWithoutKey, pathRolePEMRead, SaveUsage, SavePrivateKey,
         DeletePrivateKey, Fail, storage, papers, history
<1>2. Empties(p) \/ UNCHANGED req
  <2>1. ASSUME NEW r \in Roles, DeleteUsage(p, r) PROVE Empties(p)
    <3>1. [Idle EXCEPT !.step = "deletePk", !.role = r].step = "deletePk" BY DEF Idle
    <3> QED BY <2>1, <3>1, BegunIs DEF DeleteUsage, Empties
  <2>2. ASSUME NEW r \in Roles, NEW i, GeneratePrivateKey(p, r, i) PROVE Empties(p)
    <3>1. [Idle EXCEPT !.step = "savePk", !.role = r, !.pk = generated', !.msg = i].step = "savePk"
      BY DEF Idle
    <3> QED BY <2>2, <3>1, BegunIs DEF GeneratePrivateKey, Empties
  <2>3. ASSUME NEW r \in Roles, pathRolePEMRead(p, r) PROVE UNCHANGED req
    BY <2>3 DEF pathRolePEMRead
  <2>4. CASE Answer(p) BY <2>4, Answered, IdleTyped DEF Empties
  <2>5. ASSUME NEW step \in {"deleteKeys"}, Goto(p, step) PROVE Empties(p)
    BY <2>5, WentTo DEF Steps, Empties
  <2> QED BY <2>1, <2>2, <2>3, <2>4, <2>5
          DEF BeginWithoutKey, SaveUsage, SavePrivateKey, DeletePrivateKey, Fail
<1>3. CASE UNCHANGED req BY <1>1, <1>3 DEF Sourced
<1>4. CASE Empties(p) BY <1>1, <1>4, CarriesNone, SourcesStay DEF Empties
<1> QED BY <1>1, <1>2, <1>3, <1>4

\* A message more leaves those that keys are from as they are.
LEMMA ExportSourced ==
    ASSUME TypeInv, Sourced, NEW r \in Roles, NEW c \in certificates, NEW q \in Asked,
           pathRoleExport(r, c, q)
    PROVE  Sourced'
<1>1. /\ messages' = Append(messages, Message(r, c, q)) /\ UNCHANGED <<keyEntry, source, req>>
      /\ messages \in Seq(Records)
  BY DEF pathRoleExport, storage, history, TypeInv, PapersTyped
<1>2. \A j \in 1..Len(messages) : Held(messages', j) = Held(messages, j) BY <1>1 DEF Held
<1>3. ASSUME NEW s \in Roles, source[s] # 0
      PROVE  keyEntry[s] = EncodeKeys(ImportKeys(Held(messages', source[s])))
  <2>1. source[s] \in 1..Len(messages) BY <1>3, SourcedKeys
  <2> QED BY <1>2, <1>3, <2>1 DEF Sourced
<1>4. ASSUME NEW s \in Procs PROVE Carries(messages', req[s])
  <2>1. req[s].msg # 0 => req[s].msg \in 1..Len(messages)
    <3>1. req[s].msg \in 0..Len(messages) /\ Len(messages) \in Nat
      BY DEF TypeInv, RequestsTyped, Placed, PapersTyped
    <3> QED BY <3>1
  <2>2. Carries(messages, req[s]) BY DEF Sourced
  <2> QED BY <1>2, <2>1, <2>2 DEF Carries
<1> QED BY <1>1, <1>3, <1>4 DEF Sourced

\* Every step keeps the chains.
LEMMA NextChained ==
    TypeInv /\ Sourced /\ Chained /\ [Next]_vars => Sourced' /\ Chained'
<1> SUFFICES ASSUME TypeInv, Sourced, Chained, [Next]_vars PROVE Sourced' /\ Chained' OBVIOUS
<1>1. UNCHANGED messages => Chained' BY DEF Chained
<1>2. CASE UNCHANGED <<messages, keyEntry, source, req>> BY <1>1, <1>2 DEF Sourced
<1>3. CASE OneStep
  <2>1. ASSUME NEW r \in Roles, NEW c \in certificates, NEW q \in Asked, pathRoleExport(r, c, q)
        PROVE  Sourced' /\ Chained'
    BY <2>1, ExportSourced, ChainGrows
  <2>2. ASSUME \/ \E r \in Roles : Use(r)
               \/ \E f \in Engines, l \in Labels : ChangeLabel(f, l)
        PROVE  UNCHANGED <<messages, keyEntry, source, req>>
    BY <2>2 DEF Use, ChangeLabel, storage, papers, history
  <2> QED BY <1>2, <1>3, <2>1, <2>2 DEF OneStep
<1>4. ASSUME NEW p \in Procs, Stepwise(p) PROVE Sourced' /\ Chained'
  <2>1. Sourced' /\ UNCHANGED messages
    BY <1>4, BegunSourced, StoredSourced, OthersSourced DEF Stepwise
  <2> QED BY <1>1, <2>1
<1>5. CASE Crash
  <2>1. UNCHANGED <<messages, keyEntry, source>> /\ req' = [p \in Procs |-> Idle]
    BY <1>5 DEF Crash, storage, papers, history
  <2>2. Carries(messages, Idle) BY IdleTyped, CarriesNone
  <2>3. Sourced' BY <2>1, <2>2 DEF Sourced
  <2> QED BY <1>1, <2>1, <2>3
<1>6. CASE Tick BY <1>2, <1>6 DEF Tick, storage, papers, history
<1>7. CASE UNCHANGED vars BY <1>2, <1>7 DEF vars, storage, papers, history
<1> QED BY <1>3, <1>4, <1>5, <1>6, <1>7 DEF Next

\* Initially no role has a source, no request is under way and there is no
\* message.
LEMMA AlwaysChained == Spec => [](TypeInv /\ Sourced /\ Chained)
<1>1. Init => Sourced /\ Chained
  <2> SUFFICES ASSUME Init PROVE Sourced /\ Chained OBVIOUS
  <2>1. /\ Len(messages) = 0 /\ source = [r \in Roles |-> 0] /\ req = [p \in Procs |-> Idle]
    BY DEF Init
  <2>2. 1..Len(messages) = {} BY <2>1
  <2>3. Carries(messages, Idle) BY IdleTyped, CarriesNone
  <2> QED BY <2>1, <2>2, <2>3 DEF Sourced, Chained
<1> QED BY <1>1, NextChained, InitTyped, NextTyped, PTL DEF Spec

\* What is exported from an imported role was imported with the permission to
\* export it, whatever other requests run and whatever fails.
THEOREM ExportsArePermitted == Spec => []ExportsPermitted
<1>1. TypeInv /\ Chained => ExportsPermitted
  BY DEF TypeInv, PapersTyped, Chained, Chain, ExportsPermitted
<1> QED BY <1>1, AlwaysChained, PTL

\* Along a chain of exports each field of the keys is withheld or handed on as
\* it was received: no recipient gets credentials that one before it did not.
THEOREM CredentialsOnlyNarrow == Spec => []CredentialsNarrow
<1>1. TypeInv /\ Chained => CredentialsNarrow
  <2> SUFFICES ASSUME TypeInv, Chained, NEW i \in 1..Len(messages), messages[i].from # 0
               PROVE  Narrower(Contents(i).RoleData, Contents(messages[i].from).RoleData)
    <3>1. DOMAIN messages = 1..Len(messages) BY DEF TypeInv, PapersTyped
    <3> QED BY <3>1 DEF CredentialsNarrow, Narrower
  <2> QED BY DEF Chained, Chain, Contents, Held
<1> QED BY <1>1, AlwaysChained, PTL

-----------------------------------------------------------------------------
(***************************************************************************)
(* Requests that do not overlap: to whom the private keys, certificates    *)
(* and messages belong.                                                    *)
(***************************************************************************)

\* A private key is that of one role, which is there, as its limits are.
Owned ==
    /\ \A r \in Roles : keyEntry[r] = Nil => pkEntry[r] = 0 /\ usageEntry[r] = Nil
    /\ \A r, s \in Roles : r # s /\ pkEntry[r] = pkEntry[s] => pkEntry[r] = 0

\* A certificate is no younger than its role, and the one for a role that can
\* be read is for the private key the role has.
Issued ==
    /\ \A c \in certificates : c.to[2] <= born[c.to[1]]
    /\ \A c \in certificates, r \in Roles :
          /\ c.key = pkEntry[r] => c.to = <<r, born[r]>>
          /\ c.to = <<r, born[r]>> /\ readRole(r) => c.key = pkEntry[r]

\* A message for the private key of a role is for that role.
Mailed ==
    \A i \in 1..Len(messages), r \in Roles :
        messages[i].key = pkEntry[r] => messages[i].to = <<r, born[r]>>

\* The message the keys of a role are from, and the one its limits are from, is
\* for this role, and was opened under the label it has.
Received ==
    \A r \in Roles :
        /\ source[r] # 0 => /\ messages[source[r]].to = <<r, born[r]>>
                            /\ under[source[r]] = messages[source[r]].label
        /\ limiting[r] # 0 => messages[limiting[r]].to = <<r, born[r]>> /\ usageEntry[r] # Nil

Creating(q) == q.step \in {"saveKeys", "saveUsage"} /\ q.msg = 0
Importing(q) == q.step \in {"saveKeys", "saveUsage"} /\ q.msg # 0

\* A key that was generated is no other's; a role that is being created has no
\* key and no certificate; a message that was opened is for the role; a role
\* that is being deleted has lost its limits first.
Pending(p) ==
    LET q == req[p]
        r == q.role
    IN  /\ q.step = "savePk" =>
              /\ readRole(r) /\ pkEntry[r] = 0
              /\ \A s \in Roles : pkEntry[s] # q.pk
              /\ \A c \in certificates : c.key # q.pk
              /\ \A i \in 1..Len(messages) : messages[i].key # q.pk
        /\ Creating(q) =>
              /\ q.step = "saveKeys" <=> keyEntry[r] = Nil
              /\ pkEntry[r] = 0
              /\ \A c \in certificates : c.to # <<r, born[r]>>
        /\ Importing(q) =>
              /\ readRole(r)
              /\ messages[q.msg].to = <<r, born[r]>> /\ under[q.msg] = messages[q.msg].label
        /\ q.step = "updateKeys" => readRole(r)
        /\ q.step \in {"deletePk", "deleteKeys"} => usageEntry[r] = Nil
        /\ q.step = "deleteKeys" => pkEntry[r] = 0

Belongings == Owned /\ Issued /\ Mailed /\ Received

AddressInv == Belongings /\ \A p \in Procs : Pending(p)

\* Keys in use were generated, and the functions are functions.
LEMMA KeysTyped ==
    ASSUME TypeInv
    PROVE  /\ generated \in Nat /\ Len(messages) \in Nat /\ messages \in Seq(Records)
           /\ pkEntry \in [Roles -> Nat] /\ \A r \in Roles : pkEntry[r] <= generated
           /\ \A c \in certificates : /\ c.key \in Nat \ {0} /\ c.key <= generated
                                     /\ c.to \in Roles \X Nat
           /\ \A i \in 1..Len(messages) :
                 messages[i].key \in Nat \ {0} /\ messages[i].key <= generated
           /\ born \in [Roles -> Nat] /\ source \in [Roles -> 0..Len(messages)]
           /\ limiting \in [Roles -> 0..Len(messages)]
           /\ keyEntry \in [Roles -> KeyEntries \cup {Nil}]
           /\ usageEntry \in [Roles -> UsageEntries \cup {Nil}]
<1>1. generated \in Nat /\ Len(messages) \in Nat /\ messages \in Seq(Records)
  BY BoundsAreNumbers DEF TypeInv, PapersTyped
<1>2. pkEntry \in [Roles -> Nat] /\ \A r \in Roles : pkEntry[r] <= generated
  <2>1. pkEntry \in [Roles -> 0..generated] BY DEF TypeInv, StorageTyped
  <2>2. \A x \in 0..generated : x \in Nat /\ x <= generated BY <1>1
  <2> QED BY <2>1, <2>2
<1>3. \A c \in certificates : c.key \in Nat \ {0} /\ c.key <= generated /\ c.to \in Roles \X Nat
  BY DEF TypeInv, PapersTyped, Certificates
<1>4. ASSUME NEW i \in 1..Len(messages)
      PROVE  messages[i].key \in Nat \ {0} /\ messages[i].key <= generated
  <2>1. messages[i] \in Records BY <1>1
  <2>2. messages[i].key \in Nat \ {0} BY <2>1 DEF Records
  <2> QED BY <2>2 DEF TypeInv, PapersTyped
<1>5. /\ born \in [Roles -> Nat] /\ source \in [Roles -> 0..Len(messages)]
      /\ limiting \in [Roles -> 0..Len(messages)]
  BY DEF TypeInv, HistoryTyped
<1>6. /\ keyEntry \in [Roles -> KeyEntries \cup {Nil}]
      /\ usageEntry \in [Roles -> UsageEntries \cup {Nil}]
  BY DEF TypeInv, StorageTyped
<1> QED BY <1>1, <1>2, <1>3, <1>4, <1>5, <1>6

\* A message that is named is one there is.
LEMMA Named ==
    ASSUME TypeInv
    PROVE  /\ \A r \in Roles : source[r] # 0 => source[r] \in 1..Len(messages)
           /\ \A r \in Roles : limiting[r] # 0 => limiting[r] \in 1..Len(messages)
           /\ \A p \in Procs : req[p].msg # 0 => req[p].msg \in 1..Len(messages)
<1>1. Len(messages) \in Nat /\ \A i \in 0..Len(messages) : i # 0 => i \in 1..Len(messages)
  BY KeysTyped
<1>2. \A p \in Procs : req[p].msg \in 0..Len(messages) BY DEF TypeInv, RequestsTyped, Placed
<1>3. \A r \in Roles : source[r] \in 0..Len(messages) /\ limiting[r] \in 0..Len(messages)
  BY KeysTyped
<1> QED BY <1>1, <1>2, <1>3

\* A request at rest is about to do nothing.
LEMMA PendingNone ==
    ASSUME NEW p \in Procs, req[p].step = "idle" PROVE Pending(p)
BY DEF Pending, Creating, Importing

\* Where no entry comes or goes, and keys, certificates, messages and their
\* history stay, what belongs to whom stays.
LEMMA OwnersStay ==
    ASSUME Belongings,
           \A r \in Roles : keyEntry'[r] = Nil <=> keyEntry[r] = Nil,
           \A r \in Roles : usageEntry'[r] = Nil <=> usageEntry[r] = Nil,
           UNCHANGED <<pkEntry, certificates, messages, born, source, limiting, under>>
    PROVE  Belongings'
<1>1. Owned' BY DEF Belongings, Owned
<1>2. Issued' BY DEF Belongings, Issued, readRole
<1>3. Mailed' BY DEF Belongings, Mailed
<1>4. Received' BY DEF Belongings, Received
<1> QED BY <1>1, <1>2, <1>3, <1>4 DEF Belongings

\* The initial state.
LEMMA InitAddressed == Init => AddressInv
<1> SUFFICES ASSUME Init PROVE AddressInv OBVIOUS
<1>1. Len(messages) = 0 /\ 1..Len(messages) = {}
  <2>1. Len(messages) = 0 BY DEF Init
  <2> QED BY <2>1
<1>2. Owned /\ Issued BY DEF Init, Owned, Issued
<1>3. Mailed /\ Received BY <1>1 DEF Init, Mailed, Received
<1>4. \A p \in Procs : Pending(p)
  <2>1. \A p \in Procs : req[p].step = "idle" BY IdleTyped DEF Init
  <2> QED BY <2>1, PendingNone
<1> QED BY <1>2, <1>3, <1>4 DEF AddressInv, Belongings

\* A role is created under a name whose private key is gone.
LEMMA BegunWriteAddressed ==
    ASSUME TypeInv, Sourced, AddressInv, NEW p \in Procs, NEW r \in Roles, NEW w \in Writes,
           handleWriteRoleKeys(p, r, w)
    PROVE  Belongings' /\ Pending(p)'
<1> DEFINE a == Saving("saveKeys", r, 0, updateRoleKeysFromRequest(InitialKeys, w),
                       ResetToken(UnboundedUsage(InitialUsage)))
<1>1. /\ keyEntry[r] = Nil /\ born' = [born EXCEPT ![r] = born[r] + 1] /\ req'[p] = a
      /\ UNCHANGED <<keyEntry, usageEntry, pkEntry, certificates, messages, source, limiting, under>>
  BY BegunIs DEF handleWriteRoleKeys, papers, storage
<1>2. a.step = "saveKeys" /\ a.role = r /\ a.msg = 0 BY DEF Saving, Idle
<1> HIDE DEF a
<1>3. pkEntry[r] = 0 /\ usageEntry[r] = Nil /\ source[r] = 0 /\ limiting[r] = 0
  <2>1. source[r] = 0 BY <1>1, SourcedKeys
  <2> QED BY <1>1, <2>1 DEF AddressInv, Belongings, Owned, Received
<1>4. /\ born'[r] = born[r] + 1 /\ born[r] \in Nat
      /\ \A s \in Roles : s # r => born'[s] = born[s]
  BY <1>1, KeysTyped
<1>5. Owned' BY <1>1 DEF AddressInv, Belongings, Owned
<1>6. ASSUME NEW c \in certificates PROVE c.to[2] <= born'[c.to[1]] /\ c.to # <<r, born'[r]>>
  <2>1. c.to[2] <= born[c.to[1]] /\ c.to \in Roles \X Nat
    BY KeysTyped DEF AddressInv, Belongings, Issued
  <2>2. c.to[1] \in Roles /\ c.to[2] \in Nat BY <2>1
  <2>3. CASE c.to[1] = r BY <1>4, <2>1, <2>2, <2>3
  <2>4. CASE c.to[1] # r BY <1>4, <2>1, <2>2, <2>4
  <2> QED BY <2>3, <2>4
<1>7. Issued'
  <2>1. ASSUME NEW c \in certificates, NEW s \in Roles
        PROVE  /\ c.key = pkEntry[s] => c.to = <<s, born'[s]>>
               /\ c.to = <<s, born'[s]>> /\ readRole(s) => c.key = pkEntry[s]
    <3>1. c.key # 0 BY KeysTyped
    <3>2. CASE s = r BY <1>3, <1>6, <3>1, <3>2
    <3>3. CASE s # r BY <1>4, <3>3 DEF AddressInv, Belongings, Issued
    <3> QED BY <3>2, <3>3
  <2> QED BY <1>1, <1>6, <2>1 DEF Issued, readRole
<1>8. Mailed'
  <2> SUFFICES ASSUME NEW i \in 1..Len(messages), NEW s \in Roles, messages[i].key = pkEntry[s]
               PROVE  messages[i].to = <<s, born'[s]>>
    BY <1>1 DEF Mailed
  <2>1. messages[i].key # 0 BY KeysTyped
  <2>2. s # r BY <1>3, <2>1
  <2> QED BY <1>4, <2>2 DEF AddressInv, Belongings, Mailed
<1>9. Received' BY <1>1, <1>3, <1>4 DEF AddressInv, Belongings, Received
<1>10. Pending(p)' BY <1>1, <1>2, <1>3, <1>6 DEF Pending, Creating, Importing
<1> QED BY <1>5, <1>7, <1>8, <1>9, <1>10 DEF Belongings

\* An update begins.
LEMMA BegunUpdateAddressed ==
    ASSUME TypeInv, AddressInv, NEW p \in Procs, NEW r \in Roles, NEW w \in Writes,
           handleUpdateRoleData(p, r, w)
    PROVE  Belongings' /\ Pending(p)'
<1> DEFINE a == Saving("updateKeys", r, source[r], updateRoleKeysFromRequest(Keys(r), w), Usage(r))
<1>1. /\ readRole(r) /\ req'[p] = a
      /\ UNCHANGED <<keyEntry, usageEntry, pkEntry, certificates, messages, born, source, limiting, under>>
  BY BegunIs DEF handleUpdateRoleData, papers, storage, history
<1>2. a.step = "updateKeys" /\ a.role = r BY DEF Saving, Idle
<1> HIDE DEF a
<1>3. Belongings' BY <1>1, OwnersStay DEF AddressInv
<1>4. Pending(p)' BY <1>1, <1>2 DEF Pending, Creating, Importing, readRole
<1> QED BY <1>3, <1>4

\* Keys are stored: those of a message in the role it is for, those of a new
\* role before its limits.
LEMMA SavedKeysAddressed ==
    ASSUME TypeInv, Sourced, AddressInv, NEW p \in Procs, SaveKeys(p)
    PROVE  Belongings' /\ Pending(p)'
<1> DEFINE q == req[p]
           e == EncodeKeys(q.keys)
<1>0. PICK r : r = q.role OBVIOUS
<1>1. /\ q.step \in {"saveKeys", "updateKeys"}
      /\ keyEntry' = [keyEntry EXCEPT ![r] = e] /\ source' = [source EXCEPT ![r] = q.msg]
      /\ IF q.step = "saveKeys" THEN Goto(p, "saveUsage") ELSE Answer(p)
      /\ UNCHANGED <<usageEntry, pkEntry, certificates, messages, born, limiting, under>>
  BY <1>0 DEF SaveKeys, papers
<1>2. r \in Roles /\ q.keys \in RoleKeys /\ Carries(messages, q) /\ Pending(p)
  BY <1>0, <1>1 DEF TypeInv, RequestsTyped, Placed, Requests, Sourced, AddressInv
<1>3. e # Nil BY <1>2, KeyEntryIsThere
<1>4. /\ keyEntry'[r] = e /\ source'[r] = q.msg
      /\ \A s \in Roles : s # r => keyEntry'[s] = keyEntry[s] /\ source'[s] = source[s]
  BY <1>1, <1>2, KeysTyped
<1>5. /\ Importing(q) => /\ readRole(r) /\ messages[q.msg].to = <<r, born[r]>>
                         /\ under[q.msg] = messages[q.msg].label
      /\ Creating(q) => pkEntry[r] = 0 /\ \A c \in certificates : c.to # <<r, born[r]>>
      /\ q.step = "updateKeys" => q.msg = 0 /\ readRole(r)
      /\ Creating(q) => keyEntry[r] = Nil
  BY <1>0, <1>1, <1>2 DEF Pending, Carries, Creating
<1>6. q.msg # 0 => Importing(q) BY <1>1, <1>5 DEF Importing
<1>7. q.step = "saveKeys" => Importing(q) \/ Creating(q) BY DEF Importing, Creating
<1> HIDE DEF q, e
<1>8. \A s \in Roles : readRole(s)' => readRole(s)
  <2>1. usageEntry[r] # Nil => readRole(r)
    BY <1>1, <1>2, <1>5, <1>7 DEF AddressInv, Belongings, Owned
  <2> QED BY <1>1, <1>4, <2>1 DEF readRole
<1>9. Owned' BY <1>1, <1>3, <1>4 DEF AddressInv, Belongings, Owned
<1>10. Issued' BY <1>1, <1>8 DEF AddressInv, Belongings, Issued
<1>11. Mailed' BY <1>1 DEF AddressInv, Belongings, Mailed
<1>12. Received'
  <2>1. q.msg # 0 => messages[q.msg].to = <<r, born[r]>> /\ under[q.msg] = messages[q.msg].label
    BY <1>5, <1>6
  <2> QED BY <1>1, <1>4, <2>1 DEF AddressInv, Belongings, Received
<1>13. Pending(p)'
  <2>1. CASE Answer(p) BY <2>1, Answered, IdleTyped DEF Pending, Creating, Importing
  <2>2. CASE q.step = "saveKeys" /\ Goto(p, "saveUsage")
    <3>1. req'[p].step = "saveUsage" /\ req'[p].role = r /\ req'[p].msg = q.msg
      BY <1>0, <2>2, WentTo DEF q, Steps
    <3>2. Importing(q) => readRole(r)' BY <1>1, <1>3, <1>4, <1>5 DEF readRole
    <3> QED BY <1>1, <1>3, <1>4, <1>5, <1>6, <1>7, <2>2, <3>1, <3>2
            DEF Pending, Creating, Importing
  <2> QED BY <1>1, <2>1, <2>2
<1> QED BY <1>9, <1>10, <1>11, <1>12, <1>13 DEF Belongings

\* Limits are stored, those of a message in the role it is for: a new role has
\* no certificate yet.
LEMMA SavedUsageAddressed ==
    ASSUME TypeInv, AddressInv, NEW p \in Procs, SaveUsage(p)
    PROVE  Belongings' /\ Pending(p)'
<1> DEFINE q == req[p]
           e == EncodeUsage(q.usage)
<1>0. PICK r : r = q.role OBVIOUS
<1>1. /\ q.step = "saveUsage" /\ usageEntry' = [usageEntry EXCEPT ![r] = e]
      /\ limiting' = [limiting EXCEPT ![r] = q.msg] /\ Answer(p)
      /\ UNCHANGED <<keyEntry, pkEntry, certificates, messages, born, source, under>>
  BY <1>0 DEF SaveUsage, papers
<1>2. r \in Roles /\ q.usage \in StoredRoleUsage /\ Pending(p)
  BY <1>0, <1>1 DEF TypeInv, RequestsTyped, Placed, Requests, AddressInv
<1>3. e # Nil BY <1>2, UsageEntryIsThere
<1>4. /\ usageEntry'[r] = e /\ limiting'[r] = q.msg
      /\ \A s \in Roles : s # r => usageEntry'[s] = usageEntry[s] /\ limiting'[s] = limiting[s]
  BY <1>1, <1>2, KeysTyped
<1>5. /\ q.msg # 0 => readRole(r) /\ messages[q.msg].to = <<r, born[r]>>
      /\ q.msg = 0 => keyEntry[r] # Nil /\ \A c \in certificates : c.to # <<r, born[r]>>
  BY <1>0, <1>1, <1>2 DEF Pending, Creating, Importing
<1> HIDE DEF q, e
<1>6. Owned' BY <1>1, <1>4, <1>5 DEF AddressInv, Belongings, Owned, readRole
<1>7. Issued'
  <2>1. ASSUME NEW c \in certificates, NEW s \in Roles, c.to = <<s, born[s]>>, readRole(s)'
        PROVE  c.key = pkEntry[s]
    <3>1. readRole(s) BY <1>1, <1>4, <1>5, <2>1 DEF readRole
    <3> QED BY <2>1, <3>1 DEF AddressInv, Belongings, Issued
  <2> QED BY <1>1, <2>1 DEF AddressInv, Belongings, Issued
<1>8. Mailed' BY <1>1 DEF AddressInv, Belongings, Mailed
<1>9. Received' BY <1>1, <1>3, <1>4, <1>5 DEF AddressInv, Belongings, Received
<1>10. Pending(p)' BY <1>1, Answered, IdleTyped DEF Pending, Creating, Importing
<1> QED BY <1>6, <1>7, <1>8, <1>9, <1>10 DEF Belongings

\* A role goes with its private key, after its limits and before its keys:
\* wherever the deletes stop, it cannot be read.
LEMMA DeletedAddressed ==
    ASSUME TypeInv, AddressInv, NEW p \in Procs,
           (\E r \in Roles : DeleteUsage(p, r)) \/ DeletePrivateKey(p) \/ DeleteKeys(p)
    PROVE  Belongings' /\ Pending(p)'
<1>1. UNCHANGED <<certificates, messages, born, under>>
  BY DEF DeleteUsage, DeletePrivateKey, DeleteKeys, papers, history
<1>2. ASSUME NEW r \in Roles, DeleteUsage(p, r) PROVE Belongings' /\ Pending(p)'
  <2> DEFINE a == [Idle EXCEPT !.step = "deletePk", !.role = r]
  <2>1. /\ usageEntry' = [usageEntry EXCEPT ![r] = Nil] /\ limiting' = [limiting EXCEPT ![r] = 0]
        /\ req'[p] = a /\ UNCHANGED <<keyEntry, pkEntry, source>>
    BY <1>2, BegunIs DEF DeleteUsage
  <2>2. a.step = "deletePk" /\ a.role = r BY DEF Idle
  <2>3. /\ usageEntry'[r] = Nil /\ limiting'[r] = 0
        /\ \A s \in Roles : s # r => usageEntry'[s] = usageEntry[s] /\ limiting'[s] = limiting[s]
    BY <2>1, KeysTyped
  <2> HIDE DEF a
  <2>4. Owned' BY <2>1, <2>3 DEF AddressInv, Belongings, Owned
  <2>5. Issued' BY <1>1, <2>1, <2>3 DEF AddressInv, Belongings, Issued, readRole
  <2>6. Mailed' BY <1>1, <2>1 DEF AddressInv, Belongings, Mailed
  <2>7. Received' BY <1>1, <2>1, <2>3 DEF AddressInv, Belongings, Received
  <2>8. Pending(p)' BY <2>1, <2>2, <2>3 DEF Pending, Creating, Importing
  <2> QED BY <2>4, <2>5, <2>6, <2>7, <2>8 DEF Belongings
<1> DEFINE q == req[p]
<1>3. PICK r : r = q.role OBVIOUS
<1>4. CASE DeletePrivateKey(p)
  <2>1. /\ pkEntry' = [pkEntry EXCEPT ![r] = 0] /\ Goto(p, "deleteKeys") /\ q.step = "deletePk"
        /\ UNCHANGED <<keyEntry, usageEntry, source, limiting>>
    BY <1>3, <1>4 DEF DeletePrivateKey, history
  <2>2. r \in Roles /\ usageEntry[r] = Nil
    BY <1>3, <2>1 DEF TypeInv, RequestsTyped, Placed, AddressInv, Pending
  <2>3. pkEntry'[r] = 0 /\ \A s \in Roles : s # r => pkEntry'[s] = pkEntry[s]
    BY <2>1, <2>2, KeysTyped
  <2>4. req'[p].step = "deleteKeys" /\ req'[p].role = r BY <1>3, <2>1, WentTo DEF Steps
  <2>5. Owned' BY <2>1, <2>3 DEF AddressInv, Belongings, Owned
  <2>6. Issued'
    <3>1. \A c \in certificates : c.key # 0 BY KeysTyped
    <3> QED BY <1>1, <2>1, <2>2, <2>3, <3>1 DEF AddressInv, Belongings, Issued, readRole
  <2>7. Mailed'
    <3>1. \A i \in 1..Len(messages) : messages[i].key # 0 BY KeysTyped
    <3> QED BY <1>1, <2>3, <3>1 DEF AddressInv, Belongings, Mailed
  <2>8. Received' BY <1>1, <2>1 DEF AddressInv, Belongings, Received
  <2>9. Pending(p)' BY <2>1, <2>2, <2>3, <2>4 DEF Pending, Creating, Importing
  <2> QED BY <2>5, <2>6, <2>7, <2>8, <2>9 DEF Belongings
<1>5. CASE DeleteKeys(p)
  <2>1. /\ keyEntry' = [keyEntry EXCEPT ![r] = Nil] /\ source' = [source EXCEPT ![r] = 0]
        /\ Answer(p) /\ q.step = "deleteKeys"
        /\ UNCHANGED <<usageEntry, pkEntry, limiting>>
    BY <1>3, <1>5 DEF DeleteKeys
  <2>2. r \in Roles /\ usageEntry[r] = Nil /\ pkEntry[r] = 0
    BY <1>3, <2>1 DEF TypeInv, RequestsTyped, Placed, AddressInv, Pending
  <2>3. /\ keyEntry'[r] = Nil /\ source'[r] = 0
        /\ \A s \in Roles : s # r => keyEntry'[s] = keyEntry[s] /\ source'[s] = source[s]
    BY <2>1, <2>2, KeysTyped
  <2>4. Owned' BY <2>1, <2>2, <2>3 DEF AddressInv, Belongings, Owned
  <2>5. Issued' BY <1>1, <2>1, <2>2, <2>3 DEF AddressInv, Belongings, Issued, readRole
  <2>6. Mailed' BY <1>1, <2>1 DEF AddressInv, Belongings, Mailed
  <2>7. Received' BY <1>1, <2>1, <2>3 DEF AddressInv, Belongings, Received
  <2>8. Pending(p)' BY <2>1, Answered, IdleTyped DEF Pending, Creating, Importing
  <2> QED BY <2>4, <2>5, <2>6, <2>7, <2>8 DEF Belongings
<1> QED BY <1>2, <1>4, <1>5

\* A message is for whom the certificate was issued to.
LEMMA ExportAddressed ==
    ASSUME TypeInv, AddressInv, NEW r \in Roles, NEW c \in certificates, NEW q \in Asked,
           pathRoleExport(r, c, q)
    PROVE  Belongings'
<1> DEFINE m == Message(r, c, q)
           n == Len(messages) + 1
<1>1. /\ keyEntry[r] # Nil /\ messages' = Append(messages, m)
      /\ UNCHANGED <<keyEntry, usageEntry, pkEntry, certificates, born, source, limiting, under>>
  BY DEF pathRoleExport, readRole, storage, history
<1>2. m \in Records /\ m.key = c.key /\ m.to = c.to BY <1>1, MessageFacts
<1> HIDE DEF m
<1>3. /\ Len(messages') = n /\ messages'[n] = m
      /\ \A i \in 1..Len(messages) : messages'[i] = messages[i]
  BY <1>1, <1>2, KeysTyped
<1>4. Owned' BY <1>1 DEF AddressInv, Belongings, Owned
<1>5. Issued' BY <1>1 DEF AddressInv, Belongings, Issued, readRole
<1>6. Mailed'
  <2> SUFFICES ASSUME NEW i \in 1..Len(messages'), NEW s \in Roles, messages'[i].key = pkEntry[s]
               PROVE  messages'[i].to = <<s, born[s]>>
    BY <1>1 DEF Mailed
  <2>1. CASE i = n BY <1>2, <1>3, <2>1 DEF AddressInv, Belongings, Issued
  <2>2. CASE i \in 1..Len(messages) BY <1>3, <2>2 DEF AddressInv, Belongings, Mailed
  <2>3. Len(messages) \in Nat BY KeysTyped
  <2> QED BY <1>3, <2>1, <2>2, <2>3
<1>7. Received'
  <2>1. ASSUME NEW s \in Roles
        PROVE  /\ source[s] # 0 => messages'[source[s]] = messages[source[s]]
               /\ limiting[s] # 0 => messages'[limiting[s]] = messages[limiting[s]]
    BY <1>3, Named, Zenon
  <2> QED BY <1>1, <2>1 DEF AddressInv, Belongings, Received
<1> QED BY <1>4, <1>5, <1>6, <1>7 DEF Belongings

\* A use leaves the limits there.
LEMMA UseAddressed ==
    ASSUME TypeInv, AddressInv, NEW r \in Roles, Use(r) PROVE Belongings'
<1> DEFINE u == Usage(r)
           e == IF HasUsageQuota(u) THEN EncodeUsage(ReduceRemainingQuota(u)) ELSE usageEntry[r]
<1>1. /\ usageEntry' = [usageEntry EXCEPT ![r] = e] /\ usageEntry[r] # Nil
      /\ UNCHANGED <<keyEntry, pkEntry, certificates, messages, born, source, limiting, under>>
  BY DEF Use, readRole, papers
<1>2. e # Nil BY <1>1, RoleTyped, UsageOpsTyped, UsageEntryIsThere
<1> HIDE DEF e
<1>3. \A s \in Roles : usageEntry'[s] = Nil <=> usageEntry[s] = Nil BY <1>1, <1>2, KeysTyped
<1> QED BY <1>1, <1>3, OwnersStay DEF AddressInv

\* A key is generated that is no other's yet.
LEMMA BegunKeyAddressed ==
    ASSUME TypeInv, AddressInv, NEW p \in Procs, NEW r \in Roles, BeginWithoutKey(p, r)
    PROVE  Belongings' /\ Pending(p)'
<1> DEFINE g == generated + 1
<1>1. PICK i \in {0} \cup DOMAIN messages : GeneratePrivateKey(p, r, i) BY DEF BeginWithoutKey
<1> DEFINE a == [Idle EXCEPT !.step = "savePk", !.role = r, !.pk = g, !.msg = i]
<1>2. /\ readRole(r) /\ pkEntry[r] = 0 /\ req'[p] = a
      /\ UNCHANGED <<keyEntry, usageEntry, pkEntry, certificates, messages, born, source, limiting, under>>
  BY <1>1, BegunIs DEF GeneratePrivateKey, BeginWithoutKey, storage, history
<1>3. a.step = "savePk" /\ a.role = r /\ a.pk = g BY DEF Idle
<1> HIDE DEF a
<1>4. Belongings' BY <1>2, OwnersStay DEF AddressInv
<1>5. /\ \A s \in Roles : pkEntry[s] # g
      /\ \A c \in certificates : c.key # g
      /\ \A j \in 1..Len(messages) : messages[j].key # g
  <2>1. generated \in Nat BY KeysTyped
  <2>2. \A s \in Roles : pkEntry[s] \in Nat /\ pkEntry[s] <= generated BY KeysTyped
  <2>3. \A c \in certificates : c.key \in Nat /\ c.key <= generated BY KeysTyped
  <2>4. \A j \in 1..Len(messages) : messages[j].key \in Nat /\ messages[j].key <= generated
    BY KeysTyped
  <2> QED BY <2>1, <2>2, <2>3, <2>4
<1> HIDE DEF g
<1>6. Pending(p)' BY <1>2, <1>3, <1>5 DEF Pending, Creating, Importing, readRole
<1> QED BY <1>4, <1>6

\* A certificate is answered for the key the role has.
LEMMA AnsweredAddressed ==
    ASSUME TypeInv, AddressInv, NEW p \in Procs, NEW r \in Roles, pathRolePEMRead(p, r)
    PROVE  Belongings' /\ Pending(p)'
<1> DEFINE d == Certificate(r, pkEntry[r])
<1>1. /\ req[p] = Idle /\ pkEntry[r] # 0 /\ certificates' = certificates \cup {d}
      /\ UNCHANGED <<keyEntry, usageEntry, pkEntry, req, messages, born, source, limiting, under>>
  BY DEF pathRolePEMRead, renderRoleCertificate, storage, history
<1>2. d.key = pkEntry[r] /\ d.to = <<r, born[r]>> BY DEF Certificate
<1> HIDE DEF d
<1>3. born[r] \in Nat BY KeysTyped
<1>4. Owned' BY <1>1 DEF AddressInv, Belongings, Owned
<1>5. Issued'
  <2>1. ASSUME NEW s \in Roles
        PROVE  /\ d.key = pkEntry[s] => d.to = <<s, born[s]>>
               /\ d.to = <<s, born[s]>> => d.key = pkEntry[s]
    BY <1>1, <1>2 DEF AddressInv, Belongings, Owned
  <2>2. d.to[2] <= born[d.to[1]] BY <1>2, <1>3
  <2> QED BY <1>1, <2>1, <2>2 DEF AddressInv, Belongings, Issued, readRole
<1>6. Mailed' BY <1>1 DEF AddressInv, Belongings, Mailed
<1>7. Received' BY <1>1 DEF AddressInv, Belongings, Received
<1>8. Pending(p)' BY <1>1, IdleTyped DEF Pending, Creating, Importing
<1> QED BY <1>4, <1>5, <1>6, <1>7, <1>8 DEF Belongings

\* The new key is stored, and its certificate answered.
LEMMA SavedKeyAddressed ==
    ASSUME TypeInv, AddressInv, NEW p \in Procs, SavePrivateKey(p)
    PROVE  Belongings' /\ Pending(p)'
<1> DEFINE q == req[p]
           r == q.role
           d == Certificate(r, q.pk)
<1>1. /\ q.step = "savePk" /\ Answer(p)
      /\ pkEntry' = [pkEntry EXCEPT ![r] = q.pk]
      /\ certificates' \in {certificates, certificates \cup {d}}
      /\ UNCHANGED <<keyEntry, usageEntry, messages, born, source, limiting, under>>
  BY DEF SavePrivateKey, renderRoleCertificate, history
<1>2. /\ readRole(r) /\ pkEntry[r] = 0
      /\ \A s \in Roles : pkEntry[s] # q.pk
      /\ \A c \in certificates : c.key # q.pk
      /\ \A i \in 1..Len(messages) : messages[i].key # q.pk
  BY <1>1 DEF AddressInv, Pending
<1>3. r \in Roles /\ q.pk # 0
  <2>1. r \in Roles /\ q.pk \in 1..generated BY <1>1 DEF TypeInv, RequestsTyped, Placed
  <2> QED BY <2>1, KeysTyped
<1>4. d.key = q.pk /\ d.to = <<r, born[r]>> BY DEF Certificate
<1> HIDE DEF q, r, d
<1>5. pkEntry'[r] = q.pk /\ \A s \in Roles : s # r => pkEntry'[s] = pkEntry[s]
  BY <1>1, <1>3, KeysTyped
<1>6. Owned' BY <1>1, <1>2, <1>3, <1>5 DEF AddressInv, Belongings, Owned, readRole
<1>7. ASSUME NEW c \in certificates, NEW s \in Roles
      PROVE  /\ c.key = pkEntry'[s] => c.to = <<s, born[s]>>
             /\ c.to = <<s, born[s]>> /\ readRole(s) => c.key = pkEntry'[s]
  <2>1. CASE s = r
    <3>1. c.key # q.pk /\ c.key # 0 BY <1>2, KeysTyped
    <3>2. c.to # <<r, born[r]>> BY <1>2, <1>3, <3>1 DEF AddressInv, Belongings, Issued
    <3> QED BY <1>5, <2>1, <3>1, <3>2
  <2>2. CASE s # r BY <1>5, <2>2 DEF AddressInv, Belongings, Issued
  <2> QED BY <2>1, <2>2
<1>8. ASSUME NEW s \in Roles
      PROVE  /\ d.key = pkEntry'[s] => d.to = <<s, born[s]>>
             /\ d.to = <<s, born[s]>> => d.key = pkEntry'[s]
  BY <1>2, <1>4, <1>5
<1>9. d.to[2] <= born[d.to[1]]
  <2>1. born[r] \in Nat BY <1>3, KeysTyped
  <2> QED BY <1>4, <2>1
<1>10. \A c \in certificates : c.to[2] <= born[c.to[1]] BY DEF AddressInv, Belongings, Issued
<1>11. Issued' BY <1>1, <1>7, <1>8, <1>9, <1>10 DEF Issued, readRole
<1>12. Mailed' BY <1>1, <1>2, <1>5 DEF AddressInv, Belongings, Mailed
<1>13. Received' BY <1>1 DEF AddressInv, Belongings, Received
<1>14. Pending(p)' BY <1>1, Answered, IdleTyped DEF Pending, Creating, Importing
<1> QED BY <1>6, <1>11, <1>12, <1>13, <1>14 DEF Belongings

\* A message that is opened is for the role, under its engine's label.
LEMMA BegunImportAddressed ==
    ASSUME TypeInv, AddressInv, NEW p \in Procs, NEW r \in Roles, pathRoleImport(p, r)
    PROVE  Belongings' /\ Pending(p)'
<1>1. PICK i \in DOMAIN messages :
        /\ readRole(r) /\ Opens(messages[i], r)
        /\ Begin(p, Saving("saveKeys", r, i, ImportKeys(Contents(i)),
                           ImportUsage(Usage(r), Contents(i))))
        /\ under' = [under EXCEPT ![i] = label[EngineOf[r]]]
        /\ UNCHANGED <<keyEntry, usageEntry, pkEntry, certificates, messages, born, source, limiting>>
  BY DEF pathRoleImport, storage, papers
<1> DEFINE a == Saving("saveKeys", r, i, ImportKeys(Contents(i)), ImportUsage(Usage(r), Contents(i)))
<1>2. a.step = "saveKeys" /\ a.role = r /\ a.msg = i BY DEF Saving, Idle
<1>3. req'[p] = a BY <1>1, BegunIs
<1> HIDE DEF a
<1>4. messages[i].key = pkEntry[r] /\ messages[i].label = label[EngineOf[r]]
  BY <1>1 DEF Opens
<1>5. i \in 1..Len(messages) /\ i \in 1..MaxMessages /\ i # 0
  <2>1. i \in 1..Len(messages) /\ i \in 1..MaxMessages BY <1>1, OpenedTyped
  <2> QED BY <2>1, KeysTyped
<1>6. Owned' /\ Issued' /\ Mailed'
  BY <1>1 DEF AddressInv, Belongings, Owned, Issued, Mailed, readRole
<1>7. under'[i] = messages[i].label /\ \A j : j # i /\ j \in 1..MaxMessages => under'[j] = under[j]
  <2>1. under \in [1..MaxMessages -> Labels \cup {Nil}] BY DEF TypeInv, HistoryTyped
  <2> QED BY <1>1, <1>4, <1>5, <2>1
<1>8. Received'
  <2>1. ASSUME NEW s \in Roles, source[s] # 0 PROVE source[s] \in 1..MaxMessages
    <3>1. source[s] \in 1..Len(messages) BY <2>1, Named, Zenon
    <3>2. Len(messages) \in Nat /\ Len(messages) <= MaxMessages BY KeysTyped DEF TypeInv, PapersTyped
    <3> QED BY <3>1, <3>2, BoundsAreNumbers
  <2> QED BY <1>1, <1>7, <2>1 DEF AddressInv, Belongings, Received
<1>9. messages[i].to = <<r, born[r]>> BY <1>4, <1>5 DEF AddressInv, Belongings, Mailed
<1>10. Pending(p)' BY <1>1, <1>2, <1>3, <1>5, <1>7, <1>9 DEF Pending, Creating, Importing, readRole
<1> QED BY <1>6, <1>8, <1>10 DEF Belongings

\* While requests do not overlap every step keeps what belongs to whom.
LEMMA NextAddressed ==
    ASSUME NEW p, Procs = {p}, TypeInv, Sourced, AddressInv, [Next]_vars PROVE AddressInv'
<1> SUFFICES Belongings' /\ Pending(p)' BY DEF AddressInv
<1>1. p \in Procs /\ req \in [Procs -> Requests] BY DEF TypeInv, RequestsTyped
<1>2. req'[p].step = "idle" => Pending(p)' BY DEF Pending, Creating, Importing
<1>3. ASSUME UNCHANGED <<keyEntry, usageEntry, pkEntry, certificates, messages, born, source, limiting, under>>
      PROVE  Belongings'
  BY <1>3, OwnersStay DEF AddressInv
<1>4. ASSUME UNCHANGED <<keyEntry, usageEntry, pkEntry, certificates, messages, born, source, limiting, under, req>>
      PROVE  Belongings' /\ Pending(p)'
  BY <1>1, <1>3, <1>4 DEF AddressInv, Pending, Creating, Importing, readRole
<1>5. CASE OneStep
  <2>1. req'[p].step = "idle"
    <3>1. req[p] = Idle BY <1>5 DEF OneStep
    <3>2. UNCHANGED req BY <1>5 DEF OneStep, Use, pathRoleExport, ChangeLabel
    <3> QED BY <3>1, <3>2, IdleTyped
  <2>2. ASSUME NEW f \in Engines, NEW l \in Labels, ChangeLabel(f, l) PROVE Belongings'
    BY <1>3, <2>2 DEF ChangeLabel, storage, papers, history
  <2> QED BY <1>2, <1>5, <2>1, <2>2, UseAddressed, ExportAddressed DEF OneStep
<1>6. CASE Stepwise(p)
  <2>1. ASSUME Fail(p) PROVE Belongings' /\ Pending(p)'
    <3>1. req'[p].step = "idle" BY <1>1, <2>1, Answered, IdleTyped DEF Fail
    <3>2. Belongings' BY <1>3, <2>1 DEF Fail, storage, papers, history
    <3> QED BY <1>2, <3>1, <3>2
  <2> QED BY <1>1, <1>6, <2>1, BegunWriteAddressed, BegunUpdateAddressed, DeletedAddressed,
             BegunKeyAddressed, AnsweredAddressed, BegunImportAddressed, SavedKeysAddressed,
             SavedUsageAddressed, SavedKeyAddressed
          DEF Stepwise
<1>7. CASE Crash
  <2>1. req'[p].step = "idle" BY <1>1, <1>7, IdleTyped DEF Crash
  <2>2. Belongings' BY <1>3, <1>7 DEF Crash, storage, papers, history
  <2> QED BY <1>2, <2>1, <2>2
<1>8. CASE Tick BY <1>4, <1>8 DEF Tick, storage, papers, history
<1>9. CASE UNCHANGED vars BY <1>4, <1>9 DEF vars, storage, papers, history
<1> QED BY <1>1, <1>5, <1>6, <1>7, <1>8, <1>9 DEF Next

\* What belongs to whom, always.
LEMMA AlwaysAddressed ==
    ASSUME NEW p, Procs = {p} PROVE Spec => [](TypeInv /\ Sourced /\ Chained /\ AddressInv)
<1>1. TypeInv /\ Sourced /\ AddressInv /\ [Next]_vars => AddressInv' BY NextAddressed
<1> QED BY <1>1, AlwaysChained, InitAddressed, PTL DEF Spec

\* While requests do not overlap whatever they are, wherever they stop or fail
\* and whenever the process dies: the keys of a role come from a message
\* exported for this very role since it was last created, under its engine's
\* label.
THEOREM AloneImportsAddressed ==
    ASSUME NEW p, Procs = {p} PROVE Spec => []ImportsAreAddressed
<1>1. AddressInv => ImportsAreAddressed
  BY DEF AddressInv, Belongings, Received, ImportsAreAddressed
<1> QED BY <1>1, AlwaysAddressed, PTL

\* While requests do not overlap: a certificate answered for a role that can
\* still be read is for the private key the role has, so that what is exported
\* for it can be imported, whichever storage write of a create, an import or a
\* request for a certificate fails, and after whichever of its three deletes a
\* delete stops.
THEOREM AloneCertificatesServe ==
    ASSUME NEW p, Procs = {p} PROVE Spec => []CertificatesServe
<1>1. AddressInv => CertificatesServe
  BY DEF AddressInv, Belongings, Issued, CertificatesServe
<1> QED BY <1>1, AlwaysAddressed, PTL

-----------------------------------------------------------------------------
(***************************************************************************)
(* Limits, for any number of requests at once: those a role has from a     *)
(* message are those of the message.                                       *)
(***************************************************************************)
Term(ms, i) == Held(ms, i).UsageTerm.ExplicitTerm
Uses(ms, i) == ms[i].asked.desiredNumUses

\* The limits a message carries are those that were asked for, and the term is
\* counted from the export.
Granted(ms, i) ==
    LET m == ms[i]
        u == Held(ms, i).UsageTerm
    IN  /\ u \in RoleUsageTerm
        /\ u.ExplicitNumUses = IF m.asked.desiredNumUses > 0 THEN m.asked.desiredNumUses ELSE 0
        /\ u.ExplicitTerm = IF m.asked.desiredTerm # 0 THEN m.at + m.asked.desiredTerm ELSE 0
        /\ m.at \in Start..MaxTime
        /\ m.term # Nil => m.asked.desiredTerm = ParseUserInputDuration(m.term, m.at)

Grants == \A i \in 1..Len(messages) : Granted(messages, i)

\* A usage under the limits of a message.
Fits(ms, i, u) ==
    /\ u.ExplicitTerm = Term(ms, i)
    /\ Uses(ms, i) > 0 => u.ExplicitNumUses = Uses(ms, i) /\ u.RemainingNumUses >= 0

\* A request that imports has the limits of its message on its heap, unused.
Fresh(ms, q) ==
    Importing(q) =>
        /\ Fits(ms, q.msg, q.usage)
        /\ Uses(ms, q.msg) > 0 => q.usage.RemainingNumUses = Uses(ms, q.msg)

Limited ==
    /\ \A r \in Roles :
          limiting[r] # 0 => usageEntry[r] # Nil /\ Fits(messages, limiting[r], Usage(r))
    /\ \A p \in Procs : Fresh(messages, req[p])

\* The limits of an export's message.
LEMMA MessageGranted ==
    ASSUME TypeInv, NEW r \in Roles, keyEntry[r] # Nil, NEW c \in certificates, NEW q \in Asked
    PROVE  LET m == Message(r, c, q)
               u == UnmarshalExchange(m.data).UsageTerm
           IN  /\ u \in RoleUsageTerm
               /\ u.ExplicitNumUses = IF m.asked.desiredNumUses > 0 THEN m.asked.desiredNumUses ELSE 0
               /\ u.ExplicitTerm = IF m.asked.desiredTerm # 0 THEN m.at + m.asked.desiredTerm ELSE 0
               /\ m.at \in Start..MaxTime
               /\ m.term # Nil => m.asked.desiredTerm = ParseUserInputDuration(m.term, m.at)
<1> DEFINE s == parseDesiredRoleExport(q)
           x == renderEncryptedRoleData(Keys(r), s, now)
           m == Message(r, c, q)
           t == x.UsageTerm.ExplicitTerm
<1>1. Keys(r) \in RoleKeys BY RoleTyped
<1>2. now \in Int /\ s \in DesiredRoleExport /\ now \in Start..MaxTime
  BY ParsedTyped, BoundsAreNumbers DEF TypeInv
<1>3. /\ x \in RoleDataExchange /\ x.UsageTerm \in RoleUsageTerm
      /\ x.UsageTerm.ExplicitNumUses = IF s.desiredNumUses > 0 THEN s.desiredNumUses ELSE 0
      /\ x.UsageTerm.ExplicitTerm = IF s.desiredTerm # 0 THEN now + s.desiredTerm ELSE 0
  BY <1>1, <1>2, RenderFacts
<1>4. m = [key |-> c.key, label |-> label[EngineOf[r]], data |-> MarshalExchange(x),
           Term |-> IF t > 0 THEN t ELSE 0,
           to |-> c.to, from |-> source[r], at |-> now, term |-> q.term, asked |-> s]
  BY DEF Message
<1>5. q.term # Nil => s.desiredTerm = ParseUserInputDuration(q.term, now)
  <2> DEFINE n == IF q.term = Nil THEN 0 ELSE ParseUserInputDuration(q.term, now)
  <2>1. s = [q.settings EXCEPT !.desiredTerm = n] BY DEF parseDesiredRoleExport
  <2>2. q.settings \in DesiredRoleExport BY ExchangeAssumption
  <2> HIDE DEF s
  <2>3. s.desiredTerm = n
    <3> HIDE DEF n
    <3> QED BY <2>1, <2>2 DEF DesiredRoleExport
  <2> QED BY <2>3
<1> HIDE DEF m, x, s
<1>6. UnmarshalExchange(m.data) = x BY <1>3, <1>4, ExchangeRoundTrip
<1>7. m.asked = s /\ m.at = now /\ m.term = q.term BY <1>4
<1> QED BY <1>2, <1>3, <1>5, <1>6, <1>7 DEF m

\* Messages are kept, and one more is there after an export only.
LEMMA MessagesMove ==
    ASSUME [Next]_vars
    PROVE  \/ UNCHANGED messages
           \/ \E r \in Roles, c \in certificates, q \in Asked : pathRoleExport(r, c, q)
<1>1. CASE Tick \/ Crash \/ UNCHANGED vars BY <1>1 DEF Tick, Crash, vars, papers
<1>2. CASE OneStep BY <1>2 DEF OneStep, Use, ChangeLabel, papers
<1>3. ASSUME NEW p \in Procs, Stepwise(p) PROVE UNCHANGED messages
  BY <1>3 DEF Stepwise, handleWriteRoleKeys, handleUpdateRoleData, DeleteUsage, BeginWithoutKey,
              pathRolePEMRead, pathRoleImport, SaveKeys, SaveUsage, SavePrivateKey,
              DeletePrivateKey, DeleteKeys, Fail, papers
<1> QED BY <1>1, <1>2, <1>3 DEF Next

\* An export leaves the limits in the messages before it alone.
LEMMA MessagesKept ==
    ASSUME TypeInv, NEW r \in Roles, NEW c \in certificates, NEW q \in Asked,
           pathRoleExport(r, c, q)
    PROVE  LET n == Len(messages) + 1
           IN  /\ Len(messages') = n /\ messages'[n] = Message(r, c, q)
               /\ \A i \in 1..Len(messages) : messages'[i] = messages[i]
<1>1. keyEntry[r] # Nil /\ messages' = Append(messages, Message(r, c, q))
  BY DEF pathRoleExport, readRole
<1>2. Message(r, c, q) \in Records BY <1>1, MessageFacts
<1> QED BY <1>1, <1>2, KeysTyped

\* Every message carries the limits that were asked for.
LEMMA NextGrants == ASSUME TypeInv, Grants, [Next]_vars PROVE Grants'
<1>1. CASE UNCHANGED messages BY <1>1 DEF Grants
<1>2. ASSUME NEW r \in Roles, NEW c \in certificates, NEW q \in Asked, pathRoleExport(r, c, q)
      PROVE  Grants'
  <2> DEFINE m == Message(r, c, q)
             n == Len(messages) + 1
  <2>1. /\ Len(messages') = n /\ messages'[n] = m
        /\ \A i \in 1..Len(messages) : messages'[i] = messages[i]
    BY <1>2, MessagesKept
  <2>2. /\ UnmarshalExchange(m.data).UsageTerm \in RoleUsageTerm
        /\ UnmarshalExchange(m.data).UsageTerm.ExplicitNumUses =
              IF m.asked.desiredNumUses > 0 THEN m.asked.desiredNumUses ELSE 0
        /\ UnmarshalExchange(m.data).UsageTerm.ExplicitTerm =
              IF m.asked.desiredTerm # 0 THEN m.at + m.asked.desiredTerm ELSE 0
        /\ m.at \in Start..MaxTime
        /\ m.term # Nil => m.asked.desiredTerm = ParseUserInputDuration(m.term, m.at)
    <3>1. keyEntry[r] # Nil BY <1>2 DEF pathRoleExport, readRole
    <3> QED BY <3>1, MessageGranted
  <2> HIDE DEF m
  <2>3. Granted(messages', n) BY <2>1, <2>2 DEF Granted, Held
  <2>4. ASSUME NEW i \in 1..Len(messages) PROVE Granted(messages', i)
    BY <2>1 DEF Grants, Granted, Held
  <2>5. \A i \in 1..Len(messages') : i = n \/ i \in 1..Len(messages)
    <3>1. Len(messages) \in Nat BY KeysTyped
    <3>2. Len(messages') = Len(messages) + 1 BY <2>1
    <3> QED BY <3>1, <3>2
  <2> QED BY <2>3, <2>4, <2>5 DEF Grants
<1> QED BY <1>1, <1>2, MessagesMove

\* What an import is about to store are the limits of its message.
LEMMA ImportFits ==
    ASSUME TypeInv, Grants, NEW r \in Roles, usageEntry[r] # Nil, NEW i \in 1..Len(messages)
    PROVE  LET u == ImportUsage(Usage(r), Contents(i))
           IN  /\ Fits(messages, i, u)
               /\ Uses(messages, i) > 0 => u.RemainingNumUses = Uses(messages, i)
<1> DEFINE x == Contents(i)
           n == x.UsageTerm.ExplicitNumUses
           u == ImportUsage(Usage(r), x)
<1>1. messages[i] \in Records BY KeysTyped
<1>2. x \in RoleDataExchange BY <1>1, ContentsTyped DEF Contents
<1>3. x.UsageTerm \in RoleUsageTerm /\ x = Held(messages, i) BY DEF Grants, Granted, Held, Contents
<1>4. /\ u.ExplicitTerm = x.UsageTerm.ExplicitTerm
      /\ u.ExplicitNumUses = n
      /\ n > 0 => u.RemainingNumUses = n
  BY <1>2, <1>3, RoleTyped, ImportedLimits
<1>5. n = IF Uses(messages, i) > 0 THEN Uses(messages, i) ELSE 0
  BY <1>3 DEF Grants, Granted, Uses
<1>6. Uses(messages, i) \in Int
  <2>1. messages[i].asked \in DesiredRoleExport BY <1>1 DEF Records
  <2> QED BY <2>1 DEF Uses, DesiredRoleExport
<1> HIDE DEF u, n, x
<1>7. Uses(messages, i) > 0 => u.ExplicitNumUses = Uses(messages, i) /\ u.RemainingNumUses = Uses(messages, i)
  BY <1>4, <1>5, <1>6
<1>8. u.ExplicitTerm = Term(messages, i) BY <1>3, <1>4 DEF Term
<1>9. Fits(messages, i, u) BY <1>6, <1>7, <1>8 DEF Fits
<1> QED BY <1>7, <1>9 DEF u, x

\* The uses a message grants are a number.
LEMMA UsesTyped == ASSUME TypeInv, NEW i \in 1..Len(messages) PROVE Uses(messages, i) \in Int
<1>1. messages[i] \in Records BY KeysTyped
<1>2. messages[i].asked \in DesiredRoleExport BY <1>1 DEF Records
<1> QED BY <1>2 DEF Uses, DesiredRoleExport

\* Where limits and messages stay, and one request moves.
LEMMA LimitsStay ==
    ASSUME Limited, UNCHANGED <<usageEntry, limiting, messages>>, NEW p \in Procs,
           \A s \in Procs : s # p => req'[s] = req[s],
           Fresh(messages, req'[p])
    PROVE  Limited'
<1>1. \A s \in Procs : Fresh(messages, req'[s]) BY DEF Limited
<1>2. \A r \in Roles : Usage(r)' = Usage(r) BY DEF Usage
<1>3. messages' = messages /\ usageEntry' = usageEntry /\ limiting' = limiting OBVIOUS
<1> QED BY <1>1, <1>2, <1>3 DEF Limited

\* A request that does not import has no limits to bring.
LEMMA FreshNone == ASSUME NEW q, ~Importing(q) PROVE Fresh(messages, q)
BY DEF Fresh

\* A request begins.
LEMMA BegunLimited ==
    ASSUME TypeInv, Grants, Limited, NEW p \in Procs, NEW r \in Roles,
           \/ \E w \in Writes : handleWriteRoleKeys(p, r, w) \/ handleUpdateRoleData(p, r, w)
           \/ BeginWithoutKey(p, r) \/ pathRoleImport(p, r)
    PROVE  Limited'
<1>1. UNCHANGED <<usageEntry, limiting, messages>>
  BY DEF handleWriteRoleKeys, handleUpdateRoleData, BeginWithoutKey, pathRoleImport, storage,
         papers, history
<1>2. PICK a : Begin(p, a) /\ Fresh(messages, a)
  <2>1. ASSUME NEW w \in Writes, handleWriteRoleKeys(p, r, w)
        PROVE  \E a : Begin(p, a) /\ ~Importing(a)
    <3> DEFINE a == Saving("saveKeys", r, 0, updateRoleKeysFromRequest(InitialKeys, w),
                           ResetToken(UnboundedUsage(InitialUsage)))
    <3>1. Begin(p, a) BY <2>1 DEF handleWriteRoleKeys
    <3>2. a.msg = 0 BY DEF Saving, Idle
    <3> HIDE DEF a
    <3> QED BY <3>1, <3>2 DEF Importing
  <2>2. ASSUME NEW w \in Writes, handleUpdateRoleData(p, r, w)
        PROVE  \E a : Begin(p, a) /\ ~Importing(a)
    <3> DEFINE a == Saving("updateKeys", r, source[r], updateRoleKeysFromRequest(Keys(r), w), Usage(r))
    <3>1. Begin(p, a) BY <2>2 DEF handleUpdateRoleData
    <3>2. a.step = "updateKeys" BY DEF Saving, Idle
    <3> HIDE DEF a
    <3> QED BY <3>1, <3>2 DEF Importing
  <2>3. ASSUME NEW i, GeneratePrivateKey(p, r, i) PROVE \E a : Begin(p, a) /\ ~Importing(a)
    <3> DEFINE a == [Idle EXCEPT !.step = "savePk", !.role = r, !.pk = generated', !.msg = i]
    <3>1. Begin(p, a) BY <2>3 DEF GeneratePrivateKey
    <3>2. a.step = "savePk" BY DEF Idle
    <3> HIDE DEF a
    <3> QED BY <3>1, <3>2 DEF Importing
  <2>4. CASE pathRoleImport(p, r)
    <3>1. PICK i \in DOMAIN messages :
            /\ readRole(r)
            /\ Begin(p, Saving("saveKeys", r, i, ImportKeys(Contents(i)),
                               ImportUsage(Usage(r), Contents(i))))
      BY <2>4 DEF pathRoleImport
    <3> DEFINE u == ImportUsage(Usage(r), Contents(i))
               a == Saving("saveKeys", r, i, ImportKeys(Contents(i)), u)
    <3>2. a.msg = i /\ a.usage = u BY DEF Saving, Idle
    <3>3. i \in 1..Len(messages) BY <3>1, KeysTyped
    <3>4. /\ Fits(messages, i, u)
          /\ Uses(messages, i) > 0 => u.RemainingNumUses = Uses(messages, i)
      BY <3>1, <3>3, ImportFits DEF readRole
    <3>5. Begin(p, a) BY <3>1
    <3> HIDE DEF a, u
    <3>6. Fresh(messages, a) BY <3>2, <3>4 DEF Fresh
    <3> QED BY <3>5, <3>6
  <2> QED BY <2>1, <2>2, <2>3, <2>4, FreshNone DEF BeginWithoutKey
<1>3. req'[p] = a /\ \A s \in Procs : s # p => req'[s] = req[s] BY <1>2, BegunIs
<1> QED BY <1>1, <1>2, <1>3, LimitsStay

\* Limits are stored with the message they are from, or by a create with none.
LEMMA SavedUsageLimited ==
    ASSUME TypeInv, Limited, NEW p \in Procs, SaveUsage(p) PROVE Limited'
<1> DEFINE q == req[p]
           e == EncodeUsage(q.usage)
<1>0. PICK r : r = q.role OBVIOUS
<1>1. /\ q.step = "saveUsage" /\ usageEntry' = [usageEntry EXCEPT ![r] = e]
      /\ limiting' = [limiting EXCEPT ![r] = q.msg] /\ Answer(p) /\ UNCHANGED messages
  BY <1>0 DEF SaveUsage, papers
<1>2. r \in Roles /\ q.usage \in StoredRoleUsage /\ Fresh(messages, q)
  BY <1>0, <1>1 DEF TypeInv, RequestsTyped, Placed, Requests, Limited
<1>3. e # Nil /\ DecodeUsage(e) = q.usage BY <1>2, UsageEntryIsThere, UsageRoundTrip
<1>4. q.msg # 0 => Fits(messages, q.msg, q.usage) BY <1>1, <1>2 DEF Fresh, Importing
<1>5. /\ usageEntry'[r] = e /\ limiting'[r] = q.msg
      /\ \A s \in Roles : s # r => usageEntry'[s] = usageEntry[s] /\ limiting'[s] = limiting[s]
  BY <1>1, <1>2, KeysTyped
<1>6. \A s \in Procs : Fresh(messages, req'[s])
  <2>1. ~Importing(Idle) BY IdleTyped DEF Importing
  <2> QED BY <1>1, <2>1, Answered, FreshNone DEF Limited
<1> HIDE DEF q, e
<1>7. ASSUME NEW s \in Roles, limiting'[s] # 0
      PROVE  usageEntry'[s] # Nil /\ Fits(messages, limiting'[s], Usage(s)')
  <2>1. CASE s = r BY <1>3, <1>4, <1>5, <1>7, <2>1 DEF Usage
  <2>2. CASE s # r BY <1>5, <1>7, <2>2 DEF Limited, Usage
  <2> QED BY <2>1, <2>2
<1> QED BY <1>1, <1>6, <1>7 DEF Limited

\* The limits of a role that is deleted go first.
LEMMA DeletedLimited ==
    ASSUME TypeInv, Limited, NEW p \in Procs, NEW r \in Roles, DeleteUsage(p, r) PROVE Limited'
<1> DEFINE a == [Idle EXCEPT !.step = "deletePk", !.role = r]
<1>1. /\ usageEntry' = [usageEntry EXCEPT ![r] = Nil] /\ limiting' = [limiting EXCEPT ![r] = 0]
      /\ Begin(p, a) /\ UNCHANGED messages
  BY DEF DeleteUsage, papers
<1>2. a.step = "deletePk" BY DEF Idle
<1>3. /\ limiting'[r] = 0
      /\ \A s \in Roles : s # r => usageEntry'[s] = usageEntry[s] /\ limiting'[s] = limiting[s]
  BY <1>1, KeysTyped
<1>4. req'[p] = a /\ \A s \in Procs : s # p => req'[s] = req[s] BY <1>1, BegunIs
<1> HIDE DEF a
<1>5. \A s \in Procs : Fresh(messages, req'[s])
  <2>1. ~Importing(a) BY <1>2 DEF Importing
  <2> QED BY <1>4, <2>1, FreshNone DEF Limited
<1> QED BY <1>1, <1>3, <1>5 DEF Limited, Usage

\* The other steps leave limits alone; the one from keys to limits keeps the
\* heap.
LEMMA OthersLimited ==
    ASSUME TypeInv, Limited, NEW p \in Procs,
           \/ \E r \in Roles : pathRolePEMRead(p, r)
           \/ SaveKeys(p) \/ SavePrivateKey(p) \/ DeletePrivateKey(p) \/ DeleteKeys(p) \/ Fail(p)
    PROVE  Limited'
<1>1. UNCHANGED <<usageEntry, limiting, messages>>
  BY DEF pathRolePEMRead, SaveKeys, SavePrivateKey, DeletePrivateKey, DeleteKeys, Fail, storage,
         papers, history
<1>2. CASE Answer(p)
  <2>1. ~Importing(Idle) BY IdleTyped DEF Importing
  <2> QED BY <1>1, <1>2, <2>1, Answered, FreshNone, LimitsStay
<1>3. CASE Goto(p, "deleteKeys")
  <2>1. req'[p].step = "deleteKeys" /\ \A s \in Procs : s # p => req'[s] = req[s]
    BY <1>3, WentTo DEF Steps
  <2>2. ~Importing(req'[p]) BY <2>1 DEF Importing
  <2> QED BY <1>1, <2>1, <2>2, FreshNone, LimitsStay
<1>4. CASE req[p].step = "saveKeys" /\ Goto(p, "saveUsage")
  <2>1. /\ req'[p].step = "saveUsage" /\ req'[p].msg = req[p].msg /\ req'[p].usage = req[p].usage
        /\ \A s \in Procs : s # p => req'[s] = req[s]
    BY <1>4, WentTo DEF Steps
  <2>2. Fresh(messages, req[p]) BY DEF Limited
  <2>3. Fresh(messages, req'[p]) BY <1>4, <2>1, <2>2 DEF Fresh, Importing
  <2> QED BY <1>1, <2>1, <2>3, LimitsStay
<1>5. CASE UNCHANGED req BY <1>1, <1>5 DEF Limited, Usage
<1> QED BY <1>2, <1>3, <1>4, <1>5
        DEF pathRolePEMRead, SaveKeys, SavePrivateKey, DeletePrivateKey, DeleteKeys, Fail

\* A message more leaves the limits of the others.
LEMMA ExportLimited ==
    ASSUME TypeInv, Limited, NEW r \in Roles, NEW c \in certificates, NEW q \in Asked,
           pathRoleExport(r, c, q)
    PROVE  Limited'
<1>1. UNCHANGED <<usageEntry, limiting, req>> BY DEF pathRoleExport, storage, history
<1>2. \A i \in 1..Len(messages) : messages'[i] = messages[i] BY MessagesKept
<1>3. \A i \in 1..Len(messages) :
         /\ Uses(messages', i) = Uses(messages, i)
         /\ \A u : Fits(messages', i, u) <=> Fits(messages, i, u)
  BY <1>2 DEF Term, Held, Uses, Fits
<1>4. ASSUME NEW s \in Procs PROVE Fresh(messages', req[s])
  <2>1. req[s].msg # 0 => req[s].msg \in 1..Len(messages) BY Named
  <2>2. Fresh(messages, req[s]) BY DEF Limited
  <2> QED BY <1>3, <2>1, <2>2 DEF Fresh, Importing
<1>5. ASSUME NEW s \in Roles, limiting[s] # 0
      PROVE  usageEntry[s] # Nil /\ Fits(messages', limiting[s], Usage(s))
  <2>1. limiting[s] \in 1..Len(messages) BY <1>5, Named, Zenon
  <2> QED BY <1>3, <1>5, <2>1 DEF Limited
<1> QED BY <1>1, <1>4, <1>5 DEF Limited, Usage

\* A use takes one of the uses its role has left, and leaves its limits.
LEMMA UseFacts ==
    ASSUME TypeInv, NEW r \in Roles, Use(r)
    PROVE  LET u == Usage(r)
               v == Usage(r)'
           IN  /\ usageEntry[r] # Nil /\ usageEntry'[r] # Nil
               /\ u.ExplicitNumUses \in Int /\ u.RemainingNumUses \in Int /\ v.RemainingNumUses \in Int
               /\ v.ExplicitTerm = u.ExplicitTerm /\ v.ExplicitNumUses = u.ExplicitNumUses
               /\ u.ExplicitNumUses > 0 =>
                     u.RemainingNumUses > 0 /\ v.RemainingNumUses = u.RemainingNumUses - 1
               /\ \A s \in Roles : s # r => usageEntry'[s] = usageEntry[s]
<1> DEFINE u == Usage(r)
           v == IF HasUsageQuota(u) THEN ReduceRemainingQuota(u) ELSE u
<1>1. /\ usageEntry[r] # Nil /\ ~Depleted(u)
      /\ usageEntry' = [usageEntry EXCEPT
                           ![r] = IF HasUsageQuota(u)
                                  THEN EncodeUsage(ReduceRemainingQuota(u)) ELSE usageEntry[r]]
  BY DEF Use, readRole
<1>2. u \in StoredRoleUsage BY <1>1, RoleTyped
<1>3. /\ u.ExplicitNumUses \in Int /\ u.RemainingNumUses \in Int
      /\ u.ExplicitNumUses > 0 => u.RemainingNumUses > 0
      /\ v.ExplicitTerm = u.ExplicitTerm /\ v.ExplicitNumUses = u.ExplicitNumUses
      /\ u.ExplicitNumUses > 0 => v.RemainingNumUses = u.RemainingNumUses - 1
  <2> HIDE DEF u
  <2>1. u.ExplicitNumUses \in Int /\ u.RemainingNumUses \in Int BY <1>2 DEF StoredRoleUsage
  <2>2. u.ExplicitNumUses > 0 => u.RemainingNumUses > 0 BY <1>1, <2>1 DEF Depleted
  <2>3. CASE u.ExplicitNumUses > 0
    <3> DEFINE n == IF u.RemainingNumUses > 0 THEN u.RemainingNumUses - 1 ELSE u.RemainingNumUses
    <3>1. n = u.RemainingNumUses - 1 BY <2>2, <2>3
    <3>2. v = [u EXCEPT !.RemainingNumUses = n]
      BY <1>2, <2>3 DEF HasUsageQuota, ReduceRemainingQuota, StoredRoleUsage
    <3> HIDE DEF n, v
    <3> QED BY <1>2, <2>1, <2>2, <3>1, <3>2 DEF StoredRoleUsage
  <2>4. CASE ~(u.ExplicitNumUses > 0) BY <2>1, <2>4 DEF HasUsageQuota
  <2> QED BY <2>1, <2>2, <2>3, <2>4
<1>4. Usage(r)' = v
  <2>1. usageEntry \in [Roles -> UsageEntries \cup {Nil}] BY DEF TypeInv, StorageTyped
  <2>2. CASE HasUsageQuota(u)
    <3>1. usageEntry'[r] = EncodeUsage(ReduceRemainingQuota(u)) BY <1>1, <2>1, <2>2
    <3>2. ReduceRemainingQuota(u) \in StoredRoleUsage BY <1>2, UsageOpsTyped
    <3> QED BY <2>2, <3>1, <3>2, UsageRoundTrip DEF Usage
  <2>3. CASE ~HasUsageQuota(u)
    <3>1. usageEntry'[r] = usageEntry[r] BY <1>1, <2>1, <2>3
    <3> QED BY <2>3, <3>1 DEF Usage
  <2> QED BY <2>2, <2>3
<1>5. usageEntry'[r] # Nil /\ \A s \in Roles : s # r => usageEntry'[s] = usageEntry[s]
  <2>1. usageEntry \in [Roles -> UsageEntries \cup {Nil}] BY KeysTyped
  <2>2. EncodeUsage(ReduceRemainingQuota(u)) # Nil
    BY <1>2, UsageOpsTyped, UsageEntryIsThere
  <2> QED BY <1>1, <2>1, <2>2
<1>6. v.RemainingNumUses \in Int
  <2>1. v \in StoredRoleUsage BY <1>2, UsageOpsTyped
  <2> QED BY <2>1 DEF StoredRoleUsage
<1> HIDE DEF u, v
<1> QED BY <1>1, <1>3, <1>4, <1>5, <1>6 DEF u

\* A use leaves the limits what they are.
LEMMA UseLimited == ASSUME TypeInv, Limited, NEW r \in Roles, Use(r) PROVE Limited'
<1>1. UNCHANGED <<messages, limiting, req>> BY DEF Use, papers
<1>2. ASSUME NEW s \in Roles, limiting[s] # 0
      PROVE  usageEntry'[s] # Nil /\ Fits(messages, limiting[s], Usage(s)')
  <2>1. Fits(messages, limiting[s], Usage(s)) BY <1>2 DEF Limited
  <2>2. CASE s = r
    <3> DEFINE u == Usage(r)
               v == Usage(r)'
               n == Uses(messages, limiting[r])
    <3>1. n \in Int BY <1>2, <2>2, UsesTyped, Named, Zenon
    <3>2. /\ usageEntry'[r] # Nil
          /\ u.ExplicitNumUses \in Int /\ u.RemainingNumUses \in Int
          /\ v.ExplicitTerm = u.ExplicitTerm /\ v.ExplicitNumUses = u.ExplicitNumUses
          /\ u.ExplicitNumUses > 0 =>
                u.RemainingNumUses > 0 /\ v.RemainingNumUses = u.RemainingNumUses - 1
      BY UseFacts
    <3>3. u.ExplicitTerm = Term(messages, limiting[r]) /\ (n > 0 => u.ExplicitNumUses = n)
      BY <2>1, <2>2 DEF Fits
    <3> HIDE DEF u, v, n
    <3>4. n > 0 => v.ExplicitNumUses = n /\ v.RemainingNumUses >= 0 BY <3>1, <3>2, <3>3
    <3> QED BY <2>2, <3>2, <3>3, <3>4 DEF Fits, v, n
  <2>3. CASE s # r
    <3>1. usageEntry'[s] = usageEntry[s] BY <2>3, UseFacts
    <3> QED BY <1>2, <2>1, <3>1 DEF Limited, Usage
  <2> QED BY <2>2, <2>3
<1> QED BY <1>1, <1>2 DEF Limited

\* Every step keeps the limits.
LEMMA NextLimited == TypeInv /\ Grants /\ Limited /\ [Next]_vars => Limited'
<1> SUFFICES ASSUME TypeInv, Grants, Limited, [Next]_vars PROVE Limited' OBVIOUS
<1>1. CASE UNCHANGED <<messages, usageEntry, limiting, req>> BY <1>1 DEF Limited, Usage
<1>2. CASE OneStep
  <2>1. ASSUME NEW f \in Engines, NEW l \in Labels, ChangeLabel(f, l) PROVE Limited'
    BY <1>1, <2>1 DEF ChangeLabel, storage, papers, history
  <2> QED BY <1>2, <2>1, UseLimited, ExportLimited DEF OneStep
<1>3. ASSUME NEW p \in Procs, Stepwise(p) PROVE Limited'
  BY <1>3, BegunLimited, SavedUsageLimited, DeletedLimited, OthersLimited DEF Stepwise
<1>4. CASE Crash
  <2>1. UNCHANGED <<messages, usageEntry, limiting>> /\ req' = [p \in Procs |-> Idle]
    BY <1>4 DEF Crash, storage, papers, history
  <2>2. Fresh(messages, Idle)
    <3>1. ~Importing(Idle) BY IdleTyped DEF Importing
    <3> QED BY <3>1, FreshNone
  <2> QED BY <2>1, <2>2 DEF Limited, Usage
<1>5. CASE Tick BY <1>1, <1>5 DEF Tick, storage, papers, history
<1>6. CASE UNCHANGED vars BY <1>1, <1>6 DEF vars, storage, papers, history
<1> QED BY <1>2, <1>3, <1>4, <1>5, <1>6 DEF Next

\* The limits, always.
LEMMA AlwaysLimited == Spec => [](TypeInv /\ Grants /\ Limited)
<1>1. Init => Grants /\ Limited
  <2> SUFFICES ASSUME Init PROVE Grants /\ Limited OBVIOUS
  <2>1. /\ Len(messages) = 0 /\ limiting = [r \in Roles |-> 0] /\ req = [p \in Procs |-> Idle]
    BY DEF Init
  <2>2. 1..Len(messages) = {} BY <2>1
  <2>3. Fresh(messages, Idle)
    <3>1. ~Importing(Idle) BY IdleTyped DEF Importing
    <3> QED BY <3>1, FreshNone
  <2> QED BY <2>1, <2>2, <2>3 DEF Grants, Limited
<1>2. TypeInv /\ Grants /\ [Next]_vars => Grants' BY NextGrants
<1> QED BY <1>1, <1>2, NextLimited, InitTyped, NextTyped, PTL DEF Spec

-----------------------------------------------------------------------------
(***************************************************************************)
(* Terms, for any number of requests at once: a text in a documented       *)
(* format is read as documented, from the parser to the last use.          *)
(***************************************************************************)

\* A number of days that ends in time is a duration, and an int.
LEMMA DaysFit ==
    ASSUME NEW n \in Nat, NEW k \in Nat \ {0}, n * (k * Day) < DurationBound
    PROVE  Atoi(n) = n /\ Duration(n * (k * Day)) = n * (k * Day)
<1>1. Day \in Nat \ {0} /\ DurationBound \in Nat \ {0} /\ MaxInt \in Nat /\ DurationBound <= MaxInt
  BY DurationAssumption
<1>2. PICK d \in Nat : d = k * Day - 1
  <2>1. k * Day \in Nat \ {0} BY <1>1
  <2> QED BY <2>1
<1>3. n * (k * Day) = n * d + n /\ n * d \in Nat
  <2>1. k * Day = d + 1 BY <1>1, <1>2
  <2>2. n * (d + 1) = n * d + n OBVIOUS
  <2> QED BY <2>1, <2>2
<1>4. n <= MaxInt BY <1>1, <1>3
<1>5. Atoi(n) = n BY <1>1, <1>4 DEF Atoi
<1> DEFINE x == n * (k * Day)
<1>6. x \in Nat /\ x < DurationBound BY <1>3
<1> HIDE DEF x
<1>7. Duration(x) = x BY <1>6, DurationTyped
<1> QED BY <1>5, <1>7 DEF x

\* Each documented format, in the past and up to the longest duration, comes to
\* the time left until the instant the text names.
LEMMA ParsesAsDocumented ==
    ASSUME NEW in \in Input, NEW t \in Nat, t < DurationBound, GoTotal(in) \in Int, Documented(in)
    PROVE  /\ EndsAt(in, t) \in Int
           /\ ParseUserInputDuration(in, t) = EndsAt(in, t) - t
<1> DEFINE x == in.parts[1]
<1>1. in.parts \in Seq(Parts) /\ in.neg \in BOOLEAN BY DEF Input
<1>2. Day \in Nat \ {0} /\ DurationBound \in Nat \ {0} BY DurationAssumption
<1>3. CASE Units(in) = {"go"}
  <2>1. x.unit = "go"
    <3>1. PICK i \in DOMAIN in.parts : in.parts[i].unit = "go" BY <1>3 DEF Units
    <3>2. 1 \in DOMAIN in.parts BY <1>1, <3>1
    <3> QED BY <1>3, <3>2 DEF Units
  <2>2. EndsAt(in, t) = t + GoDuration(in) BY <2>1 DEF EndsAt
  <2>3. ParseUserInputDuration(in, t) = GoDuration(in) BY <1>3 DEF ParseUserInputDuration
  <2>4. GoDuration(in) \in Int BY DEF GoDuration
  <2> QED BY <2>2, <2>3, <2>4
<1>4. CASE Len(in.parts) = 1 /\ ~in.neg /\ x.unit \in {"d", "w", "date"}
  <2>1. DOMAIN in.parts = {1} /\ x \in Parts BY <1>1, <1>4
  <2>2. Units(in) = {x.unit} BY <2>1 DEF Units
  <2>3. FirstOf(in, x.unit) = x.n
    <3>1. {i \in DOMAIN in.parts : in.parts[i].unit = x.unit} = {1} BY <2>1
    <3>2. Min({1}) = 1 BY DEF Min
    <3> QED BY <3>1, <3>2 DEF FirstOf
  <2>4. x.n \in Nat BY <2>1 DEF Parts
  <2>5. CASE x.unit = "d"
    <3>1. EndsAt(in, t) = t + x.n * Day /\ EndsAt(in, 0) = 0 + x.n * Day BY <2>5 DEF EndsAt
    <3>2. ParseUserInputDuration(in, t) = Duration(Atoi(x.n) * Day)
      BY <2>2, <2>3, <2>5 DEF ParseUserInputDuration
    <3>3. x.n * Day \in Nat /\ x.n * (1 * Day) = x.n * Day BY <1>2, <2>4
    <3> HIDE DEF x
    <3>4. x.n * (1 * Day) < DurationBound BY <3>1, <3>3 DEF Documented
    <3>5. Atoi(x.n) = x.n /\ Duration(x.n * Day) = x.n * Day BY <2>4, <3>3, <3>4, DaysFit
    <3> QED BY <3>1, <3>2, <3>3, <3>5
  <2>6. CASE x.unit = "w"
    <3>1. EndsAt(in, t) = t + 7 * x.n * Day /\ EndsAt(in, 0) = 0 + 7 * x.n * Day BY <2>6 DEF EndsAt
    <3>2. ParseUserInputDuration(in, t) = Duration(Atoi(x.n) * 7 * Day)
      BY <2>2, <2>3, <2>6 DEF ParseUserInputDuration
    <3>3. x.n * (7 * Day) \in Nat /\ 7 * x.n * Day = x.n * (7 * Day) /\ x.n * 7 * Day = x.n * (7 * Day)
      BY <1>2, <2>4
    <3> HIDE DEF x
    <3>4. x.n * (7 * Day) < DurationBound BY <3>1, <3>3 DEF Documented
    <3>5. Atoi(x.n) = x.n /\ Duration(x.n * (7 * Day)) = x.n * (7 * Day) BY <2>4, <3>4, DaysFit
    <3> QED BY <3>1, <3>2, <3>3, <3>5
  <2>7. CASE x.unit = "date"
    <3>1. EndsAt(in, t) = x.n /\ EndsAt(in, 0) = x.n BY <2>7 DEF EndsAt
    <3>2. ParseUserInputDuration(in, t) = Sub(x.n, t)
      BY <2>2, <2>3, <2>7 DEF ParseUserInputDuration
    <3> HIDE DEF x
    <3>3. x.n < DurationBound BY <3>1 DEF Documented
    <3>4. Sub(x.n, t) = x.n - t BY <1>2, <2>4, <3>3 DEF Sub
    <3> QED BY <2>4, <3>1, <3>2, <3>4
  <2> QED BY <1>4, <2>5, <2>6, <2>7
<1> QED BY <1>3, <1>4 DEF Documented, InDocumentedFormat

\* The term of a record that was asked for in a documented format ends when the
\* text says, or is none.
LEMMA TermOfRecord ==
    ASSUME TypeInv, Grants, NEW i \in 1..Len(messages), messages[i].term # Nil,
           Documented(messages[i].term)
    PROVE  LET m == messages[i]
               end == EndsAt(m.term, m.at)
           IN  /\ end \in Int /\ m.at \in Int
               /\ Term(messages, i) = IF end = m.at THEN 0 ELSE end
<1> DEFINE m == messages[i]
           end == EndsAt(m.term, m.at)
<1>1. m \in Records BY KeysTyped
<1>2. /\ m.at \in Start..MaxTime
      /\ m.asked.desiredTerm = ParseUserInputDuration(m.term, m.at)
      /\ Term(messages, i) = IF m.asked.desiredTerm # 0 THEN m.at + m.asked.desiredTerm ELSE 0
  BY DEF Grants, Granted, Term
<1>3. m.term \in Input /\ GoTotal(m.term) \in Int
  <2>1. PICK q \in Asked : m.term = q.term BY <1>1 DEF Records
  <2>2. (q.term = Nil \/ q.term \in Input) /\ (q.term # Nil => GoTotal(q.term) \in Int)
    BY ExchangeAssumption, TotalAssumption
  <2> QED BY <2>1, <2>2
<1>4. m.at \in Nat /\ m.at < DurationBound
  <2>1. DurationBound \in Nat BY DurationAssumption
  <2> QED BY <1>2, <2>1, BoundsAreNumbers
<1>5. end \in Int /\ m.asked.desiredTerm = end - m.at BY <1>2, <1>3, <1>4, ParsesAsDocumented
<1> HIDE DEF m, end
<1>6. Term(messages, i) = IF end = m.at THEN 0 ELSE end BY <1>2, <1>4, <1>5
<1> QED BY <1>4, <1>5, <1>6 DEF m, end

\* Whatever requests run at once and whatever fails: the term a record carries,
\* from the text it was asked for with to what its recipient decodes, ends when
\* the text says.
THEOREM RecordsCarryTerms == Spec => []TermsAsAsked
<1>1. TypeInv /\ Grants => TermsAsAsked
  <2> SUFFICES ASSUME TypeInv, Grants, NEW i \in DOMAIN messages, messages[i].term # Nil,
                      Documented(messages[i].term)
               PROVE  EndsAsAsked(i)
    BY DEF TermsAsAsked
  <2>1. i \in 1..Len(messages) BY KeysTyped
  <2>2. Contents(i).UsageTerm.ExplicitTerm = Term(messages, i) BY DEF Contents, Held, Term
  <2> QED BY <2>1, <2>2, TermOfRecord DEF EndsAsAsked
<1> QED BY <1>1, AlwaysLimited, PTL

\* Whatever requests run at once and whatever fails, however late and however
\* often a record is imported: nothing is used under its limits once the term of
\* its export has ended.
THEOREM TermAlwaysRunsFromExport == Spec => TermRunsFromExport
<1>1. TypeInv /\ Grants /\ Limited /\ [Next]_vars
        => [\A i \in DOMAIN messages :
              LET m == messages[i]
                  end == EndsAt(m.term, m.at)
              IN  made'[i] # made[i] /\ m.term # Nil /\ Documented(m.term) =>
                    end <= 0 \/ end = m.at \/ now <= end]_vars
  <2> SUFFICES ASSUME TypeInv, Grants, Limited, Next, NEW i \in DOMAIN messages,
                      made'[i] # made[i], messages[i].term # Nil, Documented(messages[i].term)
               PROVE  \/ EndsAt(messages[i].term, messages[i].at) <= 0
                      \/ EndsAt(messages[i].term, messages[i].at) = messages[i].at
                      \/ now <= EndsAt(messages[i].term, messages[i].at)
    OBVIOUS
  <2> DEFINE m == messages[i]
             end == EndsAt(m.term, m.at)
  <2>1. i \in 1..Len(messages) BY KeysTyped
  <2>2. PICK r \in Roles : Use(r)
    <3>1. CASE OneStep BY <3>1 DEF OneStep, pathRoleExport, ChangeLabel, history
    <3>2. ASSUME NEW p \in Procs, Stepwise(p) PROVE FALSE
      BY <3>2 DEF Stepwise, handleWriteRoleKeys, handleUpdateRoleData, DeleteUsage,
                  BeginWithoutKey, pathRolePEMRead, pathRoleImport, SaveKeys, SaveUsage,
                  SavePrivateKey, DeletePrivateKey, DeleteKeys, Fail, history
    <3>3. CASE Tick \/ Crash BY <3>3 DEF Tick, Crash, history
    <3> QED BY <3>1, <3>2, <3>3 DEF Next
  <2>3. limiting[r] = i /\ ~Expired(Usage(r), now)
    <3>1. made \in [1..MaxMessages -> 0..UsesBound] BY DEF TypeInv, HistoryTyped
    <3>2. made' = [j \in DOMAIN made |->
                    IF j = limiting[r] /\ made[j] < UsesBound THEN made[j] + 1 ELSE made[j]]
      BY <2>2 DEF Use
    <3>3. i \in DOMAIN made
      <4>1. Len(messages) <= MaxMessages /\ Len(messages) \in Nat BY DEF TypeInv, PapersTyped
      <4> QED BY <2>1, <3>1, <4>1, BoundsAreNumbers
    <3> QED BY <2>2, <3>2, <3>3 DEF Use
  <2>4. Usage(r).ExplicitTerm = Term(messages, i) BY <2>1, <2>3 DEF Limited, Fits
  <2>5. /\ end \in Int /\ m.at \in Int
        /\ Term(messages, i) = IF end = m.at THEN 0 ELSE end
    BY <2>1, TermOfRecord
  <2> HIDE DEF m, end
  <2>6. now \in Int BY BoundsAreNumbers DEF TypeInv
  <2>7. end <= 0 \/ end = m.at \/ now <= end
    BY <2>3, <2>4, <2>5, <2>6 DEF Expired, AfterExpiryTerm
  <2> QED BY <2>7 DEF m, end
<1> QED BY <1>1, AlwaysLimited, PTL DEF Spec, TermRunsFromExport

-----------------------------------------------------------------------------
(***************************************************************************)
(* Uses, where requests do not overlap: each import of a message is good   *)
(* for as many as the message grants, and those a role has left are among  *)
(* them.                                                                   *)
(***************************************************************************)
Counted ==
    /\ \A i \in 1..MaxMessages : i > Len(messages) => made[i] = 0
    /\ \A i \in 1..Len(messages) :
          Uses(messages, i) > 0 => made[i] <= Uses(messages, i) * imports[i]
    /\ \A r \in Roles :
          LET i == limiting[r]
          IN  i # 0 /\ Uses(messages, i) > 0 =>
                  made[i] + Usage(r).RemainingNumUses <= Uses(messages, i) * imports[i]

\* What is counted is a number.
LEMMA CountsTyped ==
    ASSUME TypeInv
    PROVE  /\ \A i \in 1..MaxMessages : imports[i] \in Nat /\ made[i] \in Nat
           /\ \A i \in 1..Len(messages) : i \in 1..MaxMessages
           /\ \A r \in Roles : usageEntry[r] # Nil => Usage(r).RemainingNumUses \in Int
<1>1. \A i \in 1..MaxMessages : imports[i] \in Nat /\ made[i] \in Nat
  BY BoundsAreNumbers DEF TypeInv, HistoryTyped
<1>2. \A i \in 1..Len(messages) : i \in 1..MaxMessages
  <2>1. Len(messages) \in Nat /\ Len(messages) <= MaxMessages BY DEF TypeInv, PapersTyped
  <2> QED BY <2>1, BoundsAreNumbers
<1>3. \A r \in Roles : usageEntry[r] # Nil => Usage(r).RemainingNumUses \in Int
  BY RoleTyped DEF StoredRoleUsage
<1> QED BY <1>1, <1>2, <1>3

\* The limits of a message are those of one role at most.
LEMMA OneRole ==
    ASSUME TypeInv, Received, NEW r \in Roles, NEW s \in Roles,
           limiting[r] # 0, limiting[r] = limiting[s]
    PROVE  r = s
BY DEF Received

\* Where uses and limits stay, and nothing is exported, the count stays.
LEMMA CountStays ==
    ASSUME Counted, UNCHANGED <<usageEntry, limiting, messages, imports, made>> PROVE Counted'
<1>1. \A r \in Roles : Usage(r)' = Usage(r) BY DEF Usage
<1> QED BY <1>1 DEF Counted

\* An import stores as many uses as its message grants.
LEMMA SavedUsageCounted ==
    ASSUME TypeInv, Received, Limited, Counted, NEW p \in Procs, Pending(p), SaveUsage(p)
    PROVE  Counted'
<1> DEFINE q == req[p]
           r == q.role
           e == EncodeUsage(q.usage)
<1>1. /\ q.step = "saveUsage" /\ usageEntry' = [usageEntry EXCEPT ![r] = e]
      /\ limiting' = [limiting EXCEPT ![r] = q.msg]
      /\ imports' = [i \in DOMAIN imports |-> IF i = q.msg THEN imports[i] + 1 ELSE imports[i]]
      /\ UNCHANGED <<messages, made>>
  BY DEF SaveUsage, papers
<1>2. r \in Roles /\ q.usage \in StoredRoleUsage /\ Fresh(messages, q)
  BY <1>1 DEF TypeInv, RequestsTyped, Placed, Requests, Limited
<1>3. DecodeUsage(e) = q.usage /\ q.usage.RemainingNumUses \in Int
  BY <1>2, UsageRoundTrip DEF StoredRoleUsage
<1>4. /\ usageEntry'[r] = e /\ limiting'[r] = q.msg
      /\ \A s \in Roles : s # r => usageEntry'[s] = usageEntry[s] /\ limiting'[s] = limiting[s]
  BY <1>1, <1>2, KeysTyped
<1>5. q.msg # 0 =>
        /\ q.msg \in 1..Len(messages)
        /\ messages[q.msg].to = <<r, born[r]>>
        /\ Uses(messages, q.msg) > 0 => q.usage.RemainingNumUses = Uses(messages, q.msg)
  <2>1. q.msg # 0 => Importing(q) BY <1>1 DEF Importing
  <2>2. Importing(q) => messages[q.msg].to = <<r, born[r]>> BY DEF Pending
  <2>3. q.msg # 0 => q.msg \in 1..Len(messages) BY Named
  <2> QED BY <1>2, <2>1, <2>2, <2>3 DEF Fresh
<1>6. ASSUME NEW i \in 1..MaxMessages
      PROVE  imports'[i] = IF i = q.msg THEN imports[i] + 1 ELSE imports[i]
  <2>1. imports \in [1..MaxMessages -> Nat] BY DEF TypeInv, HistoryTyped
  <2> QED BY <1>1, <2>1
<1>7. ASSUME NEW i \in 1..Len(messages), Uses(messages, i) > 0
      PROVE  /\ Uses(messages, i) * imports[i] <= Uses(messages, i) * imports'[i]
             /\ i = q.msg => Uses(messages, i) * imports'[i] =
                                Uses(messages, i) * imports[i] + Uses(messages, i)
  <2> DEFINE n == Uses(messages, i)
             k == imports[i]
  <2>1. n \in Nat /\ k \in Nat /\ i \in 1..MaxMessages BY <1>7, UsesTyped, CountsTyped
  <2>2. imports'[i] = IF i = q.msg THEN k + 1 ELSE k BY <1>6, <2>1
  <2> HIDE DEF n, k, q
  <2>3. n * (k + 1) = n * k + n /\ n * k \in Nat BY <2>1
  <2>4. n * k <= n * imports'[i] /\ (i = q.msg => n * imports'[i] = n * k + n)
    <3>1. CASE i = q.msg BY <2>1, <2>2, <2>3, <3>1
    <3>2. CASE i # q.msg
      <4>1. imports'[i] = k BY <2>2, <3>2
      <4> QED BY <2>1, <2>3, <3>2, <4>1
    <3> QED BY <3>1, <3>2
  <2> QED BY <2>4 DEF n, k
<1> HIDE DEF q, r, e
<1>8. ASSUME NEW i \in 1..Len(messages), Uses(messages, i) > 0
      PROVE  /\ Uses(messages, i) * imports[i] \in Int /\ Uses(messages, i) * imports'[i] \in Int
             /\ made[i] \in Nat
  <2>1. Uses(messages, i) \in Int /\ imports[i] \in Nat /\ made[i] \in Nat /\ i \in 1..MaxMessages
    BY UsesTyped, CountsTyped
  <2>2. imports'[i] \in Int BY <1>6, <2>1
  <2> QED BY <2>1, <2>2
<1>9. ASSUME NEW i \in 1..Len(messages), Uses(messages, i) > 0
      PROVE  made[i] <= Uses(messages, i) * imports'[i]
  <2>1. made[i] <= Uses(messages, i) * imports[i] BY <1>9 DEF Counted
  <2> QED BY <1>7, <1>8, <1>9, <2>1
<1>10. ASSUME NEW s \in Roles, limiting'[s] # 0, Uses(messages, limiting'[s]) > 0
       PROVE  made[limiting'[s]] + Usage(s)'.RemainingNumUses
                 <= Uses(messages, limiting'[s]) * imports'[limiting'[s]]
  <2> DEFINE i == limiting'[s]
             n == Uses(messages, i)
  <2>1. CASE s = r
    <3>1. i = q.msg /\ Usage(s)' = q.usage BY <1>3, <1>4, <2>1 DEF Usage
    <3>2. i \in 1..Len(messages) /\ q.usage.RemainingNumUses = n BY <1>5, <1>10, <3>1
    <3>3. made[i] <= n * imports[i] BY <1>10, <3>2 DEF Counted
    <3>4. n * imports'[i] = n * imports[i] + n BY <1>7, <1>10, <3>1, <3>2
    <3>5. n \in Int /\ made[i] \in Nat /\ n * imports[i] \in Int BY <1>8, <1>10, <3>2, UsesTyped
    <3> HIDE DEF i, n
    <3>6. made[i] + n <= n * imports'[i] BY <3>3, <3>4, <3>5
    <3> QED BY <3>1, <3>2, <3>6 DEF i, n
  <2>2. CASE s # r
    <3>1. i = limiting[s] /\ Usage(s)' = Usage(s) BY <1>4, <2>2 DEF Usage
    <3>2. i \in 1..Len(messages) BY <1>10, <3>1, Named
    <3>3. made[i] + Usage(s).RemainingNumUses <= n * imports[i]
      BY <1>10, <3>1 DEF Counted
    <3>4. n * imports[i] <= n * imports'[i] BY <1>7, <1>10, <3>2
    <3>5. n * imports[i] \in Int /\ n * imports'[i] \in Int /\ made[i] \in Nat BY <1>8, <1>10, <3>2
    <3>6. Usage(s).RemainingNumUses \in Int
      <4>1. usageEntry[s] # Nil BY <1>10, <3>1 DEF Received
      <4> QED BY <4>1, CountsTyped
    <3> HIDE DEF i, n
    <3>7. made[i] + Usage(s).RemainingNumUses <= n * imports'[i] BY <3>3, <3>4, <3>5, <3>6
    <3> QED BY <3>1, <3>7 DEF i, n
  <2> QED BY <2>1, <2>2
<1> QED BY <1>1, <1>9, <1>10 DEF Counted

\* A use takes from what its role has left at least what it adds to the count.
LEMMA UseCounted ==
    ASSUME TypeInv, Received, Limited, Counted, NEW r \in Roles, Use(r) PROVE Counted'
<1> DEFINE i == limiting[r]
<1>1. UNCHANGED <<messages, limiting, imports>> BY DEF Use, papers
<1>2. \A j \in 1..MaxMessages :
        \/ made'[j] = made[j]
        \/ made'[j] = made[j] + 1 /\ j = i
  <2>1. made \in [1..MaxMessages -> 0..UsesBound] BY DEF TypeInv, HistoryTyped
  <2>2. \/ made' = made
        \/ made' = [j \in DOMAIN made |->
                      IF j = limiting[r] /\ made[j] < UsesBound THEN made[j] + 1 ELSE made[j]]
    BY DEF Use
  <2> QED BY <2>1, <2>2
<1>3. i # 0 => i \in 1..Len(messages) BY Named, Zenon
<1>4. i # 0 /\ Uses(messages, i) > 0 =>
        /\ Usage(r).RemainingNumUses \in Int
        /\ Usage(r).RemainingNumUses > 0
        /\ Usage(r)'.RemainingNumUses = Usage(r).RemainingNumUses - 1
        /\ made[i] + Usage(r).RemainingNumUses <= Uses(messages, i) * imports[i]
  <2>1. /\ Usage(r).ExplicitNumUses \in Int /\ Usage(r).RemainingNumUses \in Int
        /\ Usage(r).ExplicitNumUses > 0 =>
              /\ Usage(r).RemainingNumUses > 0
              /\ Usage(r)'.RemainingNumUses = Usage(r).RemainingNumUses - 1
    BY UseFacts
  <2>2. i # 0 /\ Uses(messages, i) > 0 => Usage(r).ExplicitNumUses = Uses(messages, i)
    BY DEF Limited, Fits
  <2> HIDE DEF i
  <2>3. i # 0 /\ Uses(messages, i) > 0 =>
          made[i] + Usage(r).RemainingNumUses <= Uses(messages, i) * imports[i]
    BY DEF Counted, i
  <2> QED BY <2>1, <2>2, <2>3
<1>5. ASSUME NEW j \in 1..Len(messages)
      PROVE  j \in 1..MaxMessages /\ made[j] \in Nat /\ Uses(messages, j) * imports[j] \in Int
  <2>1. Uses(messages, j) \in Int /\ imports[j] \in Nat /\ made[j] \in Nat /\ j \in 1..MaxMessages
    BY UsesTyped, CountsTyped
  <2> QED BY <2>1
<1> HIDE DEF i
<1>6. ASSUME NEW j \in 1..MaxMessages, j > Len(messages) PROVE made'[j] = 0
  <2>1. j # i
    <3>1. Len(messages) \in Nat BY KeysTyped
    <3>2. i \in 0..Len(messages) BY KeysTyped DEF i
    <3> QED BY <1>6, <3>1, <3>2
  <2> QED BY <1>2, <1>6, <2>1 DEF Counted
<1>7. ASSUME NEW j \in 1..Len(messages), Uses(messages, j) > 0
      PROVE  made'[j] <= Uses(messages, j) * imports[j]
  <2>1. made[j] <= Uses(messages, j) * imports[j] BY <1>7 DEF Counted
  <2>2. CASE made'[j] = made[j] BY <2>1, <2>2
  <2>3. CASE made'[j] = made[j] + 1 /\ j = i
    <3>1. j # 0 OBVIOUS
    <3>2. /\ Usage(r).RemainingNumUses \in Int /\ Usage(r).RemainingNumUses > 0
          /\ made[j] + Usage(r).RemainingNumUses <= Uses(messages, j) * imports[j]
      BY <1>4, <1>7, <2>3, <3>1
    <3> QED BY <1>5, <2>3, <3>2
  <2> QED BY <1>2, <1>5, <2>2, <2>3
<1>8. ASSUME NEW s \in Roles, limiting[s] # 0, Uses(messages, limiting[s]) > 0
      PROVE  made'[limiting[s]] + Usage(s)'.RemainingNumUses
                <= Uses(messages, limiting[s]) * imports[limiting[s]]
  <2>1. limiting[s] \in 1..Len(messages) BY <1>8, Named, Zenon
  <2>2. CASE s = r
    <3>1. i # 0 /\ i \in 1..Len(messages) /\ limiting[s] = i /\ Uses(messages, i) > 0
      BY <1>8, <2>1, <2>2 DEF i
    <3>2. made'[i] <= made[i] + 1 /\ made[i] \in Nat /\ made'[i] \in Nat BY <1>2, <1>5, <3>1
    <3>3. /\ Usage(r).RemainingNumUses \in Int
          /\ Usage(r)'.RemainingNumUses = Usage(r).RemainingNumUses - 1
          /\ made[i] + Usage(r).RemainingNumUses <= Uses(messages, i) * imports[i]
      BY <1>4, <3>1
    <3>4. made'[i] + Usage(r)'.RemainingNumUses <= Uses(messages, i) * imports[i]
      BY <1>5, <3>1, <3>2, <3>3
    <3> QED BY <2>2, <3>1, <3>4
  <2>3. CASE s # r
    <3>1. limiting[s] # i BY <1>8, <2>3, OneRole DEF i
    <3>2. made'[limiting[s]] = made[limiting[s]] BY <1>2, <1>5, <2>1, <3>1
    <3>3. Usage(s)' = Usage(s) BY <2>3, UseFacts DEF Usage
    <3> QED BY <1>8, <3>2, <3>3 DEF Counted
  <2> QED BY <2>2, <2>3
<1> QED BY <1>1, <1>6, <1>7, <1>8 DEF Counted

\* A delete takes the uses a role has left.
LEMMA DeletedCounted ==
    ASSUME TypeInv, Counted, NEW p \in Procs, NEW r \in Roles, DeleteUsage(p, r) PROVE Counted'
<1>1. /\ usageEntry' = [usageEntry EXCEPT ![r] = Nil] /\ limiting' = [limiting EXCEPT ![r] = 0]
      /\ UNCHANGED <<messages, imports, made>>
  BY DEF DeleteUsage, papers
<1>2. /\ limiting'[r] = 0
      /\ \A s \in Roles : s # r => usageEntry'[s] = usageEntry[s] /\ limiting'[s] = limiting[s]
  BY <1>1, KeysTyped
<1> QED BY <1>1, <1>2 DEF Counted, Usage

\* A message more has not been used.
LEMMA ExportCounted ==
    ASSUME TypeInv, Counted, NEW r \in Roles, NEW c \in certificates, NEW q \in Asked,
           pathRoleExport(r, c, q)
    PROVE  Counted'
<1> DEFINE n == Len(messages) + 1
<1>1. UNCHANGED <<usageEntry, limiting, imports, made>> BY DEF pathRoleExport, storage, history
<1>2. /\ Len(messages') = n /\ \A i \in 1..Len(messages) : messages'[i] = messages[i]
  BY MessagesKept
<1>3. \A i \in 1..Len(messages) : Uses(messages', i) = Uses(messages, i) BY <1>2 DEF Uses
<1>4. Len(messages) \in Nat /\ n <= MaxMessages
  <2>1. Len(messages) \in Nat /\ Len(messages) < MaxMessages BY KeysTyped DEF pathRoleExport
  <2> QED BY <2>1, BoundsAreNumbers
<1>5. ASSUME NEW i \in 1..MaxMessages, i > Len(messages') PROVE made[i] = 0
  BY <1>2, <1>4, <1>5 DEF Counted
<1>6. ASSUME NEW i \in 1..Len(messages'), Uses(messages', i) > 0
      PROVE  made[i] <= Uses(messages', i) * imports[i]
  <2>1. CASE i \in 1..Len(messages) BY <1>3, <1>6, <2>1 DEF Counted
  <2>2. CASE i = n
    <3>1. n \in 1..MaxMessages /\ n > Len(messages) BY <1>4, BoundsAreNumbers
    <3>2. made[i] = 0 BY <2>2, <3>1 DEF Counted
    <3>3. TypeInv' BY ExportTyped
    <3>4. Uses(messages', i) \in Int
      <4>1. messages'[i] \in Records BY <3>3 DEF TypeInv, PapersTyped
      <4>2. messages'[i].asked \in DesiredRoleExport BY <4>1 DEF Records
      <4> QED BY <4>2 DEF Uses, DesiredRoleExport
    <3>5. imports[i] \in Nat BY <2>2, <3>1, CountsTyped
    <3> HIDE DEF n
    <3>6. Uses(messages', i) * imports[i] >= 0 BY <1>6, <3>4, <3>5
    <3> QED BY <3>2, <3>6
  <2> QED BY <1>2, <1>4, <2>1, <2>2
<1>7. ASSUME NEW s \in Roles, limiting[s] # 0, Uses(messages', limiting[s]) > 0
      PROVE  made[limiting[s]] + Usage(s).RemainingNumUses
                <= Uses(messages', limiting[s]) * imports[limiting[s]]
  <2>1. limiting[s] \in 1..Len(messages) BY <1>7, Named, Zenon
  <2>2. Uses(messages', limiting[s]) = Uses(messages, limiting[s]) BY <1>3, <2>1
  <2> QED BY <1>7, <2>2 DEF Counted
<1> QED BY <1>1, <1>5, <1>6, <1>7 DEF Counted, Usage

\* Every step keeps the count.
LEMMA NextCounted ==
    TypeInv /\ AddressInv /\ Limited /\ Counted /\ [Next]_vars => Counted'
<1> SUFFICES ASSUME TypeInv, AddressInv, Limited, Counted, [Next]_vars PROVE Counted' OBVIOUS
<1>1. Received /\ \A p \in Procs : Pending(p) BY DEF AddressInv, Belongings
<1>2. CASE UNCHANGED <<usageEntry, limiting, messages, imports, made>> BY <1>2, CountStays
<1>3. CASE OneStep
  <2>1. ASSUME NEW f \in Engines, NEW l \in Labels, ChangeLabel(f, l) PROVE Counted'
    BY <1>2, <2>1 DEF ChangeLabel, storage, papers, history
  <2> QED BY <1>1, <1>3, <2>1, UseCounted, ExportCounted DEF OneStep
<1>4. ASSUME NEW p \in Procs, Stepwise(p) PROVE Counted'
  <2>1. CASE SaveUsage(p) BY <1>1, <2>1, SavedUsageCounted
  <2>2. ASSUME NEW r \in Roles, DeleteUsage(p, r) PROVE Counted' BY <2>2, DeletedCounted
  <2>3. CASE ~SaveUsage(p) /\ ~(\E r \in Roles : DeleteUsage(p, r))
    BY <1>2, <1>4, <2>3
       DEF Stepwise, handleWriteRoleKeys, handleUpdateRoleData, BeginWithoutKey, pathRolePEMRead,
           pathRoleImport, SaveKeys, SavePrivateKey, DeletePrivateKey, DeleteKeys, Fail, storage,
           papers, history
  <2> QED BY <2>1, <2>2, <2>3
<1>5. CASE Tick \/ Crash BY <1>2, <1>5 DEF Tick, Crash, storage, papers, history
<1>6. CASE UNCHANGED vars BY <1>2, <1>6 DEF vars, storage, papers, history
<1> QED BY <1>3, <1>4, <1>5, <1>6 DEF Next

\* While requests do not overlap, wherever they stop or fail and whenever the
\* process dies: what is used under the limits of a record is no more than the
\* record grants for each time its limits were stored, whichever other records
\* the role received in between.
THEOREM AloneUsesPerImport ==
    ASSUME NEW p, Procs = {p} PROVE Spec => []UsesPerImport
<1>1. Init => Counted
  <2> SUFFICES ASSUME Init PROVE Counted OBVIOUS
  <2>1. Len(messages) = 0 /\ 1..Len(messages) = {}
    <3>1. Len(messages) = 0 BY DEF Init
    <3> QED BY <3>1
  <2> QED BY <2>1 DEF Init, Counted
<1>2. TypeInv /\ Counted => UsesPerImport
  <2> SUFFICES ASSUME TypeInv, Counted PROVE UsesPerImport OBVIOUS
  <2>1. DOMAIN messages = 1..Len(messages) BY KeysTyped
  <2> QED BY <2>1 DEF Counted, Uses, UsesPerImport
<1> QED BY <1>1, <1>2, NextCounted, AlwaysAddressed, AlwaysLimited, PTL DEF Spec
=============================================================================
