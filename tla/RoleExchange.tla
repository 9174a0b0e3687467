---------------------------- MODULE RoleExchange ----------------------------
(***************************************************************************)
(* Roles handed from one mounted engine to another: a role's certificate   *)
(* (roles/<name>/pem), the export of a role for a certificate, the import  *)
(* of the message.  Certificates and messages travel by hand: they may be  *)
(* delivered late, again or never, so those that exist are kept for good.  *)
(*                                                                         *)
(* A role's own requests are those of RoleService.  Here each storage      *)
(* write or delete of a request is a step of its own, which can fail and   *)
(* between which the process can die and other requests run; what a        *)
(* request reads, it reads in the step that begins it.  A use and an       *)
(* export are one step.                                                    *)
(***************************************************************************)
EXTENDS RoleData, UserInput, FiniteSets

CONSTANTS
    Roles,        \* roles of all engines
    Engines,      \* mounts of the secrets engine
    EngineOf,     \* the engine each role belongs to
    Labels,       \* OAEP labels an engine can be configured with
    Procs,        \* requests that can run at once
    Writes,       \* the field data of role write requests
    Asked,        \* the field data of export requests
    CertLife,     \* how long a certificate can be exported to (4 hours)
    Second,       \* nanoseconds in a second
    Start,        \* the clock in the initial state
    MaxTime,      \* bound on the clock
    MaxKeys,      \* bound on the private keys generated
    MaxBorn,      \* bound on the times a role is created
    MaxMessages,  \* bound on the messages
    UsesBound,    \* bound on the history counter made
    MaxImports,   \* bound on the imports of one message
    Faults        \* whether writes and calls fail and the process dies

ASSUME ExchangeAssumption ==
    /\ EngineOf \in [Roles -> Engines]
    /\ \A w \in Writes : /\ DOMAIN w \subseteq RequestFields
                         /\ Overlay(w, InitialKeys) \in RoleKeys
    /\ \A q \in Asked : q.term = Nil \/ q.term \in Input
    /\ {q.settings : q \in Asked} \subseteq DesiredRoleExport
    /\ Nil \notin Roles
    /\ {CertLife, Second, Start, MaxTime, MaxKeys, MaxBorn, MaxMessages,
        UsesBound, MaxImports} \subseteq Nat
    /\ 0 < Start /\ Start <= MaxTime /\ MaxTime < DurationBound
    /\ Faults \in BOOLEAN

\* The parts of a Go duration add up to a number.
ASSUME TotalAssumption == \A q \in Asked : q.term # Nil => GoTotal(q.term) \in Int

VARIABLES
    now,           \* the clock of all engines
    label,         \* label[e]: the OAEP label of engine e's configuration
    keyEntry,      \* storage: <role>/key of each role
    usageEntry,    \* storage: <role>/usage of each role
    pkEntry,       \* storage: <role>/pk, the private key's number or 0 for none
    req,           \* req[p]: the request p runs, its next step and its heap
    generated,     \* private keys generated so far
    certificates,  \* certificates issued
    messages,      \* messages exported
    born,          \* history: how often each role was created
    source,        \* history: the message the keys of a role came from, or 0
    limiting,      \* history: the message its limits came from, or 0
    under,         \* history: the label of the engine that opened a message
    imports,       \* history: how often the limits of a message were stored
    made           \* history: uses made under the limits of a message

storage == <<keyEntry, usageEntry, pkEntry>>
papers == <<generated, certificates, messages>>
history == <<born, source, limiting, under, imports, made>>
vars == <<now, label, storage, req, papers, history>>

(***************************************************************************)
(* Roles.                                                                  *)
(***************************************************************************)
Keys(r) == DecodeKeys(keyEntry[r])
Usage(r) == DecodeUsage(usageEntry[r])

\* readRole[..](true) finds the role.
readRole(r) == keyEntry[r] # Nil /\ usageEntry[r] # Nil

\* A request that is not under way, and one about to save what is on its heap;
\* i is the message its keys and limits come from, or 0.
Idle ==
    [step |-> "idle", role |-> Nil, pk |-> 0, msg |-> 0,
     keys |-> ZeroKeys, usage |-> ZeroUsage]

Saving(step, r, i, k, u) ==
    [Idle EXCEPT !.step = step, !.role = r, !.msg = i, !.keys = k, !.usage = u]

Begin(p, q) == req[p] = Idle /\ req' = [req EXCEPT ![p] = q]
Goto(p, step) == req' = [req EXCEPT ![p].step = step]
Answer(p) == req' = [req EXCEPT ![p] = Idle]

handleWriteRoleKeys(p, r, w) ==
    /\ keyEntry[r] = Nil
    /\ born[r] < MaxBorn
    /\ Begin(p, Saving("saveKeys", r, 0, updateRoleKeysFromRequest(InitialKeys, w),
                       ResetToken(UnboundedUsage(InitialUsage))))
    /\ born' = [born EXCEPT ![r] = @ + 1]
    /\ UNCHANGED <<now, label, storage, papers, source, limiting, under, imports, made>>

\* Slip: an imported role takes writes.
UpdateImported(p, r, w) ==
    /\ readRole(r)
    /\ Begin(p, Saving("updateKeys", r, source[r],
                       updateRoleKeysFromRequest(Keys(r), w), Usage(r)))
    /\ UNCHANGED <<now, label, storage, papers, history>>

handleUpdateRoleData(p, r, w) ==
    /\ readRole(r)
    /\ ~Keys(r).Imported
    /\ Begin(p, Saving("updateKeys", r, source[r],
                       updateRoleKeysFromRequest(Keys(r), w), Usage(r)))
    /\ UNCHANGED <<now, label, storage, papers, history>>

\* saveRoleKeys, the last step of an update.
SaveKeys(p) ==
    LET q == req[p]
    IN  /\ q.step \in {"saveKeys", "updateKeys"}
        /\ keyEntry' = [keyEntry EXCEPT ![q.role] = EncodeKeys(q.keys)]
        /\ source' = [source EXCEPT ![q.role] = q.msg]
        /\ IF q.step = "saveKeys" THEN Goto(p, "saveUsage") ELSE Answer(p)
        /\ UNCHANGED <<now, label, usageEntry, pkEntry, papers, born, limiting,
                       under, imports, made>>

\* saveRoleUsage, the last step of a create and of an import.
SaveUsage(p) ==
    LET q == req[p]
    IN  /\ q.step = "saveUsage"
        /\ usageEntry' = [usageEntry EXCEPT ![q.role] = EncodeUsage(q.usage)]
        /\ limiting' = [limiting EXCEPT ![q.role] = q.msg]
        /\ imports' = [i \in DOMAIN imports |->
                         IF i = q.msg THEN imports[i] + 1 ELSE imports[i]]
        /\ Answer(p)
        /\ UNCHANGED <<now, label, keyEntry, pkEntry, papers, born, source, under, made>>

\* handleDeleteRoleData makes three deletes and stops at the first that fails.
DeleteUsage(p, r) ==
    /\ Begin(p, [Idle EXCEPT !.step = "deletePk", !.role = r])
    /\ usageEntry' = [usageEntry EXCEPT ![r] = Nil]
    /\ limiting' = [limiting EXCEPT ![r] = 0]
    /\ UNCHANGED <<now, label, keyEntry, pkEntry, papers, born, source, under, imports, made>>

\* Slip: the private key outlives the role.
DeleteLeavingPrivateKey(p) ==
    /\ req[p].step = "deletePk"
    /\ Goto(p, "deleteKeys")
    /\ UNCHANGED <<now, label, storage, papers, history>>

DeletePrivateKey(p) ==
    /\ req[p].step = "deletePk"
    /\ pkEntry' = [pkEntry EXCEPT ![req[p].role] = 0]
    /\ Goto(p, "deleteKeys")
    /\ UNCHANGED <<now, label, keyEntry, usageEntry, papers, history>>

DeleteKeys(p) ==
    LET r == req[p].role
    IN  /\ req[p].step = "deleteKeys"
        /\ keyEntry' = [keyEntry EXCEPT ![r] = Nil]
        /\ source' = [source EXCEPT ![r] = 0]
        /\ Answer(p)
        /\ UNCHANGED <<now, label, usageEntry, pkEntry, papers, born, limiting,
                       under, imports, made>>

\* A write or a delete fails: the request ends in an error and leaves what it
\* has written.
Fail(p) ==
    /\ Faults
    /\ req[p] # Idle
    /\ Answer(p)
    /\ UNCHANGED <<now, label, storage, papers, history>>

\* A use of the role's credentials through the proxy (proxyV2Request, or
\* proxyV3Request with a token at hand).  One that fails is charged all the same.
Use(r) ==
    LET u == Usage(r)
    IN  /\ readRole(r)
        /\ IsV2Capable(Keys(r)) \/ IsV3Capable(Keys(r))
        /\ ~Expired(u, now) /\ ~Depleted(u)
        /\ usageEntry' = [usageEntry EXCEPT
                            ![r] = IF HasUsageQuota(u)
                                   THEN EncodeUsage(ReduceRemainingQuota(u)) ELSE @]
        /\ \/ Faults /\ UNCHANGED made
           \/ made' = [i \in DOMAIN made |->
                         IF i = limiting[r] /\ made[i] < UsesBound
                         THEN made[i] + 1 ELSE made[i]]
        /\ UNCHANGED <<now, label, keyEntry, pkEntry, req, papers, born, source,
                       limiting, under, imports>>

\* storeConfiguration with an oaep_label.
ChangeLabel(e, l) ==
    /\ label[e] # l
    /\ label' = [label EXCEPT ![e] = l]
    /\ UNCHANGED <<now, storage, req, papers, history>>

(***************************************************************************)
(* roles/<name>/pem: the role's certificate, for the private key it has or *)
(* one generated now and stored before the certificate is answered.        *)
(***************************************************************************)
\* createRoleCertificateTemplate and the key; to whom it belongs is history.
Certificate(r, pk) ==
    [to |-> <<r, born[r]>>, key |-> pk, NotAfter |-> now + CertLife]

renderRoleCertificate(r, pk) == certificates' = certificates \cup {Certificate(r, pk)}

\* Slip: a private key is generated for each request.
GenerateAlways(p, r, i) ==
    /\ readRole(r)
    /\ generated < MaxKeys
    /\ generated' = generated + 1
    /\ Begin(p, [Idle EXCEPT !.step = "savePk", !.role = r, !.pk = generated', !.msg = i])

\* retrievePrivateKey finds no key: a new one goes on the heap and then to the
\* storage.
GeneratePrivateKey(p, r, i) ==
    /\ readRole(r)
    /\ pkEntry[r] = 0
    /\ generated < MaxKeys
    /\ generated' = generated + 1
    /\ Begin(p, [Idle EXCEPT !.step = "savePk", !.role = r, !.pk = generated', !.msg = i])

\* A first request for the certificate, and an import into a role that has none.
BeginWithoutKey(p, r) ==
    /\ \E i \in {0} \cup DOMAIN messages : GeneratePrivateKey(p, r, i)
    /\ UNCHANGED <<now, label, storage, certificates, messages, history>>

\* Slip: the certificate does not wait for a private key.
PEMWithoutKey(p, r) ==
    /\ req[p] = Idle
    /\ readRole(r)
    /\ renderRoleCertificate(r, pkEntry[r])
    /\ UNCHANGED <<now, label, storage, req, generated, messages, history>>

pathRolePEMRead(p, r) ==
    /\ req[p] = Idle
    /\ readRole(r)
    /\ pkEntry[r] # 0
    /\ renderRoleCertificate(r, pkEntry[r])
    /\ UNCHANGED <<now, label, storage, req, generated, messages, history>>

\* The write ends in the certificate, or for an import in the answer that the
\* message cannot be decrypted: none is encrypted for a key this new.
SavePrivateKey(p) ==
    LET q == req[p]
    IN  /\ q.step = "savePk"
        /\ pkEntry' = [pkEntry EXCEPT ![q.role] = q.pk]
        /\ IF q.msg = 0 THEN renderRoleCertificate(q.role, q.pk)
                        ELSE UNCHANGED certificates
        /\ Answer(p)
        /\ UNCHANGED <<now, label, keyEntry, usageEntry, generated, messages, history>>

(***************************************************************************)
(* roles/<name>/export.                                                    *)
(***************************************************************************)
MarshalExchange(x) == [x EXCEPT !.RoleData = EncodeKeys(@)]
UnmarshalExchange(d) == [d EXCEPT !.RoleData = Overlay(@, ZeroKeys)]

blockNonExportableRole(r) == Keys(r).Exportable

readRecipientCertificate(c) == now <= c.NotAfter

\* The settings, in which a term is the duration of its text.
parseDesiredRoleExport(q) ==
    [q.settings EXCEPT !.desiredTerm = IF q.term = Nil THEN 0
                                       ELSE ParseUserInputDuration(q.term, now)]

\* What the message holds for its recipient's key and under the exporting
\* engine's label, and its Term header: the instant the term ends, a number of
\* seconds, taken as a duration, a number of nanoseconds (0 for unlimited).
\* The recipient, the origin and what was asked are history.
Message(r, c, q) ==
    LET x == renderEncryptedRoleData(Keys(r), parseDesiredRoleExport(q), now)
        t == x.UsageTerm.ExplicitTerm
    IN  [key |-> c.key, label |-> label[EngineOf[r]], data |-> MarshalExchange(x),
         Term |-> IF t > 0 THEN t ELSE 0,
         to |-> c.to, from |-> source[r], at |-> now,
         term |-> q.term, asked |-> parseDesiredRoleExport(q)]

pathRoleExport(r, c, q) ==
    /\ readRole(r)
    /\ blockNonExportableRole(r)
    /\ readRecipientCertificate(c)
    /\ q.term # Nil => ParsesDuration(q.term)
    /\ Len(messages) < MaxMessages
    /\ messages' = Append(messages, Message(r, c, q))
    /\ UNCHANGED <<now, label, storage, req, generated, certificates, history>>

(***************************************************************************)
(* roles/<name>/import.  The message opens with the recipient's key and    *)
(* under the label of the recipient's engine only.                         *)
(***************************************************************************)

\* Slip: the label does not protect the message.
OpensUnderAnyLabel(m, r) == m.key = pkEntry[r]

Opens(m, r) == m.key = pkEntry[r] /\ m.label = label[EngineOf[r]]

Contents(i) == UnmarshalExchange(messages[i].data)

pathRoleImport(p, r) ==
    \E i \in DOMAIN messages :
        /\ imports[i] < MaxImports
        /\ readRole(r)
        /\ Opens(messages[i], r)
        /\ Begin(p, Saving("saveKeys", r, i, ImportKeys(Contents(i)),
                           ImportUsage(Usage(r), Contents(i))))
        /\ under' = [under EXCEPT ![i] = label[EngineOf[r]]]
        /\ UNCHANGED <<now, label, storage, papers, born, source, limiting, imports, made>>

(***************************************************************************)
(* The specification.                                                      *)
(***************************************************************************)
Init ==
    /\ now = Start
    /\ label \in [Engines -> Labels]
    /\ keyEntry = [r \in Roles |-> Nil]
    /\ usageEntry = [r \in Roles |-> Nil]
    /\ pkEntry = [r \in Roles |-> 0]
    /\ req = [p \in Procs |-> Idle]
    /\ generated = 0 /\ certificates = {} /\ messages = <<>>
    /\ born = [r \in Roles |-> 0]
    /\ source = [r \in Roles |-> 0]
    /\ limiting = [r \in Roles |-> 0]
    /\ under = [i \in 1..MaxMessages |-> Nil]
    /\ imports = [i \in 1..MaxMessages |-> 0]
    /\ made = [i \in 1..MaxMessages |-> 0]

Tick ==
    /\ now < MaxTime
    /\ now' = now + 1
    /\ UNCHANGED <<label, storage, req, papers, history>>

\* The process dies: the requests in flight are lost, the storage stays.
Crash ==
    /\ Faults
    /\ req' = [p \in Procs |-> Idle]
    /\ UNCHANGED <<now, label, storage, papers, history>>

\* The requests that are one step; they need a free slot as others do.
OneStep ==
    /\ \E p \in Procs : req[p] = Idle
    /\ \/ \E r \in Roles : Use(r)
       \/ \E r \in Roles, c \in certificates, q \in Asked : pathRoleExport(r, c, q)
       \/ \E e \in Engines, l \in Labels : ChangeLabel(e, l)

Stepwise(p) ==
    \/ \E r \in Roles, w \in Writes : handleWriteRoleKeys(p, r, w) \/ handleUpdateRoleData(p, r, w)
    \/ \E r \in Roles : \/ DeleteUsage(p, r) \/ BeginWithoutKey(p, r)
                       \/ pathRolePEMRead(p, r) \/ pathRoleImport(p, r)
    \/ SaveKeys(p) \/ SaveUsage(p) \/ SavePrivateKey(p)
    \/ DeletePrivateKey(p) \/ DeleteKeys(p) \/ Fail(p)

Next == Tick \/ Crash \/ OneStep \/ \E p \in Procs : Stepwise(p)

Spec == Init /\ [][Next]_vars

(***************************************************************************)
(* Properties.                                                             *)
(***************************************************************************)
Steps == {"idle", "saveKeys", "updateKeys", "saveUsage", "savePk", "deletePk", "deleteKeys"}

Requests ==
    [step : Steps, role : Roles \cup {Nil}, pk : 0..MaxKeys, msg : 0..MaxMessages,
     keys : RoleKeys, usage : StoredRoleUsage]

\* Every variable holds what its declaration says; what is stored decodes to a
\* well-formed role and what a message holds to well-formed exchange data.
TypeOK ==
    /\ now \in Start..MaxTime
    /\ label \in [Engines -> Labels]
    /\ \A r \in Roles : /\ keyEntry[r] # Nil => Keys(r) \in RoleKeys
                        /\ usageEntry[r] # Nil => Usage(r) \in StoredRoleUsage
    /\ pkEntry \in [Roles -> 0..MaxKeys]
    /\ req \in [Procs -> Requests]
    /\ generated \in 0..MaxKeys
    /\ \A c \in certificates : c.key \in 1..generated /\ c.NotAfter \in Start..(MaxTime + CertLife)
    /\ Len(messages) <= MaxMessages
    /\ \A i \in DOMAIN messages : Contents(i) \in RoleDataExchange
    /\ source \in [Roles -> 0..Len(messages)]
    /\ limiting \in [Roles -> 0..Len(messages)]
    /\ imports \in [1..MaxMessages -> Nat]
    /\ made \in [1..MaxMessages -> 0..UsesBound]

\* The keys a role holds come from a message exported for this very role, for a
\* certificate of its own since it was last created, by an engine whose label
\* its own engine had: not for a role of the same name deleted before, however
\* late the message arrives (retrievePrivateKey, handleDeleteRoleData,
\* importPEMEncodedExchangeData).
ImportsAreAddressed ==
    \A r \in Roles :
        LET i == source[r]
        IN  i # 0 => /\ messages[i].to = <<r, born[r]>>
                     /\ messages[i].label = under[i]

\* What is exported from an imported role was imported with the permission to
\* export it, along the whole chain from the role it was entered in
\* (blockNonExportableRole, Import, and the storage of Exportable, which a new
\* role has).
ExportsPermitted ==
    \A i \in DOMAIN messages :
        messages[i].from # 0 => messages[messages[i].from].asked.desireExportable

\* No recipient gets credentials that one before it did not get: along a chain
\* of exports each field of the keys is either withheld or handed on as it was
\* received, so that a V2-only export never serves V3 calls further on, and
\* neither a role write nor an import puts keys of two sources together
\* (renderEncryptedRoleData, Import, blockOperationOnImportedRole).
CredentialsNarrow ==
    \A i \in DOMAIN messages :
        LET mine == Contents(i).RoleData
            theirs == Contents(messages[i].from).RoleData
        IN  messages[i].from # 0 =>
              /\ \A f \in {"AreaId", "Username", "Password"} : mine[f] \in {"", theirs[f]}
              /\ mine.AreaNid \in {0, theirs.AreaNid}
              /\ mine.ApiKey = theirs.ApiKey /\ mine.KeySecret = theirs.KeySecret

\* A record that grants a number of uses is good for that many each time it is
\* imported, and for no more: whatever was charged and not used, wherever an
\* import or another request stopped, and whichever other record was imported in
\* between (ImportUsage, decreaseRemainingUsageQuota).
UsesPerImport ==
    \A i \in DOMAIN messages :
        LET n == messages[i].asked.desiredNumUses
        IN  n > 0 => made[i] <= n * imports[i]

\* What the documents say of it: the number of uses is that of the record,
\* however often it is imported (ImportUsage).
UsesWithinGrant ==
    \A i \in DOMAIN messages :
        LET n == messages[i].asked.desiredNumUses
        IN  n > 0 => made[i] <= n

\* An imported role is under the limits of the record its keys came with,
\* whenever no request is at work on it (pathRoleImport).
LimitsComeWithKeys ==
    \A r \in Roles :
        source[r] # 0 /\ (\A p \in Procs : req[p].role # r) => limiting[r] = source[r]

\* The term of a record, written in a documented format, is counted from its
\* export: nothing is used under its limits after it, however late the record
\* was imported and however often (CreateRoleDataExchange, ImportUsage,
\* blockUsageExceedingLimits).  A term of length zero is none, and so is one that
\* ends before the epoch (a Go duration can be negative).
TermRunsFromExport ==
    [][\A i \in DOMAIN messages :
         LET m == messages[i]
             end == EndsAt(m.term, m.at)
         IN  made'[i] # made[i] /\ m.term # Nil /\ Documented(m.term) =>
               end <= 0 \/ end = m.at \/ now <= end]_vars

\* The term of the message ends when its text says, or is none.
EndsAsAsked(i) ==
    LET m == messages[i]
        end == EndsAt(m.term, m.at)
    IN  Contents(i).UsageTerm.ExplicitTerm = IF end = m.at THEN 0 ELSE end

\* The term a record carries ends when the text it was asked for with says,
\* whichever of the documented formats that is in, in the past and up to the
\* longest a duration can be (ParseUserInputDuration, CreateRoleDataExchange).
TermsAsAsked ==
    \A i \in DOMAIN messages :
        messages[i].term # Nil /\ Documented(messages[i].term) => EndsAsAsked(i)

\* The documents know no longest term (ParseUserInputDuration).
TermsOfAnyLength ==
    \A i \in DOMAIN messages :
        messages[i].term # Nil /\ InDocumentedFormat(messages[i].term) => EndsAsAsked(i)

\* A certificate issued for a role, as long as the role can be read, is for the
\* private key the role has, so that what is exported for it can be imported: no
\* two keys are generated, and a delete that stops half-way leaves no role that
\* serves without its key (retrievePrivateKey, renderRoleCertificate,
\* handleDeleteRoleData).
CertificatesServe ==
    \A c \in certificates :
        \A r \in Roles :
            c.to = <<r, born[r]>> /\ readRole(r) => c.key = pkEntry[r]

\* The Term header of an exported record says for how long the record is
\* exported.
HeaderShowsTerm ==
    \A i \in DOMAIN messages :
        LET term == messages[i].asked.desiredTerm
        IN  term > 0 => messages[i].Term = term * Second
=============================================================================
