--------------------------- MODULE V3CallsProofs ---------------------------
(***************************************************************************)
(* What a client may conclude from the answer to a V3 operation, for any   *)
(* number of concurrent requests of any kind, whatever Mashery answers,    *)
(* whoever else changes it and whenever the configuration is changed.      *)
(***************************************************************************)
EXTENDS V3Calls, TLAPS

Changing == {"write", "delete"}

Replies ==
    [kind : {"none", "error", "unread", "lost", "response"}, status : Int,
     whole : BOOLEAN, warned : BOOLEAN]

Slots ==
    [step : {"idle", "checkChain", "check", "gate", "chain", "fetch"}, ask : ClientRequest,
     exists : BOOLEAN, tries : Nat,
     calls : Seq([meth : {"GET", "PUT", "POST", "DELETE"}, status : Int]),
     changes : Nat, permitted : BOOLEAN, answer : Replies]

\* r was changed for once at most, and its answer tells whether it was, unless
\* it is lost or unread.
Tells(r) ==
    /\ r.changes \in {0, 1}
    /\ r.step = "idle" /\ r.answer.kind = "response" /\ r.answer.status <= 299 =>
         r.changes = IF r.ask.op \in Changing THEN 1 ELSE 0
    /\ /\ r.step = "idle"
       /\ \/ r.answer.kind = "error"
          \/ r.answer.kind = "response" /\ r.answer.status > 299
       => r.changes = 0

\* Nothing is changed before the call that is answered; a request of the CLI
\* path comes to that call through the gate or changes nothing.
Sound(r) ==
    /\ CLIWriteEnabled => r.permitted
    /\ r.step # "idle" => r.changes = 0 /\ r.answer = NoAnswer
    /\ r.step \in {"checkChain", "check", "gate"} => r.ask.path = "cli" /\ r.ask.op \in Changing
    /\ r.step \in {"chain", "fetch"} /\ r.ask.path = "cli" /\ r.ask.op \in Changing => r.permitted
    /\ r.ask.path = "cli" /\ r.changes > 0 => r.permitted
    /\ Tells(r)

CallsInv ==
    /\ present \in BOOLEAN /\ CLIWriteEnabled \in BOOLEAN
    /\ req \in [Procs -> Slots]
    /\ \A p \in Procs : Sound(req[p])

-----------------------------------------------------------------------------
(***************************************************************************)
(* One attempt at a call.                                                  *)
(***************************************************************************)

\* A status other than those that end the process, or are tried again, tells
\* whether the call changed anything.
LEMMA OutcomesTell ==
    ASSUME NEW meth, NEW at \in {"object", "collection", "nowhere"},
           NEW o \in Outcomes(meth, at)
    PROVE  /\ o[1] \in Int /\ o[2] \in {0, 1}
           /\ o[2] = 1 => Mutates(meth)
           /\ o[1] = Inactive => o[2] = 0
           /\ o[1] \notin {0, 403, Inactive} =>
                o[1] > 0 /\ o[2] = IF o[1] <= 299 /\ Mutates(meth) THEN 1 ELSE 0
<1>1. Nominal(meth, at) \in {200, 400, 404} BY DEF Nominal
<1>2. Inactive = -403 BY DEF Inactive
<1>3. PICK n \in {200, 400, 404}, c \in {0, 1} :
        /\ c = 1 <=> Mutates(meth) /\ n = 200
        /\ o \in {<<n, c>>, <<Inactive, 0>>, <<403, 0>>, <<500, 0>>, <<0, 0>>, <<0, c>>}
  BY <1>1 DEF Outcomes
<1> QED BY <1>2, <1>3

\* What an attempt does to the request before its outcome is looked at.
Tried(r, meth, o) ==
    [r EXCEPT !.calls = Append(@, [meth |-> meth, status |-> o[1]]),
              !.changes = @ + o[2], !.tries = @ + 1]

\* The answers of the plugin itself.
LEMMA AnswersTyped ==
    /\ NoAnswer \in Replies /\ NoAnswer.kind = "none"
    /\ Lost \in Replies /\ Lost.kind = "lost"
    /\ Unread \in Replies /\ Unread.kind = "unread"
    /\ \A n \in Int : Error(n) \in Replies /\ Error(n).kind = "error"
<1>1. NoAnswer \in Replies
  <2>1. 0 \in Int /\ TRUE \in BOOLEAN /\ FALSE \in BOOLEAN OBVIOUS
  <2> QED BY <2>1, Zenon DEF NoAnswer, Replies
<1>2. NoAnswer.kind = "none" BY DEF NoAnswer
<1> QED BY <1>1, <1>2 DEF Lost, Unread, Error, Replies

\* A process that dies leaves requests without an answer.
LEMMA DeadSound ==
    ASSUME NEW r \in [Procs -> Slots], Die(r), UNCHANGED CLIWriteEnabled,
           \A p \in Procs : /\ CLIWriteEnabled => r[p].permitted
                            /\ r[p].ask.path = "cli" /\ r[p].changes > 0 => r[p].permitted
                            /\ Tells(r[p])
    PROVE  req' \in [Procs -> Slots] /\ \A p \in Procs : Sound(req[p])'
<1>1. Lost \in Replies /\ Lost.kind = "lost" BY AnswersTyped
<1> DEFINE D(q) == IF q.step = "idle" THEN q ELSE [q EXCEPT !.step = "idle", !.answer = Lost]
<1>2. req' = [p \in Procs |-> D(r[p])] BY DEF Die
<1>3. ASSUME NEW p \in Procs
      PROVE  /\ D(r[p]) \in Slots /\ D(r[p]).step = "idle"
             /\ CLIWriteEnabled => D(r[p]).permitted
             /\ D(r[p]).ask.path = "cli" /\ D(r[p]).changes > 0 => D(r[p]).permitted
             /\ Tells(D(r[p]))
  <2>1. r[p] \in Slots OBVIOUS
  <2>2. CASE r[p].step = "idle" BY <2>1, <2>2
  <2>3. CASE r[p].step # "idle" BY <1>1, <2>1, <2>3 DEF Slots, Tells
  <2> QED BY <2>2, <2>3
<1> HIDE DEF D
<1>4. req' \in [Procs -> Slots] BY <1>2, <1>3
<1>5. ASSUME NEW p \in Procs PROVE Sound(req[p])'
  <2>1. req'[p] = D(r[p]) BY <1>2
  <2> QED BY <1>3, <2>1 DEF Sound, Tells
<1> QED BY <1>4, <1>5

\* A success is answered to a call that succeeded, and a failure of a change to
\* one that did not; an answer to a client is a response, an error or unread.
LEMMA AnswersTell ==
    ASSUME NEW q \in ClientRequest, NEW status \in Int, NEW a \in Answers(q, status)
    PROVE  /\ a \in Replies /\ a.kind \in {"response", "error", "unread"}
           /\ a.kind = "response" => a.status = status
           /\ a.kind = "error" /\ q.op \in Changing => status > 299
<1>1. CASE a = Unread BY <1>1, AnswersTyped
<1>2. CASE q.path # "cli"
  <2>1. PICK page \in Pages(q) :
          a = [kind |-> "response", status |-> status, whole |-> page.read, warned |-> FALSE]
    BY <1>2 DEF Answers, renderV3ProxiedResponse
  <2>2. page.read \in BOOLEAN /\ FALSE \in BOOLEAN BY <2>1 DEF Pages
  <2>3. a \in Replies BY <2>1, <2>2, Zenon DEF Replies
  <2> QED BY <2>1, <2>3
<1>3. CASE q.path = "cli" /\ Bounced(status) /\ a # Unread
  <2>1. a = Error(status) BY <1>3 DEF Answers
  <2>2. a \in Replies /\ a.kind = "error" BY <2>1, AnswersTyped
  <2> QED BY <1>3, <2>2 DEF Bounced
<1>4. CASE q.path = "cli" /\ ~Bounced(status) /\ a # Unread
  <2>1. PICK page \in Pages(q) : a = Render(q, status, page)
    BY <1>4 DEF Answers
  <2>2. /\ page.array \in BOOLEAN /\ page.part \in BOOLEAN /\ page.counted \in BOOLEAN
        /\ page.ids \in {"none", "text", "other"} /\ page.read \in BOOLEAN
    BY <2>1 DEF Pages, IsArray
  <2>3. Renderer(q) \in {"List", "ArrayOfObjects", "SingleObject", "ObjectCount", "ResponseToEmpty"}
    BY DEF Renderer
  <2>4. q.op \in Changing => Renderer(q) # "List"
    BY DEF Renderer, Changing
  <2>5. \/ a = Error(0) /\ Renderer(q) = "List"
        \/ \E whole, warned \in BOOLEAN :
              a = [kind |-> "response", status |-> status, whole |-> whole, warned |-> warned]
    BY <1>4, <2>1, <2>2, <2>3 DEF Render, checkNeedCountWarning
  <2>6. CASE a = Error(0) /\ Renderer(q) = "List" BY <2>4, <2>6, AnswersTyped
  <2>7. ASSUME NEW whole \in BOOLEAN, NEW warned \in BOOLEAN,
               a = [kind |-> "response", status |-> status, whole |-> whole, warned |-> warned]
        PROVE  a \in Replies /\ a.kind = "response" /\ a.status = status
    <3>1. a \in Replies BY <2>7, Zenon DEF Replies
    <3> QED BY <2>7, <3>1
  <2> QED BY <2>5, <2>6, <2>7
<1> QED BY <1>1, <1>2, <1>3, <1>4

\* A call of a change changes, another does not.
LEMMA ChangesMutate ==
    ASSUME NEW q \in ClientRequest, NEW exists \in BOOLEAN
    PROVE  /\ Method(q, exists) \in {"GET", "PUT", "POST", "DELETE"}
           /\ Mutates(Method(q, exists)) <=> q.op \in Changing
<1>1. q.op \in {"read", "list", "write", "delete"} BY DEF ClientRequest
<1>2. CASE q.op \in {"read", "list"} BY <1>2 DEF Method, Mutates, Changing
<1>3. CASE q.op = "delete" BY <1>3 DEF Method, Mutates, Changing
<1>4. CASE q.op = "write" BY <1>4 DEF Method, Mutates, Changing, targetUpdateMethod
<1> QED BY <1>1, <1>2, <1>3, <1>4

\* Where a call goes.
LEMMA AddressTyped ==
    \A q \in ClientRequest : Address(q) \in {"object", "collection", "nowhere"}
BY DEF ClientRequest, Address

\* One attempt keeps the invariant: a status that ends the request is told
\* truly, and while the call is repeated nothing was changed.
LEMMA AttemptSound ==
    ASSUME CallsInv, NEW p \in Procs, NEW meth \in {"GET", "PUT", "POST", "DELETE"},
           NEW at \in {"object", "collection", "nowhere"},
           req[p].step \in {"check", "fetch"}, Attempt(p, meth, at), UNCHANGED CLIWriteEnabled,
           req[p].step = "check" => ~Mutates(meth),
           req[p].step = "fetch" => (Mutates(meth) <=> req[p].ask.op \in Changing)
    PROVE  CallsInv'
<1>1. PICK o \in Outcomes(meth, at) :
        LET r == [req EXCEPT ![p].calls = Append(@, [meth |-> meth, status |-> o[1]]),
                             ![p].changes = @ + o[2],
                             ![p].tries = @ + 1]
        IN  /\ present' = IF o[2] > 0 THEN After(meth) ELSE present
            /\ IF Retried(o[1])
               THEN IF r[p].tries < MaxTries THEN req' = r ELSE Die(r)
               ELSE IF o[1] \in {0, 403} THEN Die(r)
               ELSE FoundOrNot(p, r, o[1]) \/ Answered(p, r, o[1])
  BY Zenon DEF Attempt
<1> DEFINE q == Tried(req[p], meth, o)
           r == [req EXCEPT ![p] = q]
<1>3. /\ o[1] \in Int /\ o[2] \in {0, 1}
      /\ o[2] = 1 => Mutates(meth)
      /\ o[1] = Inactive => o[2] = 0
      /\ o[1] \notin {0, 403, Inactive} =>
           o[1] > 0 /\ o[2] = IF o[1] <= 299 /\ Mutates(meth) THEN 1 ELSE 0
  BY OutcomesTell
<1>4. req[p] \in Slots /\ Sound(req[p]) BY DEF CallsInv
<1>5. /\ q \in Slots /\ q.step = req[p].step /\ q.ask = req[p].ask
      /\ q.changes = o[2] /\ q.permitted = req[p].permitted /\ q.answer = NoAnswer
  <2>1. /\ Tried(req[p], meth, o) \in Slots
        /\ Tried(req[p], meth, o).step = req[p].step
        /\ Tried(req[p], meth, o).ask = req[p].ask
        /\ Tried(req[p], meth, o).changes = req[p].changes + o[2]
        /\ Tried(req[p], meth, o).permitted = req[p].permitted
        /\ Tried(req[p], meth, o).answer = req[p].answer
    <3>1. o[1] \in Int /\ o[2] \in {0, 1} /\ req[p] \in Slots BY <1>3, <1>4
    <3>2. req[p].changes + o[2] \in Nat /\ req[p].tries + 1 \in Nat BY <3>1 DEF Slots
    <3>3. Append(req[p].calls, [meth |-> meth, status |-> o[1]])
            \in Seq([meth : {"GET", "PUT", "POST", "DELETE"}, status : Int])
      BY <3>1 DEF Slots
    <3> QED BY <3>1, <3>2, <3>3 DEF Tried, Slots
  <2>2. req[p].changes = 0 /\ req[p].answer = NoAnswer BY <1>4 DEF Sound
  <2>3. o[2] \in {0, 1} BY <1>3
  <2>4. q = Tried(req[p], meth, o) OBVIOUS
  <2> HIDE DEF q
  <2> QED BY <2>1, <2>2, <2>3, <2>4
<1>6. /\ CLIWriteEnabled => q.permitted
      /\ q.step \in {"chain", "fetch"} /\ q.ask.path = "cli" /\ q.ask.op \in Changing => q.permitted
      /\ q.step = "check" => q.ask.path = "cli" /\ q.ask.op \in Changing
      /\ q.ask.path = "cli" /\ q.changes > 0 => q.permitted
      /\ q.step \in {"check", "fetch"} /\ Tells(q)
  BY <1>3, <1>4, <1>5 DEF Sound, Tells, Mutates
<1>7. /\ present' = IF o[2] > 0 THEN After(meth) ELSE present
      /\ IF Retried(o[1])
         THEN IF r[p].tries < MaxTries THEN req' = r ELSE Die(r)
         ELSE IF o[1] \in {0, 403} THEN Die(r)
         ELSE FoundOrNot(p, r, o[1]) \/ Answered(p, r, o[1])
  <2>1. r = [req EXCEPT ![p].calls = Append(@, [meth |-> meth, status |-> o[1]]),
                        ![p].changes = @ + o[2],
                        ![p].tries = @ + 1]
    BY DEF Tried, CallsInv, Slots
  <2> HIDE DEF r
  <2> QED BY <1>1, <2>1, Zenon
<1> HIDE DEF q
<1>8. r \in [Procs -> Slots] /\ r[p] = q /\ \A s \in Procs \ {p} : r[s] = req[s]
  BY <1>5 DEF CallsInv
<1>9. present' \in BOOLEAN /\ CLIWriteEnabled' \in BOOLEAN
  BY <1>7 DEF CallsInv, After
<1> HIDE DEF r
<1>10. CASE Die(r)
  <2>1. ASSUME NEW s \in Procs
        PROVE  /\ CLIWriteEnabled => r[s].permitted
               /\ r[s].ask.path = "cli" /\ r[s].changes > 0 => r[s].permitted
               /\ Tells(r[s])
    <3>1. CASE s = p BY <1>6, <1>8, <3>1
    <3>2. CASE s # p BY <1>8, <3>2 DEF CallsInv, Sound
    <3> QED BY <3>1, <3>2
  <2> QED BY <1>8, <1>9, <1>10, <2>1, DeadSound DEF CallsInv
<1>11. ASSUME NEW a \in Slots, req' = [r EXCEPT ![p] = a], Sound(a) PROVE CallsInv'
  <2>1. ASSUME NEW s \in Procs PROVE req'[s] \in Slots /\ Sound(req[s])'
    <3>1. CASE s = p BY <1>8, <1>11, <3>1 DEF Sound, Tells
    <3>2. CASE s # p BY <1>8, <1>11, <3>2 DEF CallsInv, Sound, Tells
    <3> QED BY <3>1, <3>2
  <2>2. req' \in [Procs -> Slots] BY <1>8, <1>11
  <2> QED BY <1>9, <2>1, <2>2 DEF CallsInv
<1>12. CASE Retried(o[1]) /\ req' = r
  <2>1. q.changes = 0 BY <1>3, <1>5, <1>12 DEF Retried
  <2>2. Sound(q) BY <1>4, <1>5, <1>6, <2>1 DEF Sound
  <2>3. req' = [r EXCEPT ![p] = q] BY <1>8, <1>12
  <2> QED BY <1>5, <1>11, <2>2, <2>3
<1>13. CASE ~Retried(o[1]) /\ o[1] \notin {0, 403} /\ FoundOrNot(p, r, o[1])
  <2>1. q.changes = 0 /\ ~Mutates(meth) BY <1>3, <1>5, <1>8, <1>13 DEF FoundOrNot
  <2>2. ASSUME NEW b \in {Unread, Error(o[1])},
               req' = [r EXCEPT ![p].step = "idle", ![p].answer = b]
        PROVE  CallsInv'
    <3>1. b \in Replies /\ b.kind \in {"unread", "error"} BY <1>3, AnswersTyped
    <3> DEFINE a == [q EXCEPT !.step = "idle", !.answer = b]
    <3>2. /\ a \in Slots /\ a.step = "idle" /\ a.answer = b /\ a.changes = 0
          /\ a.permitted = q.permitted
      BY <1>5, <2>1, <3>1 DEF Slots
    <3>3. req' = [r EXCEPT ![p] = a] BY <1>8, <2>2
    <3> HIDE DEF a
    <3>4. Sound(a) BY <1>6, <3>1, <3>2 DEF Sound, Tells
    <3> QED BY <1>11, <3>2, <3>3, <3>4
  <2>3. CASE req' = [r EXCEPT ![p].step = "gate", ![p].exists = TRUE, ![p].tries = 0]
    <3> DEFINE a == [q EXCEPT !.step = "gate", !.exists = TRUE, !.tries = 0]
    <3>1. /\ a \in Slots /\ a.step = "gate" /\ a.answer = NoAnswer /\ a.changes = 0
          /\ a.permitted = q.permitted /\ a.ask = q.ask
      BY <1>5, <2>1 DEF Slots
    <3>2. req' = [r EXCEPT ![p] = a] BY <1>8, <2>3 DEF Slots
    <3>3. q.step = "check" BY <1>8, <1>13 DEF FoundOrNot
    <3> HIDE DEF a
    <3>4. Sound(a) BY <1>6, <3>1, <3>3 DEF Sound, Tells
    <3> QED BY <1>11, <3>1, <3>2, <3>4
  <2> QED BY <1>13, <2>2, <2>3, Zenon DEF FoundOrNot
<1>14. CASE ~Retried(o[1]) /\ o[1] \notin {0, 403} /\ Answered(p, r, o[1])
  <2>1. PICK b \in Answers(q.ask, o[1]) : req' = [r EXCEPT ![p].step = "idle", ![p].answer = b]
    BY <1>8, <1>14 DEF Answered
  <2>2. q.step = "fetch" BY <1>8, <1>14 DEF Answered
  <2>3. /\ b \in Replies /\ b.kind \in {"response", "error", "unread"}
        /\ b.kind = "response" => b.status = o[1]
        /\ b.kind = "error" /\ q.ask.op \in Changing => o[1] > 299
    BY <1>3, <1>5, AnswersTell DEF Slots
  <2> DEFINE a == [q EXCEPT !.step = "idle", !.answer = b]
  <2>4. /\ a \in Slots /\ a.step = "idle" /\ a.answer = b /\ a.changes = o[2]
        /\ a.permitted = q.permitted /\ a.ask = q.ask
    BY <1>5, <2>3 DEF Slots
  <2>5. req' = [r EXCEPT ![p] = a] BY <1>8, <2>1
  <2>6. /\ o[2] = IF o[1] <= 299 /\ Mutates(meth) THEN 1 ELSE 0
        /\ Mutates(meth) <=> q.ask.op \in Changing
    BY <1>3, <1>5, <1>14, <2>2 DEF Retried
  <2> HIDE DEF a
  <2>7. Tells(a) BY <1>3, <2>3, <2>4, <2>6 DEF Tells
  <2>8. Sound(a) BY <1>6, <2>4, <2>7, <1>5 DEF Sound
  <2> QED BY <1>11, <2>4, <2>5, <2>8
<1> QED BY <1>7, <1>10, <1>12, <1>13, <1>14

-----------------------------------------------------------------------------
(***************************************************************************)
(* The theorems.                                                           *)
(***************************************************************************)

\* A request that p begins or moves on by one step without a call.
LEMMA MoveSound ==
    ASSUME CallsInv, NEW p \in Procs, NEW a \in Slots, req' = [req EXCEPT ![p] = a],
           Sound(a), UNCHANGED <<present, CLIWriteEnabled>>
    PROVE  CallsInv'
<1>1. ASSUME NEW s \in Procs PROVE req'[s] \in Slots /\ Sound(req[s])'
  <2>1. CASE s = p BY <2>1 DEF CallsInv, Sound, Tells
  <2>2. CASE s # p BY <2>2 DEF CallsInv, Sound, Tells
  <2> QED BY <2>1, <2>2
<1>2. req' \in [Procs -> Slots] BY DEF CallsInv
<1> QED BY <1>1, <1>2 DEF CallsInv

\* The plugin ends p's request with an error of its own, before any call.
LEMMA RefusalSound ==
    ASSUME CallsInv, NEW p \in Procs, req[p].step # "idle", Reply(p, Error(0)),
           UNCHANGED <<present, CLIWriteEnabled>>
    PROVE  CallsInv'
<1> DEFINE a == [req[p] EXCEPT !.step = "idle", !.answer = Error(0)]
<1>1. req[p] \in Slots /\ Sound(req[p]) BY DEF CallsInv
<1>2. Error(0) \in Replies /\ Error(0).kind = "error" BY AnswersTyped
<1>3. /\ a \in Slots /\ a.step = "idle" /\ a.answer = Error(0) /\ a.ask = req[p].ask
      /\ a.changes = req[p].changes /\ a.permitted = req[p].permitted
  BY <1>1, <1>2 DEF Slots
<1>4. req' = [req EXCEPT ![p] = a] BY <1>1 DEF Reply, CallsInv
<1> HIDE DEF a
<1>5. Sound(a) BY <1>1, <1>2, <1>3 DEF Sound, Tells
<1> QED BY <1>3, <1>4, <1>5, MoveSound

\* A request arrives.
LEMMA BeginSound ==
    ASSUME CallsInv, NEW p \in Procs, Begin(p) PROVE CallsInv'
<1>1. PICK q \in Requests : req' = [req EXCEPT ![p] = Fresh(q)] BY DEF Begin, Start
<1>2. q \in ClientRequest BY CallsAssumption
<1>3. Fresh(q) \in Slots /\ Sound(Fresh(q))
  <2> DEFINE a == Fresh(q)
  <2>1. /\ a.step \in {"checkChain", "gate", "chain"} /\ a.ask = q /\ a.changes = 0
        /\ a.permitted = CLIWriteEnabled /\ a.answer = NoAnswer
        /\ q.path = "cli" /\ q.op \in Changing => a.step # "chain"
        /\ a.step # "chain" => q.path = "cli" /\ q.op \in Changing
    <3>1. q.op \in {"read", "list", "write", "delete"} BY <1>2 DEF ClientRequest
    <3> QED BY <3>1 DEF Fresh, Changing
  <2>2. a \in Slots
    <3>1. a.step \in {"idle", "checkChain", "check", "gate", "chain", "fetch"} BY <2>1
    <3>2. CLIWriteEnabled \in BOOLEAN /\ FALSE \in BOOLEAN BY DEF CallsInv
    <3>3. 0 \in Nat /\ <<>> \in Seq([meth : {"GET", "PUT", "POST", "DELETE"}, status : Int])
      OBVIOUS
    <3> QED BY <1>2, <3>1, <3>2, <3>3, AnswersTyped, Zenon DEF Fresh, Slots
  <2> HIDE DEF a
  <2>3. Sound(a) BY <2>1 DEF Sound, Tells
  <2> QED BY <2>2, <2>3 DEF a
<1> QED BY <1>1, <1>3, MoveSound DEF Begin

\* The chains before a call, which end the request or lead on.
LEMMA ChainSound ==
    ASSUME CallsInv, NEW p \in Procs, BaseChain(p) \/ Gate(p) PROVE CallsInv'
<1>1. req[p] \in Slots /\ Sound(req[p]) BY DEF CallsInv
<1>2. req[p].step # "idle" /\ UNCHANGED <<present, CLIWriteEnabled>> BY DEF BaseChain, Gate
<1>3. ASSUME NEW step \in {"check", "chain", "fetch"}, req' = [req EXCEPT ![p].step = step],
             step = "check" => req[p].step = "checkChain",
             step = "chain" => req[p].step = "gate" /\ CLIWriteEnabled,
             step = "fetch" => req[p].step = "chain"
      PROVE  CallsInv'
  <2> DEFINE a == [req[p] EXCEPT !.step = step]
  <2>1. /\ a \in Slots /\ a.step = step /\ a.answer = req[p].answer /\ a.ask = req[p].ask
        /\ a.changes = req[p].changes /\ a.permitted = req[p].permitted
    BY <1>1 DEF Slots
  <2>2. req' = [req EXCEPT ![p] = a] BY <1>3
  <2> HIDE DEF a
  <2>3. Sound(a) BY <1>1, <1>2, <1>3, <2>1 DEF Sound, Tells
  <2> QED BY <1>2, <2>1, <2>2, <2>3, MoveSound
<1>4. CASE Reply(p, Error(0)) BY <1>2, <1>4, RefusalSound
<1>5. CASE BaseChain(p) /\ ~Reply(p, Error(0))
  <2>1. CASE req[p].step = "chain" BY <1>1, <1>3, <1>5, <2>1 DEF BaseChain
  <2>2. CASE req[p].step = "checkChain" BY <1>1, <1>3, <1>5, <2>2 DEF BaseChain
  <2> QED BY <1>5, <2>1, <2>2 DEF BaseChain
<1>6. CASE Gate(p) /\ ~Reply(p, Error(0)) BY <1>3, <1>6 DEF Gate
<1> QED BY <1>4, <1>5, <1>6

\* Nothing has been asked yet.
LEMMA InitSound == Init => CallsInv
<1> SUFFICES ASSUME Init PROVE CallsInv OBVIOUS
<1>1. Unasked \in Slots
  <2>1. Unasked.ask \in ClientRequest
    <3>1. FALSE \in BOOLEAN OBVIOUS
    <3> QED BY <3>1 DEF Unasked, ClientRequest
  <2>2. FALSE \in BOOLEAN /\ 0 \in Nat OBVIOUS
  <2>3. <<>> \in Seq([meth : {"GET", "PUT", "POST", "DELETE"}, status : Int]) OBVIOUS
  <2>4. Unasked = [step |-> "idle", exists |-> FALSE, tries |-> 0, calls |-> <<>>,
                   changes |-> 0, permitted |-> FALSE, answer |-> NoAnswer,
                   ask |-> Unasked.ask]
    BY DEF Unasked
  <2>5. NoAnswer \in Replies BY AnswersTyped
  <2> DEFINE ask == Unasked.ask
  <2> HIDE DEF ask
  <2>6. [step |-> "idle", exists |-> FALSE, tries |-> 0, calls |-> <<>>,
         changes |-> 0, permitted |-> FALSE, answer |-> NoAnswer, ask |-> ask] \in Slots
    BY <2>1, <2>2, <2>3, <2>5, Zenon DEF Slots, ask
  <2> QED BY <2>4, <2>6 DEF ask
<1>2. Unasked.step = "idle" /\ Unasked.changes = 0 /\ Unasked.answer = NoAnswer
  BY DEF Unasked
<1>3. CLIWriteEnabled = FALSE /\ present \in BOOLEAN /\ req = [p \in Procs |-> Unasked]
  BY DEF Init
<1>4. Sound(Unasked) BY <1>2, <1>3, AnswersTyped DEF Sound, Tells
<1> QED BY <1>1, <1>3, <1>4 DEF CallsInv

\* The configuration changes; whether a change was ever permitted is history.
LEMMA ConfigureSound == CallsInv /\ Configure => CallsInv'
<1> SUFFICES ASSUME CallsInv, Configure PROVE CallsInv' OBVIOUS
<1>1. ASSUME NEW s \in Procs PROVE req'[s] \in Slots /\ Sound(req[s])'
  <2>1. req[s] \in Slots /\ Sound(req[s]) BY DEF CallsInv
  <2>2. req'[s] = [req[s] EXCEPT !.permitted = @ \/ ~CLIWriteEnabled] BY DEF Configure
  <2> DEFINE a == [req[s] EXCEPT !.permitted = @ \/ ~CLIWriteEnabled]
  <2>3. (req[s].permitted \/ ~CLIWriteEnabled) \in BOOLEAN OBVIOUS
  <2>4. a \in Slots BY <2>1, <2>3 DEF Slots
  <2>5. /\ a.step = req[s].step /\ a.answer = req[s].answer /\ a.ask = req[s].ask
        /\ a.changes = req[s].changes
        /\ a.permitted <=> req[s].permitted \/ ~CLIWriteEnabled
    BY <2>1 DEF Slots
  <2>6. CLIWriteEnabled' <=> ~CLIWriteEnabled BY DEF Configure
  <2> HIDE DEF a
  <2> QED BY <2>1, <2>2, <2>4, <2>5, <2>6 DEF Sound, Tells, a
<1>2. req' \in [Procs -> Slots] BY <1>1 DEF Configure
<1>3. present' \in BOOLEAN /\ CLIWriteEnabled' \in BOOLEAN BY DEF Configure, CallsInv
<1> QED BY <1>1, <1>2, <1>3 DEF CallsInv

\* Every step keeps the invariant.
LEMMA NextSound == CallsInv /\ [Next]_vars => CallsInv'
<1> SUFFICES ASSUME CallsInv, [Next]_vars PROVE CallsInv' OBVIOUS
<1>1. CASE Others BY <1>1 DEF Others, CallsInv, Sound, Tells
<1>2. CASE Configure BY <1>2, ConfigureSound
<1>3. ASSUME NEW p \in Procs, CheckExists(p) PROVE CallsInv'
  <2>1. ~Mutates("GET") BY DEF Mutates
  <2>2. PICK at \in {Address(req[p].ask), "nowhere"} : Attempt(p, "GET", at)
    BY <1>3 DEF CheckExists
  <2>3. at \in {"object", "collection", "nowhere"} BY AddressTyped DEF CallsInv, Slots
  <2> QED BY <1>3, <2>1, <2>2, <2>3, AttemptSound DEF CheckExists
<1>4. ASSUME NEW p \in Procs, Call(p) PROVE CallsInv'
  <2>1. req[p].ask \in ClientRequest /\ req[p].exists \in BOOLEAN BY DEF CallsInv, Slots
  <2>2. Address(req[p].ask) \in {"object", "collection", "nowhere"} BY <2>1, AddressTyped
  <2> QED BY <1>4, <2>1, <2>2, ChangesMutate, AttemptSound DEF Call
<1>5. ASSUME NEW p \in Procs, RefreshFails(p) PROVE CallsInv'
  <2>1. \A s \in Procs : /\ CLIWriteEnabled => req[s].permitted
                         /\ req[s].ask.path = "cli" /\ req[s].changes > 0 => req[s].permitted
                         /\ Tells(req[s])
    BY DEF CallsInv, Sound
  <2>2. req \in [Procs -> Slots] BY DEF CallsInv
  <2> QED BY <1>5, <2>1, <2>2, DeadSound DEF RefreshFails, CallsInv
<1>6. CASE UNCHANGED vars BY <1>6 DEF vars, CallsInv, Sound, Tells
<1> QED BY <1>1, <1>2, <1>3, <1>4, <1>5, <1>6, BeginSound, ChainSound DEF Next

\* The invariant holds throughout.
LEMMA AlwaysSound == Spec => []CallsInv
BY InitSound, NextSound, PTL DEF Spec

\* A request changes Mashery once at most, and a client can tell from an answer
\* with a status, or from a refusal, whether it did; an answer that is lost or
\* whose body was not read leaves it open.
THEOREM AnswersTellTruly == Spec => []AnswersTellEffects
<1>1. ASSUME CallsInv, NEW p \in Procs
      PROVE  /\ req[p].changes <= 1
             /\ Succeeded(p) =>
                  req[p].changes = IF req[p].ask.op \in {"write", "delete"} THEN 1 ELSE 0
             /\ Failed(p) => req[p].changes = 0
  <2>1. Tells(req[p]) BY <1>1 DEF CallsInv, Sound
  <2> QED BY <2>1 DEF Tells, Succeeded, HasAnswer, Failed, Changing
<1>2. CallsInv => AnswersTellEffects BY <1>1 DEF AnswersTellEffects
<1> QED BY <1>2, AlwaysSound, PTL

\* Nothing is changed through the CLI path unless that was enabled, though the
\* setting is looked at between the existence check and the call.
THEOREM CLIGateHolds == Spec => []CLIChangesPermitted
<1>1. CallsInv => CLIChangesPermitted BY DEF CallsInv, Sound, CLIChangesPermitted
<1> QED BY <1>1, AlwaysSound, PTL
=============================================================================
