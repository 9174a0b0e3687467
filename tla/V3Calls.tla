------------------------------ MODULE V3Calls ------------------------------
(***************************************************************************)
(* What the engine asks of Mashery's V3 API for a Vault operation, and     *)
(* what the client gets to see of the answer: on the CLI path              *)
(* (roles/<name>/v3/<path>) and on the two proxy paths (.../proxy/v3/<path>*)
(* and .../proxy/v3-method/<method>/<path>).                               *)
(*                                                                         *)
(* Mashery is a collection with one object of interest, which others       *)
(* create, change and delete as well.  The role's limits, token and quota  *)
(* are RoleService's; here the chain before the call passes or fails.      *)
(***************************************************************************)
EXTENDS Integers, Sequences

CONSTANTS
    Procs,     \* request slots
    Requests,  \* what clients ask for
    Elsewhere, \* whether others create and delete the object
    Faults     \* whether Mashery refuses calls, calls fail and bodies do not arrive

\* The path's resource, what follows it, the URL's method for proxy/v3-method,
\* and whether the fields asked for leave the id out.
ClientRequest ==
    [path : {"cli", "proxy", "proxy-method"}, op : {"read", "list", "write", "delete"},
     at : {"object", "collection"}, suffix : {"", "/", ";list", ";count", ";target-method-put"},
     method : {"", "put", "post"}, anonymous : BOOLEAN]

ASSUME CallsAssumption ==
    /\ Requests \subseteq ClientRequest
    /\ Elsewhere \in BOOLEAN /\ Faults \in BOOLEAN

VARIABLES
    present,          \* Mashery: whether the object is there
    CLIWriteEnabled,  \* the configuration in memory
    req               \* req[p]: request p, kept once answered until the next

vars == <<present, CLIWriteEnabled, req>>

(***************************************************************************)
(* Which call a request makes.                                             *)
(***************************************************************************)

\* Only the read of a ;list or ;count and a list take the end of the path off;
\* in the pattern of proxy/v3 the path's .* takes in the optional suffix.
Address(q) ==
    IF \/ q.suffix = ""
       \/ q.path = "cli" /\ q.op = "read" /\ q.suffix \in {";list", ";count"}
       \/ q.path = "cli" /\ q.op = "list" /\ q.suffix = "/"
    THEN q.at ELSE "nowhere"

targetUpdateMethod(q) ==
    IF q.path = "proxy-method" /\ q.method = "put" THEN "PUT" ELSE "POST"

\* exists: the answer of the existence check, for a write on the CLI path.
Method(q, exists) ==
    CASE q.op \in {"read", "list"} -> "GET"
      [] q.op = "delete" -> "DELETE"
      [] q.op = "write" /\ q.path = "cli" -> IF exists THEN "PUT" ELSE "POST"
      [] q.op = "write" /\ q.path # "cli" -> targetUpdateMethod(q)

(***************************************************************************)
(* Mashery (external).  A refused call changes nothing; a call that fails  *)
(* on the way may have been served.                                        *)
(***************************************************************************)
Nominal(meth, at) ==
    CASE at = "nowhere" -> 404
      [] at = "collection" -> IF meth \in {"GET", "POST"} THEN 200 ELSE 400
      [] at = "object" -> IF meth = "POST" THEN 400 ELSE IF present THEN 200 ELSE 404

Mutates(meth) == meth # "GET"

After(meth) == IF meth = "DELETE" THEN FALSE ELSE IF meth = "POST" THEN TRUE ELSE present

\* The status and the number of changes a call can come to: 0 for no status,
\* and a 403 that names an inactive developer apart from other ones.
Inactive == -403

Outcomes(meth, at) ==
    LET n == Nominal(meth, at)
        c == IF Mutates(meth) /\ n = 200 THEN 1 ELSE 0
    IN  {<<n, c>>} \cup
        IF Faults THEN {<<Inactive, 0>>, <<403, 0>>, <<500, 0>>, <<0, 0>>, <<0, c>>} ELSE {}

(***************************************************************************)
(* Answers to the client.                                                  *)
(***************************************************************************)
NoAnswer == [kind |-> "none", status |-> 0, whole |-> TRUE, warned |-> FALSE]

Error(status) == [NoAnswer EXCEPT !.kind = "error", !.status = status]

\* The status had come, its body could not be read: an error without the status.
Unread == [NoAnswer EXCEPT !.kind = "unread"]

Lost == [NoAnswer EXCEPT !.kind = "lost"]

\* bounceErrorCodes: 403, 404 and what else is no success.
Bounced(status) == status > 299

\* The renderers, by what they make of the body.
Renderer(q) ==
    CASE q.op = "list" -> "List"
      [] q.op = "read" /\ q.suffix = ";list" -> "ArrayOfObjects"
      [] q.op = "read" /\ q.suffix = ";count" -> "ObjectCount"
      [] q.op = "delete" -> "ResponseToEmpty"
      [] OTHER -> "SingleObject"

\* X-Total-Count is there and a number, and more than the objects returned.
checkNeedCountWarning(page) == page.counted /\ page.part

\* The list leaves out objects without an id and says so; ;list leaves out,
\* and does not say so, those whose id is not a string with something in it
\* (identify).
Render(q, status, page) ==
    LET more == checkNeedCountWarning(page)
        say(whole, warned) ==
            [kind |-> "response", status |-> status, whole |-> whole, warned |-> warned]
    IN  CASE Renderer(q) = "List" ->
               IF ~page.read THEN Unread ELSE IF ~page.array THEN Error(0)
               ELSE say(page.ids # "none", more \/ page.ids = "none")
          [] Renderer(q) = "ArrayOfObjects" ->
               IF page.read /\ page.array THEN say(page.ids = "text", more)
               ELSE say(page.read, TRUE)
          [] Renderer(q) = "SingleObject" -> say(page.read, page.array \/ ~page.read)
          [] Renderer(q) \in {"ObjectCount", "ResponseToEmpty"} -> say(TRUE, FALSE)

\* renderV3ProxiedResponse: status, body and the X- headers as they came.
renderV3ProxiedResponse(status, page) ==
    [kind |-> "response", status |-> status, whole |-> page.read, warned |-> FALSE]

\* What comes of a call: an object, or a page of objects with whatever ids they
\* have, which may be part of a larger collection and come with its count or
\* without; and whether the renderer can read it.
IsArray(q) == q.at = "collection" /\ q.op \in {"read", "list"}

Pages(q) ==
    [array : {IsArray(q)}, part : IF IsArray(q) THEN BOOLEAN ELSE {FALSE}, counted : BOOLEAN,
     ids : IF q.anonymous THEN {"none"} ELSE {"text", "other"},
     read : IF Faults THEN BOOLEAN ELSE {TRUE}]

\* On the CLI path bounceErrorCodes reads the body before it looks at the
\* status, and without it ends what was served in an error, too.
Answers(q, status) ==
    IF q.path # "cli" THEN {renderV3ProxiedResponse(status, page) : page \in Pages(q)}
    ELSE (IF Faults THEN {Unread} ELSE {})
           \cup IF Bounced(status) THEN {Error(status)}
                ELSE {Render(q, status, page) : page \in Pages(q)}

(***************************************************************************)
(* The requests.                                                           *)
(***************************************************************************)
Fresh(q) ==
    [step |-> IF q.path = "cli" /\ q.op = "write" THEN "checkChain"
              ELSE IF q.path = "cli" /\ q.op = "delete" THEN "gate" ELSE "chain",
     ask |-> q, exists |-> FALSE, tries |-> 0, calls |-> <<>>, changes |-> 0,
     permitted |-> CLIWriteEnabled, answer |-> NoAnswer]

\* Slip: the delete is not subject to the setting.
UngatedDelete(q) ==
    [Fresh(q) EXCEPT !.step = IF @ = "gate" THEN "chain" ELSE @]

Start(q) == Fresh(q)

Begin(p) ==
    /\ req[p].step = "idle"
    /\ \E q \in Requests : req' = [req EXCEPT ![p] = Start(q)]
    /\ UNCHANGED <<present, CLIWriteEnabled>>

Reply(p, a) == req' = [req EXCEPT ![p].step = "idle", ![p].answer = a]

\* A nil response is dereferenced: the process dies with all its requests.
Die(r) ==
    req' = [p \in Procs |->
              IF r[p].step = "idle" THEN r[p]
              ELSE [r[p] EXCEPT !.step = "idle", !.answer = Lost]]

\* makeBaseV3InvocationChain, or that of the existence check: the role's
\* limits, or its token or the storage, may end the request.
BaseChain(p) ==
    /\ req[p].step \in {"checkChain", "chain"}
    /\ \/ Reply(p, Error(0))
       \/ req' = [req EXCEPT ![p].step = IF @ = "chain" THEN "fetch" ELSE "check"]
    /\ UNCHANGED <<present, CLIWriteEnabled>>

\* DoIfCLIWriteEnabled, and the refusal of a write without data.
Gate(p) ==
    /\ req[p].step = "gate"
    /\ \/ ~CLIWriteEnabled /\ Reply(p, Error(0))
       \/ CLIWriteEnabled /\ req[p].ask.op = "write" /\ Reply(p, Error(0))
       \/ CLIWriteEnabled /\ req' = [req EXCEPT ![p].step = "chain"]
    /\ UNCHANGED <<present, CLIWriteEnabled>>

(***************************************************************************)
(* doFetchWithErrorHandling: one attempt.                                  *)
(***************************************************************************)
MaxTries == 3

\* Slip: a call that failed on the way is made again.
RetriedStatus(status) == status \in {0, Inactive}

Retried(status) == status = Inactive

\* v3ObjectExists, whose answer picks the create or the update handler.
FoundOrNot(p, r, status) ==
    /\ r[p].step = "check"
    /\ \/ Faults /\ req' = [r EXCEPT ![p].step = "idle", ![p].answer = Unread]
       \/ Bounced(status) /\ req' = [r EXCEPT ![p].step = "idle", ![p].answer = Error(status)]
       \/ /\ ~Bounced(status)
          /\ req' = [r EXCEPT ![p].step = "gate", ![p].exists = TRUE, ![p].tries = 0]

\* What follows fetchV3Resource, writeToV3Resource and deleteV3Resource.
Answered(p, r, status) ==
    /\ r[p].step = "fetch"
    /\ \E a \in Answers(r[p].ask, status) :
         req' = [r EXCEPT ![p].step = "idle", ![p].answer = a]

Attempt(p, meth, at) ==
    \E o \in Outcomes(meth, at) :
        LET r == [req EXCEPT ![p].calls = Append(@, [meth |-> meth, status |-> o[1]]),
                             ![p].changes = @ + o[2],
                             ![p].tries = @ + 1]
        IN  /\ present' = IF o[2] > 0 THEN After(meth) ELSE present
            /\ IF Retried(o[1])
               THEN IF r[p].tries < MaxTries THEN req' = r ELSE Die(r)
               ELSE IF o[1] \in {0, 403} THEN Die(r)
               ELSE FoundOrNot(p, r, o[1]) \/ Answered(p, r, o[1])

\* The check asks for the path without the slash the calls put before it; what
\* the client library makes of that is left open.
CheckExists(p) ==
    /\ req[p].step = "check"
    /\ \E at \in {Address(req[p].ask), "nowhere"} : Attempt(p, "GET", at)
    /\ UNCHANGED CLIWriteEnabled

Call(p) ==
    /\ req[p].step = "fetch"
    /\ Attempt(p, Method(req[p].ask, req[p].exists), Address(req[p].ask))
    /\ UNCHANGED CLIWriteEnabled

\* The refresh of the token within the loop fails.
RefreshFails(p) ==
    /\ Faults
    /\ req[p].step \in {"check", "fetch"}
    /\ Die(req)
    /\ UNCHANGED <<present, CLIWriteEnabled>>

(***************************************************************************)
(* The specification.                                                      *)
(***************************************************************************)
Unasked ==
    [step |-> "idle", exists |-> FALSE, tries |-> 0, calls |-> <<>>, changes |-> 0,
     permitted |-> FALSE, answer |-> NoAnswer,
     ask |-> [path |-> "cli", op |-> "read", at |-> "object", suffix |-> "",
              method |-> "", anonymous |-> FALSE]]

Init ==
    /\ present \in BOOLEAN
    /\ CLIWriteEnabled = FALSE
    /\ req = [p \in Procs |-> Unasked]

Others ==
    /\ Elsewhere
    /\ present' = ~present
    /\ UNCHANGED <<CLIWriteEnabled, req>>

\* storeConfiguration with enable_cli_v3_write; permitted is history.
Configure ==
    /\ CLIWriteEnabled' = ~CLIWriteEnabled
    /\ req' = [p \in Procs |-> [req[p] EXCEPT !.permitted = @ \/ ~CLIWriteEnabled]]
    /\ UNCHANGED present

Next ==
    \/ Others \/ Configure
    \/ \E p \in Procs :
         Begin(p) \/ BaseChain(p) \/ Gate(p) \/ CheckExists(p) \/ Call(p) \/ RefreshFails(p)

Spec == Init /\ [][Next]_vars

(***************************************************************************)
(* Properties.                                                             *)
(***************************************************************************)
HasAnswer(p) == req[p].step = "idle" /\ req[p].answer.kind \in {"response", "error"}

Succeeded(p) == HasAnswer(p) /\ req[p].answer.kind = "response" /\ req[p].answer.status <= 299

Failed(p) ==
    /\ req[p].step = "idle"
    /\ \/ req[p].answer.kind = "error"
       \/ req[p].answer.kind = "response" /\ req[p].answer.status > 299

\* A client can tell from its answer what became of its request: a success means
\* that the change was made, a refusal or a status of failure that nothing was
\* changed in Mashery.  An answer that is lost, or an error because its body was
\* not read, leaves that open; but a request changes Mashery once at most,
\* however often the call was made and whatever became of its answer
\* (doFetchWithErrorHandling, bounceErrorCodes, renderV3ProxiedResponse).
AnswersTellEffects ==
    \A p \in Procs :
        /\ req[p].step = "idle" => req[p].changes <= 1
        /\ Succeeded(p) => req[p].changes = IF req[p].ask.op \in {"write", "delete"} THEN 1 ELSE 0
        /\ Failed(p) => req[p].changes = 0

\* Nothing is changed through the CLI path while writes are disabled: not by
\* any operation of the path, and not by the existence check, which goes out
\* to Mashery before the setting is looked at (DoIfCLIWriteEnabled).
CLIChangesPermitted ==
    \A p \in Procs : req[p].ask.path = "cli" /\ req[p].changes > 0 => req[p].permitted

\* The CLI path shows every object it got from Mashery, or warns that there are
\* more or that it could not show them (renderV3ListResponse, identify,
\* renderV3ArrayOfObjects, renderV3SingleObjectResponse).
ObjectsShownOrWarned ==
    \A p \in Procs :
        Succeeded(p) /\ req[p].ask.path = "cli" => req[p].answer.whole \/ req[p].answer.warned

\* A write on the CLI path of an object that is not there is a POST.
CLIWritesCreate ==
    \A p \in Procs :
        LET r == req[p]
        IN  HasAnswer(p) /\ r.ask.path = "cli" /\ r.ask.op = "write"
              /\ r.calls # <<>> /\ r.calls[Len(r.calls)].status = 404
                => r.calls[Len(r.calls)].meth # "GET"

\* Whatever status Mashery answers a proxied call with, the client gets it,
\* unless the call is made again.
ProxyPassesAnswers ==
    \A p \in Procs :
        LET r == req[p]
        IN  r.step = "idle" /\ r.ask.path # "cli" /\ r.calls # <<>> /\ r.calls[Len(r.calls)].status > 0
                => r.answer.status = r.calls[Len(r.calls)].status

\* The suffix ;target-method-put makes a proxied write a PUT.
SuffixSelectsMethod ==
    \A p \in Procs :
        LET r == req[p]
        IN  r.ask.path = "proxy" /\ r.ask.op = "write" /\ r.ask.suffix = ";target-method-put"
                => \A i \in DOMAIN r.calls : r.calls[i].meth = "PUT"
=============================================================================
