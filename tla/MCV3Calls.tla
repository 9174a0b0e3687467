----------------------------- MODULE MCV3Calls -----------------------------
(***************************************************************************)
(* Values of V3Calls' constants for TLC.                                   *)
(***************************************************************************)
EXTENDS V3Calls, TLC

CONSTANTS p1, p2

OneRequest == {p1}
TwoRequests == {p1, p2}

CLIRequest(op, at, suffix) ==
    [path |-> "cli", op |-> op, at |-> at, suffix |-> suffix, method |-> "",
     anonymous |-> FALSE]

ProxyRequest(op, at, suffix) == [CLIRequest(op, at, suffix) EXCEPT !.path = "proxy"]

MethodRequest(op, at, method) ==
    [CLIRequest(op, at, "") EXCEPT !.path = "proxy-method", !.method = method]

CLIReads ==
    {CLIRequest("read", "object", ""), CLIRequest("read", "collection", ""),
     CLIRequest("read", "collection", ";list"), CLIRequest("read", "object", ";list"),
     CLIRequest("read", "collection", ";count"), CLIRequest("list", "collection", "/"),
     CLIRequest("list", "object", "/")}

CLIWrites ==
    {CLIRequest("write", "object", ""), CLIRequest("delete", "object", "")}

Proxied ==
    {ProxyRequest("read", "object", ""), ProxyRequest("write", "collection", ""),
     ProxyRequest("delete", "object", ""),
     MethodRequest("write", "object", "put"), MethodRequest("write", "collection", "post"),
     MethodRequest("delete", "object", "")}

SuffixRequests == {ProxyRequest("write", "object", ";target-method-put")}
FieldRequests == {[CLIRequest("read", "collection", ";list") EXCEPT !.anonymous = TRUE]}

AllRequests == CLIReads \cup CLIWrites \cup Proxied \cup FieldRequests
=============================================================================
