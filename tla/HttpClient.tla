------------------------------ MODULE HttpClient ------------------------------
(***************************************************************************)
(* The HTTP client of platform: what it makes of a reply of the network.   *)
(* An Option is a set of at most one element.  The program sends no        *)
(* payload; what a request can have wrong is its URL and its token.        *)
(***************************************************************************)
EXTENDS Naturals, FiniteSets

None == {}
Some(v) == {v}
Option(S) == {o \in SUBSET S : \A v, w \in o : v = w}
Unwrap(o) == CHOOSE v \in o : TRUE
UnwrapOr(o, default) == IF o = None THEN default ELSE Unwrap(o)

\* A Result.  The errors of the HTTP client are told apart by where they come from.
Ok(v) == [ok |-> TRUE, value |-> v]
Err(e) == [ok |-> FALSE, error |-> e]

\* Bodies: a text as it is, bytes that are no UTF-8, or the JSON text of a value.
Text(t) == [is |-> "text", text |-> t]
Binary == [is |-> "binary"]
Json(v) == [is |-> "json", value |-> v]

\* A reply: no connection, a body that breaks off, or a status and a body.
Unreachable == [arrives |-> "never"]
CutOff == [arrives |-> "in part"]
Reply(status, body) == [arrives |-> "whole", status |-> status, body |-> body]

\* Client::raw.
Raw(uri, token, reply) ==
  CASE uri = "invalid" -> Err("InvalidUri")
    [] uri # "invalid" /\ token = "invalid" -> Err("InvalidHeader")
    [] OTHER -> CASE reply = Unreachable -> Err("Remote")
                  [] reply = CutOff -> Err("Hyper")
                  [] reply.arrives = "whole" ->
                       IF reply.body = Binary THEN Err("Body") ELSE Ok(reply)

\* serde_json::from_slice for a type of the program.  Fields the type does not name are
\* left out of the values here, and a field that may be missing is an Option.
FromSlice(body, Type) ==
  IF body.is = "json" /\ body.value \in Type THEN Ok(Some(body.value)) ELSE Err("Serde")

\* Mutant of Request: the status is not looked at.
RequestAnyStatus(uri, token, reply, Type) ==
  LET raw == Raw(uri, token, reply)
  IN  CASE ~raw.ok -> raw
        [] raw.ok /\ reply.body = Text("{}") -> Ok(None)
        [] OTHER -> FromSlice(reply.body, Type)

\* Client::request: only 200 is an answer, and `{}` is taken for no value.
Request(uri, token, reply, Type) ==
  LET raw == Raw(uri, token, reply)
  IN  CASE ~raw.ok -> raw
        [] raw.ok /\ reply.status # 200 -> Err("Remote")
        [] raw.ok /\ reply.status = 200 /\ reply.body = Text("{}") -> Ok(None)
        [] OTHER -> FromSlice(reply.body, Type)
===============================================================================
