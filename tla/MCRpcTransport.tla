--------------------------- MODULE MCRpcTransport ---------------------------
(* Small instances of RpcTransport for TLC. *)
EXTENDS RpcTransport

CONSTANTS c1, c2

OneSocket == {c1}
OneRequest == {c2}

Request(id, method, token) ==
  [object |-> TRUE, id |-> id, method |-> method, token |-> token, calls |-> <<>>]
Item == [object |-> FALSE, id |-> Null, method |-> "", token |-> "none", calls |-> <<>>]
Single(request) == [shape |-> "object", items |-> <<request>>]

\* A batch with an item that is no object, a method that is missing and
\* one without its token; calls of every kind inside a multicall; no JSON at all.
SocketFrames ==
  {[shape |-> "array", items |-> <<Request(1, "pause", "none"), Item, Request(2, "", "right"),
                                   Request(3, "pause", "right")>>],
   Single([Request(1, "multicall", "none") EXCEPT !.calls =
             <<Request(0, "pause", "wrong"), Request(0, "multicall", "right"),
               Request(0, "pause", "right")>>]),
   [shape |-> "garbage", items |-> <<>>]}

PostBodies == {Single(Request(2, "shutdown", "right"))}

GetQueries ==
  {[method |-> "", id |-> Null, params |-> "none"],
   [method |-> "", id |-> Null, params |-> "value",
    value |-> Single(Request(2, "pause", "right"))],
   [method |-> "pause", id |-> 1, params |-> "none"]}

ServerConfigs ==
  {[secret |-> TRUE, basic |-> FALSE, tls |-> TRUE],
   [secret |-> FALSE, basic |-> TRUE, tls |-> FALSE]}
=============================================================================
