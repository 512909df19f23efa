---------------------------- MODULE MCPtyBroker ----------------------------
(* Instances of PtyBroker for TLC: each request set asks one question.     *)
EXTENDS PtyBroker, TLC

Req(type, a, b) == [type |-> type, a |-> a, b |-> b]

StreamRequests == {Req("CONTROL", 0, 0), Req("OBSERVER", 0, 0), Req("INPUT", 2, 0),
  Req("CAPTURE", 0, 2), Req("CAPTURE", 1, 3), Req("UNKNOWN", 0, 0)}
SeatRequests == {Req("CONTROL", 0, 0), Req("OBSERVER", 0, 0), Req("RESIZE", 2, 0)}
StopRequests == {Req("STATUS", 0, 0), Req("TERMINATE", 0, 0), Req("CONTROL", 0, 0),
  Req("MALFORMED", 0, 0)}
LiveRequests == {Req("STATUS", 0, 0), Req("OBSERVER", 0, 0), Req("TERMINATE", 0, 0)}

Interchangeable == Permutations(Conns)
=============================================================================
