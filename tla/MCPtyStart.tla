----------------------------- MODULE MCPtyStart -----------------------------
(* PtyStart for TLC: attempts that race for one name.                      *)
EXTENDS PtyStart, TLC

Interchangeable == Permutations(Attempts)
=============================================================================
