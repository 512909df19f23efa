----------------------------- MODULE MCPtyHandle -----------------------------
(* PtyHandle for TLC.                                                      *)
EXTENDS PtyHandle, TLC

\* Nothing, or an output of two bytes, a status and one more byte.
Silence == <<>>
OutputAndStatus == <<2, 0, 1>>

Interchangeable == Permutations(Procs \ {Root}) \cup Permutations(Pids)
=============================================================================
