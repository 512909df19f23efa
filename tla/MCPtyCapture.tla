---------------------------- MODULE MCPtyCapture ----------------------------
(* PtyCapture for TLC: readers of a ring that is overwritten twice.        *)
EXTENDS PtyCapture, TLC

=============================================================================
