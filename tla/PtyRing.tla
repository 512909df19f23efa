------------------------------- MODULE PtyRing -------------------------------
(***************************************************************************)
(* The bounded rings of loadables/_ptybroker/server.c (s->history and      *)
(* s->input), the window of output the history keeps, and the answer to    *)
(* CAPTURE that is read from it.  A byte is named by its position in its   *)
(* stream.                                                                 *)
(***************************************************************************)
EXTENDS Integers, Sequences, FiniteSetsExt

CONSTANTS
  History,  \* PB_HISTORY: bytes of the output ring
  Chunk     \* PB_CHUNK: largest packet payload

\* A packet never laps the ring (16 KiB against 1 MiB in the code).
ASSUME RingAssumption == History \in Nat \ {0} /\ Chunk \in 1 .. History

\* Writing the n bytes named first, first+1, ... to ring positions at, at+1, ...
RingPut(ring, size, at, first, n) ==
  [j \in 0 .. size - 1 |->
     LET i == (j - at) % size IN IF i < n THEN first + i ELSE ring[j]]

RingGet(ring, size, at, n) == [i \in 1 .. n |-> ring[(at + i - 1) % size]]

\* status_of: the first byte that the ring still holds.
Oldest(next) == IF next > History THEN next - History ELSE 0

\* Mutants: no overflow check; the end of the window off by one.
CaptureUnchecked(hist, next, off, end) ==
  IF end > next \/ end < off THEN [err |-> "EINVAL", off |-> 0, data |-> <<>>]
  ELSE [err |-> "0", off |-> off,
        data |-> RingGet(hist, History, off, Min({end - off, Chunk}))]
CaptureStrictEnd(hist, next, off, end) ==
  IF off < Oldest(next) THEN [err |-> "EOVERFLOW", off |-> Oldest(next), data |-> <<>>]
  ELSE IF end >= next \/ end < off THEN [err |-> "EINVAL", off |-> 0, data |-> <<>>]
  ELSE [err |-> "0", off |-> off,
        data |-> RingGet(hist, History, off, Min({end - off, Chunk}))]

\* The result of CAPTURE for [off, end) when `next' bytes have been read.
CaptureAnswer(hist, next, off, end) ==
  IF off < Oldest(next) THEN [err |-> "EOVERFLOW", off |-> Oldest(next), data |-> <<>>]
  ELSE IF end > next \/ end < off THEN [err |-> "EINVAL", off |-> 0, data |-> <<>>]
  ELSE [err |-> "0", off |-> off,
        data |-> RingGet(hist, History, off, Min({end - off, Chunk}))]

=============================================================================
