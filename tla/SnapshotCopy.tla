---------------------------- MODULE SnapshotCopy ----------------------------
(***************************************************************************)
(* What `ptybroker capture' promises: each reader fixes a window of the    *)
(* output stream once, at the start, and copies it front to back.  It      *)
(* reports success only with the whole window copied; when it fails, what  *)
(* it copied is still a prefix of the window.  It holds bytes of another   *)
(* session, at the same offsets, only if that one got the ID before the    *)
(* copy ended.                                                             *)
(***************************************************************************)
EXTENDS Integers, Sequences

CONSTANT Clients

VARIABLES session, \* the session that has the ID
          length,  \* bytes of its output stream so far
          copy     \* per reader: its state, its window [lo, hi) of session `of',
                   \* what it copied, and the sessions it may come from

Grow ==
  /\ length' \in Nat /\ length' > length
  /\ UNCHANGED <<session, copy>>

Replace ==
  /\ session' = session + 1 /\ length' = 0
  /\ UNCHANGED copy

\* The bytes lo, lo+1, ... of the stream, n of them.
Slice(lo, n) == [i \in 1 .. n |-> lo + i - 1]

Begin(c) ==
  /\ copy[c].st = "idle"
  /\ \E lo \in 0 .. length :
       copy' = [copy EXCEPT ![c] = [st |-> "copying", of |-> session, lo |-> lo,
                                    hi |-> length, out |-> <<>>, by |-> {session}]]
  /\ UNCHANGED <<session, length>>

Extend(c, to) ==
  /\ copy[c].st = "copying"
  /\ \E n \in Len(copy[c].out) .. copy[c].hi - copy[c].lo :
       copy' = [copy EXCEPT ![c] = [st |-> to, of |-> @.of, lo |-> @.lo, hi |-> @.hi,
                                    out |-> Slice(@.lo, n), by |-> @.by]]
  /\ UNCHANGED <<session, length>>

Consult(c) ==
  /\ copy[c].st = "copying"
  /\ copy' = [copy EXCEPT ![c].by = @ \union {session}]
  /\ UNCHANGED <<session, length>>

Finish(c) ==
  /\ copy[c].st = "copying"
  /\ Len(copy[c].out) = copy[c].hi - copy[c].lo
  /\ copy' = [copy EXCEPT ![c].st = "done"]
  /\ UNCHANGED <<session, length>>

GiveUp(c) ==
  /\ copy[c].st = "idle"
  /\ copy' = [copy EXCEPT ![c].st = "failed"]
  /\ UNCHANGED <<session, length>>

Init ==
  /\ session = 1 /\ length = 0
  /\ copy = [c \in Clients |-> [st |-> "idle", of |-> 1, lo |-> 0, hi |-> 0, out |-> <<>>,
                                by |-> {}]]

Next ==
  \/ Grow \/ Replace
  \/ \E c \in Clients : \/ Begin(c) \/ Extend(c, "copying") \/ Extend(c, "failed")
                        \/ Consult(c) \/ Finish(c) \/ GiveUp(c)

Spec == Init /\ [][Next]_<<session, length, copy>>

=============================================================================
