------------------------------ MODULE PtyHandle ------------------------------
(***************************************************************************)
(* The handles of the ptybroker builtin (loadables/ptybroker.c): a table   *)
(* per shell process that attach fills, detach empties, fork copies and    *)
(* enable -d discards, and receive, which delivers one event at a time and *)
(* resumes an event whose delivery was cut short.                          *)
(*                                                                         *)
(* A handle is known to the user as a token pb:PID:GENERATION:SLOT.  A     *)
(* token is text: it can be kept in a variable, inherited by a subshell or *)
(* passed back from one, so every process may try every token ever issued. *)
(***************************************************************************)
EXTENDS Naturals, Sequences, FiniteSets

CONSTANTS Procs,       \* shell processes
          Root,        \* the first of them
          Pids,        \* process ids the kernel gives out
          NoPid,       \* 0, which is no process id
          Reuse,       \* the kernel gives the pid of a dead process again
          NSlots,      \* BW_HANDLES
          MaxSeed,     \* UINT64_MAX >> 1
          MaxGen,      \* UINT64_MAX
          MaxConns,    \* bound: connections the service grants
          Sizes,       \* payload bytes of the output events sent on every
                       \* connection, 0 for a status event
          ShortWrites  \* bound: deliveries may be cut short

ASSUME HandleAssumption ==
  /\ Root \in Procs /\ Reuse \in BOOLEAN /\ ShortWrites \in BOOLEAN
  /\ NSlots \in Nat \ {0} /\ MaxConns \in Nat
  /\ MaxSeed \in Nat /\ MaxGen \in Nat /\ MaxSeed < MaxGen
  /\ NoPid \notin Pids /\ Sizes \in Seq(Nat)

VARIABLES
  life,      \* per process: "unborn", "alive" or "dead"
  pid,       \* per process: getpid()
  tab,       \* per process: bw_handles
  gen,       \* per process: bw_generation
  loaded,    \* per process: bw_exit_registered
  fds,       \* per process: the connections it has a descriptor of
  ran,       \* per process: it has run a ptybroker command itself
  granted,   \* connections the service has accepted, numbered from 1
  issued,    \* every token bound to a variable, with whom and what it was for
  taken,     \* per connection: packets read from it
  out,       \* per connection: offsets of the bytes written to OUTFD
  reported   \* per connection: events bound to EVENTVAR

vars == <<life, pid, tab, gen, loaded, fds, ran, granted, issued, taken, out, reported>>
procVars == <<life, pid, ran>>
eventVars == <<taken, out, reported>>

Slots == 0..(NSlots - 1)
Conns == 1..MaxConns

\* What memset leaves in a slot.
NoHandle == [active |-> FALSE, owner |-> NoPid, generation |-> 0, fd |-> 0,
             pending |-> FALSE, event |-> 0, written |-> 0]

\* Stream offset of the first byte of an event.
Offset[n \in 0..(Len(Sizes) + 1)] ==
  IF n <= 1 THEN 0 ELSE Offset[n - 1] + Sizes[n - 1]

Init ==
  /\ life = [p \in Procs |-> IF p = Root THEN "alive" ELSE "unborn"]
  /\ \E n \in Pids : pid = [p \in Procs |-> IF p = Root THEN n ELSE NoPid]
  /\ tab = [p \in Procs |-> [s \in Slots |-> NoHandle]]
  /\ gen = [p \in Procs |-> 0] /\ loaded = [p \in Procs |-> FALSE]
  /\ fds = [p \in Procs |-> {}] /\ ran = [p \in Procs |-> FALSE]
  /\ granted = 0 /\ issued = {}
  /\ taken = [c \in Conns |-> 0] /\ out = [c \in Conns |-> <<>>]
  /\ reported = [c \in Conns |-> <<>>]

-----------------------------------------------------------------------------
(* What every command does first.                                          *)

\* Mutant: a handle of the parent is left alone instead of discarded.
ForeignNever(p, s) == FALSE

\* A handle that fork copied into this process.
Foreign(p, s) == tab[p][s].active /\ tab[p][s].owner # pid[p]

Initialized(p) == [s \in Slots |-> IF Foreign(p, s) THEN NoHandle ELSE tab[p][s]]
OwnFds(p) == fds[p] \ {tab[p][s].fd : s \in {z \in Slots : Foreign(p, z)}}

\* The generation a command starts from: the one in memory, or after a load of
\* the module a random seed.  Two seeds of one process are assumed to be out of
\* reach of each other: no token of this pid lies ahead of a new seed.
Generations(p) ==
  IF loaded[p] THEN {gen[p]}
  ELSE {n \in 0..MaxSeed : \A t \in issued : t.owner = pid[p] => t.generation <= n}

\* A command of p leaves this table and generation behind.
Command(p, table, n, open) ==
  /\ life[p] = "alive"
  /\ tab' = [tab EXCEPT ![p] = table] /\ gen' = [gen EXCEPT ![p] = n]
  /\ loaded' = [loaded EXCEPT ![p] = TRUE]
  /\ fds' = [fds EXCEPT ![p] = open] /\ ran' = [ran EXCEPT ![p] = TRUE]
  /\ UNCHANGED <<life, pid>>

\* Mutant: the generation is not compared.
FindAnyGeneration(p, t) ==
  /\ t.owner = pid[p]
  /\ Initialized(p)[t.slot].active /\ Initialized(p)[t.slot].owner = pid[p]

\* bw_find, after bw_initialize: process p accepts token t.
Find(p, t) ==
  /\ t.owner = pid[p]
  /\ LET h == Initialized(p)[t.slot]
     IN h.active /\ h.owner = pid[p] /\ h.generation = t.generation

-----------------------------------------------------------------------------
(* The commands.                                                           *)

\* The first slot that is not active.
FreeSlot(p, s) ==
  /\ ~Initialized(p)[s].active
  /\ \A z \in 0..(s - 1) : Initialized(p)[z].active

\* attach refuses when the generations are used up.
MayIssue(n) == n < MaxGen

\* attach: the service grants a connection and the token is bound.  Of the
\* slot only the owner, the generation, the descriptor and the flag are set.
Attach(p, s, n) ==
  /\ n \in Generations(p) /\ FreeSlot(p, s) /\ MayIssue(n)
  /\ granted < MaxConns
  /\ LET h == [Initialized(p)[s] EXCEPT !.active = TRUE, !.owner = pid[p],
                 !.generation = n + 1, !.fd = granted + 1]
     IN Command(p, [Initialized(p) EXCEPT ![s] = h], n + 1, OwnFds(p) \cup {granted + 1})
  /\ granted' = granted + 1
  /\ issued' = issued \cup {[proc |-> p, owner |-> pid[p], generation |-> n + 1,
                             slot |-> s, conn |-> granted + 1]}
  /\ UNCHANGED eventVars

\* attach, and the token cannot be bound: the connection is closed again, the
\* generation stays used.
AttachUnbound(p, s, n) ==
  /\ n \in Generations(p) /\ FreeSlot(p, s) /\ MayIssue(n)
  /\ granted < MaxConns
  /\ Command(p, [Initialized(p) EXCEPT ![s] = NoHandle], n + 1, OwnFds(p))
  /\ granted' = granted + 1
  /\ UNCHANGED <<issued, eventVars>>

\* Mutant: detach clears the flag alone, and an event waits in the slot.
DroppedFlag(h) == [h EXCEPT !.active = FALSE]

\* memset
Dropped(h) == NoHandle

Detach(p, t) ==
  /\ Find(p, t)
  /\ LET h == Initialized(p)[t.slot]
     IN Command(p, [Initialized(p) EXCEPT ![t.slot] = Dropped(h)], gen[p], OwnFds(p) \ {h.fd})
  /\ UNCHANGED <<granted, issued, eventVars>>

\* The event that receive works on: the retained one, or the next packet.
Current(h) ==
  IF h.pending THEN h
  ELSE [h EXCEPT !.pending = TRUE, !.event = taken[h.fd] + 1, !.written = 0]

\* receive writes k more bytes of the event.  It stops there, with the event
\* retained, when the deadline passes, a signal comes or a write fails, or when
\* EVENTVAR cannot be bound; else the event is reported and forgotten.
Receive(p, t, k, bound) ==
  /\ Find(p, t)
  /\ LET h == Current(Initialized(p)[t.slot])
         c == h.fd
         left == Sizes[h.event] - h.written
         done == k = left /\ bound
     IN /\ h.event <= Len(Sizes) /\ k <= left /\ (ShortWrites \/ done)
        /\ Command(p, [Initialized(p) EXCEPT ![t.slot] =
                         IF done THEN [h EXCEPT !.pending = FALSE, !.written = 0]
                         ELSE [h EXCEPT !.written = @ + k]], gen[p], OwnFds(p))
        /\ taken' = [taken EXCEPT ![c] = IF Initialized(p)[t.slot].pending THEN @ ELSE @ + 1]
        /\ out' = [out EXCEPT ![c] = @ \o [j \in 1..k |-> Offset[h.event] + h.written + j - 1]]
        /\ reported' = [reported EXCEPT ![c] = IF done THEN Append(@, h.event) ELSE @]
  /\ UNCHANGED <<granted, issued>>

\* Every command that leaves the table alone: fd, those without a handle, and
\* each of the above when it is refused or when no packet comes in time.
OtherCommand(p, n) ==
  /\ n \in Generations(p)
  /\ Command(p, Initialized(p), n, OwnFds(p))
  /\ UNCHANGED <<granted, issued, eventVars>>

-----------------------------------------------------------------------------
(* What happens to the shell.                                              *)

\* enable -d and enable -f: bw_clear, and fresh statics.
Reload(p) ==
  /\ life[p] = "alive" /\ loaded[p]
  /\ tab' = [tab EXCEPT ![p] = [s \in Slots |-> NoHandle]]
  /\ fds' = [fds EXCEPT ![p] = @ \ {tab[p][s].fd : s \in {z \in Slots : tab[p][z].active}}]
  /\ gen' = [gen EXCEPT ![p] = 0] /\ loaded' = [loaded EXCEPT ![p] = FALSE]
  /\ UNCHANGED <<procVars, granted, issued, eventVars>>

\* A subshell: memory and descriptors are copied, the pid is new.
Fork(p, q, n) ==
  /\ life[p] = "alive" /\ life[q] = "unborn" /\ n \in Pids
  /\ \A r \in Procs : pid[r] = n => Reuse /\ life[r] = "dead"
  /\ life' = [life EXCEPT ![q] = "alive"] /\ pid' = [pid EXCEPT ![q] = n]
  /\ tab' = [tab EXCEPT ![q] = tab[p]] /\ gen' = [gen EXCEPT ![q] = gen[p]]
  /\ loaded' = [loaded EXCEPT ![q] = loaded[p]] /\ fds' = [fds EXCEPT ![q] = fds[p]]
  /\ UNCHANGED <<ran, granted, issued, eventVars>>

Exit(p) ==
  /\ life[p] = "alive"
  /\ life' = [life EXCEPT ![p] = "dead"]
  /\ tab' = [tab EXCEPT ![p] = [s \in Slots |-> NoHandle]]
  /\ fds' = [fds EXCEPT ![p] = {}]
  /\ UNCHANGED <<pid, gen, loaded, ran, granted, issued, eventVars>>

\* No shell is left.
Finished == (\A p \in Procs : life[p] # "alive") /\ UNCHANGED vars

Next ==
  \/ \E p \in Procs :
       \/ \E n \in 0..MaxGen : OtherCommand(p, n)
       \/ \E s \in Slots, n \in 0..MaxGen : Attach(p, s, n) \/ AttachUnbound(p, s, n)
       \/ \E t \in issued : Detach(p, t)
       \/ \E t \in issued, bound \in BOOLEAN :
            \E k \in 0..Offset[Len(Sizes) + 1] : Receive(p, t, k, bound)
       \/ Reload(p) \/ Exit(p)
       \/ \E q \in Procs, n \in Pids : Fork(p, q, n)
  \/ Finished

Spec == Init /\ [][Next]_vars

-----------------------------------------------------------------------------
TypeOK ==
  /\ life \in [Procs -> {"unborn", "alive", "dead"}] /\ pid \in [Procs -> Pids \cup {NoPid}]
  /\ tab \in [Procs -> [Slots -> [active : BOOLEAN, owner : Pids \cup {NoPid}, generation : 0..MaxGen,
                                  fd : 0..MaxConns, pending : BOOLEAN,
                                  event : 0..Len(Sizes), written : Nat]]]
  /\ gen \in [Procs -> 0..MaxGen] /\ loaded \in [Procs -> BOOLEAN]
  /\ fds \in [Procs -> SUBSET Conns] /\ ran \in [Procs -> BOOLEAN]
  /\ granted \in 0..MaxConns
  /\ issued \subseteq [proc : Procs, owner : Pids, generation : 0..MaxGen, slot : Slots, conn : Conns]
  /\ taken \in [Conns -> 0..Len(Sizes)]
  /\ out \in [Conns -> Seq(Nat)] /\ reported \in [Conns -> Seq(Nat)]

\* "Handles belong to the creating Bash process": a token that bw_find accepts
\* was issued to that very process, and the slot holds the connection it was
\* issued for.  Tokens of subshells, of detached handles and of earlier loads
\* of the module are refused even when their slot is in use again.
HandleBelongs ==
  \A p \in Procs, t \in issued :
    life[p] = "alive" /\ Find(p, t) => /\ t.proc = p
                                      /\ Initialized(p)[t.slot].fd = t.conn

\* Descriptors and table agree, whatever was attached, refused, forked or
\* reloaded, and a subshell that has run a command of its own does not keep a
\* connection of its parent open behind the parent's detach.
Descriptors ==
  \A p \in Procs :
    /\ fds[p] = {tab[p][s].fd : s \in {z \in Slots : tab[p][z].active}}
    /\ ran[p] => \A s \in Slots : tab[p][s].active => tab[p][s].owner = pid[p]

\* The table is well-formed, generations within their width included, and
\* agrees with the descriptors.
TableConsistent == TypeOK /\ Descriptors

\* Events leave a handle in the order the service sent them, each byte written
\* once and each event reported once, after all of its bytes: across timeouts,
\* short writes, refused bindings, detach, fork and reuse of the slot.
DeliveredOnce ==
  \A c \in Conns :
    LET m == Len(reported[c])
    IN /\ reported[c] = [i \in 1..m |-> i]
       /\ out[c] = [i \in 1..Len(out[c]) |-> i - 1]
       /\ m <= taken[c] /\ taken[c] <= m + 1
       /\ Len(out[c]) \in Offset[m + 1]..Offset[taken[c] + 1]

=============================================================================
