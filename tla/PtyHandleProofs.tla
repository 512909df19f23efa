--------------------------- MODULE PtyHandleProofs ---------------------------
(***************************************************************************)
(* Proofs about PtyHandle, for any number of processes, slots and          *)
(* connections.                                                            *)
(*                                                                         *)
(* HandleBelongs is not inductive: that a token finds only the connection  *)
(* it was issued for needs the generation of a process to be ahead of all  *)
(* tokens of that process, and a copied handle never to carry the pid of   *)
(* the copy.  HandleInv adds both, for a kernel that does not give a pid   *)
(* twice.  TableInv, which needs no such assumption, adds to the table     *)
(* that a descriptor was granted and is in one slot; EventInv says that a  *)
(* connection has one handle that reads from it, which knows how much of   *)
(* which event has left it.                                                *)
(***************************************************************************)
EXTENDS PtyHandle, FiniteSetTheorems, TLAPS

Handle == [active : BOOLEAN, owner : Pids \cup {NoPid}, generation : Nat, fd : Nat,
           pending : BOOLEAN, event : Nat, written : Nat]
Token == [proc : Procs, owner : Pids, generation : Nat, slot : Slots, conn : Nat]

Types ==
  /\ life \in [Procs -> {"unborn", "alive", "dead"}]
  /\ pid \in [Procs -> Pids \cup {NoPid}]
  /\ tab \in [Procs -> [Slots -> Handle]]
  /\ gen \in [Procs -> Nat] /\ loaded \in [Procs -> BOOLEAN]
  /\ granted \in Nat /\ granted <= MaxConns
  /\ issued \subseteq Token
  /\ taken \in [Conns -> Nat]

\* A process has a pid once it is born, and no other process has it.
PidsDiffer ==
  /\ \A p \in Procs : pid[p] = NoPid <=> life[p] = "unborn"
  /\ \A p, q \in Procs : pid[p] = pid[q] => p = q \/ pid[p] = NoPid

\* A token carries the pid of the process that it was issued to, and that
\* process is not behind it.
TokensBehind ==
  \A t \in issued : /\ pid[t.proc] = t.owner
                    /\ loaded[t.proc] => t.generation <= gen[t.proc]

\* A handle is owned by a process that was born, and needs a loaded module.
HandlesOwned ==
  \A p \in Procs, s \in Slots : tab[p][s].active =>
    /\ loaded[p]
    /\ \E r \in Procs : pid[r] = tab[p][s].owner /\ life[r] # "unborn"
    /\ tab[p][s].fd >= 1 /\ tab[p][s].fd <= granted

\* A handle of the process itself: its token is not ahead of the process, and
\* names this connection.
HandlesNamed ==
  \A p \in Procs, s \in Slots : tab[p][s].active /\ tab[p][s].owner = pid[p] =>
    /\ tab[p][s].generation <= gen[p]
    /\ \A t \in issued :
         t.owner = pid[p] /\ t.slot = s /\ t.generation = tab[p][s].generation
           => t.conn = tab[p][s].fd

HandleInv == Types /\ PidsDiffer /\ TokensBehind /\ HandlesOwned /\ HandlesNamed

-----------------------------------------------------------------------------
(* The table after bw_initialize.                                          *)

\* A cleared slot is a handle that is not active.
LEMMA NoHandleType == NoHandle \in Handle /\ ~NoHandle.active
BY DEF NoHandle, Handle

\* bw_initialize keeps exactly the handles of the process itself.
LEMMA InitializedTable ==
  ASSUME Types, NEW p \in Procs
  PROVE  /\ Initialized(p) \in [Slots -> Handle]
         /\ \A s \in Slots : Initialized(p)[s].active =>
              /\ Initialized(p)[s] = tab[p][s]
              /\ tab[p][s].active /\ tab[p][s].owner = pid[p]
<1>1. tab[p] \in [Slots -> Handle]
  BY DEF Types
<1>2. \A s \in Slots : Initialized(p)[s] = IF Foreign(p, s) THEN NoHandle ELSE tab[p][s]
  BY DEF Initialized
<1>3. Initialized(p) \in [Slots -> Handle]
  BY <1>1, NoHandleType DEF Initialized
<1>4. ASSUME NEW s \in Slots, Initialized(p)[s].active
      PROVE  /\ Initialized(p)[s] = tab[p][s]
             /\ tab[p][s].active /\ tab[p][s].owner = pid[p]
  <2>1. ~Foreign(p, s)
    BY <1>2, <1>4, NoHandleType
  <2>2. Initialized(p)[s] = tab[p][s]
    BY <1>2, <2>1
  <2> QED
    BY <1>4, <2>1, <2>2 DEF Foreign
<1> QED
  BY <1>3, <1>4

\* The generation a command starts from is not behind a token of the process
\* nor behind a handle of its own.
LEMMA GenerationAhead ==
  ASSUME HandleInv, NEW p \in Procs, NEW n \in Generations(p)
  PROVE  /\ n \in Nat
         /\ \A t \in issued : t.proc = p => t.generation <= n
         /\ \A s \in Slots : tab[p][s].active => n = gen[p]
<1>1. CASE loaded[p]
  <2>1. n = gen[p]
    BY <1>1 DEF Generations
  <2> QED
    BY <1>1, <2>1 DEF HandleInv, Types, TokensBehind
<1>2. CASE ~loaded[p]
  <2>1. n \in Nat /\ \A t \in issued : t.owner = pid[p] => t.generation <= n
    BY <1>2, HandleAssumption DEF Generations
  <2>2. \A t \in issued : t.proc = p => t.owner = pid[p]
    BY DEF HandleInv, TokensBehind
  <2>3. \A s \in Slots : ~tab[p][s].active
    BY <1>2 DEF HandleInv, HandlesOwned
  <2> QED
    BY <2>1, <2>2, <2>3
<1> QED
  BY <1>1, <1>2

\* A process that finds a token runs a loaded module.
LEMMA FoundIsLoaded ==
  ASSUME HandleInv, NEW p \in Procs, NEW t \in issued, Find(p, t)
  PROVE  /\ gen[p] \in Generations(p) /\ t.slot \in Slots
         /\ Initialized(p)[t.slot].active
<1>1. t.slot \in Slots
  BY DEF HandleInv, Types, Token
<1>2. Initialized(p)[t.slot].active
  BY DEF Find
<1>3. tab[p][t.slot].active
  BY <1>1, <1>2, InitializedTable DEF HandleInv
<1>4. loaded[p]
  BY <1>1, <1>3 DEF HandleInv, HandlesOwned
<1> QED
  BY <1>1, <1>2, <1>4 DEF Generations

-----------------------------------------------------------------------------
(* Commands that issue no token.                                           *)

\* The handles of table T are handles that p owned before.
Kept(p, T) ==
  \A s \in Slots : T[s].active =>
    /\ tab[p][s].active /\ tab[p][s].owner = pid[p]
    /\ T[s].owner = tab[p][s].owner /\ T[s].generation = tab[p][s].generation
    /\ T[s].fd = tab[p][s].fd

\* A command that only drops handles, or moves one along within its events,
\* preserves the invariant.
LEMMA KeepStep ==
  ASSUME HandleInv, NEW p \in Procs, NEW T \in [Slots -> Handle],
         NEW m \in Generations(p), NEW n \in Nat, m <= n,
         NEW open, Command(p, T, n, open), Kept(p, T),
         issued' = issued, granted' \in Nat, granted <= granted', granted' <= MaxConns,
         taken' \in [Conns -> Nat]
  PROVE  HandleInv'
<1> USE DEF Command
<1>0. /\ m \in Nat /\ \A t \in issued : t.proc = p => t.generation <= m
      /\ \A s \in Slots : tab[p][s].active => m = gen[p]
  BY GenerationAhead
<1>t. Types
  BY DEF HandleInv
<1>1. Types'
  BY <1>t DEF Types
<1>2. PidsDiffer'
  BY DEF HandleInv, PidsDiffer
<1>3. TokensBehind'
  <2> SUFFICES ASSUME NEW t \in issued
               PROVE  /\ pid[t.proc] = t.owner
                      /\ loaded'[t.proc] => t.generation <= gen'[t.proc]
    BY DEF TokensBehind
  <2>1. /\ t.proc \in Procs /\ t.generation \in Nat /\ pid[t.proc] = t.owner
        /\ loaded[t.proc] => t.generation <= gen[t.proc]
    BY DEF HandleInv, Types, Token, TokensBehind
  <2>2. CASE t.proc = p
    BY <1>0, <1>t, <2>1, <2>2 DEF Types
  <2>3. CASE t.proc # p
    BY <1>t, <2>1, <2>3 DEF Types
  <2> QED
    BY <2>2, <2>3
<1>4. HandlesOwned'
  <2> SUFFICES ASSUME NEW q \in Procs, NEW s \in Slots, tab'[q][s].active
               PROVE  /\ loaded'[q]
                      /\ \E r \in Procs : pid[r] = tab'[q][s].owner /\ life[r] # "unborn"
                      /\ tab'[q][s].fd >= 1 /\ tab'[q][s].fd <= granted'
    BY DEF HandlesOwned
  <2>1. /\ tab[q][s].active /\ tab'[q][s].owner = tab[q][s].owner /\ tab'[q][s].fd = tab[q][s].fd
    BY <1>t DEF Types, Kept
  <2>2. /\ loaded[q]
        /\ \E r \in Procs : pid[r] = tab[q][s].owner /\ life[r] # "unborn"
        /\ tab[q][s].fd >= 1 /\ tab[q][s].fd <= granted
    BY <2>1 DEF HandleInv, HandlesOwned
  <2>3. loaded'[q]
    BY <1>t, <2>2 DEF Types
  <2>4. tab[q][s].fd \in Nat
    BY <1>t DEF Types, Handle
  <2>5. tab[q][s].fd <= granted'
    BY <1>t, <2>2, <2>4 DEF Types
  <2> QED
    BY <2>1, <2>2, <2>3, <2>5
<1>5. HandlesNamed'
  <2> SUFFICES ASSUME NEW q \in Procs, NEW s \in Slots,
                      tab'[q][s].active, tab'[q][s].owner = pid[q]
               PROVE  /\ tab'[q][s].generation <= gen'[q]
                      /\ \A t \in issued :
                           t.owner = pid[q] /\ t.slot = s /\ t.generation = tab'[q][s].generation
                             => t.conn = tab'[q][s].fd
    BY DEF HandlesNamed
  <2>1. /\ tab[q][s].active /\ tab[q][s].owner = pid[q]
        /\ tab'[q][s].generation = tab[q][s].generation /\ tab'[q][s].fd = tab[q][s].fd
    BY <1>t DEF Types, Kept
  <2>2. /\ tab[q][s].generation <= gen[q]
        /\ \A t \in issued :
             t.owner = pid[q] /\ t.slot = s /\ t.generation = tab[q][s].generation
               => t.conn = tab[q][s].fd
    BY <2>1 DEF HandleInv, HandlesNamed
  <2>3. tab[q][s].generation <= gen'[q]
    <3>1. tab[q][s].generation \in Nat /\ gen[q] \in Nat
      BY <1>t DEF Types, Handle
    <3>2. gen[q] <= gen'[q]
      BY <1>0, <1>t, <2>1, <3>1 DEF Types
    <3>3. gen'[q] \in Nat
      BY <1>1 DEF Types
    <3> QED
      BY <2>2, <3>1, <3>2, <3>3
  <2> QED
    BY <2>1, <2>2, <2>3
<1> QED
  BY <1>1, <1>2, <1>3, <1>4, <1>5 DEF HandleInv

\* fd, the commands without a handle, and every refused command.
LEMMA OtherCommandStep ==
  ASSUME HandleInv, NEW p \in Procs, NEW n, OtherCommand(p, n)
  PROVE  HandleInv'
<1>1. /\ n \in Generations(p) /\ Command(p, Initialized(p), n, OwnFds(p))
      /\ UNCHANGED <<granted, issued, taken>>
  BY DEF OtherCommand, eventVars
<1>2. Types
  BY DEF HandleInv
<1>3. n \in Nat
  BY <1>1, GenerationAhead
<1>4. Initialized(p) \in [Slots -> Handle] /\ Kept(p, Initialized(p))
  BY <1>2, InitializedTable DEF Kept
<1>5. n <= n
  BY <1>3
<1>6. granted' \in Nat /\ granted <= granted' /\ granted' <= MaxConns /\ taken' \in [Conns -> Nat]
  BY <1>1, <1>2 DEF Types
<1> QED
  BY <1>1, <1>3, <1>4, <1>5, <1>6, KeepStep

\* attach whose token cannot be bound: a generation is used up.
LEMMA AttachUnboundStep ==
  ASSUME HandleInv, NEW p \in Procs, NEW s \in Slots, NEW n, AttachUnbound(p, s, n)
  PROVE  HandleInv'
<1> DEFINE T == [Initialized(p) EXCEPT ![s] = NoHandle]
<1>1. /\ n \in Generations(p) /\ Command(p, T, n + 1, OwnFds(p))
      /\ granted < MaxConns /\ granted' = granted + 1 /\ UNCHANGED <<issued, taken>>
  BY DEF AttachUnbound, eventVars
<1>2. Types
  BY DEF HandleInv
<1>3. n \in Nat /\ n + 1 \in Nat /\ n <= n + 1
  BY <1>1, GenerationAhead
<1>4. T \in [Slots -> Handle] /\ Kept(p, T)
  <2>1. \A z \in Slots : T[z].active => T[z] = Initialized(p)[z] /\ Initialized(p)[z].active
    BY <1>2, InitializedTable, NoHandleType
  <2>2. T \in [Slots -> Handle]
    BY <1>2, InitializedTable, NoHandleType
  <2> QED
    BY <1>2, <2>1, <2>2, InitializedTable DEF Kept
<1>5. granted' \in Nat /\ granted <= granted' /\ granted' <= MaxConns /\ taken' \in [Conns -> Nat]
  BY <1>1, <1>2, HandleAssumption DEF Types
<1> HIDE DEF T
<1> QED
  BY <1>1, <1>3, <1>4, <1>5, KeepStep

\* detach: memset takes the handle out of the table.
LEMMA DetachStep ==
  ASSUME HandleInv, NEW p \in Procs, NEW t \in issued, Detach(p, t)
  PROVE  HandleInv'
<1> DEFINE T == [Initialized(p) EXCEPT ![t.slot] = NoHandle]
           open == OwnFds(p) \ {Initialized(p)[t.slot].fd}
<1>1. /\ Find(p, t) /\ Command(p, T, gen[p], open)
      /\ UNCHANGED <<granted, issued, taken>>
  BY DEF Detach, Dropped, eventVars
<1>2. Types
  BY DEF HandleInv
<1>3. gen[p] \in Generations(p) /\ t.slot \in Slots
  BY <1>1, FoundIsLoaded
<1>4. gen[p] \in Nat /\ gen[p] <= gen[p]
  BY <1>2 DEF Types
<1>5. T \in [Slots -> Handle] /\ Kept(p, T)
  <2>1. \A z \in Slots : T[z].active => T[z] = Initialized(p)[z] /\ Initialized(p)[z].active
    BY <1>2, <1>3, InitializedTable, NoHandleType
  <2>2. T \in [Slots -> Handle]
    BY <1>2, InitializedTable, NoHandleType
  <2> QED
    BY <1>2, <2>1, <2>2, InitializedTable DEF Kept
<1>6. granted' \in Nat /\ granted <= granted' /\ granted' <= MaxConns /\ taken' \in [Conns -> Nat]
  BY <1>1, <1>2 DEF Types
<1> HIDE DEF T, open
<1> QED
  BY <1>1, <1>3, <1>4, <1>5, <1>6, KeepStep

\* Handle r is h, further along in its events.
Moved(h, r) ==
  /\ r \in Handle /\ r.active = h.active /\ r.owner = h.owner
  /\ r.generation = h.generation /\ r.fd = h.fd

\* The delivery fields of a handle change without its identity.
LEMMA DeliveryFields ==
  ASSUME NEW h \in Handle, NEW b \in BOOLEAN, NEW e \in Nat, NEW w \in Nat
  PROVE  /\ Moved(h, [h EXCEPT !.pending = b, !.event = e, !.written = w])
         /\ Moved(h, [h EXCEPT !.pending = b, !.written = w])
         /\ Moved(h, [h EXCEPT !.written = w])
<1>1. Moved(h, [h EXCEPT !.pending = b, !.event = e, !.written = w])
  BY DEF Handle, Moved
<1>2. Moved(h, [h EXCEPT !.pending = b, !.written = w])
  BY DEF Handle, Moved
<1>3. Moved(h, [h EXCEPT !.written = w])
  BY DEF Handle, Moved
<1> QED
  BY <1>1, <1>2, <1>3

\* The event that receive works on leaves the identity of the handle alone.
LEMMA CurrentHandle ==
  ASSUME Types, NEW h \in Handle, h.fd \in Conns
  PROVE  /\ Current(h) \in Handle
         /\ Current(h).active = h.active /\ Current(h).owner = h.owner
         /\ Current(h).generation = h.generation /\ Current(h).fd = h.fd
<1>1. taken[h.fd] + 1 \in Nat
  BY DEF Types
<1>2. CASE h.pending
  BY <1>2 DEF Current
<1>3. CASE ~h.pending
  <2> DEFINE e == taken[h.fd] + 1
  <2>1. Current(h) = [h EXCEPT !.pending = TRUE, !.event = e, !.written = 0]
    BY <1>3 DEF Current
  <2>2. e \in Nat
    BY <1>1
  <2> HIDE DEF e
  <2> QED
    <3>1. TRUE \in BOOLEAN /\ 0 \in Nat
      OBVIOUS
    <3>2. Moved(h, [h EXCEPT !.pending = TRUE, !.event = e, !.written = 0])
      BY <2>2, <3>1, DeliveryFields, Zenon
    <3>3. Moved(h, Current(h))
      BY <2>1, <3>2, Zenon
    <3> QED
      BY <3>3 DEF Moved
<1> QED
  BY <1>2, <1>3

\* receive: the handle moves along within its events.
LEMMA ReceiveStep ==
  ASSUME HandleInv, NEW p \in Procs, NEW t \in issued, NEW k \in Nat, NEW bound \in BOOLEAN,
         Receive(p, t, k, bound)
  PROVE  HandleInv'
<1> DEFINE g == Initialized(p)[t.slot]
           h == Current(g)
           done == k = Sizes[h.event] - h.written /\ bound
           e == IF done THEN [h EXCEPT !.pending = FALSE, !.written = 0]
                ELSE [h EXCEPT !.written = @ + k]
           T == [Initialized(p) EXCEPT ![t.slot] = e]
<1>1. /\ Find(p, t) /\ Command(p, T, gen[p], OwnFds(p)) /\ UNCHANGED <<granted, issued>>
      /\ taken' = [taken EXCEPT ![h.fd] = IF g.pending THEN @ ELSE @ + 1]
  BY DEF Receive
<1>2. Types
  BY DEF HandleInv
<1>3. gen[p] \in Generations(p) /\ t.slot \in Slots /\ g.active
  BY <1>1, FoundIsLoaded
<1>4. gen[p] \in Nat /\ gen[p] <= gen[p]
  BY <1>2 DEF Types
<1>5. /\ g \in Handle /\ g = tab[p][t.slot] /\ tab[p][t.slot].active
      /\ tab[p][t.slot].owner = pid[p]
  BY <1>2, <1>3, InitializedTable
<1>6. g.fd \in Conns
  <2>1. g.fd >= 1 /\ g.fd <= granted
    BY <1>3, <1>5 DEF HandleInv, HandlesOwned
  <2>2. g.fd \in Nat /\ granted \in Nat /\ granted <= MaxConns /\ MaxConns \in Nat
    BY <1>2, <1>5, HandleAssumption DEF Types, Handle
  <2> QED
    BY <2>1, <2>2 DEF Conns
<1>7. /\ h \in Handle /\ h.active = g.active /\ h.owner = g.owner
      /\ h.generation = g.generation /\ h.fd = g.fd
  BY <1>2, <1>5, <1>6, CurrentHandle
<1>8. /\ e \in Handle /\ e.active = g.active /\ e.owner = g.owner
      /\ e.generation = g.generation /\ e.fd = g.fd
  <2> DEFINE w == h.written + k
  <2>1. w \in Nat
    BY <1>7 DEF Handle
  <2>2. e = [h EXCEPT !.pending = FALSE, !.written = 0] \/ e = [h EXCEPT !.written = w]
    OBVIOUS
  <2>0. h \in Handle
    BY <1>7
  <2> HIDE DEF h, done, w, e
  <2>3. CASE e = [h EXCEPT !.pending = FALSE, !.written = 0]
    <3>1. FALSE \in BOOLEAN /\ 0 \in Nat
      OBVIOUS
    <3>2. Moved(h, [h EXCEPT !.pending = FALSE, !.written = 0])
      BY <2>0, <3>1, DeliveryFields, Zenon
    <3>3. Moved(h, e)
      BY <2>3, <3>2, Zenon
    <3> QED
      BY <1>7, <3>3 DEF Moved
  <2>4. CASE e = [h EXCEPT !.written = w]
    <3>1. FALSE \in BOOLEAN /\ 0 \in Nat
      OBVIOUS
    <3>2. Moved(h, [h EXCEPT !.written = w])
      BY <2>0, <2>1, <3>1, DeliveryFields, Zenon
    <3>3. Moved(h, e)
      BY <2>4, <3>2, Zenon
    <3> QED
      BY <1>7, <3>3 DEF Moved
  <2> QED
    BY <2>2, <2>3, <2>4
<1>9. T \in [Slots -> Handle] /\ Kept(p, T)
  <2> HIDE DEF e
  <2>1. T \in [Slots -> Handle]
    BY <1>2, <1>8, InitializedTable
  <2>2. T[t.slot] = e /\ \A z \in Slots : z # t.slot => T[z] = Initialized(p)[z]
    BY <1>2, <1>3, InitializedTable
  <2>3. ASSUME NEW z \in Slots, T[z].active
        PROVE  /\ tab[p][z].active /\ tab[p][z].owner = pid[p]
               /\ T[z].owner = tab[p][z].owner /\ T[z].generation = tab[p][z].generation
               /\ T[z].fd = tab[p][z].fd
    <3> HIDE DEF T, g
    <3>1. CASE z = t.slot
      BY <1>5, <1>8, <2>2, <3>1
    <3>2. CASE z # t.slot
      BY <1>2, <2>2, <2>3, <3>2, InitializedTable
    <3> QED
      BY <3>1, <3>2
  <2> QED
    BY <2>1, <2>3 DEF Kept
<1>10. granted' \in Nat /\ granted <= granted' /\ granted' <= MaxConns
  BY <1>1, <1>2 DEF Types
<1>11. taken' \in [Conns -> Nat]
  <2> DEFINE x == h.fd
  <2>1. x \in Conns
    BY <1>6, <1>7
  <2>2. taken' = [taken EXCEPT ![x] = IF g.pending THEN taken[x] ELSE taken[x] + 1]
    BY <1>1
  <2> HIDE DEF x, g
  <2> QED
    BY <1>2, <2>1, <2>2 DEF Types
<1> HIDE DEF T
<1> QED
  BY <1>1, <1>3, <1>4, <1>9, <1>10, <1>11, KeepStep

-----------------------------------------------------------------------------
(* attach.                                                                 *)

\* The new token is ahead of all earlier tokens of the process, so it names
\* the new connection and nothing else does.
LEMMA AttachStep ==
  ASSUME HandleInv, NEW p \in Procs, NEW s \in Slots, NEW n, Attach(p, s, n)
  PROVE  HandleInv'
<1> DEFINE c == granted + 1
           h == [Initialized(p)[s] EXCEPT !.active = TRUE, !.owner = pid[p],
                   !.generation = n + 1, !.fd = c]
           T == [Initialized(p) EXCEPT ![s] = h]
           t0 == [proc |-> p, owner |-> pid[p], generation |-> n + 1, slot |-> s, conn |-> c]
<1>1. /\ n \in Generations(p) /\ Command(p, T, n + 1, OwnFds(p) \cup {c})
      /\ granted < MaxConns /\ granted' = c /\ issued' = issued \cup {t0} /\ taken' = taken
  BY DEF Attach, eventVars
<1>2. Types
  BY DEF HandleInv
<1>3. /\ n \in Nat /\ \A t \in issued : t.proc = p => t.generation <= n
      /\ \A z \in Slots : tab[p][z].active => n = gen[p]
  BY <1>1, GenerationAhead
<1>4. /\ life[p] = "alive" /\ tab' = [tab EXCEPT ![p] = T] /\ gen' = [gen EXCEPT ![p] = n + 1]
      /\ loaded' = [loaded EXCEPT ![p] = TRUE] /\ UNCHANGED <<life, pid>>
  BY <1>1 DEF Command
<1>5. pid[p] \in Pids
  BY <1>2, <1>4 DEF HandleInv, PidsDiffer, Types
<1>6. c \in Nat /\ c >= 1 /\ c <= MaxConns /\ granted <= c /\ c > granted
  BY <1>1, <1>2, HandleAssumption DEF Types
<1>7. /\ h \in Handle /\ h.active /\ h.owner = pid[p] /\ h.generation = n + 1 /\ h.fd = c
  <2>1. Initialized(p)[s] \in Handle
    BY <1>2, InitializedTable
  <2>2. n + 1 \in Nat
    BY <1>3
  <2> HIDE DEF c
  <2> QED
    BY <1>5, <1>6, <2>1, <2>2 DEF Handle
<1>8. t0 \in Token
  <2> HIDE DEF c
  <2> QED
    BY <1>3, <1>5, <1>6 DEF Token
<1> HIDE DEF h
<1>9. /\ T \in [Slots -> Handle] /\ T[s] = h
      /\ \A z \in Slots : z # s /\ T[z].active =>
           T[z] = tab[p][z] /\ tab[p][z].active /\ tab[p][z].owner = pid[p]
  BY <1>2, <1>7, InitializedTable
<1> HIDE DEF T, c
<1>10. Types'
  BY <1>1, <1>2, <1>3, <1>4, <1>6, <1>8, <1>9 DEF Types
<1>11. PidsDiffer'
  BY <1>4 DEF HandleInv, PidsDiffer
<1>12. TokensBehind'
  <2> SUFFICES ASSUME NEW t \in issued'
               PROVE  /\ pid[t.proc] = t.owner
                      /\ loaded'[t.proc] => t.generation <= gen'[t.proc]
    BY <1>4 DEF TokensBehind
  <2>1. CASE t = t0
    <3>1. t.proc = p /\ t.owner = pid[p] /\ t.generation = n + 1
      BY <2>1
    <3>2. gen'[p] = n + 1
      BY <1>2, <1>4 DEF Types
    <3> QED
      BY <1>3, <3>1, <3>2
  <2>2. CASE t \in issued
    <3>1. /\ t.proc \in Procs /\ t.generation \in Nat /\ pid[t.proc] = t.owner
          /\ loaded[t.proc] => t.generation <= gen[t.proc]
      BY <1>2, <2>2 DEF HandleInv, Types, Token, TokensBehind
    <3>2. CASE t.proc = p
      <4>1. gen'[p] = n + 1
        BY <1>2, <1>4 DEF Types
      <4>2. t.generation <= n
        BY <1>3, <2>2, <3>2
      <4> QED
        BY <1>3, <3>1, <3>2, <4>1, <4>2
    <3>3. CASE t.proc # p
      BY <1>2, <1>4, <3>1, <3>3 DEF Types
    <3> QED
      BY <3>2, <3>3
  <2> QED
    BY <1>1, <2>1, <2>2
<1>13. HandlesOwned'
  <2> SUFFICES ASSUME NEW q \in Procs, NEW z \in Slots, tab'[q][z].active
               PROVE  /\ loaded'[q]
                      /\ \E r \in Procs : pid[r] = tab'[q][z].owner /\ life[r] # "unborn"
                      /\ tab'[q][z].fd >= 1 /\ tab'[q][z].fd <= c
    BY <1>1, <1>4 DEF HandlesOwned
  <2>1. CASE q = p /\ z = s
    <3>1. tab'[q][z] = h /\ loaded'[q]
      BY <1>2, <1>4, <1>9, <2>1 DEF Types
    <3> QED
      BY <1>4, <1>6, <1>7, <3>1
  <2>2. CASE ~(q = p /\ z = s)
    <3>1. tab'[q][z] = tab[q][z] /\ tab[q][z].active
      BY <1>2, <1>4, <1>9, <2>2 DEF Types
    <3>2. /\ loaded[q]
          /\ \E r \in Procs : pid[r] = tab[q][z].owner /\ life[r] # "unborn"
          /\ tab[q][z].fd >= 1 /\ tab[q][z].fd <= granted
      BY <3>1 DEF HandleInv, HandlesOwned
    <3>3. loaded'[q]
      BY <1>2, <1>4, <3>2 DEF Types
    <3>4. tab[q][z].fd <= c
      <4>1. tab[q][z].fd \in Nat /\ granted \in Nat
        BY <1>2 DEF Types, Handle
      <4> QED
        BY <1>6, <3>2, <4>1
    <3> QED
      BY <3>1, <3>2, <3>3, <3>4
  <2> QED
    BY <2>1, <2>2
<1>14. HandlesNamed'
  <2> SUFFICES ASSUME NEW q \in Procs, NEW z \in Slots,
                      tab'[q][z].active, tab'[q][z].owner = pid[q]
               PROVE  /\ tab'[q][z].generation <= gen'[q]
                      /\ \A t \in issued' :
                           t.owner = pid[q] /\ t.slot = z /\ t.generation = tab'[q][z].generation
                             => t.conn = tab'[q][z].fd
    BY <1>4 DEF HandlesNamed
  <2>1. CASE q = p /\ z = s
    <3>1. tab'[q][z] = h /\ gen'[q] = n + 1
      BY <1>2, <1>4, <1>9, <2>1 DEF Types
    <3>2. ASSUME NEW t \in issued', t.owner = pid[q], t.generation = n + 1
          PROVE  t.conn = c
      <4>1. CASE t = t0
        BY <4>1
      <4>2. CASE t \in issued
        <5>1. t.proc \in Procs /\ pid[t.proc] = pid[p] /\ t.generation \in Nat
          BY <1>2, <2>1, <3>2, <4>2 DEF HandleInv, Types, Token, TokensBehind
        <5>2. t.proc = p
          BY <1>4, <5>1 DEF HandleInv, PidsDiffer
        <5>3. t.generation <= n
          BY <1>3, <4>2, <5>2
        <5> QED
          BY <1>3, <3>2, <5>1, <5>3
      <4> QED
        BY <1>1, <4>1, <4>2
    <3>3. h.generation <= gen'[q]
      BY <1>3, <1>7, <3>1
    <3> QED
      BY <1>7, <3>1, <3>2, <3>3
  <2>2. CASE ~(q = p /\ z = s)
    <3>1. tab'[q][z] = tab[q][z] /\ tab[q][z].active /\ tab[q][z].owner = pid[q]
      BY <1>2, <1>4, <1>9, <2>2 DEF Types
    <3>2. /\ tab[q][z].generation <= gen[q]
          /\ \A t \in issued :
               t.owner = pid[q] /\ t.slot = z /\ t.generation = tab[q][z].generation
                 => t.conn = tab[q][z].fd
      BY <3>1 DEF HandleInv, HandlesNamed
    <3>3. tab[q][z].generation \in Nat /\ gen[q] \in Nat
      BY <1>2 DEF Types, Handle
    <3>4. gen[q] <= gen'[q] /\ gen'[q] \in Nat
      <4>1. CASE q = p
        <5>1. gen[q] = n /\ gen'[q] = n + 1
          BY <1>2, <1>3, <1>4, <3>1, <4>1 DEF Types
        <5> QED
          BY <1>3, <5>1
      <4>2. CASE q # p
        BY <1>2, <1>4, <3>3, <4>2 DEF Types
      <4> QED
        BY <4>1, <4>2
    <3>5. tab[q][z].generation <= gen'[q]
      BY <3>2, <3>3, <3>4
    <3>6. ~(pid[p] = pid[q] /\ s = z)
      BY <1>4, <2>2 DEF HandleInv, PidsDiffer
    <3>7. \A t \in issued' : t.owner = pid[q] /\ t.slot = z => t \in issued
      BY <1>1, <3>6
    <3> QED
      BY <3>1, <3>2, <3>5, <3>7
  <2> QED
    BY <2>1, <2>2
<1> QED
  BY <1>10, <1>11, <1>12, <1>13, <1>14 DEF HandleInv

-----------------------------------------------------------------------------
(* What happens to the shell.                                              *)

\* enable -d clears the table, so no handle depends on the lost generation.
LEMMA ReloadStep ==
  ASSUME HandleInv, NEW p \in Procs, Reload(p)
  PROVE  HandleInv'
<1>1. /\ tab' = [tab EXCEPT ![p] = [s \in Slots |-> NoHandle]]
      /\ gen' = [gen EXCEPT ![p] = 0] /\ loaded' = [loaded EXCEPT ![p] = FALSE]
      /\ UNCHANGED <<life, pid, granted, issued, taken>>
  BY DEF Reload, procVars, eventVars
<1>2. Types
  BY DEF HandleInv
<1>3. Types'
  BY <1>1, <1>2, NoHandleType DEF Types
<1>4. \A q \in Procs, s \in Slots : tab'[q][s].active =>
        /\ q # p /\ tab'[q][s] = tab[q][s]
        /\ gen'[q] = gen[q] /\ loaded'[q] = loaded[q]
  BY <1>1, <1>2, NoHandleType DEF Types
<1>5. PidsDiffer'
  BY <1>1 DEF HandleInv, PidsDiffer
<1>6. TokensBehind'
  <2> SUFFICES ASSUME NEW t \in issued
               PROVE  /\ pid[t.proc] = t.owner
                      /\ loaded'[t.proc] => t.generation <= gen'[t.proc]
    BY <1>1 DEF TokensBehind
  <2>1. /\ t.proc \in Procs /\ pid[t.proc] = t.owner
        /\ loaded[t.proc] => t.generation <= gen[t.proc]
    BY DEF HandleInv, Types, Token, TokensBehind
  <2> QED
    BY <1>1, <1>2, <2>1 DEF Types
<1>7. HandlesOwned'
  <2> SUFFICES ASSUME NEW q \in Procs, NEW s \in Slots, tab'[q][s].active
               PROVE  /\ loaded'[q]
                      /\ \E r \in Procs : pid[r] = tab'[q][s].owner /\ life[r] # "unborn"
                      /\ tab'[q][s].fd >= 1 /\ tab'[q][s].fd <= granted
    BY <1>1 DEF HandlesOwned
  <2>1. tab'[q][s] = tab[q][s] /\ tab[q][s].active /\ loaded'[q] = loaded[q]
    BY <1>4
  <2> QED
    BY <2>1 DEF HandleInv, HandlesOwned
<1>8. HandlesNamed'
  <2> SUFFICES ASSUME NEW q \in Procs, NEW s \in Slots,
                      tab'[q][s].active, tab'[q][s].owner = pid[q]
               PROVE  /\ tab'[q][s].generation <= gen'[q]
                      /\ \A t \in issued :
                           t.owner = pid[q] /\ t.slot = s /\ t.generation = tab'[q][s].generation
                             => t.conn = tab'[q][s].fd
    BY <1>1 DEF HandlesNamed
  <2>1. tab'[q][s] = tab[q][s] /\ tab[q][s].active /\ gen'[q] = gen[q]
    BY <1>4
  <2> QED
    BY <2>1 DEF HandleInv, HandlesNamed
<1> QED
  BY <1>3, <1>5, <1>6, <1>7, <1>8 DEF HandleInv

\* The end of a process leaves its pid taken and its table empty.
LEMMA ExitStep ==
  ASSUME HandleInv, NEW p \in Procs, Exit(p)
  PROVE  HandleInv'
<1>1. /\ life[p] = "alive" /\ life' = [life EXCEPT ![p] = "dead"]
      /\ tab' = [tab EXCEPT ![p] = [s \in Slots |-> NoHandle]]
      /\ UNCHANGED <<pid, gen, loaded, granted, issued, taken>>
  BY DEF Exit, eventVars
<1>2. Types
  BY DEF HandleInv
<1>3. Types'
  BY <1>1, <1>2, NoHandleType DEF Types
<1>4. \A q \in Procs, s \in Slots : tab'[q][s].active => tab'[q][s] = tab[q][s]
  BY <1>1, <1>2, NoHandleType DEF Types
<1>5. \A q \in Procs : life'[q] = "unborn" <=> life[q] = "unborn"
  BY <1>1, <1>2 DEF Types
<1>6. PidsDiffer'
  BY <1>1, <1>5 DEF HandleInv, PidsDiffer
<1>7. TokensBehind'
  BY <1>1 DEF HandleInv, TokensBehind
<1>8. HandlesOwned'
  <2> SUFFICES ASSUME NEW q \in Procs, NEW s \in Slots, tab'[q][s].active
               PROVE  /\ loaded[q]
                      /\ \E r \in Procs : pid[r] = tab'[q][s].owner /\ life'[r] # "unborn"
                      /\ tab'[q][s].fd >= 1 /\ tab'[q][s].fd <= granted
    BY <1>1 DEF HandlesOwned
  <2>1. tab'[q][s] = tab[q][s] /\ tab[q][s].active
    BY <1>4
  <2> QED
    BY <1>5, <2>1 DEF HandleInv, HandlesOwned
<1>9. HandlesNamed'
  BY <1>1, <1>4 DEF HandleInv, HandlesNamed
<1> QED
  BY <1>3, <1>6, <1>7, <1>8, <1>9 DEF HandleInv

\* A subshell gets a pid that no handle carries: whatever it inherits is
\* foreign to it, and no token was issued to it.
LEMMA ForkStep ==
  ASSUME ~Reuse, HandleInv, NEW p \in Procs, NEW q \in Procs, NEW n \in Pids, Fork(p, q, n)
  PROVE  HandleInv'
<1>1. /\ life[p] = "alive" /\ life[q] = "unborn"
      /\ \A r \in Procs : pid[r] # n
      /\ life' = [life EXCEPT ![q] = "alive"] /\ pid' = [pid EXCEPT ![q] = n]
      /\ tab' = [tab EXCEPT ![q] = tab[p]] /\ gen' = [gen EXCEPT ![q] = gen[p]]
      /\ loaded' = [loaded EXCEPT ![q] = loaded[p]]
      /\ UNCHANGED <<granted, issued, taken>>
  BY DEF Fork, eventVars
<1>2. Types
  BY DEF HandleInv
<1>3. pid[q] = NoPid /\ n # NoPid /\ p # q
  BY <1>1, HandleAssumption DEF HandleInv, PidsDiffer
<1>4. Types'
  BY <1>1, <1>2 DEF Types
<1>5. PidsDiffer'
  <2>1. \A r \in Procs : pid'[r] = NoPid <=> life'[r] = "unborn"
    BY <1>1, <1>2, <1>3 DEF HandleInv, PidsDiffer, Types
  <2>2. \A r, z \in Procs : pid'[r] = pid'[z] => r = z \/ pid'[r] = NoPid
    BY <1>1, <1>2, <1>3 DEF HandleInv, PidsDiffer, Types
  <2> QED
    BY <2>1, <2>2 DEF PidsDiffer
<1>6. \A t \in issued : t.proc \in Procs /\ t.proc # q
  <2> SUFFICES ASSUME NEW t \in issued
               PROVE  t.proc \in Procs /\ t.proc # q
    OBVIOUS
  <2>1. t.proc \in Procs /\ t.owner \in Pids /\ pid[t.proc] = t.owner
    BY DEF HandleInv, Types, Token, TokensBehind
  <2> QED
    BY <1>3, <2>1, HandleAssumption
<1>7. TokensBehind'
  BY <1>1, <1>2, <1>6 DEF HandleInv, TokensBehind, Types
<1>8. \A r \in Procs : life[r] # "unborn" => life'[r] # "unborn" /\ pid'[r] = pid[r]
  BY <1>1, <1>2 DEF Types
<1>9. HandlesOwned'
  <2> SUFFICES ASSUME NEW r \in Procs, NEW s \in Slots, tab'[r][s].active
               PROVE  /\ loaded'[r]
                      /\ \E z \in Procs : pid'[z] = tab'[r][s].owner /\ life'[z] # "unborn"
                      /\ tab'[r][s].fd >= 1 /\ tab'[r][s].fd <= granted
    BY <1>1 DEF HandlesOwned
  <2>1. PICK o \in Procs : tab'[r][s] = tab[o][s] /\ loaded'[r] = loaded[o]
    BY <1>1, <1>2 DEF Types
  <2>2. /\ loaded[o]
        /\ \E z \in Procs : pid[z] = tab[o][s].owner /\ life[z] # "unborn"
        /\ tab[o][s].fd >= 1 /\ tab[o][s].fd <= granted
    BY <2>1 DEF HandleInv, HandlesOwned
  <2>3. PICK z \in Procs : pid[z] = tab[o][s].owner /\ life[z] # "unborn"
    BY <2>2
  <2> QED
    BY <1>8, <2>1, <2>2, <2>3
<1>10. HandlesNamed'
  <2> SUFFICES ASSUME NEW r \in Procs, NEW s \in Slots,
                      tab'[r][s].active, tab'[r][s].owner = pid'[r]
               PROVE  /\ tab'[r][s].generation <= gen'[r]
                      /\ \A t \in issued :
                           t.owner = pid'[r] /\ t.slot = s /\ t.generation = tab'[r][s].generation
                             => t.conn = tab'[r][s].fd
    BY <1>1 DEF HandlesNamed
  <2>1. CASE r = q
    <3>1. tab'[r][s] = tab[p][s] /\ pid'[r] = n
      BY <1>1, <1>2, <2>1 DEF Types
    <3>2. \E z \in Procs : pid[z] = n
      BY <3>1 DEF HandleInv, HandlesOwned
    <3> QED
      BY <1>1, <3>2
  <2>2. CASE r # q
    <3>1. tab'[r][s] = tab[r][s] /\ pid'[r] = pid[r] /\ gen'[r] = gen[r]
      BY <1>1, <1>2, <2>2 DEF Types
    <3> QED
      BY <3>1 DEF HandleInv, HandlesNamed
  <2> QED
    BY <2>1, <2>2
<1> QED
  BY <1>4, <1>5, <1>7, <1>9, <1>10 DEF HandleInv

-----------------------------------------------------------------------------
(* The theorems.                                                           *)

\* The invariant holds at first: no process but the root, no handle, no token.
LEMMA InitInv == Init => HandleInv
<1> SUFFICES ASSUME Init PROVE HandleInv
  OBVIOUS
<1>1. PICK n \in Pids : pid = [p \in Procs |-> IF p = Root THEN n ELSE NoPid]
  BY DEF Init
<1>2. \A p \in Procs, s \in Slots : tab[p][s] = NoHandle
  BY DEF Init
<1>3. Types
  BY <1>1, HandleAssumption, NoHandleType DEF Init, Types
<1>4. PidsDiffer
  BY <1>1, HandleAssumption DEF Init, PidsDiffer
<1>5. TokensBehind
  BY DEF Init, TokensBehind
<1>6. HandlesOwned /\ HandlesNamed
  BY <1>2, NoHandleType DEF HandlesOwned, HandlesNamed
<1> QED
  BY <1>3, <1>4, <1>5, <1>6 DEF HandleInv

\* Every step preserves the invariant.
LEMMA NextInv ==
  ASSUME ~Reuse, HandleInv, [Next]_vars
  PROVE  HandleInv'
<1>1. ASSUME NEW p \in Procs, NEW n \in 0..MaxGen, OtherCommand(p, n) PROVE HandleInv'
  BY <1>1, OtherCommandStep
<1>2. ASSUME NEW p \in Procs, NEW s \in Slots, NEW n \in 0..MaxGen, Attach(p, s, n)
      PROVE  HandleInv'
  BY <1>2, AttachStep
<1>3. ASSUME NEW p \in Procs, NEW s \in Slots, NEW n \in 0..MaxGen, AttachUnbound(p, s, n)
      PROVE  HandleInv'
  BY <1>3, AttachUnboundStep
<1>4. ASSUME NEW p \in Procs, NEW t \in issued, Detach(p, t) PROVE HandleInv'
  BY <1>4, DetachStep
<1>5. ASSUME NEW p \in Procs, NEW t \in issued, NEW bound \in BOOLEAN,
             NEW k \in 0..Offset[Len(Sizes) + 1], Receive(p, t, k, bound)
      PROVE  HandleInv'
  <2>1. k \in Nat
    OBVIOUS
  <2> QED
    BY <1>5, <2>1, ReceiveStep
<1>6. ASSUME NEW p \in Procs, Reload(p) PROVE HandleInv'
  BY <1>6, ReloadStep
<1>7. ASSUME NEW p \in Procs, Exit(p) PROVE HandleInv'
  BY <1>7, ExitStep
<1>8. ASSUME NEW p \in Procs, NEW q \in Procs, NEW n \in Pids, Fork(p, q, n) PROVE HandleInv'
  BY <1>8, ForkStep
<1>9. CASE UNCHANGED vars
  BY <1>9 DEF vars, HandleInv, Types, PidsDiffer, TokensBehind, HandlesOwned, HandlesNamed
<1> QED
  BY <1>1, <1>2, <1>3, <1>4, <1>5, <1>6, <1>7, <1>8, <1>9 DEF Next, Finished

\* HandleInv is an invariant of every execution without reuse of pids.
THEOREM HandleInvariance ==
  ASSUME ~Reuse
  PROVE  Spec => []HandleInv
<1>1. Init => HandleInv
  BY InitInv
<1>2. HandleInv /\ [Next]_vars => HandleInv'
  BY NextInv
<1> QED
  BY <1>1, <1>2, PTL DEF Spec

\* bw_find accepts a token only in the process it was issued to and only for
\* the connection it was issued for, through any sequence of attach, detach,
\* receive, fork, exit and reload.
THEOREM TokensNameTheirConnection ==
  ASSUME ~Reuse
  PROVE  Spec => []HandleBelongs
<1>1. HandleInv => HandleBelongs
  <2> SUFFICES ASSUME HandleInv, NEW p \in Procs, NEW t \in issued,
                      life[p] = "alive", Find(p, t)
               PROVE  t.proc = p /\ Initialized(p)[t.slot].fd = t.conn
    BY DEF HandleBelongs
  <2>1. t.slot \in Slots /\ Initialized(p)[t.slot].active
    BY FoundIsLoaded
  <2>2. /\ Initialized(p)[t.slot] = tab[p][t.slot]
        /\ tab[p][t.slot].active /\ tab[p][t.slot].owner = pid[p]
    BY <2>1, InitializedTable DEF HandleInv
  <2>3. t.proc \in Procs /\ pid[t.proc] = pid[p]
    BY DEF HandleInv, Types, Token, TokensBehind, Find
  <2>4. t.proc = p
    BY <2>3 DEF HandleInv, PidsDiffer
  <2>5. t.owner = pid[p] /\ t.generation = tab[p][t.slot].generation
    BY <2>2 DEF Find
  <2>6. t.conn = tab[p][t.slot].fd
    BY <2>1, <2>2, <2>5 DEF HandleInv, HandlesNamed
  <2> QED
    BY <2>2, <2>4, <2>6
<1> QED
  BY <1>1, HandleInvariance, PTL

-----------------------------------------------------------------------------
(* Table and descriptors.  Nothing is assumed of pids here.                *)

SlotType == [active : BOOLEAN, owner : Pids \cup {NoPid}, generation : 0..MaxGen,
             fd : 0..MaxConns, pending : BOOLEAN, event : 0..Len(Sizes), written : Nat]
TokenType == [proc : Procs, owner : Pids, generation : 0..MaxGen, slot : Slots, conn : Conns]

\* The connections that table T has, each in one slot.
FdsOf(T) == {T[s].fd : s \in {z \in Slots : T[z].active}}
OneSlotEach(T) ==
  \A s, z \in Slots : T[s].active /\ T[z].active /\ T[s].fd = T[z].fd => s = z

\* Descriptors is not inductive: that bw_initialize and detach close the right
\* descriptor needs every connection of a table to be in one slot of it, and that
\* needs a new connection to be in none.
TableInv ==
  /\ TypeOK /\ Descriptors
  /\ \A p \in Procs : fds[p] \subseteq 1..granted /\ OneSlotEach(tab[p])
  /\ \A p \in Procs : life[p] = "unborn" => ~ran[p]
  /\ \A p \in Procs : life[p] # "unborn" => pid[p] \in Pids

\* The table after bw_initialize, and the descriptors it leaves open.
LEMMA OwnTable ==
  ASSUME TableInv, NEW p \in Procs
  PROVE  /\ Initialized(p) \in [Slots -> SlotType] /\ OneSlotEach(Initialized(p))
         /\ OwnFds(p) = FdsOf(Initialized(p)) /\ OwnFds(p) \subseteq 1..granted
         /\ \A s \in Slots : Initialized(p)[s].active => /\ Initialized(p)[s] = tab[p][s]
                                                         /\ tab[p][s].owner = pid[p]
<1> DEFINE T == Initialized(p)
<1>1. /\ tab[p] \in [Slots -> SlotType] /\ fds[p] = FdsOf(tab[p]) /\ fds[p] \subseteq 1..granted
      /\ OneSlotEach(tab[p])
  BY DEF TableInv, TypeOK, Descriptors, SlotType, FdsOf
<1>2. NoHandle \in SlotType /\ NoHandle.active = FALSE
  BY HandleAssumption DEF NoHandle, SlotType
<1>3. T \in [Slots -> SlotType] /\ \A s \in Slots : T[s] = IF Foreign(p, s) THEN NoHandle ELSE tab[p][s]
  BY <1>1, <1>2 DEF Initialized
<1> HIDE DEF T
<1>4. \A s \in Slots : T[s].active <=> tab[p][s].active /\ ~Foreign(p, s)
  BY <1>2, <1>3 DEF Foreign
<1>5. \A s \in Slots : T[s].active => T[s] = tab[p][s] /\ tab[p][s].owner = pid[p]
  BY <1>3, <1>4 DEF Foreign
<1>6. OneSlotEach(T)
  BY <1>1, <1>4, <1>5 DEF OneSlotEach
<1>7. OwnFds(p) \subseteq FdsOf(T)
  <2> SUFFICES ASSUME NEW c \in OwnFds(p)
               PROVE  c \in FdsOf(T)
    OBVIOUS
  <2>1. PICK s \in Slots : tab[p][s].active /\ tab[p][s].fd = c
    BY <1>1 DEF OwnFds, FdsOf
  <2>2. ~Foreign(p, s)
    BY <2>1 DEF OwnFds
  <2> QED
    BY <1>4, <1>5, <2>1, <2>2 DEF FdsOf
<1>8. FdsOf(T) \subseteq OwnFds(p)
  <2> SUFFICES ASSUME NEW s \in Slots, T[s].active
               PROVE  T[s].fd \in OwnFds(p)
    BY DEF FdsOf
  <2>1. tab[p][s].active /\ ~Foreign(p, s) /\ T[s].fd = tab[p][s].fd
    BY <1>4, <1>5
  <2>2. tab[p][s].fd \in fds[p]
    BY <1>1, <2>1 DEF FdsOf
  <2>3. \A z \in Slots : Foreign(p, z) => tab[p][z].fd # tab[p][s].fd
    BY <1>1, <2>1 DEF Foreign, OneSlotEach
  <2> QED
    BY <2>1, <2>2, <2>3 DEF OwnFds
<1>9. OwnFds(p) \subseteq 1..granted
  BY <1>1 DEF OwnFds
<1> QED
  BY <1>3, <1>5, <1>6, <1>7, <1>8, <1>9 DEF T

\* A command that leaves a table of its own handles and the descriptors of it.
LEMMA CommandTable ==
  ASSUME TableInv, NEW p \in Procs, NEW T \in [Slots -> SlotType], NEW n \in 0..MaxGen,
         NEW open, open = FdsOf(T), OneSlotEach(T), Command(p, T, n, open),
         \A s \in Slots : T[s].active => T[s].owner = pid[p],
         granted' \in 0..MaxConns, granted <= granted', open \subseteq 1..granted',
         issued' \subseteq TokenType, taken' \in [Conns -> 0..Len(Sizes)],
         out' \in [Conns -> Seq(Nat)], reported' \in [Conns -> Seq(Nat)]
  PROVE  TableInv'
<1>1. /\ life[p] = "alive" /\ UNCHANGED <<life, pid>> /\ tab' = [tab EXCEPT ![p] = T]
      /\ gen' = [gen EXCEPT ![p] = n] /\ loaded' = [loaded EXCEPT ![p] = TRUE]
      /\ fds' = [fds EXCEPT ![p] = open] /\ ran' = [ran EXCEPT ![p] = TRUE]
  BY DEF Command
<1>2. /\ life \in [Procs -> {"unborn", "alive", "dead"}] /\ pid \in [Procs -> Pids \cup {NoPid}]
      /\ tab \in [Procs -> [Slots -> SlotType]] /\ gen \in [Procs -> 0..MaxGen]
      /\ loaded \in [Procs -> BOOLEAN] /\ fds \in [Procs -> SUBSET Conns]
      /\ ran \in [Procs -> BOOLEAN] /\ granted \in 0..MaxConns
  BY DEF TableInv, TypeOK, SlotType
<1>3. open \subseteq Conns
  BY HandleAssumption DEF Conns
<1>4. TypeOK'
  <2>1. /\ life' \in [Procs -> {"unborn", "alive", "dead"}] /\ pid' \in [Procs -> Pids \cup {NoPid}]
        /\ tab' \in [Procs -> [Slots -> SlotType]] /\ gen' \in [Procs -> 0..MaxGen]
        /\ loaded' \in [Procs -> BOOLEAN] /\ fds' \in [Procs -> SUBSET Conns]
        /\ ran' \in [Procs -> BOOLEAN]
    BY <1>1, <1>2, <1>3
  <2> QED
    BY <2>1 DEF TypeOK, SlotType, TokenType
<1>5. \A q \in Procs : IF q = p THEN tab'[q] = T /\ fds'[q] = open
                       ELSE tab'[q] = tab[q] /\ fds'[q] = fds[q] /\ ran'[q] = ran[q]
  BY <1>1, <1>2
<1>6. \A q \in Procs : fds'[q] = FdsOf(tab'[q]) /\ OneSlotEach(tab'[q]) /\ fds'[q] \subseteq 1..granted'
  <2> TAKE q \in Procs
  <2>1. CASE q = p
    BY <1>5, <2>1
  <2>2. CASE q # p
    <3>1. fds[q] = FdsOf(tab[q]) /\ OneSlotEach(tab[q]) /\ fds[q] \subseteq 1..granted
      BY DEF TableInv, Descriptors, FdsOf
    <3>2. 1..granted \subseteq 1..granted'
      BY <1>2
    <3> QED
      BY <1>5, <2>2, <3>1, <3>2
  <2> QED
    BY <2>1, <2>2
<1>7. Descriptors'
  <2>1. \A q \in Procs : ran'[q] => \A s \in Slots : tab'[q][s].active => tab'[q][s].owner = pid'[q]
    BY <1>1, <1>5 DEF TableInv, Descriptors
  <2> QED
    BY <1>6, <2>1 DEF Descriptors, FdsOf
<1>8. /\ \A q \in Procs : life'[q] = "unborn" => ~ran'[q]
      /\ \A q \in Procs : life'[q] # "unborn" => pid'[q] \in Pids
  BY <1>1, <1>5 DEF TableInv
<1> QED
  BY <1>4, <1>6, <1>7, <1>8 DEF TableInv, OneSlotEach

\* An empty slot of table U is filled with a connection that U does not have.
LEMMA FillSlot ==
  ASSUME NEW U \in [Slots -> SlotType], NEW s \in Slots, NEW h \in SlotType, OneSlotEach(U),
         h.active, ~U[s].active, h.fd \notin FdsOf(U), NEW T, T = [U EXCEPT ![s] = h]
  PROVE  T \in [Slots -> SlotType] /\ FdsOf(T) = FdsOf(U) \cup {h.fd} /\ OneSlotEach(T)
<1>1. T \in [Slots -> SlotType] /\ T[s] = h /\ \A z \in Slots : z # s => T[z] = U[z]
  OBVIOUS
<1>2. \A z \in Slots : T[z].active => z = s \/ (U[z].active /\ T[z] = U[z])
  BY <1>1
<1>3. FdsOf(T) = FdsOf(U) \cup {h.fd}
  BY <1>1 DEF FdsOf
<1>4. \A z \in Slots : U[z].active => U[z].fd # h.fd
  BY DEF FdsOf
<1>5. OneSlotEach(T)
  BY <1>1, <1>2, <1>4 DEF OneSlotEach
<1> QED
  BY <1>1, <1>3, <1>5

\* A slot of table U is emptied.
LEMMA EmptySlot ==
  ASSUME NEW U \in [Slots -> SlotType], NEW s \in Slots, NEW h \in SlotType, OneSlotEach(U),
         ~h.active, U[s].active, NEW T, T = [U EXCEPT ![s] = h]
  PROVE  T \in [Slots -> SlotType] /\ FdsOf(T) = FdsOf(U) \ {U[s].fd} /\ OneSlotEach(T)
<1>1. T \in [Slots -> SlotType] /\ T[s] = h /\ \A z \in Slots : z # s => T[z] = U[z]
  OBVIOUS
<1>2. \A z \in Slots : T[z].active <=> U[z].active /\ z # s
  BY <1>1
<1>3. \A z \in Slots : U[z].active => (z = s <=> U[z].fd = U[s].fd)
  BY DEF OneSlotEach
<1>4. FdsOf(T) = FdsOf(U) \ {U[s].fd}
  BY <1>1, <1>2, <1>3 DEF FdsOf
<1>5. OneSlotEach(T)
  BY <1>1, <1>2 DEF OneSlotEach
<1> QED
  BY <1>1, <1>4, <1>5

\* A slot of table U keeps its connection, or stays empty.
LEMMA KeepSlot ==
  ASSUME NEW U \in [Slots -> SlotType], NEW s \in Slots, NEW h \in SlotType, OneSlotEach(U),
         h.active <=> U[s].active, h.active => h.fd = U[s].fd, NEW T, T = [U EXCEPT ![s] = h]
  PROVE  T \in [Slots -> SlotType] /\ FdsOf(T) = FdsOf(U) /\ OneSlotEach(T)
<1>1. T \in [Slots -> SlotType] /\ T[s] = h /\ \A z \in Slots : z # s => T[z] = U[z]
  OBVIOUS
<1>2. \A z \in Slots : (T[z].active <=> U[z].active) /\ (T[z].active => T[z].fd = U[z].fd)
  BY <1>1
<1>3. FdsOf(T) = FdsOf(U)
  BY <1>2 DEF FdsOf
<1>4. OneSlotEach(T)
  BY <1>2 DEF OneSlotEach
<1> QED
  BY <1>1, <1>3, <1>4

\* A cleared slot, with the bounds of the table.
LEMMA NoHandleSlot == NoHandle \in SlotType /\ ~NoHandle.active
  BY HandleAssumption DEF NoHandle, SlotType

\* The numbers of the state, and what most commands leave alone.
LEMMA TableNumbers ==
  ASSUME TableInv
  PROVE  /\ granted \in 0..MaxConns /\ MaxConns \in Nat /\ MaxGen \in Nat /\ Len(Sizes) \in Nat
         /\ issued \subseteq TokenType /\ taken \in [Conns -> 0..Len(Sizes)]
         /\ out \in [Conns -> Seq(Nat)] /\ reported \in [Conns -> Seq(Nat)]
<1>1. MaxConns \in Nat /\ MaxGen \in Nat /\ Len(Sizes) \in Nat
  BY HandleAssumption
<1> QED
  BY <1>1 DEF TableInv, TypeOK, TokenType

\* The commands that issue no token and touch no event.
LEMMA PlainTable ==
  ASSUME TableInv, NEW p \in Procs, NEW n \in 0..MaxGen,
         OtherCommand(p, n) \/ \E s \in Slots : AttachUnbound(p, s, n)
  PROVE  TableInv'
<1> DEFINE U == Initialized(p)
           open == OwnFds(p)
<1>1. /\ U \in [Slots -> SlotType] /\ OneSlotEach(U) /\ open = FdsOf(U)
      /\ open \subseteq 1..granted /\ \A s \in Slots : U[s].active => U[s].owner = pid[p]
  BY OwnTable
<1>2. /\ granted \in 0..MaxConns /\ MaxConns \in Nat /\ MaxGen \in Nat
      /\ issued \subseteq TokenType /\ taken \in [Conns -> 0..Len(Sizes)]
      /\ out \in [Conns -> Seq(Nat)] /\ reported \in [Conns -> Seq(Nat)]
  BY TableNumbers
<1>3. CASE OtherCommand(p, n)
  <2>1. Command(p, U, n, open) /\ UNCHANGED <<granted, issued, taken, out, reported>>
    BY <1>3 DEF OtherCommand, eventVars
  <2>2. granted <= granted
    BY <1>2
  <2> HIDE DEF U, open
  <2> QED
    BY <1>1, <1>2, <2>1, <2>2, CommandTable
<1>4. ASSUME NEW s \in Slots, AttachUnbound(p, s, n)
      PROVE  TableInv'
  <2> DEFINE T == [U EXCEPT ![s] = NoHandle]
  <2>1. /\ Command(p, T, n + 1, open) /\ ~U[s].active /\ n < MaxGen
        /\ granted < MaxConns /\ granted' = granted + 1
        /\ UNCHANGED <<issued, taken, out, reported>>
    BY <1>4 DEF AttachUnbound, FreeSlot, MayIssue, eventVars
  <2> HIDE DEF U, open
  <2>2. T \in [Slots -> SlotType] /\ FdsOf(T) = FdsOf(U) /\ OneSlotEach(T)
    BY <1>1, <2>1, KeepSlot, NoHandleSlot
  <2>3. \A z \in Slots : T[z].active => T[z].owner = pid[p]
    BY <1>1, NoHandleSlot
  <2>4. n + 1 \in 0..MaxGen /\ granted' \in 0..MaxConns /\ granted <= granted'
        /\ 1..granted \subseteq 1..granted'
    BY <1>2, <2>1
  <2>5. open = FdsOf(T) /\ open \subseteq 1..granted'
    BY <1>1, <2>2, <2>4
  <2> HIDE DEF T
  <2> QED
    BY <1>2, <2>1, <2>2, <2>3, <2>4, <2>5, CommandTable
<1> QED
  BY <1>3, <1>4

\* attach: the new connection is in no slot yet.
LEMMA AttachTable ==
  ASSUME TableInv, NEW p \in Procs, NEW s \in Slots, NEW n \in 0..MaxGen, Attach(p, s, n)
  PROVE  TableInv'
<1> DEFINE U == Initialized(p)
           c == granted + 1
           open == OwnFds(p) \cup {c}
           h == [U[s] EXCEPT !.active = TRUE, !.owner = pid[p], !.generation = n + 1, !.fd = c]
           T == [U EXCEPT ![s] = h]
           t0 == [proc |-> p, owner |-> pid[p], generation |-> n + 1, slot |-> s, conn |-> c]
<1>1. /\ U \in [Slots -> SlotType] /\ OneSlotEach(U) /\ OwnFds(p) = FdsOf(U)
      /\ OwnFds(p) \subseteq 1..granted /\ \A z \in Slots : U[z].active => U[z].owner = pid[p]
  BY OwnTable
<1>2. /\ granted \in 0..MaxConns /\ MaxConns \in Nat /\ MaxGen \in Nat
      /\ issued \subseteq TokenType /\ taken \in [Conns -> 0..Len(Sizes)]
      /\ out \in [Conns -> Seq(Nat)] /\ reported \in [Conns -> Seq(Nat)]
  BY TableNumbers
<1>3. /\ Command(p, T, n + 1, open) /\ ~U[s].active /\ n < MaxGen
      /\ granted < MaxConns /\ granted' = c /\ issued' = issued \cup {t0}
      /\ UNCHANGED <<taken, out, reported>>
  BY DEF Attach, FreeSlot, MayIssue, eventVars
<1>4. pid[p] \in Pids
  BY <1>3 DEF Command, TableInv
<1>5. c \in Conns /\ c \in 0..MaxConns /\ granted <= c /\ c \notin OwnFds(p) /\ open \subseteq 1..c
  BY <1>1, <1>2, <1>3 DEF Conns
<1>6. n + 1 \in 0..MaxGen
  BY <1>2, <1>3
<1> HIDE DEF U
<1>7. h \in SlotType /\ h.active /\ h.fd = c /\ h.owner = pid[p]
  <2>1. U[s] \in SlotType
    BY <1>1
  <2> HIDE DEF c
  <2> QED
    BY <1>4, <1>5, <1>6, <2>1 DEF SlotType
<1>8. t0 \in TokenType
  <2> HIDE DEF c
  <2> QED
    BY <1>4, <1>5, <1>6 DEF TokenType
<1> HIDE DEF h, t0, c
<1>9. T \in [Slots -> SlotType] /\ FdsOf(T) = FdsOf(U) \cup {h.fd} /\ OneSlotEach(T)
  BY <1>1, <1>3, <1>5, <1>7, FillSlot
<1>10. \A z \in Slots : T[z].active => T[z].owner = pid[p]
  BY <1>1, <1>7
<1>11. issued' \subseteq TokenType /\ open = FdsOf(T)
  BY <1>1, <1>2, <1>3, <1>7, <1>8, <1>9
<1> HIDE DEF T, open
<1> QED
  BY <1>2, <1>3, <1>5, <1>6, <1>9, <1>10, <1>11, CommandTable

\* detach: the descriptor that is closed is in no other slot.
LEMMA DetachTable ==
  ASSUME TableInv, NEW p \in Procs, NEW t \in issued, Detach(p, t)
  PROVE  TableInv'
<1> DEFINE U == Initialized(p)
           s == t.slot
           T == [U EXCEPT ![s] = NoHandle]
           open == OwnFds(p) \ {U[s].fd}
<1>1. /\ U \in [Slots -> SlotType] /\ OneSlotEach(U) /\ OwnFds(p) = FdsOf(U)
      /\ OwnFds(p) \subseteq 1..granted /\ \A z \in Slots : U[z].active => U[z].owner = pid[p]
  BY OwnTable
<1>2. /\ granted \in 0..MaxConns /\ granted <= granted
      /\ issued \subseteq TokenType /\ taken \in [Conns -> 0..Len(Sizes)]
      /\ out \in [Conns -> Seq(Nat)] /\ reported \in [Conns -> Seq(Nat)]
  BY TableNumbers
<1>3. /\ Command(p, T, gen[p], open) /\ U[s].active
      /\ UNCHANGED <<granted, issued, taken, out, reported>>
  BY DEF Detach, Find, Dropped, eventVars
<1>4. s \in Slots /\ gen[p] \in 0..MaxGen
  BY <1>2 DEF TokenType, TableInv, TypeOK
<1> HIDE DEF U, s
<1>5. T \in [Slots -> SlotType] /\ FdsOf(T) = FdsOf(U) \ {U[s].fd} /\ OneSlotEach(T)
  BY <1>1, <1>3, <1>4, EmptySlot, NoHandleSlot
<1>6. \A z \in Slots : T[z].active => T[z].owner = pid[p]
  BY <1>1, NoHandleSlot
<1>7. open = FdsOf(T) /\ open \subseteq 1..granted
  BY <1>1, <1>5
<1> HIDE DEF T, open
<1> QED
  BY <1>2, <1>3, <1>4, <1>5, <1>6, <1>7, CommandTable

-----------------------------------------------------------------------------
(* The offsets of the events.  Offset is a recursive function; that it is  *)
(* defined everywhere is proved by induction, for which the natural        *)
(* numbers are taken as a set.                                             *)

\* A set of numbers has a least element.
LEMMA LeastNumber ==
  ASSUME NEW T \in SUBSET Nat, T # {}
  PROVE  \E n \in T : \A m \in T : n <= m
<1> DEFINE F == {1..t : t \in T}
<1>1. F \subseteq FiniteSubsetsOf(Nat) /\ F # {}
  <2>1. \A t \in T : 1..t \subseteq Nat /\ IsFiniteSet(1..t)
    BY FS_Interval
  <2> QED
    BY <2>1 DEF FiniteSubsetsOf
<1> HIDE DEF F
<1>2. PICK x \in F : \A y \in F : <<y, x>> \notin StrictSubsetOrdering(Nat)
  BY <1>1, FS_StrictSubsetOrderingWellFounded, WFMin, Zenon
<1>3. PICK n \in T : x = 1..n
  BY DEF F
<1>4. ASSUME NEW m \in T, m < n
      PROVE  FALSE
  <2>1. 1..m \in F /\ 1..m \subseteq x /\ 1..m # x /\ x \subseteq Nat
    BY <1>3, <1>4 DEF F
  <2>2. <<1..m, x>> \in StrictSubsetOrdering(Nat)
    BY <2>1 DEF StrictSubsetOrdering
  <2> QED
    BY <1>2, <2>1, <2>2
<1> QED
  BY <1>4

\* f[i] is where event i starts, for every event up to n.
OffsetsOf(f, n) == f = [i \in 0..n |-> IF i <= 1 THEN 0 ELSE f[i - 1] + Sizes[i - 1]]

\* There are such offsets.
LEMMA OffsetsExist == \E f \in [0..(Len(Sizes) + 1) -> Nat] : OffsetsOf(f, Len(Sizes) + 1)
<1> DEFINE L == Len(Sizes) + 1
           T == {k \in Nat : k <= L /\ ~\E f \in [0..k -> Nat] : OffsetsOf(f, k)}
<1>1. L \in Nat /\ \A i \in 1..(L - 1) : Sizes[i] \in Nat
  BY HandleAssumption
<1> SUFFICES ASSUME T # {}
             PROVE  FALSE
  BY <1>1
<1>2. PICK k \in T : \A m \in T : k <= m
  BY LeastNumber
<1> HIDE DEF L
<1>3. k # 0
  <2> DEFINE f == [i \in 0..0 |-> 0]
  <2>1. f \in [0..0 -> Nat] /\ OffsetsOf(f, 0)
    BY DEF OffsetsOf
  <2> QED
    BY <2>1
<1>4. PICK n \in Nat : k = n + 1
  BY <1>2, <1>3
<1>5. n \notin T /\ n <= L /\ n + 1 <= L
  BY <1>1, <1>2, <1>4
<1>6. PICK f \in [0..n -> Nat] : OffsetsOf(f, n)
  BY <1>5
<1> DEFINE x == IF n = 0 THEN 0 ELSE f[n] + Sizes[n]
           g == [i \in 0..(n + 1) |-> IF i <= n THEN f[i] ELSE x]
<1>7. x \in Nat
  BY <1>1, <1>5, <1>6
<1>8. g \in [0..(n + 1) -> Nat]
  BY <1>6, <1>7
<1>9. \A i \in 0..n : f[i] = IF i <= 1 THEN 0 ELSE f[i - 1] + Sizes[i - 1]
  BY <1>6, Zenon DEF OffsetsOf
<1>10. \A i \in 0..(n + 1) : g[i] = IF i <= 1 THEN 0 ELSE g[i - 1] + Sizes[i - 1]
  <2> TAKE i \in 0..(n + 1)
  <2>1. CASE i <= n
    BY <1>9, <2>1
  <2>2. CASE i = n + 1
    BY <2>2
  <2> QED
    BY <2>1, <2>2
<1>11. OffsetsOf(g, n + 1)
  <2> HIDE DEF g
  <2> QED
    BY <1>8, <1>10 DEF OffsetsOf
<1> QED
  BY <1>4, <1>8, <1>11

\* The first event starts at 0 and each starts where the one before ends.
LEMMA Offsets ==
  /\ Offset \in [0..(Len(Sizes) + 1) -> Nat] /\ Offset[0] = 0 /\ Offset[1] = 0
  /\ \A n \in 1..Len(Sizes) : Sizes[n] \in Nat /\ Offset[n + 1] = Offset[n] + Sizes[n]
<1> DEFINE L == Len(Sizes) + 1
           F(f) == [i \in 0..L |-> IF i <= 1 THEN 0 ELSE f[i - 1] + Sizes[i - 1]]
<1>1. Offset = CHOOSE f : f = F(f)
  BY Zenon DEF Offset
<1>2. \E f : f = F(f)
  BY OffsetsExist, Zenon DEF OffsetsOf
<1>3. Offset = F(Offset)
  BY <1>1, <1>2, Zenon
<1>4. L \in Nat /\ L >= 1 /\ \A n \in 1..Len(Sizes) : Sizes[n] \in Nat
  BY HandleAssumption
<1>5. \A i \in 0..L : Offset[i] = IF i <= 1 THEN 0 ELSE Offset[i - 1] + Sizes[i - 1]
  BY <1>3, Zenon
<1>6. DOMAIN Offset = 0..L /\ Offset = [i \in 0..L |-> Offset[i]]
  BY <1>3, Zenon
<1>7. Offset[0] = 0 /\ Offset[1] = 0 /\ 0 <= 1
  BY <1>4, <1>5
<1>8. \A n \in 1..Len(Sizes) : Offset[n + 1] = Offset[n] + Sizes[n]
  BY <1>4, <1>5
<1>9. \A i \in 0..L : Offset[i] \in Nat
  <2> DEFINE T == {i \in Nat : i <= L /\ Offset[i] \notin Nat}
  <2> SUFFICES ASSUME T # {}
               PROVE  FALSE
    BY <1>4
  <2>1. PICK i \in T : \A m \in T : i <= m
    BY LeastNumber
  <2>2. i # 0 /\ i # 1 /\ i \in Nat /\ i <= L
    BY <1>7, <2>1
  <2>3. i - 1 \in Nat /\ i - 1 \notin T /\ i - 1 <= L /\ i - 1 \in 1..Len(Sizes)
    BY <1>4, <2>1, <2>2
  <2>4. Offset[i - 1] \in Nat /\ Offset[i] = Offset[i - 1] + Sizes[i - 1]
    BY <1>5, <2>2, <2>3
  <2> QED
    BY <1>4, <2>1, <2>3, <2>4
<1> QED
  BY <1>4, <1>6, <1>7, <1>8, <1>9

-----------------------------------------------------------------------------
(* receive.                                                                *)

\* What receive does to slot s, where g is the handle in it, h the event it works
\* on and done says that this event is finished.
Delivers(p, s, g, h, k, done, e) ==
  /\ s \in Slots /\ g = Initialized(p)[s] /\ g.active /\ h = Current(g)
  /\ h.event <= Len(Sizes) /\ k <= Sizes[h.event] - h.written
  /\ done \in BOOLEAN /\ (done => k = Sizes[h.event] - h.written)
  /\ e = IF done THEN [h EXCEPT !.pending = FALSE, !.written = 0]
         ELSE [h EXCEPT !.written = h.written + k]
  /\ Command(p, [Initialized(p) EXCEPT ![s] = e], gen[p], OwnFds(p))
  /\ taken' = [taken EXCEPT ![h.fd] = IF g.pending THEN taken[h.fd] ELSE taken[h.fd] + 1]
  /\ out' = [out EXCEPT ![h.fd] =
               out[h.fd] \o [j \in 1..k |-> Offset[h.event] + h.written + j - 1]]
  /\ reported' = [reported EXCEPT ![h.fd] =
                    IF done THEN Append(reported[h.fd], h.event) ELSE reported[h.fd]]
  /\ UNCHANGED <<granted, issued>>

\* The action is such a delivery.
LEMMA ReceiveCases ==
  ASSUME TableInv, NEW p \in Procs, NEW t \in issued, NEW k \in Nat, NEW bound \in BOOLEAN,
         Receive(p, t, k, bound)
  PROVE  \E s, g, h, done, e : Delivers(p, s, g, h, k, done, e)
<1> DEFINE s == t.slot
           g == Initialized(p)[s]
           h == Current(g)
           done == k = Sizes[h.event] - h.written /\ bound
           e == IF done THEN [h EXCEPT !.pending = FALSE, !.written = 0]
                ELSE [h EXCEPT !.written = h.written + k]
<1>1. s \in Slots /\ g.active
  BY TableNumbers DEF TokenType, Receive, Find
<1>2. done \in BOOLEAN /\ (done => k = Sizes[h.event] - h.written)
  OBVIOUS
<1>3. /\ h.event <= Len(Sizes) /\ k <= Sizes[h.event] - h.written
      /\ Command(p, [Initialized(p) EXCEPT ![s] = e], gen[p], OwnFds(p))
      /\ taken' = [taken EXCEPT ![h.fd] = IF g.pending THEN taken[h.fd] ELSE taken[h.fd] + 1]
      /\ out' = [out EXCEPT ![h.fd] =
                   out[h.fd] \o [j \in 1..k |-> Offset[h.event] + h.written + j - 1]]
      /\ reported' = [reported EXCEPT ![h.fd] =
                        IF done THEN Append(reported[h.fd], h.event) ELSE reported[h.fd]]
      /\ UNCHANGED <<granted, issued>>
  BY Zenon DEF Receive
<1>4. Delivers(p, s, g, h, k, done, e)
  BY <1>1, <1>2, <1>3, Zenon DEF Delivers
<1> QED
  BY <1>4

\* The event under way and the handle that receive leaves: identity and bounds.
HandedOver(p, s, g, h, k, done, e) ==
  /\ g \in SlotType /\ g = tab[p][s] /\ g.owner = pid[p] /\ g.fd \in Conns
  /\ h \in SlotType /\ h.active = g.active /\ h.owner = g.owner /\ h.fd = g.fd
  /\ h.generation = g.generation /\ h.pending
  /\ (g.pending => h = g)
  /\ (~g.pending => h.event = taken[g.fd] + 1 /\ h.written = 0)
  /\ e \in SlotType /\ e.active = g.active /\ e.owner = g.owner /\ e.fd = g.fd
  /\ e.generation = g.generation
  /\ (e.pending <=> ~done)
  /\ (~done => e.event = h.event /\ e.written = h.written + k)

\* receive hands over.
LEMMA DeliveredSlot ==
  ASSUME TableInv, NEW p \in Procs, NEW s, NEW g, NEW h, NEW k \in Nat, NEW done, NEW e,
         Delivers(p, s, g, h, k, done, e)
  PROVE  HandedOver(p, s, g, h, k, done, e)
<1>1. /\ s \in Slots /\ g = Initialized(p)[s] /\ g.active /\ h = Current(g)
      /\ h.event <= Len(Sizes) /\ done \in BOOLEAN
      /\ e = IF done THEN [h EXCEPT !.pending = FALSE, !.written = 0]
             ELSE [h EXCEPT !.written = h.written + k]
  BY DEF Delivers
<1>2. g \in SlotType /\ g = tab[p][s] /\ g.owner = pid[p] /\ g.fd \in OwnFds(p)
  BY <1>1, OwnTable DEF FdsOf
<1>3. g.fd \in Conns
  BY <1>2, OwnTable, TableNumbers DEF Conns
<1>4. taken[g.fd] + 1 \in Nat
  BY <1>3, TableNumbers
<1>5. /\ h \in SlotType /\ h.active = g.active /\ h.owner = g.owner /\ h.fd = g.fd
      /\ h.generation = g.generation /\ h.pending
      /\ (g.pending => h = g)
      /\ (~g.pending => h.event = taken[g.fd] + 1 /\ h.written = 0)
  <2>1. CASE g.pending
    BY <1>1, <1>2, <2>1 DEF Current
  <2>2. CASE ~g.pending
    <3> DEFINE x == taken[g.fd] + 1
    <3>1. h = [g EXCEPT !.pending = TRUE, !.event = x, !.written = 0]
      BY <1>1, <2>2 DEF Current
    <3> HIDE DEF x
    <3>2. h.event = x
      BY <1>2, <3>1 DEF SlotType
    <3>3. x \in 0..Len(Sizes)
      BY <1>1, <1>4, <3>2, TableNumbers DEF x
    <3> QED
      BY <1>2, <2>2, <3>1, <3>2, <3>3 DEF SlotType, x
  <2> QED
    BY <2>1, <2>2
<1>6. h.written + k \in Nat
  BY <1>5 DEF SlotType
<1>7. /\ e \in SlotType /\ e.active = h.active /\ e.owner = h.owner /\ e.fd = h.fd
      /\ e.generation = h.generation /\ (e.pending <=> ~done)
      /\ (~done => e.event = h.event /\ e.written = h.written + k)
  <2>1. CASE done
    BY <1>1, <1>5, <2>1 DEF SlotType
  <2>2. CASE ~done
    <3> DEFINE w == h.written + k
    <3>1. e = [h EXCEPT !.written = w] /\ w \in Nat
      BY <1>1, <1>6, <2>2
    <3> HIDE DEF w
    <3> QED
      BY <1>5, <2>2, <3>1 DEF SlotType, w
  <2> QED
    BY <2>1, <2>2
<1> QED
  BY <1>2, <1>3, <1>5, <1>7, Zenon DEF HandedOver

\* receive keeps the connections of the table and the bounds of the events.
LEMMA ReceiveTable ==
  ASSUME TableInv, NEW p \in Procs, NEW s, NEW g, NEW h, NEW k \in Nat, NEW done, NEW e,
         Delivers(p, s, g, h, k, done, e)
  PROVE  TableInv'
<1> DEFINE U == Initialized(p)
           T == [U EXCEPT ![s] = e]
           open == OwnFds(p)
<1>1. /\ U \in [Slots -> SlotType] /\ OneSlotEach(U) /\ open = FdsOf(U)
      /\ open \subseteq 1..granted /\ \A z \in Slots : U[z].active => U[z].owner = pid[p]
  BY OwnTable
<1>2. /\ granted \in 0..MaxConns /\ granted <= granted /\ Len(Sizes) \in Nat
      /\ issued \subseteq TokenType /\ taken \in [Conns -> 0..Len(Sizes)]
      /\ out \in [Conns -> Seq(Nat)] /\ reported \in [Conns -> Seq(Nat)]
  BY TableNumbers
<1>3. /\ g \in SlotType /\ g.owner = pid[p] /\ g.fd \in Conns
      /\ h \in SlotType /\ h.fd = g.fd
      /\ e \in SlotType /\ e.active = g.active /\ e.owner = g.owner /\ e.fd = g.fd
      /\ (~g.pending => h.event = taken[g.fd] + 1)
  <2>1. HandedOver(p, s, g, h, k, done, e)
    BY DeliveredSlot
  <2> QED
    BY <2>1, Zenon DEF HandedOver
<1>4. /\ s \in Slots /\ g = U[s] /\ g.active /\ h.event <= Len(Sizes) /\ done \in BOOLEAN
      /\ Command(p, T, gen[p], open) /\ UNCHANGED <<granted, issued>>
      /\ taken' = [taken EXCEPT ![h.fd] = IF g.pending THEN taken[h.fd] ELSE taken[h.fd] + 1]
      /\ out' = [out EXCEPT ![h.fd] =
                   out[h.fd] \o [j \in 1..k |-> Offset[h.event] + h.written + j - 1]]
      /\ reported' = [reported EXCEPT ![h.fd] =
                        IF done THEN Append(reported[h.fd], h.event) ELSE reported[h.fd]]
  BY DEF Delivers
<1>5. gen[p] \in 0..MaxGen
  BY DEF TableInv, TypeOK
<1>6. h.event \in Nat /\ h.written \in Nat /\ Offset[h.event] \in Nat
  BY <1>2, <1>3, Offsets DEF SlotType
<1> HIDE DEF U, open
<1>7. T \in [Slots -> SlotType] /\ FdsOf(T) = FdsOf(U) /\ OneSlotEach(T)
  BY <1>1, <1>3, <1>4, KeepSlot
<1>8. \A z \in Slots : T[z].active => T[z].owner = pid[p]
  BY <1>1, <1>3, <1>4
<1>9. taken' \in [Conns -> 0..Len(Sizes)]
  <2>1. taken[h.fd] \in 0..Len(Sizes)
    BY <1>2, <1>3
  <2>2. ~g.pending => taken[h.fd] + 1 \in 0..Len(Sizes)
    BY <1>2, <1>3, <1>4, <2>1
  <2> QED
    BY <1>2, <1>4, <2>1, <2>2
<1>10. out' \in [Conns -> Seq(Nat)]
  <2> DEFINE w == [j \in 1..k |-> Offset[h.event] + h.written + j - 1]
  <2>1. w \in Seq(Nat)
    BY <1>6
  <2>2. out[h.fd] \in Seq(Nat)
    BY <1>2, <1>3
  <2> HIDE DEF w
  <2>3. out[h.fd] \o w \in Seq(Nat)
    BY <2>1, <2>2
  <2> QED
    BY <1>2, <1>4, <2>3 DEF w
<1>11. reported' \in [Conns -> Seq(Nat)]
  <2>1. reported[h.fd] \in Seq(Nat)
    BY <1>2, <1>3
  <2>2. Append(reported[h.fd], h.event) \in Seq(Nat)
    BY <1>6, <2>1
  <2> QED
    BY <1>2, <1>4, <2>1, <2>2
<1>12. open = FdsOf(T)
  BY <1>1, <1>7
<1> HIDE DEF T
<1> QED
  BY <1>1, <1>2, <1>4, <1>5, <1>7, <1>8, <1>9, <1>10, <1>11, <1>12, CommandTable

\* enable -d and exit: the table is cleared and its descriptors are closed.
LEMMA ClearTable ==
  ASSUME TableInv, NEW p \in Procs, Reload(p) \/ Exit(p)
  PROVE  TableInv'
<1> DEFINE N == [s \in Slots |-> NoHandle]
<1>1. /\ life \in [Procs -> {"unborn", "alive", "dead"}] /\ pid \in [Procs -> Pids \cup {NoPid}]
      /\ tab \in [Procs -> [Slots -> SlotType]] /\ gen \in [Procs -> 0..MaxGen]
      /\ loaded \in [Procs -> BOOLEAN] /\ fds \in [Procs -> SUBSET Conns]
      /\ ran \in [Procs -> BOOLEAN] /\ fds[p] = FdsOf(tab[p])
  BY DEF TableInv, TypeOK, SlotType, Descriptors, FdsOf
<1>2. /\ life[p] = "alive" /\ (life' = life \/ life' = [life EXCEPT ![p] = "dead"])
      /\ tab' = [tab EXCEPT ![p] = N] /\ fds' = [fds EXCEPT ![p] = {}]
      /\ gen' = gen \/ gen' = [gen EXCEPT ![p] = 0]
      /\ loaded' = loaded \/ loaded' = [loaded EXCEPT ![p] = FALSE]
      /\ UNCHANGED <<pid, ran, granted, issued, taken, out, reported>>
  <2>1. CASE Reload(p)
    <3>1. fds[p] \ {tab[p][s].fd : s \in {z \in Slots : tab[p][z].active}} = {}
      BY <1>1 DEF FdsOf
    <3> QED
      BY <2>1, <3>1 DEF Reload, procVars, eventVars
  <2>2. CASE Exit(p)
    BY <2>2 DEF Exit, eventVars
  <2> QED
    BY <2>1, <2>2
<1>3. N \in [Slots -> SlotType] /\ \A s \in Slots : ~N[s].active
  BY NoHandleSlot
<1> HIDE DEF N
<1>4. /\ life' \in [Procs -> {"unborn", "alive", "dead"}] /\ pid' \in [Procs -> Pids \cup {NoPid}]
      /\ tab' \in [Procs -> [Slots -> SlotType]] /\ gen' \in [Procs -> 0..MaxGen]
      /\ loaded' \in [Procs -> BOOLEAN] /\ fds' \in [Procs -> SUBSET Conns]
      /\ ran' \in [Procs -> BOOLEAN]
  <2>1. 0 \in 0..MaxGen
    BY HandleAssumption
  <2>2. life' \in [Procs -> {"unborn", "alive", "dead"}]
    BY <1>1, <1>2
  <2>3. tab' \in [Procs -> [Slots -> SlotType]]
    BY <1>1, <1>2, <1>3
  <2>4. gen' \in [Procs -> 0..MaxGen]
    BY <1>1, <1>2, <2>1
  <2>5. fds' \in [Procs -> SUBSET Conns]
    BY <1>1, <1>2
  <2>6. loaded' \in [Procs -> BOOLEAN]
    BY <1>1, <1>2
  <2> QED
    BY <1>1, <1>2, <2>2, <2>3, <2>4, <2>5, <2>6
<1>5. TypeOK'
  BY <1>2, <1>4, TableNumbers DEF TypeOK, SlotType, TokenType
<1>6. \A q \in Procs : \/ q = p /\ tab'[q] = N /\ fds'[q] = {}
                       \/ tab'[q] = tab[q] /\ fds'[q] = fds[q]
  BY <1>1, <1>2
<1>7. FdsOf(N) = {} /\ OneSlotEach(N)
  BY <1>3 DEF FdsOf, OneSlotEach
<1>8. \A q \in Procs : fds'[q] = FdsOf(tab'[q]) /\ OneSlotEach(tab'[q]) /\ fds'[q] \subseteq 1..granted'
  <2> TAKE q \in Procs
  <2>1. fds[q] = FdsOf(tab[q]) /\ OneSlotEach(tab[q]) /\ fds[q] \subseteq 1..granted
    BY DEF TableInv, Descriptors, FdsOf
  <2> QED
    BY <1>2, <1>6, <1>7, <2>1
<1>9. \A q \in Procs : ran'[q] => \A s \in Slots : tab'[q][s].active => tab'[q][s].owner = pid'[q]
  BY <1>2, <1>3, <1>6 DEF TableInv, Descriptors
<1>10. Descriptors'
  BY <1>8, <1>9 DEF Descriptors, FdsOf
<1>11. \A q \in Procs : life'[q] = "unborn" <=> life[q] = "unborn"
  BY <1>1, <1>2
<1> QED
  BY <1>2, <1>5, <1>8, <1>10, <1>11 DEF TableInv, OneSlotEach

\* fork: table and descriptors are copied together.
LEMMA ForkTable ==
  ASSUME TableInv, NEW p \in Procs, NEW q \in Procs, NEW n \in Pids, Fork(p, q, n)
  PROVE  TableInv'
<1>1. /\ life \in [Procs -> {"unborn", "alive", "dead"}] /\ pid \in [Procs -> Pids \cup {NoPid}]
      /\ tab \in [Procs -> [Slots -> SlotType]] /\ gen \in [Procs -> 0..MaxGen]
      /\ loaded \in [Procs -> BOOLEAN] /\ fds \in [Procs -> SUBSET Conns]
      /\ ran \in [Procs -> BOOLEAN]
  BY DEF TableInv, TypeOK, SlotType
<1>2. /\ life[p] = "alive" /\ life[q] = "unborn"
      /\ life' = [life EXCEPT ![q] = "alive"] /\ pid' = [pid EXCEPT ![q] = n]
      /\ tab' = [tab EXCEPT ![q] = tab[p]] /\ gen' = [gen EXCEPT ![q] = gen[p]]
      /\ loaded' = [loaded EXCEPT ![q] = loaded[p]] /\ fds' = [fds EXCEPT ![q] = fds[p]]
      /\ UNCHANGED <<ran, granted, issued, taken, out, reported>>
  BY DEF Fork, eventVars
<1>3. /\ life' \in [Procs -> {"unborn", "alive", "dead"}] /\ pid' \in [Procs -> Pids \cup {NoPid}]
      /\ tab' \in [Procs -> [Slots -> SlotType]] /\ gen' \in [Procs -> 0..MaxGen]
      /\ loaded' \in [Procs -> BOOLEAN] /\ fds' \in [Procs -> SUBSET Conns]
      /\ ran' \in [Procs -> BOOLEAN]
  BY <1>1, <1>2
<1>4. TypeOK'
  BY <1>2, <1>3, TableNumbers DEF TypeOK, SlotType, TokenType
<1>5. \A r \in Procs : \E o \in Procs : tab'[r] = tab[o] /\ fds'[r] = fds[o]
  BY <1>1, <1>2
<1>6. \A r \in Procs : fds'[r] = FdsOf(tab'[r]) /\ OneSlotEach(tab'[r]) /\ fds'[r] \subseteq 1..granted'
  <2> TAKE r \in Procs
  <2>1. PICK o \in Procs : tab'[r] = tab[o] /\ fds'[r] = fds[o]
    BY <1>5
  <2>2. fds[o] = FdsOf(tab[o]) /\ OneSlotEach(tab[o]) /\ fds[o] \subseteq 1..granted
    BY DEF TableInv, Descriptors, FdsOf
  <2> QED
    BY <1>2, <2>1, <2>2
<1>7. ~ran[q]
  BY <1>2 DEF TableInv
<1>8. \A r \in Procs : ran'[r] => r # q /\ tab'[r] = tab[r] /\ pid'[r] = pid[r]
  BY <1>1, <1>2, <1>7
<1>9. Descriptors'
  <2>1. \A r \in Procs : ran'[r] => \A s \in Slots : tab'[r][s].active => tab'[r][s].owner = pid'[r]
    BY <1>2, <1>8 DEF TableInv, Descriptors
  <2> QED
    BY <1>6, <2>1 DEF Descriptors, FdsOf
<1>10. /\ \A r \in Procs : life'[r] = "unborn" => ~ran'[r]
       /\ \A r \in Procs : life'[r] # "unborn" => pid'[r] \in Pids
  BY <1>1, <1>2 DEF TableInv
<1> QED
  BY <1>4, <1>6, <1>9, <1>10 DEF TableInv, OneSlotEach

\* Every step keeps table and descriptors together.
LEMMA NextTable ==
  ASSUME TableInv, [Next]_vars
  PROVE  TableInv'
<1>1. ASSUME NEW p \in Procs, NEW t \in issued, NEW bound \in BOOLEAN,
             NEW k \in 0..Offset[Len(Sizes) + 1], Receive(p, t, k, bound)
      PROVE  TableInv'
  <2>1. k \in Nat
    OBVIOUS
  <2>2. PICK s, g, h, done, e : Delivers(p, s, g, h, k, done, e)
    BY <1>1, <2>1, ReceiveCases
  <2> QED
    BY <2>1, <2>2, ReceiveTable
<1>2. CASE UNCHANGED vars
  <2>1. /\ life' = life /\ pid' = pid /\ tab' = tab /\ gen' = gen /\ loaded' = loaded
        /\ fds' = fds /\ ran' = ran /\ granted' = granted /\ issued' = issued
        /\ taken' = taken /\ out' = out /\ reported' = reported
    BY <1>2 DEF vars
  <2>2. TypeOK'
    BY <2>1, Zenon DEF TableInv, TypeOK
  <2>3. Descriptors'
    BY <2>1, Zenon DEF TableInv, Descriptors
  <2> QED
    BY <2>1, <2>2, <2>3, Zenon DEF TableInv, OneSlotEach
<1>3. CASE Finished
  BY <1>2, <1>3 DEF Finished
<1>4. ASSUME NEW p \in Procs, NEW n \in 0..MaxGen, OtherCommand(p, n)
      PROVE  TableInv'
  BY <1>4, PlainTable
<1>5. ASSUME NEW p \in Procs, NEW s \in Slots, NEW n \in 0..MaxGen,
             Attach(p, s, n) \/ AttachUnbound(p, s, n)
      PROVE  TableInv'
  BY <1>5, AttachTable, PlainTable
<1>6. ASSUME NEW p \in Procs, NEW t \in issued, Detach(p, t)
      PROVE  TableInv'
  BY <1>6, DetachTable
<1>7. ASSUME NEW p \in Procs, Reload(p) \/ Exit(p)
      PROVE  TableInv'
  BY <1>7, ClearTable
<1>8. ASSUME NEW p \in Procs, NEW q \in Procs, NEW n \in Pids, Fork(p, q, n)
      PROVE  TableInv'
  BY <1>8, ForkTable
<1> QED
  BY <1>1, <1>2, <1>3, <1>4, <1>5, <1>6, <1>7, <1>8, Zenon DEF Next

\* The first shell starts with an empty table.
LEMMA InitTable ==
  ASSUME Init
  PROVE  TableInv
<1>1. PICK n \in Pids : pid = [p \in Procs |-> IF p = Root THEN n ELSE NoPid]
  BY DEF Init
<1>2. /\ \A p \in Procs, s \in Slots : tab[p][s] = NoHandle
      /\ \A p \in Procs : fds[p] = {} /\ ~ran[p]
  BY DEF Init
<1>3. TypeOK
  <2>1. 0 \in 0..MaxGen /\ 0 \in 0..MaxConns /\ 0 \in 0..Len(Sizes)
    BY HandleAssumption
  <2>2. tab \in [Procs -> [Slots -> SlotType]]
    BY NoHandleSlot DEF Init
  <2> QED
    BY <1>1, <2>1, <2>2 DEF Init, TypeOK, SlotType
<1>4. Descriptors
  BY <1>2, NoHandleSlot DEF Descriptors
<1>5. \A p \in Procs : fds[p] \subseteq 1..granted /\ OneSlotEach(tab[p])
  BY <1>2, NoHandleSlot DEF OneSlotEach
<1>6. \A p \in Procs : life[p] # "unborn" => pid[p] \in Pids
  BY <1>1 DEF Init
<1> QED
  BY <1>2, <1>3, <1>4, <1>5, <1>6 DEF TableInv

\* The table holds together in every execution.
LEMMA TableInvariance == Spec => []TableInv
<1>1. Init => TableInv
  BY InitTable
<1>2. TableInv /\ [Next]_vars => TableInv'
  BY NextTable
<1> QED
  BY <1>1, <1>2, PTL DEF Spec

\* The table is well-formed, its generations and events stay within their widths,
\* and the process has open exactly the descriptors of its active handles; a
\* subshell that ran a command has closed its parent's.  This needs no assumption
\* on pids.
THEOREM TableIsConsistent == Spec => []TableConsistent
<1>1. TableInv => TableConsistent
  BY DEF TableInv, TableConsistent
<1> QED
  BY <1>1, TableInvariance, PTL

-----------------------------------------------------------------------------
(* What leaves a handle.                                                   *)

\* p has the handle in slot s itself: fork did not copy it here.
Owns(p, s) == tab[p][s].active /\ tab[p][s].owner = pid[p]

\* Events r reported, bytes o written and n packets read follow the service.
InOrder(r, o, n) ==
  /\ r = [i \in 1..Len(r) |-> i] /\ o = [i \in 1..Len(o) |-> i - 1]
  /\ Len(r) <= n /\ n <= Len(r) + 1
  /\ Len(o) \in Offset[Len(r) + 1]..Offset[n + 1]

\* The handle knows how far it is: within the event it keeps, or between two.
AtEvent(h, r, o, n) ==
  IF h.pending
  THEN /\ n = Len(r) + 1 /\ h.event = Len(r) + 1 /\ h.written <= Sizes[h.event]
       /\ Len(o) = Offset[h.event] + h.written
  ELSE n = Len(r) /\ Len(o) = Offset[Len(r) + 1]

\* DeliveredOnce is not inductive: the next byte is the right one because a
\* connection has one handle that reads from it, copies in subshells being
\* discarded before use, because that handle agrees with what left it, and
\* because an empty slot keeps no event for the next connection in it.
OneReader ==
  \A p, q \in Procs, s, z \in Slots :
    Owns(p, s) /\ Owns(q, z) /\ tab[p][s].fd = tab[q][z].fd => p = q
SlotsClean == \A p \in Procs, s \in Slots : ~tab[p][s].active => ~tab[p][s].pending
NothingYet ==
  \A c \in Conns : c > granted => taken[c] = 0 /\ out[c] = <<>> /\ reported[c] = <<>>
HandlesAt ==
  \A p \in Procs, s \in Slots : Owns(p, s) =>
    LET c == tab[p][s].fd IN AtEvent(tab[p][s], reported[c], out[c], taken[c])
EventInv == OneReader /\ SlotsClean /\ NothingYet /\ HandlesAt /\ DeliveredOnce

\* The bytes of an event continue those before it.
LEMMA BytesContinue ==
  ASSUME NEW o \in Seq(Nat), o = [i \in 1..Len(o) |-> i - 1], NEW k \in Nat,
         NEW a, a = Len(o), NEW w, w = o \o [j \in 1..k |-> a + j - 1]
  PROVE  w = [i \in 1..Len(w) |-> i - 1] /\ Len(w) = Len(o) + k
<1> DEFINE v == [j \in 1..k |-> a + j - 1]
<1>1. v \in Seq(Nat) /\ Len(v) = k /\ \A j \in 1..k : v[j] = a + j - 1
  OBVIOUS
<1>2. w = o \o v
  OBVIOUS
<1> HIDE DEF v
<1>3. /\ w \in Seq(Nat) /\ Len(w) = Len(o) + k
      /\ \A i \in 1..Len(w) : w[i] = IF i <= Len(o) THEN o[i] ELSE v[i - Len(o)]
  BY <1>1, <1>2
<1>4. \A i \in 1..Len(w) : w[i] = i - 1
  <2> TAKE i \in 1..Len(w)
  <2>1. CASE i <= Len(o)
    <3>1. i \in 1..Len(o)
      BY <1>3, <2>1
    <3>2. o[i] = i - 1
      BY <3>1
    <3> QED
      BY <1>3, <2>1, <3>2
  <2>2. CASE ~(i <= Len(o))
    <3>1. i - Len(o) \in 1..k
      BY <1>3, <2>2
    <3>2. v[i - Len(o)] = a + (i - Len(o)) - 1
      BY <1>1, <3>1
    <3> QED
      BY <1>3, <2>2, <3>2
  <2> QED
    BY <2>1, <2>2
<1> QED
  BY <1>3, <1>4

\* One call of receive: from handle g after events r, bytes o and n packets, with
\* event h under way, to handle e after x, y and m.
Progress(r, o, n, g, h, k, done, e, x, y, m) ==
  /\ h.event <= Len(Sizes) /\ k <= Sizes[h.event] - h.written
  /\ (g.pending => h = g) /\ (~g.pending => h.event = n + 1 /\ h.written = 0)
  /\ (done => k = Sizes[h.event] - h.written)
  /\ (e.pending <=> ~done) /\ (~done => e.event = h.event /\ e.written = h.written + k)
  /\ x = (IF done THEN Append(r, h.event) ELSE r)
  /\ y = o \o [j \in 1..k |-> Offset[h.event] + h.written + j - 1]
  /\ m = (IF g.pending THEN n ELSE n + 1)

\* Such a call works on the event after those reported, from where it stopped.
LEMMA ProgressFrom ==
  ASSUME NEW r \in Seq(Nat), NEW o \in Seq(Nat), NEW n \in Nat, NEW g, AtEvent(g, r, o, n),
         NEW h, NEW k, NEW done, NEW e, NEW x, NEW y, NEW m,
         Progress(r, o, n, g, h, k, done, e, x, y, m)
  PROVE  /\ m = Len(r) + 1 /\ h.event = Len(r) + 1 /\ h.event <= Len(Sizes)
         /\ Len(o) = Offset[h.event] + h.written
<1>1. CASE g.pending
  BY <1>1 DEF AtEvent, Progress
<1>2. CASE ~g.pending
  <2>1. /\ n = Len(r) /\ Len(o) = Offset[Len(r) + 1] /\ h.event = n + 1 /\ h.written = 0
        /\ m = n + 1 /\ h.event <= Len(Sizes)
    BY <1>2 DEF AtEvent, Progress
  <2> DEFINE a == Offset[h.event]
  <2>2. a = Len(o) /\ Len(o) \in Nat
    BY <2>1
  <2> HIDE DEF a
  <2>3. Len(o) = a + h.written
    BY <2>1, <2>2
  <2> QED
    BY <2>1, <2>3 DEF a
<1> QED
  BY <1>1, <1>2

\* It stays in order, and the handle it leaves is where it should be.
LEMMA DeliverOne ==
  ASSUME NEW r \in Seq(Nat), NEW o \in Seq(Nat), NEW n \in Nat, InOrder(r, o, n),
         NEW g, AtEvent(g, r, o, n), NEW h \in SlotType, NEW k \in Nat, NEW done \in BOOLEAN,
         NEW e, NEW x, NEW y, NEW m, Progress(r, o, n, g, h, k, done, e, x, y, m)
  PROVE  InOrder(x, y, m) /\ AtEvent(e, x, y, m)
<1> DEFINE b == h.event
           w == h.written
           z == Sizes[b]
           f == Offset[b]
           l == Offset[b + 1]
<1>1. /\ r = [i \in 1..Len(r) |-> i] /\ o = [i \in 1..Len(o) |-> i - 1]
      /\ Len(r) \in Nat /\ Len(o) \in Nat /\ Len(Sizes) \in Nat
  BY HandleAssumption DEF InOrder
<1>2. m = Len(r) + 1 /\ b = Len(r) + 1 /\ b <= Len(Sizes) /\ Len(o) = f + w
  BY ProgressFrom
<1>3. w \in Nat
  BY DEF SlotType
<1>4. z \in Nat /\ f \in Nat /\ l = f + z
  <2> HIDE DEF b
  <2>1. b \in 1..Len(Sizes) /\ b \in 0..(Len(Sizes) + 1)
    BY <1>1, <1>2
  <2> QED
    BY <2>1, Offsets
<1>5. /\ k <= z - w /\ (done => k = z - w) /\ (e.pending <=> ~done)
      /\ (~done => e.event = b /\ e.written = w + k)
      /\ x = (IF done THEN Append(r, b) ELSE r)
      /\ y = o \o [j \in 1..k |-> f + w + j - 1]
  BY Zenon DEF Progress
<1> HIDE DEF b, w, z, f, l
<1>6. y = [i \in 1..Len(y) |-> i - 1] /\ Len(y) = Len(o) + k
  <2> DEFINE a == f + w
  <2>1. a = Len(o) /\ y = o \o [j \in 1..k |-> a + j - 1]
    BY <1>2, <1>5
  <2> HIDE DEF a
  <2> QED
    BY <1>1, <2>1, BytesContinue
<1>7. Len(y) = f + (w + k) /\ f <= Len(y) /\ Len(y) <= l /\ w + k <= z
  BY <1>1, <1>2, <1>3, <1>4, <1>5, <1>6
<1>8. CASE done
  <2>1. x = Append(r, Len(r) + 1) /\ ~e.pending
    BY <1>2, <1>5, <1>8
  <2>2. Len(x) = Len(r) + 1 /\ x = [i \in 1..Len(x) |-> i]
    BY <1>1, <2>1
  <2>3. Len(y) = l
    <3>1. k = z - w
      BY <1>5, <1>8, Zenon
    <3> QED
      BY <1>3, <1>4, <1>7, <3>1
  <2>4. Len(x) = m /\ m = b /\ m \in Nat /\ l = Offset[m + 1] /\ l \in Nat
    BY <1>1, <1>2, <1>4, <2>2 DEF l
  <2>5. Len(y) \in Offset[Len(x) + 1]..Offset[m + 1]
    BY <2>3, <2>4
  <2>6. Len(x) <= m /\ m <= Len(x) + 1
    BY <2>4
  <2>7. InOrder(x, y, m)
    BY <1>6, <2>2, <2>5, <2>6, Zenon DEF InOrder
  <2>8. AtEvent(e, x, y, m)
    BY <2>1, <2>3, <2>4 DEF AtEvent
  <2> QED
    BY <2>7, <2>8
<1>9. CASE ~done
  <2>1. x = r /\ e.pending /\ e.event = b /\ e.written = w + k
    BY <1>5, <1>9
  <2>2. f = Offset[Len(r) + 1] /\ l = Offset[m + 1] /\ z = Sizes[b]
    BY <1>2 DEF f, l, z
  <2>3. Len(y) \in f..l
    BY <1>4, <1>7
  <2>4. Len(x) <= m /\ m <= Len(x) + 1
    BY <1>1, <1>2, <2>1
  <2>5. InOrder(x, y, m)
    BY <1>1, <1>6, <2>1, <2>2, <2>3, <2>4, Zenon DEF InOrder
  <2>6. AtEvent(e, x, y, m)
    BY <1>2, <1>7, <2>1, <2>2 DEF AtEvent
  <2> QED
    BY <2>5, <2>6
<1> QED
  BY <1>8, <1>9

\* A step that reads nothing and gives a process at most one handle, on a new
\* connection: the other handles were there before.
LEMMA QuietEvents ==
  ASSUME TableInv, TableInv', EventInv, UNCHANGED <<taken, out, reported>>, granted <= granted',
         NEW p \in Procs, NEW s \in Slots,
         \A q \in Procs, z \in Slots : Owns(q, z)' =>
           \/ Owns(q, z) /\ tab'[q][z] = tab[q][z]
           \/ /\ q = p /\ z = s /\ tab'[q][z].fd = granted + 1 /\ ~tab'[q][z].pending
              /\ granted + 1 <= MaxConns,
         SlotsClean'
  PROVE  EventInv'
<1>1. granted \in Nat /\ granted' \in Nat /\ MaxConns \in Nat
  <2>1. granted \in 0..MaxConns /\ granted' \in 0..MaxConns
    BY DEF TableInv, TypeOK
  <2> QED
    BY <2>1, HandleAssumption
<1>2. \A q \in Procs, z \in Slots : Owns(q, z) => tab[q][z].fd # granted + 1
  <2> SUFFICES ASSUME NEW q \in Procs, NEW z \in Slots, Owns(q, z)
               PROVE  tab[q][z].fd # granted + 1
    OBVIOUS
  <2>1. tab[q][z].fd \in 1..granted
    BY DEF Owns, TableInv, Descriptors
  <2> QED
    BY <1>1, <2>1
<1>3. OneReader'
  BY <1>2 DEF OneReader, EventInv, Owns
<1>4. NothingYet' /\ DeliveredOnce'
  <2>1. DeliveredOnce'
    BY Zenon DEF EventInv, DeliveredOnce
  <2>2. \A c \in Conns : c > granted' => c > granted
    BY <1>1 DEF Conns
  <2> QED
    BY <2>1, <2>2 DEF EventInv, NothingYet
<1>5. HandlesAt'
  <2> SUFFICES ASSUME NEW q \in Procs, NEW z \in Slots, Owns(q, z)'
               PROVE  LET c == tab'[q][z].fd
                      IN AtEvent(tab'[q][z], reported[c], out[c], taken[c])
    BY DEF HandlesAt, AtEvent
  <2>1. CASE Owns(q, z) /\ tab'[q][z] = tab[q][z]
    BY <2>1 DEF EventInv, HandlesAt
  <2>2. CASE tab'[q][z].fd = granted + 1 /\ ~tab'[q][z].pending /\ granted + 1 <= MaxConns
    <3> DEFINE c == granted + 1
    <3>1. c \in Conns /\ c > granted
      BY <1>1, <2>2 DEF Conns
    <3>2. taken[c] = 0 /\ out[c] = <<>> /\ reported[c] = <<>>
      BY <3>1 DEF EventInv, NothingYet
    <3>3. Len(<<>>) = 0 /\ Offset[1] = 0
      BY Offsets
    <3>4. AtEvent(tab'[q][z], <<>>, <<>>, 0)
      BY <2>2, <3>3 DEF AtEvent
    <3> QED
      BY <2>2, <3>2, <3>4
  <2> QED
    BY <2>1, <2>2
<1> QED
  BY <1>3, <1>4, <1>5 DEF EventInv

\* No event waits in a slot that bw_initialize leaves empty.
LEMMA OwnClean ==
  ASSUME TableInv, EventInv, NEW p \in Procs, NEW s \in Slots, ~Initialized(p)[s].active
  PROVE  ~Initialized(p)[s].pending
<1>1. Initialized(p)[s] = IF Foreign(p, s) THEN NoHandle ELSE tab[p][s]
  BY DEF Initialized
<1>2. ~NoHandle.pending
  BY DEF NoHandle
<1> QED
  BY <1>1, <1>2 DEF EventInv, SlotsClean

\* A command that keeps handles as they are, drops some and opens at most one.
LEMMA CommandEvents ==
  ASSUME TableInv, TableInv', EventInv, UNCHANGED <<taken, out, reported>>, granted <= granted',
         NEW p \in Procs, NEW s \in Slots, NEW T \in [Slots -> SlotType], NEW n, NEW open,
         Command(p, T, n, open),
         \A z \in Slots : T[z].active =>
           \/ T[z] = Initialized(p)[z]
           \/ z = s /\ T[z].fd = granted + 1 /\ ~T[z].pending /\ granted + 1 <= MaxConns,
         \A z \in Slots : ~T[z].active => ~T[z].pending
  PROVE  EventInv'
<1>1. /\ pid' = pid /\ tab' = [tab EXCEPT ![p] = T] /\ tab \in [Procs -> [Slots -> SlotType]]
  BY DEF Command, TableInv, TypeOK, SlotType
<1>2. tab'[p] = T /\ \A q \in Procs : q # p => tab'[q] = tab[q]
  BY <1>1
<1>3. \A z \in Slots : T[z].active =>
        \/ Owns(p, z) /\ T[z] = tab[p][z]
        \/ z = s /\ T[z].fd = granted + 1 /\ ~T[z].pending /\ granted + 1 <= MaxConns
  BY OwnTable DEF Owns
<1>4. SlotsClean'
  BY <1>2 DEF EventInv, SlotsClean
<1>5. \A q \in Procs, z \in Slots : Owns(q, z)' =>
        \/ Owns(q, z) /\ tab'[q][z] = tab[q][z]
        \/ /\ q = p /\ z = s /\ tab'[q][z].fd = granted + 1 /\ ~tab'[q][z].pending
           /\ granted + 1 <= MaxConns
  BY <1>1, <1>2, <1>3 DEF Owns
<1> QED
  BY <1>4, <1>5, QuietEvents

\* The commands that receive nothing.
LEMMA PlainEvents ==
  ASSUME TableInv, TableInv', EventInv, NEW p \in Procs,
         \/ \E n \in 0..MaxGen : OtherCommand(p, n)
         \/ \E s \in Slots, n \in 0..MaxGen : AttachUnbound(p, s, n)
         \/ \E t \in issued : Detach(p, t)
  PROVE  EventInv'
<1>1. Initialized(p) \in [Slots -> SlotType] /\ granted \in Nat
  BY OwnTable, TableNumbers
<1>2. \A z \in Slots : ~Initialized(p)[z].active => ~Initialized(p)[z].pending
  BY OwnClean
<1>3. NoHandle \in SlotType /\ ~NoHandle.active /\ ~NoHandle.pending
  BY NoHandleSlot DEF NoHandle
<1>4. PICK s, T, n, open :
        /\ s \in Slots
        /\ Command(p, T, n, open) /\ UNCHANGED <<taken, out, reported>> /\ granted <= granted'
        /\ (T = Initialized(p) \/ T = [Initialized(p) EXCEPT ![s] = NoHandle])
  <2>1. CASE \E n \in 0..MaxGen : OtherCommand(p, n)
    <3>1. 0 \in Slots
      BY HandleAssumption DEF Slots
    <3> QED
      BY <1>1, <2>1, <3>1 DEF OtherCommand, eventVars
  <2>2. CASE \E s \in Slots, n \in 0..MaxGen : AttachUnbound(p, s, n)
    <3>1. PICK s \in Slots, n \in 0..MaxGen : AttachUnbound(p, s, n)
      BY <2>2
    <3>2. /\ Command(p, [Initialized(p) EXCEPT ![s] = NoHandle], n + 1, OwnFds(p))
          /\ UNCHANGED <<taken, out, reported>> /\ granted' = granted + 1
      BY <3>1, Zenon DEF AttachUnbound, eventVars
    <3>3. granted <= granted'
      BY <1>1, <3>2
    <3> QED
      BY <3>2, <3>3, Zenon
  <2>3. CASE \E t \in issued : Detach(p, t)
    <3>1. PICK t \in issued : Detach(p, t)
      BY <2>3
    <3>2. t.slot \in Slots
      BY TableNumbers DEF TokenType
    <3>3. /\ \E open : Command(p, [Initialized(p) EXCEPT ![t.slot] = NoHandle], gen[p], open)
          /\ UNCHANGED <<taken, out, reported>> /\ granted' = granted
      BY <3>1, Zenon DEF Detach, Dropped, eventVars
    <3>4. granted <= granted'
      BY <1>1, <3>3
    <3> QED
      BY <3>2, <3>3, <3>4, Zenon
  <2> QED
    BY <2>1, <2>2, <2>3
<1>5. /\ T \in [Slots -> SlotType]
      /\ \A z \in Slots : T[z].active => T[z] = Initialized(p)[z]
      /\ \A z \in Slots : ~T[z].active => ~T[z].pending
  BY <1>1, <1>2, <1>3, <1>4
<1> QED
  BY <1>4, <1>5, CommandEvents

\* attach: the new handle is at the start of a connection nobody read from.
LEMMA AttachEvents ==
  ASSUME TableInv, TableInv', EventInv, NEW p \in Procs, NEW s \in Slots, NEW n \in 0..MaxGen,
         Attach(p, s, n)
  PROVE  EventInv'
<1> DEFINE U == Initialized(p)
           c == granted + 1
           g == n + 1
           h == [U[s] EXCEPT !.active = TRUE, !.owner = pid[p], !.generation = g, !.fd = c]
           T == [U EXCEPT ![s] = h]
           open == OwnFds(p) \cup {c}
<1>1. /\ Command(p, T, g, open) /\ UNCHANGED <<taken, out, reported>>
      /\ granted' = granted + 1 /\ ~U[s].active /\ granted < MaxConns
  BY DEF Attach, FreeSlot, eventVars
<1>2. granted \in Nat /\ MaxConns \in Nat /\ U \in [Slots -> SlotType]
  BY OwnTable, TableNumbers
<1>3. granted <= granted' /\ c <= MaxConns /\ c = granted + 1
  BY <1>1, <1>2
<1>4. T \in [Slots -> SlotType] /\ T[s] = h /\ \A z \in Slots : z # s => T[z] = U[z]
  <2>1. tab' = [tab EXCEPT ![p] = T] /\ tab'[p] \in [Slots -> SlotType] /\ p \in DOMAIN tab
    BY <1>1 DEF Command, TableInv, TypeOK, SlotType
  <2>2. T = tab'[p]
    BY <2>1
  <2> QED
    BY <1>2, <2>1, <2>2
<1>5. ~U[s].pending /\ \A z \in Slots : ~U[z].active => ~U[z].pending
  BY <1>1, OwnClean
<1>6. U[s] \in SlotType
  BY <1>2
<1> HIDE DEF c, g, U
<1>7. h.fd = c /\ ~h.pending /\ h.active
  BY <1>5, <1>6 DEF SlotType
<1> HIDE DEF h
<1>8. \A z \in Slots : T[z].active =>
        \/ T[z] = Initialized(p)[z]
        \/ z = s /\ T[z].fd = granted + 1 /\ ~T[z].pending /\ granted + 1 <= MaxConns
  BY <1>3, <1>4, <1>7 DEF U
<1>9. \A z \in Slots : ~T[z].active => ~T[z].pending
  BY <1>4, <1>5, <1>7
<1> HIDE DEF T, open
<1> QED
  BY <1>1, <1>3, <1>4, <1>8, <1>9, CommandEvents

\* enable -d, exit and fork: a process loses its handles, or gets a copy of some
\* that it does not own.
LEMMA ShellEvents ==
  ASSUME ~Reuse, HandleInv, TableInv, TableInv', EventInv, NEW p \in Procs,
         Reload(p) \/ Exit(p) \/ \E q \in Procs, n \in Pids : Fork(p, q, n)
  PROVE  EventInv'
<1>1. /\ tab \in [Procs -> [Slots -> SlotType]] /\ pid \in [Procs -> Pids \cup {NoPid}]
      /\ granted \in Nat
  BY TableNumbers DEF TableInv, TypeOK, SlotType
<1>2. /\ UNCHANGED <<granted, taken, out, reported>>
      /\ \A q \in Procs, z \in Slots : Owns(q, z)' => Owns(q, z) /\ tab'[q][z] = tab[q][z]
      /\ SlotsClean'
  <2>1. CASE Reload(p) \/ Exit(p)
    <3> DEFINE N == [s \in Slots |-> NoHandle]
    <3>1. /\ UNCHANGED <<pid, granted, taken, out, reported>> /\ tab' = [tab EXCEPT ![p] = N]
      BY <2>1 DEF Reload, Exit, procVars, eventVars
    <3>2. \A z \in Slots : ~N[z].active /\ ~N[z].pending
      BY DEF NoHandle
    <3> HIDE DEF N
    <3>3. tab'[p] = N /\ \A q \in Procs : q # p => tab'[q] = tab[q]
      BY <1>1, <3>1
    <3>4. SlotsClean'
      BY <3>2, <3>3 DEF EventInv, SlotsClean
    <3> QED
      BY <3>1, <3>2, <3>3, <3>4 DEF Owns
  <2>2. ASSUME NEW r \in Procs, NEW n \in Pids, Fork(p, r, n)
        PROVE  /\ UNCHANGED <<granted, taken, out, reported>>
               /\ \A q \in Procs, z \in Slots :
                    Owns(q, z)' => Owns(q, z) /\ tab'[q][z] = tab[q][z]
               /\ SlotsClean'
    <3>1. /\ UNCHANGED <<granted, taken, out, reported>> /\ \A q \in Procs : pid[q] # n
          /\ tab' = [tab EXCEPT ![r] = tab[p]] /\ pid' = [pid EXCEPT ![r] = n]
      BY <2>2 DEF Fork, eventVars
    <3>2. /\ tab'[r] = tab[p] /\ pid'[r] = n
          /\ \A q \in Procs : q # r => tab'[q] = tab[q] /\ pid'[q] = pid[q]
      BY <1>1, <3>1
    <3>3. \A z \in Slots : tab[p][z].active => tab[p][z].owner # n
      BY <3>1 DEF HandleInv, HandlesOwned
    <3>4. SlotsClean'
      BY <3>2 DEF EventInv, SlotsClean
    <3>5. \A q \in Procs, z \in Slots : Owns(q, z)' => Owns(q, z) /\ tab'[q][z] = tab[q][z]
      BY <3>2, <3>3 DEF Owns
    <3> QED
      BY <3>1, <3>4, <3>5
  <2> QED
    BY <2>1, <2>2
<1>3. 0 \in Slots /\ granted <= granted'
  BY <1>1, <1>2, HandleAssumption DEF Slots
<1> QED
  BY <1>2, <1>3, QuietEvents

\* DeliveredOnce says that every connection is in order.
LEMMA OnceIsInOrder ==
  DeliveredOnce <=> \A c \in Conns : InOrder(reported[c], out[c], taken[c])
  BY Zenon DEF DeliveredOnce, InOrder

\* What receive does to the connection and to the slot, and that it leaves the
\* others alone.
LEMMA ReceiveEffect ==
  ASSUME TableInv, EventInv, NEW p \in Procs, NEW s, NEW g, NEW h, NEW k \in Nat, NEW done, NEW e,
         Delivers(p, s, g, h, k, done, e), NEW c, c = g.fd
  PROVE  /\ c \in Conns /\ s \in Slots /\ Owns(p, s) /\ g = tab[p][s]
         /\ h \in SlotType /\ done \in BOOLEAN
         /\ Progress(reported[c], out[c], taken[c], g, h, k, done, e,
                     reported'[c], out'[c], taken'[c])
         /\ \A d \in Conns : d # c => /\ reported'[d] = reported[d] /\ out'[d] = out[d]
                                      /\ taken'[d] = taken[d]
         /\ pid' = pid /\ granted' = granted /\ tab'[p][s] = e /\ e.fd = c /\ e.active
<1> DEFINE U == Initialized(p)
           T == [U EXCEPT ![s] = e]
<1>1. HandedOver(p, s, g, h, k, done, e)
  BY DeliveredSlot
<1>2. /\ s \in Slots /\ g.active /\ h.event <= Len(Sizes) /\ k <= Sizes[h.event] - h.written
      /\ done \in BOOLEAN /\ (done => k = Sizes[h.event] - h.written)
      /\ Command(p, T, gen[p], OwnFds(p))
      /\ taken' = [taken EXCEPT ![h.fd] = IF g.pending THEN taken[h.fd] ELSE taken[h.fd] + 1]
      /\ out' = [out EXCEPT ![h.fd] =
                   out[h.fd] \o [j \in 1..k |-> Offset[h.event] + h.written + j - 1]]
      /\ reported' = [reported EXCEPT ![h.fd] =
                        IF done THEN Append(reported[h.fd], h.event) ELSE reported[h.fd]]
      /\ UNCHANGED <<granted, issued>>
  BY Zenon DEF Delivers
<1>3. /\ g = tab[p][s] /\ g.owner = pid[p] /\ c \in Conns /\ h \in SlotType /\ h.fd = c
      /\ e \in SlotType /\ e.fd = c /\ e.active = g.active
  BY <1>1 DEF HandedOver
<1>4. /\ (g.pending => h = g) /\ (~g.pending => h.event = taken[c] + 1 /\ h.written = 0)
      /\ (e.pending <=> ~done) /\ (~done => e.event = h.event /\ e.written = h.written + k)
  BY <1>1, Zenon DEF HandedOver
<1>5. /\ taken \in [Conns -> 0..Len(Sizes)] /\ out \in [Conns -> Seq(Nat)]
      /\ reported \in [Conns -> Seq(Nat)] /\ tab \in [Procs -> [Slots -> SlotType]]
      /\ U \in [Slots -> SlotType]
  BY TableNumbers, OwnTable DEF TableInv, TypeOK, SlotType
<1>6. /\ taken'[c] = (IF g.pending THEN taken[c] ELSE taken[c] + 1)
      /\ \A d \in Conns : d # c => taken'[d] = taken[d]
  BY <1>2, <1>3, <1>5
<1>7. /\ out'[c] = out[c] \o [j \in 1..k |-> Offset[h.event] + h.written + j - 1]
      /\ \A d \in Conns : d # c => out'[d] = out[d]
  <2> DEFINE w == [j \in 1..k |-> Offset[h.event] + h.written + j - 1]
             o == out[c] \o w
  <2>1. out' = [out EXCEPT ![c] = o]
    BY <1>2, <1>3
  <2> HIDE DEF o
  <2> QED
    BY <1>3, <1>5, <2>1 DEF o
<1>8. /\ reported'[c] = (IF done THEN Append(reported[c], h.event) ELSE reported[c])
      /\ \A d \in Conns : d # c => reported'[d] = reported[d]
  BY <1>2, <1>3, <1>5
<1>9. Progress(reported[c], out[c], taken[c], g, h, k, done, e, reported'[c], out'[c], taken'[c])
  BY <1>2, <1>4, <1>6, <1>7, <1>8, Zenon DEF Progress
<1>10. pid' = pid /\ granted' = granted /\ tab'[p][s] = e
  <2>1. tab' = [tab EXCEPT ![p] = T] /\ pid' = pid /\ granted' = granted
    BY <1>2 DEF Command
  <2>2. T[s] = e
    BY <1>2, <1>5
  <2> HIDE DEF T
  <2> QED
    BY <1>5, <2>1, <2>2
<1>11. Owns(p, s) /\ e.active
  BY <1>2, <1>3 DEF Owns
<1> QED
  BY <1>2, <1>3, <1>6, <1>7, <1>8, <1>9, <1>10, <1>11, Zenon

\* The other handles of receive's process, and those of other processes, are what
\* they were; a discarded copy leaves an empty slot.
LEMMA ReceiveOthers ==
  ASSUME TableInv, EventInv, NEW p \in Procs, NEW s, NEW g, NEW h, NEW k \in Nat, NEW done, NEW e,
         Delivers(p, s, g, h, k, done, e)
  PROVE  /\ \A q \in Procs, z \in Slots : Owns(q, z)' /\ ~(q = p /\ z = s)
              => Owns(q, z) /\ tab'[q][z] = tab[q][z]
         /\ \A q \in Procs, z \in Slots : ~(q = p /\ z = s) /\ ~tab'[q][z].active
              => ~tab'[q][z].pending
<1> DEFINE U == Initialized(p)
           T == [U EXCEPT ![s] = e]
<1>1. /\ s \in Slots /\ tab' = [tab EXCEPT ![p] = T] /\ pid' = pid
  BY DEF Delivers, Command
<1>2. /\ tab \in [Procs -> [Slots -> SlotType]] /\ U \in [Slots -> SlotType]
      /\ \A z \in Slots : U[z].active => U[z] = tab[p][z] /\ tab[p][z].owner = pid[p]
  BY OwnTable DEF TableInv, TypeOK, SlotType
<1>3. \A z \in Slots : ~U[z].active => ~U[z].pending
  BY OwnClean
<1> HIDE DEF U
<1>4. \A z \in Slots : z # s => T[z] = U[z]
  BY <1>1, <1>2
<1> HIDE DEF T
<1>5. tab'[p] = T /\ \A q \in Procs : q # p => tab'[q] = tab[q]
  BY <1>1, <1>2
<1>6. \A q \in Procs, z \in Slots : Owns(q, z)' /\ ~(q = p /\ z = s)
        => Owns(q, z) /\ tab'[q][z] = tab[q][z]
  BY <1>1, <1>2, <1>4, <1>5 DEF Owns
<1>7. \A q \in Procs, z \in Slots : ~(q = p /\ z = s) /\ ~tab'[q][z].active
        => ~tab'[q][z].pending
  BY <1>3, <1>4, <1>5 DEF EventInv, SlotsClean
<1> QED
  BY <1>6, <1>7

\* receive: the one handle that reads from the connection continues where it was.
LEMMA ReceiveEvents ==
  ASSUME TableInv, TableInv', EventInv, NEW p \in Procs, NEW s, NEW g, NEW h, NEW k \in Nat,
         NEW done, NEW e, Delivers(p, s, g, h, k, done, e)
  PROVE  EventInv'
<1> DEFINE c == g.fd
<1>1. /\ c \in Conns /\ s \in Slots /\ Owns(p, s) /\ g = tab[p][s]
      /\ h \in SlotType /\ done \in BOOLEAN
      /\ Progress(reported[c], out[c], taken[c], g, h, k, done, e,
                  reported'[c], out'[c], taken'[c])
      /\ \A d \in Conns : d # c => /\ reported'[d] = reported[d] /\ out'[d] = out[d]
                                   /\ taken'[d] = taken[d]
      /\ pid' = pid /\ granted' = granted /\ tab'[p][s] = e /\ e.fd = c /\ e.active
  BY ReceiveEffect, Zenon
<1>2. /\ \A q \in Procs, z \in Slots : Owns(q, z)' /\ ~(q = p /\ z = s)
           => Owns(q, z) /\ tab'[q][z] = tab[q][z]
      /\ \A q \in Procs, z \in Slots : ~(q = p /\ z = s) /\ ~tab'[q][z].active
           => ~tab'[q][z].pending
  BY ReceiveOthers, Zenon
<1>3. /\ reported[c] \in Seq(Nat) /\ out[c] \in Seq(Nat) /\ taken[c] \in Nat
  BY <1>1, TableNumbers
<1>4. InOrder(reported[c], out[c], taken[c])
  BY <1>1, OnceIsInOrder DEF EventInv
<1>5. AtEvent(g, reported[c], out[c], taken[c])
  BY <1>1, Zenon DEF EventInv, HandlesAt
<1>6. /\ InOrder(reported'[c], out'[c], taken'[c])
      /\ AtEvent(e, reported'[c], out'[c], taken'[c])
  BY <1>1, <1>3, <1>4, <1>5, DeliverOne
<1>7. \A q \in Procs, z \in Slots : Owns(q, z) /\ ~(q = p /\ z = s) => tab[q][z].fd # c
  <2> SUFFICES ASSUME NEW q \in Procs, NEW z \in Slots, Owns(q, z), tab[q][z].fd = c
               PROVE  q = p /\ z = s
    OBVIOUS
  <2>1. q = p
    BY <1>1 DEF EventInv, OneReader
  <2>2. OneSlotEach(tab[p]) /\ tab[p][s].active /\ tab[p][z].active
    BY <1>1, <2>1 DEF TableInv, Owns
  <2> QED
    BY <1>1, <2>1, <2>2 DEF OneSlotEach
<1>8. \A q \in Procs, z \in Slots : Owns(q, z) => tab[q][z].fd \in 1..granted
  BY DEF Owns, TableInv, Descriptors
<1> HIDE DEF c
<1>9. SlotsClean'
  BY <1>1, <1>2 DEF SlotsClean
<1>10. OneReader'
  <2>1. \A q \in Procs, z \in Slots : Owns(q, z)' => Owns(q, z) /\ tab'[q][z].fd = tab[q][z].fd
    BY <1>1, <1>2 DEF c
  <2> QED
    BY <2>1 DEF EventInv, OneReader
<1>11. DeliveredOnce'
  <2>1. \A d \in Conns : InOrder(reported'[d], out'[d], taken'[d])
    BY <1>1, <1>6, OnceIsInOrder, Zenon DEF EventInv
  <2> QED
    BY <2>1, Zenon DEF DeliveredOnce, InOrder
<1>12. NothingYet'
  <2>1. c \in 1..granted /\ granted \in Nat
    BY <1>1, <1>8, TableNumbers DEF c
  <2>2. \A d \in Conns : d > granted => d # c
    BY <2>1
  <2> QED
    BY <1>1, <2>2 DEF EventInv, NothingYet
<1>13. HandlesAt'
  <2> SUFFICES ASSUME NEW q \in Procs, NEW z \in Slots, Owns(q, z)'
               PROVE  \A d : d = tab'[q][z].fd =>
                        AtEvent(tab'[q][z], reported'[d], out'[d], taken'[d])
    BY Zenon DEF HandlesAt, AtEvent
  <2> TAKE d
  <2> HAVE d = tab'[q][z].fd
  <2>1. CASE q = p /\ z = s
    BY <1>1, <1>6, <2>1
  <2>2. CASE ~(q = p /\ z = s)
    <3>1. Owns(q, z) /\ tab'[q][z] = tab[q][z]
      BY <1>2, <2>2
    <3>2. AtEvent(tab[q][z], reported[d], out[d], taken[d])
      BY <3>1, Zenon DEF EventInv, HandlesAt
    <3>3. d \in Conns /\ d # c
      <4>1. d \in 1..granted /\ granted \in 0..MaxConns /\ MaxConns \in Nat
        BY <1>8, <3>1, TableNumbers
      <4> QED
        BY <1>7, <2>2, <3>1, <4>1 DEF Conns
    <3> QED
      BY <1>1, <3>1, <3>2, <3>3, Zenon
  <2> QED
    BY <2>1, <2>2
<1> QED
  BY <1>9, <1>10, <1>11, <1>12, <1>13 DEF EventInv

\* Every step keeps the events in order.
LEMMA NextEvents ==
  ASSUME ~Reuse, HandleInv, TableInv, TableInv', EventInv, [Next]_vars
  PROVE  EventInv'
<1>1. ASSUME NEW p \in Procs, NEW t \in issued, NEW bound \in BOOLEAN,
             NEW k \in 0..Offset[Len(Sizes) + 1], Receive(p, t, k, bound)
      PROVE  EventInv'
  <2>1. k \in Nat
    OBVIOUS
  <2>2. PICK s, g, h, done, e : Delivers(p, s, g, h, k, done, e)
    BY <1>1, <2>1, ReceiveCases
  <2> QED
    BY <2>1, <2>2, ReceiveEvents
<1>2. CASE UNCHANGED vars
  <2>1. UNCHANGED <<pid, tab, granted, taken, out, reported>>
    BY <1>2 DEF vars
  <2> QED
    BY <2>1 DEF EventInv, OneReader, SlotsClean, NothingYet, HandlesAt, AtEvent, Owns,
                DeliveredOnce
<1>3. CASE Finished
  BY <1>2, <1>3 DEF Finished
<1>4. ASSUME NEW p \in Procs,
             \/ \E n \in 0..MaxGen : OtherCommand(p, n)
             \/ \E s \in Slots, n \in 0..MaxGen : AttachUnbound(p, s, n)
             \/ \E t \in issued : Detach(p, t)
      PROVE  EventInv'
  BY <1>4, PlainEvents
<1>5. ASSUME NEW p \in Procs, NEW s \in Slots, NEW n \in 0..MaxGen, Attach(p, s, n)
      PROVE  EventInv'
  BY <1>5, AttachEvents
<1>6. ASSUME NEW p \in Procs, Reload(p) \/ Exit(p) \/ \E q \in Procs, n \in Pids : Fork(p, q, n)
      PROVE  EventInv'
  BY <1>6, ShellEvents
<1> QED
  BY <1>1, <1>2, <1>3, <1>4, <1>5, <1>6, Zenon DEF Next

\* Through timeouts, short writes, refused bindings, detach, fork and reuse of
\* slots, every byte and every event of a connection leaves its handle once, in
\* the order the service sent them, an event after all of its bytes: for payloads
\* of any number and size, when the kernel does not give a pid twice.
THEOREM EventsDeliveredOnce ==
  ASSUME ~Reuse
  PROVE  Spec => []DeliveredOnce
<1>1. Init => EventInv
  <2> SUFFICES ASSUME Init
               PROVE  EventInv
    OBVIOUS
  <2>1. \A p \in Procs, s \in Slots : ~tab[p][s].active /\ ~tab[p][s].pending
    BY DEF Init, NoHandle
  <2>2. \A c \in Conns : taken[c] = 0 /\ out[c] = <<>> /\ reported[c] = <<>>
    BY DEF Init
  <2>3. InOrder(<<>>, <<>>, 0)
    <3>1. Len(<<>>) = 0 /\ Offset[1] = 0
      BY Offsets
    <3>2. <<>> = [i \in 1..0 |-> i] /\ <<>> = [i \in 1..0 |-> i - 1]
      OBVIOUS
    <3> QED
      BY <3>1, <3>2 DEF InOrder
  <2>4. DeliveredOnce
    BY <2>2, <2>3, OnceIsInOrder
  <2> QED
    BY <2>1, <2>2, <2>4 DEF EventInv, OneReader, SlotsClean, NothingYet, HandlesAt, Owns
<1>2. HandleInv /\ TableInv /\ TableInv' /\ EventInv /\ [Next]_vars => EventInv'
  BY NextEvents
<1>3. EventInv => DeliveredOnce
  BY DEF EventInv
<1> QED
  BY <1>1, <1>2, <1>3, HandleInvariance, TableInvariance, PTL DEF Spec

=============================================================================
