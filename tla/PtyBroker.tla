------------------------------ MODULE PtyBroker ------------------------------
(***************************************************************************)
(* The headless service of loadables/_ptybroker/server.c: one process that *)
(* owns a PTY, a bounded history of its output, a bounded input ring and a *)
(* table of client connections, driven by a single poll loop (pb_serve).   *)
(*                                                                         *)
(* The service is one sequential process; `pc' names the system call, or   *)
(* the group of calls, it is about to make.  Clients, the processes on the *)
(* PTY, the clocks and signals run between any two of its steps.           *)
(*                                                                         *)
(* A byte of PTY output is named by its position in the output stream and  *)
(* a byte of input by its position among the accepted input bytes, so that *)
(* "the right bytes in the right order" is a statement about numbers.      *)
(***************************************************************************)
EXTENDS PtyRing, FiniteSets

CONSTANTS
  NSlots,        \* PB_CLIENTS
  MaxObservers,  \* PB_OBSERVERS
  QueueLimit,    \* PB_QUEUE: bytes queued for one peer
  InputLimit,    \* PB_INPUT_LIMIT: bytes of the input ring
  Header,        \* PB_HEADER
  StatusSize,    \* sizeof(struct pb_status)
  FlushQuota, ReadQuota, AcceptQuota,  \* packets, reads, accepts per loop turn
  Conns,         \* connections clients may make, each used once
  Requests,      \* the requests clients may send
  MaxSends,      \* bound: packets a client sends on one connection
  Procs,         \* processes that may run on the PTY
  Shell,         \* the process spawn_pty starts
  Stubborn,      \* processes that ignore SIGTERM
  MaxOutput,     \* bound: bytes the processes ever write
  Events,        \* bound: which of the optional events of the environment happen
  Broker, NoProc, NoConn

(* Request types (transport.h) and what a request carries: `a' is the      *)
(* offset of CAPTURE, the payload size of INPUT and the geometry of RESIZE *)
(* (0 is out of range), `b' the end offset of CAPTURE.  MALFORMED is any   *)
(* packet that fails the header checks.                                    *)
RequestTypes == {"STATUS", "CONTROL", "OBSERVER", "RESIZE", "INPUT", "CAPTURE",
                 "TERMINATE", "UNKNOWN", "MALFORMED"}
EventTypes == {"OUTPUT", "ATTACHED", "GEOMETRY", "EXIT", "GAP"}
Errors == {"0", "ESHUTDOWN", "EBUSY", "EPIPE", "EAGAIN", "EOVERFLOW", "EINVAL",
           "EIO"}
EventKinds == {"signal", "hangup", "idle", "exit", "daemon",       \* clients, processes
               "sigfail", "pollfail", "ioctl", "write"}            \* failing calls
Request == [type : RequestTypes, a : Nat, b : Nat]

ASSUME BrokerAssumption ==
  /\ {NSlots, MaxObservers, QueueLimit, InputLimit} \subseteq Nat \ {0}
  /\ {FlushQuota, ReadQuota, AcceptQuota} \subseteq Nat \ {0}
  /\ {Header, StatusSize, MaxSends, MaxOutput} \subseteq Nat
  /\ IsFiniteSet(Conns) /\ NoConn \notin Conns
  /\ IsFiniteSet(Procs) /\ Shell \in Procs /\ Stubborn \subseteq Procs
  /\ Broker \notin Procs /\ NoProc \notin Procs /\ Broker # NoProc
  /\ Requests \subseteq Request /\ Events \subseteq EventKinds

Slots == 1 .. NSlots

VARIABLES
  \* the service
  pc, cur, tick, rev,       \* where it is; slot, quota and poll result of this turn
  peer,                     \* s.peers
  eof, exitSent, stopping, late, childLive, geom, result,
  next, hist,               \* bytes read from the PTY; the history ring
  inBuf, inHead, inSize,    \* the input ring
  bound,                    \* the listener, its socket name and directory exist
  \* its environment
  conn, backlog, proc, ptyOut, stopSignal,
  \* history variables: input accepted, written to the PTY, thrown away
  accepted, written, lost

loopVars  == <<pc, cur, tick, rev>>
flagVars  == <<eof, exitSent, stopping, late, childLive, geom, result>>
outVars   == <<next, hist>>
inVars    == <<inBuf, inHead, inSize, accepted, written, lost>>
envVars   == <<conn, backlog, proc, ptyOut, stopSignal>>
vars == <<loopVars, peer, flagVars, outVars, inVars, bound, envVars>>

-----------------------------------------------------------------------------
(* Packets, peers and the per-peer queue.                                  *)

NoStatus == [running |-> FALSE, stopping |-> FALSE, controller |-> 0,
             observers |-> 0, oldest |-> 0, next |-> 0, geom |-> 0]

Status == [running : BOOLEAN, stopping : BOOLEAN, controller : Nat,
           observers : Nat, oldest : Nat, next : Nat, geom : Nat]

\* A packet: `data' are the PTY bytes it carries, `st' the status it carries.
Message == [type : RequestTypes \cup EventTypes, err : Errors, off : Nat,
            size : Nat, data : Seq(Nat), st : Status]

Plain(type, err, off) ==
  [type |-> type, err |-> err, off |-> off, size |-> 0, data |-> <<>>, st |-> NoStatus]
Bytes(type, off, data) ==
  [type |-> type, err |-> "0", off |-> off, size |-> Len(data), data |-> data,
   st |-> NoStatus]
WithStatus(type, off, st) ==
  [type |-> type, err |-> "0", off |-> off, size |-> StatusSize, data |-> <<>>, st |-> st]

\* struct pb_peer; peer_close leaves exactly this behind.
NoPeer == [fd |-> NoConn, role |-> "none", closing |-> FALSE,
           terminating |-> FALSE, old |-> FALSE, queued |-> 0, q |-> <<>>]

\* Mutant: a packet that does not fit is dropped, the peer stays.
QueueDrops(p, m) ==
  IF p.fd = NoConn \/ m.size > Chunk \/ Header + m.size > QueueLimit - p.queued THEN p
  ELSE [p EXCEPT !.q = Append(@, m), !.queued = @ + Header + m.size]

\* queue(): a packet that does not fit closes the peer.
Queue(p, m) ==
  IF p.fd = NoConn THEN p
  ELSE IF m.size > Chunk \/ Header + m.size > QueueLimit - p.queued THEN NoPeer
  ELSE [p EXCEPT !.q = Append(@, m), !.queued = @ + Header + m.size]

\* broadcast(): to every peer that holds a role.
Broadcast(ps, m) ==
  [s \in Slots |-> IF ps[s].role # "none" /\ ps[s].fd # NoConn
                   THEN Queue(ps[s], m) ELSE ps[s]]

Holding(ps, role) == {s \in Slots : ps[s].fd # NoConn /\ ps[s].role = role}

\* status_of(), for the peer table ps and the geometry g.
StatusOf(ps, g) ==
  [running |-> childLive, stopping |-> stopping,
   controller |-> Cardinality(Holding(ps, "CONTROL")),
   observers |-> Cardinality(Holding(ps, "OBSERVER")),
   oldest |-> Oldest(next), next |-> next, geom |-> g]

-----------------------------------------------------------------------------
(* Processes.  A process whose parent dies is adopted by the broker, which *)
(* is a subreaper; it becomes "gone" when its parent waits for it.         *)

Running(p) == proc[p].st \in {"live", "dying"}
Present(p) == proc[p].st \in {"live", "dying", "zombie"}
Children(pr) == {p \in Procs : pr[p].par = Broker /\ pr[p].st \in {"live", "dying", "zombie"}}
TtyHeld == \E p \in Procs : Running(p) /\ proc[p].tty

\* PR_SET_CHILD_SUBREAPER: the process that adopts the orphans of the PTY.
Reaper == Broker

\* reap_children(): every zombie child; the result is Children(Reaped) # {}.
Reaped == [p \in Procs |-> IF proc[p].par = Broker /\ proc[p].st = "zombie"
                           THEN [st |-> "gone", par |-> NoProc, tty |-> FALSE]
                           ELSE proc[p]]

\* Mutant: SIGTERM for ever.
SignalledOnlyTerm(pr, kill) ==
  [p \in Procs |-> IF p \in Children(pr) /\ pr[p].st = "live" /\ p \notin Stubborn
                   THEN [pr[p] EXCEPT !.st = "dying"] ELSE pr[p]]

\* signal_children(SIGTERM or SIGKILL) to the broker's children in pr.
Signalled(pr, kill) ==
  [p \in Procs |-> IF p \in Children(pr) /\ pr[p].st = "live"
                      /\ (kill \/ p \notin Stubborn)
                   THEN [pr[p] EXCEPT !.st = "dying"] ELSE pr[p]]

-----------------------------------------------------------------------------
Init ==
  /\ pc = "top" /\ cur = 1 /\ tick = 0
  /\ rev = [in |-> {}, hup |-> {}, lst |-> FALSE, mout |-> FALSE, min |-> FALSE]
  /\ peer = [s \in Slots |-> NoPeer]
  /\ eof = FALSE /\ exitSent = FALSE /\ stopping = FALSE /\ late = FALSE
  /\ childLive = TRUE /\ geom = 1 /\ result = -1
  /\ next = 0 /\ hist = [j \in 0 .. History - 1 |-> 0]
  /\ inBuf = [j \in 0 .. InputLimit - 1 |-> 0] /\ inHead = 0 /\ inSize = 0
  /\ accepted = 0 /\ written = <<>> /\ lost = 0
  /\ bound = TRUE
  /\ conn = [c \in Conns |-> [st |-> "idle", inbox |-> <<>>, sends |-> 0,
                              asked |-> "none", shut |-> FALSE, rx |-> <<>>]]
  /\ backlog = <<>>
  /\ proc = [p \in Procs |-> IF p = Shell
               THEN [st |-> "live", par |-> Broker, tty |-> TRUE]
               ELSE [st |-> "unborn", par |-> NoProc, tty |-> FALSE]]
  /\ ptyOut = 0 /\ stopSignal = FALSE

-----------------------------------------------------------------------------
(* One turn of the loop in pb_serve: reap, stop, announce the exit, expire *)
(* unauthenticated idle connections, poll, then peers, accept, input and   *)
(* output.                                                                 *)

Stop == stopping \/ stopSignal
ShellReaped == Reaped[Shell].st = "gone"

\* Mutant: only connections that were answered expire.
ExpiredAnswered(p) == p.fd # NoConn /\ p.role = "none" /\ ~p.terminating /\ p.old /\ p.closing

\* The 500 ms limit applies to connections that have not become subscribers.
Expired(p) == p.fd # NoConn /\ p.role = "none" /\ ~p.terminating /\ p.old

\* Mutant: the exit is announced as soon as the shell is reaped.
AnnounceAtOnce(running) == ~running /\ ~exitSent

\* The exit is announced once, when the shell is reaped and the PTY is drained.
Announce(running) == ~running /\ eof /\ ~exitSent

\* No descendant is left: leave the loop with result 0.
LoopEnds ==
  /\ pc = "top" /\ Stop /\ Children(Reaped) = {}
  /\ proc' = Reaped /\ childLive' = (childLive /\ ~ShellReaped)
  /\ stopping' = TRUE /\ result' = 0 /\ pc' = "clean"
  /\ UNCHANGED <<cur, tick, rev, peer, eof, exitSent, late, geom, outVars, inVars,
                 bound, conn, backlog, ptyOut, stopSignal>>

\* signal_children cannot read the list of children: leave with result -1.
SignalFails ==
  /\ "sigfail" \in Events /\ pc = "top" /\ Stop /\ Children(Reaped) # {}
  /\ proc' = Reaped /\ childLive' = (childLive /\ ~ShellReaped)
  /\ stopping' = TRUE /\ pc' = "clean"
  /\ UNCHANGED <<cur, tick, rev, peer, eof, exitSent, late, geom, result, outVars,
                 inVars, bound, conn, backlog, ptyOut, stopSignal>>

LoopTurn ==
  /\ pc = "top" /\ (Stop => Children(Reaped) # {})
  /\ proc' = IF Stop THEN Signalled(Reaped, late) ELSE Reaped
  /\ childLive' = (childLive /\ ~ShellReaped)
  /\ stopping' = Stop
  /\ LET announce == Announce(childLive')
         st  == [StatusOf(peer, geom) EXCEPT !.running = childLive', !.stopping = Stop]
         ps  == IF announce THEN Broadcast(peer, WithStatus("EXIT", next, st)) ELSE peer
     IN /\ exitSent' = (exitSent \/ announce)
        /\ peer' = [s \in Slots |-> IF Expired(ps[s]) THEN NoPeer ELSE ps[s]]
  /\ pc' = "poll"
  /\ UNCHANGED <<cur, tick, rev, eof, late, geom, result, outVars, inVars, bound,
                 conn, backlog, ptyOut, stopSignal>>

\* Mutant: the listener is polled only as long as the PTY is open.
ListenerUntilEof == backlog # <<>> /\ ~eof

ListenerReady == backlog # <<>>

\* poll(): what is ready now.  A closed connection is readable and hung up.
Poll ==
  /\ pc = "poll"
  /\ \E writable \in BOOLEAN :
       rev' = [in   |-> {s \in Slots : /\ peer[s].fd # NoConn
                                       /\ \/ conn[peer[s].fd].inbox # <<>>
                                          \/ conn[peer[s].fd].shut},
               hup  |-> {s \in Slots : peer[s].fd # NoConn /\ conn[peer[s].fd].shut},
               lst  |-> ListenerReady,
               mout |-> writable /\ ~eof /\ inSize > 0,
               min  |-> ~eof /\ (ptyOut > 0 \/ ~TtyHeld)]
  /\ pc' = "scan" /\ cur' = 1 /\ tick' = 0
  /\ UNCHANGED <<peer, flagVars, outVars, inVars, bound, envVars>>

\* EINTR: the stop signal arrived while the service was in poll().
PollInterrupted ==
  /\ pc = "poll" /\ stopSignal /\ ~stopping
  /\ pc' = "top"
  /\ UNCHANGED <<cur, tick, rev, peer, flagVars, outVars, inVars, bound, envVars>>

\* Any other poll() failure ends the service with result -1.
PollFails ==
  /\ "pollfail" \in Events /\ pc = "poll" /\ pc' = "clean"
  /\ UNCHANGED <<cur, tick, rev, peer, flagVars, outVars, inVars, bound, envVars>>

AfterInput  == IF rev.min THEN "output" ELSE "top"
AfterAccept == IF rev.mout THEN "input" ELSE AfterInput
AfterPeers  == IF rev.lst THEN "accept" ELSE AfterAccept

\* The for loop over the peers: on to the next one with something to do.
Scan ==
  /\ pc = "scan"
  /\ LET busy == {s \in Slots : /\ s >= cur /\ peer[s].fd # NoConn
                                /\ (s \in rev.in \cup rev.hup \/ peer[s].q # <<>>)}
     IN IF busy = {} THEN pc' = AfterPeers /\ cur' = 1
        ELSE /\ cur' = Min(busy)
             /\ pc' = IF Min(busy) \in rev.in THEN "serve" ELSE "flush"
  /\ UNCHANGED <<tick, rev, peer, flagVars, outVars, inVars, bound, envVars>>

-----------------------------------------------------------------------------
(* handle_request for the peer in slot cur, one action per request type.   *)

Peer == peer[cur]
Asked == Head(conn[Peer.fd].inbox)
WellFormed(r) == r.type # "MALFORMED" /\ (r.type = "INPUT" => r.a <= Chunk)

\* Mutant: a connection may send a second request.
AcceptsAgain(type) ==
  /\ pc = "serve" /\ conn[Peer.fd].inbox # <<>>
  /\ Asked.type = type /\ WellFormed(Asked)

\* The common checks of handle_request let a request of this type through.
Accepts(type) ==
  /\ pc = "serve" /\ conn[Peer.fd].inbox # <<>>
  /\ Asked.type = type /\ WellFormed(Asked)
  /\ Peer.role = "none" /\ ~Peer.closing /\ ~Peer.terminating

\* The request is consumed, ps is the peer table handle_request leaves; a
\* connection that poll saw hung up is closed at once.
Handled(ps) ==
  /\ conn' = [conn EXCEPT ![Peer.fd].inbox = Tail(@), ![Peer.fd].asked = Asked.type]
  /\ peer' = IF cur \in rev.hup THEN [ps EXCEPT ![cur] = NoPeer] ELSE ps
  /\ pc' = "flush"
  /\ UNCHANGED <<cur, tick, rev, eof, exitSent, late, childLive, result, outVars,
                 bound, backlog, proc, ptyOut, stopSignal>>

\* A one-shot reply: the connection closes once it is flushed.
Replied(ps, m) == [ps EXCEPT ![cur] = Queue([@ EXCEPT !.closing = TRUE], m)]

\* End of file, a malformed packet, or a second packet on a connection.
ServeRefuse ==
  /\ pc = "serve"
  /\ \/ conn[Peer.fd].inbox = <<>>
     \/ conn[Peer.fd].inbox # <<>> /\ ~WellFormed(Asked)
     \/ Peer.role # "none" \/ Peer.closing \/ Peer.terminating
  /\ conn' = [conn EXCEPT ![Peer.fd].inbox = <<>>]
  /\ peer' = [peer EXCEPT ![cur] = NoPeer]
  /\ pc' = "flush"
  /\ UNCHANGED <<cur, tick, rev, flagVars, outVars, inVars, bound, backlog, proc,
                 ptyOut, stopSignal>>

ServeStatus ==
  /\ Accepts("STATUS")
  /\ Handled(Replied(peer, WithStatus("STATUS", 0, StatusOf(peer, geom))))
  /\ UNCHANGED <<stopping, geom, inVars>>

\* Mutant: one observer too many.
TakenLate(role) ==
  \/ role = "CONTROL" /\ Holding(peer, "CONTROL") # {}
  \/ role = "OBSERVER" /\ Cardinality(Holding(peer, "OBSERVER")) > MaxObservers

Taken(role) ==
  \/ role = "CONTROL" /\ Holding(peer, "CONTROL") # {}
  \/ role = "OBSERVER" /\ Cardinality(Holding(peer, "OBSERVER")) >= MaxObservers

ServeOpenRefused ==
  \E role \in {"CONTROL", "OBSERVER"} :
    /\ Accepts(role)
    /\ \/ stopping /\ Handled(Replied(peer, Plain(role, "ESHUTDOWN", 0)))
       \/ ~stopping /\ Taken(role) /\ Handled(Replied(peer, Plain(role, "EBUSY", 0)))
    /\ UNCHANGED <<stopping, geom, inVars>>

\* Mutant: a subscriber that comes after the exit is not told of it.
WelcomeBack(p, role, st) ==
  LET attached == Queue(Queue(p, WithStatus(role, next, st)),
                        WithStatus("ATTACHED", next, st))
  IN IF next > 0 THEN Queue(attached, WithStatus("GAP", st.oldest, st)) ELSE attached

\* The packets a new subscriber starts with.
Welcome(p, role, st) ==
  LET attached == Queue(Queue(p, WithStatus(role, next, st)),
                        WithStatus("ATTACHED", next, st))
      gap == IF next > 0 THEN Queue(attached, WithStatus("GAP", st.oldest, st))
             ELSE attached
  IN IF ~childLive /\ eof THEN Queue(gap, WithStatus("EXIT", next, st)) ELSE gap

ServeOpenGranted ==
  \E role \in {"CONTROL", "OBSERVER"} :
    /\ Accepts(role) /\ ~stopping /\ ~Taken(role)
    /\ LET ps == [peer EXCEPT ![cur].role = role]
       IN Handled([ps EXCEPT ![cur] = Welcome(@, role, StatusOf(ps, geom))])
    /\ UNCHANGED <<stopping, geom, inVars>>

ServeResizeRefused ==
  /\ Accepts("RESIZE")
  /\ \/ Asked.a = 0 /\ Handled(Replied(peer, Plain("RESIZE", "EINVAL", 0)))
     \/ /\ Asked.a # 0 /\ (eof \/ stopping)
        /\ Handled(Replied(peer, Plain("RESIZE", "EPIPE", 0)))
     \/ /\ "ioctl" \in Events /\ Asked.a # 0 /\ ~eof /\ ~stopping
        /\ Handled(Replied(peer, Plain("RESIZE", "EIO", 0)))
  /\ UNCHANGED <<stopping, geom, inVars>>

ServeResize ==
  /\ Accepts("RESIZE") /\ Asked.a # 0 /\ ~eof /\ ~stopping
  /\ geom' = Asked.a
  /\ LET told == Broadcast(peer, WithStatus("GEOMETRY", next, StatusOf(peer, Asked.a)))
     IN Handled(Replied(told, Plain("RESIZE", "0", 0)))
  /\ UNCHANGED <<stopping, inVars>>

\* Mutant: one byte more than the ring has room for.
RoomPlusOne == InputLimit - inSize + 1

Room == InputLimit - inSize

ServeInputRefused ==
  /\ Accepts("INPUT")
  /\ \/ (eof \/ stopping) /\ Handled(Replied(peer, Plain("INPUT", "EPIPE", 0)))
     \/ /\ ~eof /\ ~stopping /\ Asked.a > Room
        /\ Handled(Replied(peer, Plain("INPUT", "EAGAIN", 0)))
  /\ UNCHANGED <<stopping, geom, inVars>>

ServeInput ==
  /\ Accepts("INPUT") /\ ~eof /\ ~stopping /\ Asked.a <= Room
  /\ inBuf' = RingPut(inBuf, InputLimit, inHead + inSize, accepted, Asked.a)
  /\ inSize' = inSize + Asked.a
  /\ accepted' = accepted + Asked.a
  /\ Handled(Replied(peer, Plain("INPUT", "0", 0)))
  /\ UNCHANGED <<stopping, geom, inHead, written, lost>>

CaptureReply(off, end) ==
  LET a == CaptureAnswer(hist, next, off, end)
  IN IF a.err = "0" THEN Bytes("CAPTURE", a.off, a.data) ELSE Plain("CAPTURE", a.err, a.off)

ServeCapture ==
  /\ Accepts("CAPTURE")
  /\ Handled(Replied(peer, CaptureReply(Asked.a, Asked.b)))
  /\ UNCHANGED <<stopping, geom, inVars>>

\* No reply now: the connection is answered when the service has ended.
ServeTerminate ==
  /\ Accepts("TERMINATE")
  /\ stopping' = TRUE
  /\ Handled([peer EXCEPT ![cur].terminating = TRUE])
  /\ UNCHANGED <<geom, inVars>>

ServeUnknown ==
  /\ Accepts("UNKNOWN")
  /\ Handled(Replied(peer, Plain("UNKNOWN", "EINVAL", 0)))
  /\ UNCHANGED <<stopping, geom, inVars>>

HandleRequest ==
  \/ ServeRefuse \/ ServeStatus \/ ServeOpenRefused \/ ServeOpenGranted
  \/ ServeResizeRefused \/ ServeResize \/ ServeInputRefused \/ ServeInput
  \/ ServeCapture \/ ServeTerminate \/ ServeUnknown

-----------------------------------------------------------------------------
(* flush_peer, accept_peers, forward_input, forward_output.                *)

\* The bytes of the packets of q, their headers included.
QueuedBytes(q) ==
  LET sum[n \in 0 .. Len(q)] == IF n = 0 THEN 0 ELSE sum[n - 1] + Header + q[n].size
  IN sum[Len(q)]

\* Mutant: the headers of the sent packets are not given back.
FlushedPayload(p, k) ==
  [p EXCEPT !.q = SubSeq(@, k + 1, Len(@)),
            !.queued = @ - (QueuedBytes(SubSeq(p.q, 1, k)) - k * Header)]

\* The first k packets of the peer's queue reach the client's socket.
Flushed(p, k) ==
  [p EXCEPT !.q = SubSeq(@, k + 1, Len(@)),
            !.queued = @ - QueuedBytes(SubSeq(p.q, 1, k))]

FlushNothing ==
  /\ pc = "flush" /\ (Peer.fd = NoConn \/ Peer.q = <<>>)
  /\ pc' = "scan" /\ cur' = cur + 1
  /\ UNCHANGED <<tick, rev, peer, flagVars, outVars, inVars, bound, envVars>>

\* send() fails because the client is gone.
FlushBroken ==
  /\ pc = "flush" /\ Peer.fd # NoConn /\ Peer.q # <<>> /\ conn[Peer.fd].shut
  /\ peer' = [peer EXCEPT ![cur] = NoPeer]
  /\ pc' = "scan" /\ cur' = cur + 1
  /\ UNCHANGED <<tick, rev, flagVars, outVars, inVars, bound, envVars>>

\* k packets are sent; fewer than the quota and the queue allow means that
\* the socket was full (EAGAIN), which returns before the closing check.
Flush(k) ==
  LET quota == Min({FlushQuota, Len(Peer.q)})
      done  == k = quota /\ Peer.closing /\ k = Len(Peer.q)
  IN /\ pc = "flush" /\ Peer.fd # NoConn /\ Peer.q # <<>> /\ ~conn[Peer.fd].shut
     /\ k <= quota
     /\ conn' = [conn EXCEPT ![Peer.fd].rx = @ \o SubSeq(Peer.q, 1, k)]
     /\ peer' = [peer EXCEPT ![cur] = IF done THEN NoPeer ELSE Flushed(@, k)]
     /\ pc' = "scan" /\ cur' = cur + 1
     /\ UNCHANGED <<tick, rev, flagVars, outVars, inVars, bound, backlog, proc,
                    ptyOut, stopSignal>>

FlushPeer == FlushNothing \/ FlushBroken \/ \E k \in 0 .. FlushQuota : Flush(k)

FreeSlots == {s \in Slots : peer[s].fd = NoConn}

\* One accept4(); without a free slot the connection is dropped at once.
AcceptPeer ==
  /\ pc = "accept" /\ tick < AcceptQuota /\ backlog # <<>>
  /\ LET c == Head(backlog)
     IN IF FreeSlots # {}
        THEN /\ peer' = [peer EXCEPT ![Min(FreeSlots)].fd = c]
             /\ conn' = [conn EXCEPT ![c].st = "accepted"]
        ELSE /\ conn' = [conn EXCEPT ![c].st = "refused"] /\ UNCHANGED peer
  /\ backlog' = Tail(backlog)
  /\ tick' = tick + 1
  /\ UNCHANGED <<pc, cur, rev, flagVars, outVars, inVars, bound, proc, ptyOut,
                 stopSignal>>

AcceptDone ==
  /\ pc = "accept" /\ (tick = AcceptQuota \/ backlog = <<>>)
  /\ pc' = AfterAccept /\ tick' = 0
  /\ UNCHANGED <<cur, rev, peer, flagVars, outVars, inVars, bound, envVars>>

\* The contiguous part of the input ring that one write() offers.
Offered == Min({InputLimit - inHead, inSize, Chunk})

ForwardInput ==
  /\ pc = "input"
  /\ \/ \E w \in 0 .. Offered :                          \* 0 is EAGAIN or EINTR
          /\ written' = written \o RingGet(inBuf, InputLimit, inHead, w)
          /\ inHead' = (inHead + w) % InputLimit
          /\ inSize' = inSize - w
          /\ UNCHANGED lost
     \/ /\ "write" \in Events                             \* write() fails
        /\ inSize' = 0 /\ lost' = lost + inSize
        /\ UNCHANGED <<inHead, written>>
  /\ pc' = AfterInput
  /\ UNCHANGED <<cur, tick, rev, peer, flagVars, outVars, inBuf, accepted, bound,
                 envVars>>

\* One successful read() of n bytes: record, then broadcast.
ReadOutput ==
  /\ pc = "output" /\ tick < ReadQuota
  /\ \E n \in 1 .. Min({Chunk, ptyOut}) :
       /\ hist' = RingPut(hist, History, next, next, n)
       /\ next' = next + n
       /\ ptyOut' = ptyOut - n
       /\ peer' = Broadcast(peer, Bytes("OUTPUT", next, [i \in 1 .. n |-> next + i - 1]))
  /\ tick' = tick + 1
  /\ UNCHANGED <<pc, cur, rev, flagVars, inVars, bound, conn, backlog, proc, stopSignal>>

\* The quota is used up, or the PTY has nothing to read now.
OutputDone ==
  /\ pc = "output" /\ (tick = ReadQuota \/ (ptyOut = 0 /\ TtyHeld))
  /\ pc' = "top" /\ tick' = 0
  /\ UNCHANGED <<cur, rev, peer, flagVars, outVars, inVars, bound, envVars>>

\* Nobody holds the terminal and everything written has been read.
OutputEof ==
  /\ pc = "output" /\ tick < ReadQuota /\ ptyOut = 0 /\ ~TtyHeld
  /\ eof' = TRUE /\ inSize' = 0 /\ lost' = lost + inSize
  /\ pc' = "top" /\ tick' = 0
  /\ UNCHANGED <<cur, rev, peer, exitSent, stopping, late, childLive, geom, result,
                 outVars, inBuf, inHead, accepted, written, bound, envVars>>

-----------------------------------------------------------------------------
(* The `done' part of pb_serve: reap and signal until no child is left,    *)
(* give up the name, then answer the terminating connections.              *)

CleanStep ==
  /\ pc = "clean" /\ childLive' = (childLive /\ ~ShellReaped)
  /\ UNCHANGED <<cur, tick, rev, peer, eof, exitSent, late, geom, result, outVars,
                 inVars, bound, conn, backlog, ptyOut, stopSignal>>

\* Mutant: only the shell itself is waited for.
CleanDoneShell ==
  /\ CleanStep /\ ~childLive' /\ proc' = Reaped
  /\ pc' = "remove" /\ UNCHANGED stopping

CleanDone ==
  /\ CleanStep /\ Children(Reaped) = {} /\ proc' = Reaped
  /\ pc' = "remove" /\ UNCHANGED stopping

CleanSignals ==
  /\ CleanStep /\ Children(Reaped) # {} /\ proc' = Signalled(Reaped, late)
  /\ stopping' = TRUE /\ UNCHANGED pc

\* Here a failure of signal_children is ignored and tried again.
CleanCannotSignal ==
  /\ "sigfail" \in Events
  /\ CleanStep /\ Children(Reaped) # {} /\ proc' = Reaped
  /\ stopping' = TRUE /\ UNCHANGED pc

\* Close the listener, which resets the backlog; unlink the socket, remove
\* the directory.
RemoveName ==
  /\ pc = "remove"
  /\ bound' = FALSE
  /\ conn' = [c \in Conns |-> IF conn[c].st = "backlog"
                              THEN [conn[c] EXCEPT !.st = "refused"] ELSE conn[c]]
  /\ backlog' = <<>>
  /\ pc' = "ack" /\ cur' = 1
  /\ UNCHANGED <<tick, rev, peer, flagVars, outVars, inVars, proc, ptyOut, stopSignal>>

Acknowledge ==
  /\ pc = "ack"
  /\ LET ack == Plain("TERMINATE", IF result = 0 THEN "0" ELSE "EIO", 0)
     IN conn' = IF Peer.fd # NoConn /\ Peer.terminating /\ ~conn[Peer.fd].shut
                THEN [conn EXCEPT ![Peer.fd].rx = Append(@, ack)] ELSE conn
  /\ peer' = [peer EXCEPT ![cur] = NoPeer]
  /\ IF cur = NSlots THEN pc' = "exited" /\ cur' = 1
                     ELSE cur' = cur + 1 /\ UNCHANGED pc
  /\ UNCHANGED <<tick, rev, flagVars, outVars, inVars, bound, backlog, proc, ptyOut,
                 stopSignal>>

Service ==
  \/ LoopEnds \/ SignalFails \/ LoopTurn \/ Poll \/ PollInterrupted \/ PollFails
  \/ Scan \/ HandleRequest \/ FlushPeer \/ AcceptPeer \/ AcceptDone
  \/ ForwardInput \/ ReadOutput \/ OutputDone \/ OutputEof
  \/ CleanDone \/ CleanSignals \/ CleanCannotSignal \/ RemoveName \/ Acknowledge

-----------------------------------------------------------------------------
(* The environment: clients, processes on the PTY, clocks, signals.        *)

Closed(c) == conn[c].st = "accepted" /\ \A s \in Slots : peer[s].fd # c

Connect(c) ==
  /\ conn[c].st = "idle" /\ bound
  /\ conn' = [conn EXCEPT ![c].st = "backlog"]
  /\ backlog' = Append(backlog, c)
  /\ UNCHANGED <<loopVars, peer, flagVars, outVars, inVars, bound, proc, ptyOut, stopSignal>>

Send(c, r) ==
  /\ conn[c].st \in {"backlog", "accepted"} /\ ~Closed(c) /\ ~conn[c].shut
  /\ conn[c].inbox = <<>> /\ conn[c].sends < MaxSends
  /\ conn' = [conn EXCEPT ![c].inbox = <<r>>, ![c].sends = @ + 1]
  /\ UNCHANGED <<loopVars, peer, flagVars, outVars, inVars, bound, backlog, proc,
                 ptyOut, stopSignal>>

HangUp(c) ==
  /\ "hangup" \in Events
  /\ conn[c].st \in {"backlog", "accepted"} /\ ~Closed(c) /\ ~conn[c].shut
  /\ conn' = [conn EXCEPT ![c].shut = TRUE]
  /\ UNCHANGED <<loopVars, peer, flagVars, outVars, inVars, bound, backlog, proc,
                 ptyOut, stopSignal>>

\* 500 ms pass for a connection that is not a subscriber.
Age(s) ==
  /\ "idle" \in Events
  /\ peer[s].fd # NoConn /\ peer[s].role = "none" /\ ~peer[s].terminating /\ ~peer[s].old
  /\ peer' = [peer EXCEPT ![s].old = TRUE]
  /\ UNCHANGED <<loopVars, flagVars, outVars, inVars, bound, envVars>>

\* 1500 ms pass since begin_stop.
StopClock ==
  /\ stopping /\ ~late /\ pc # "exited"
  /\ late' = TRUE
  /\ UNCHANGED <<loopVars, peer, eof, exitSent, stopping, childLive, geom, result,
                 outVars, inVars, bound, envVars>>

\* SIGTERM or SIGINT to the service.
Signal ==
  /\ "signal" \in Events /\ ~stopSignal /\ pc # "exited"
  /\ stopSignal' = TRUE
  /\ UNCHANGED <<loopVars, peer, flagVars, outVars, inVars, bound, conn, backlog,
                 proc, ptyOut>>

ProcStep ==
  UNCHANGED <<loopVars, peer, flagVars, outVars, inVars, bound, conn, backlog, stopSignal>>

Fork(p, q) ==
  /\ proc[p].st = "live" /\ proc[q].st = "unborn"
  /\ proc' = [proc EXCEPT ![q] = [st |-> "live", par |-> p, tty |-> proc[p].tty]]
  /\ UNCHANGED ptyOut /\ ProcStep

\* p becomes a zombie of its parent; the broker adopts p's children.
ProcExit(p) ==
  /\ Running(p) /\ (proc[p].st = "dying" \/ "exit" \in Events)
  /\ proc' = [q \in Procs |->
                IF q = p THEN [proc[p] EXCEPT !.st = "zombie", !.tty = FALSE]
                ELSE IF proc[q].par = p THEN [proc[q] EXCEPT !.par = Reaper]
                ELSE proc[q]]
  /\ UNCHANGED ptyOut /\ ProcStep

\* p waits for its own child q.
ProcWait(p, q) ==
  /\ proc[p].st = "live" /\ proc[q].st = "zombie" /\ proc[q].par = p
  /\ proc' = [proc EXCEPT ![q] = [st |-> "gone", par |-> NoProc, tty |-> FALSE]]
  /\ UNCHANGED ptyOut /\ ProcStep

\* A daemon closes the terminal and lives on.
CloseTty(p) ==
  /\ "daemon" \in Events
  /\ proc[p].st = "live" /\ proc[p].tty
  /\ proc' = [proc EXCEPT ![p].tty = FALSE]
  /\ UNCHANGED ptyOut /\ ProcStep

WritePty(p) ==
  /\ proc[p].st = "live" /\ proc[p].tty /\ next + ptyOut < MaxOutput
  /\ ptyOut' = ptyOut + 1
  /\ UNCHANGED proc /\ ProcStep

Client(c) == Connect(c) \/ HangUp(c) \/ \E r \in Requests : Send(c, r)
Process(p) == \/ ProcExit(p) \/ CloseTty(p) \/ WritePty(p)
              \/ \E q \in Procs : Fork(p, q) \/ ProcWait(p, q)

\* The service has exited and the machine is quiet.
Finished == pc = "exited" /\ UNCHANGED vars

Next ==
  \/ Service
  \/ \E c \in Conns : Client(c)
  \/ \E p \in Procs : Process(p)
  \/ \E s \in Slots : Age(s)
  \/ StopClock \/ Signal \/ Finished

Spec == Init /\ [][Next]_vars

-----------------------------------------------------------------------------
(* Type invariant.                                                         *)

PeerType == [fd : Conns \cup {NoConn}, role : {"none", "CONTROL", "OBSERVER"},
             closing : BOOLEAN, terminating : BOOLEAN, old : BOOLEAN,
             queued : Nat, q : Seq(Message)]
ConnType == [st : {"idle", "backlog", "accepted", "refused"}, inbox : Seq(Requests),
             sends : Nat, asked : RequestTypes \cup {"none"}, shut : BOOLEAN,
             rx : Seq(Message)]
ProcType == [st : {"unborn", "live", "dying", "zombie", "gone"},
             par : Procs \cup {Broker, NoProc}, tty : BOOLEAN]
PcType == {"top", "poll", "scan", "serve", "flush", "accept", "input", "output",
           "clean", "remove", "ack", "exited"}

\* Every variable has its type; in serve and flush the cursor is a slot, and
\* serve is entered only for a slot whose connection is open.
TypeOK ==
  /\ pc \in PcType /\ cur \in 1 .. NSlots + 1 /\ tick \in Nat
  /\ rev \in [in : SUBSET Slots, hup : SUBSET Slots, lst : BOOLEAN,
              mout : BOOLEAN, min : BOOLEAN]
  /\ peer \in [Slots -> PeerType]
  /\ {eof, exitSent, stopping, late, childLive, bound, stopSignal} \subseteq BOOLEAN
  /\ geom \in Nat /\ result \in {-1, 0}
  /\ next \in Nat /\ hist \in [0 .. History - 1 -> Nat]
  /\ inBuf \in [0 .. InputLimit - 1 -> Nat] /\ inHead \in 0 .. InputLimit - 1
  /\ inSize \in 0 .. InputLimit
  /\ accepted \in Nat /\ written \in Seq(Nat) /\ lost \in Nat
  /\ conn \in [Conns -> ConnType] /\ backlog \in Seq(Conns)
  /\ proc \in [Procs -> ProcType] /\ ptyOut \in Nat
  /\ pc \in {"serve", "flush", "ack"} => cur \in Slots
  /\ pc = "serve" => peer[cur].fd # NoConn

-----------------------------------------------------------------------------
(* Safety.                                                                 *)

\* What connection c has been sent or is queued to be sent, in order.
Stream(c) ==
  LET held == {s \in Slots : peer[s].fd = c}
  IN IF held = {} THEN conn[c].rx ELSE conn[c].rx \o peer[Min(held)].q
Subscriber(c) == \E s \in Slots : peer[s].fd = c /\ peer[s].role # "none"

\* status_of counts the seats afresh for every request: however OPEN, hangups
\* and queue overflows interleave, there is one controller and at most
\* MaxObservers observers, and no connection sits in two slots.
Seats ==
  /\ \A s, t \in Holding(peer, "CONTROL") : s = t
  /\ Cardinality(Holding(peer, "OBSERVER")) <= MaxObservers
  /\ \A s, t \in Slots : peer[s].fd = peer[t].fd /\ peer[s].fd # NoConn => s = t

\* queue(), flush_peer() and peer_close() keep p->queued equal to the bytes on
\* the list, so the unsigned PB_QUEUE-p->queued never wraps.
QueueAccounting ==
  \A s \in Slots : peer[s].queued = QueuedBytes(peer[s].q) /\ peer[s].queued <= QueueLimit

\* Both, after every interleaving of requests, broadcasts and closed slots: the
\* loop never works on a slot that was closed since poll().
Consistent == TypeOK /\ QueueAccounting

\* Every packet with PTY bytes carries the bytes its offset says, whatever was
\* overwritten in the ring before or after it was queued.
BytesExact ==
  \A c \in Conns : \A i \in DOMAIN Stream(c) :
    LET m == Stream(c)[i]
    IN m.type \in {"OUTPUT", "CAPTURE"} /\ m.err = "0" =>
         /\ Len(m.data) = m.size
         /\ \A k \in 1 .. m.size : m.data[k] = m.off + k - 1

\* The packets of a subscriber's stream S that say where in the output it is:
\* ATTACHED, always the second, and every OUTPUT; and the offset each leads to.
Marks(S) == {2} \cup {i \in DOMAIN S : S[i].type = "OUTPUT"}
Reached(S, i) == IF i = 2 THEN S[2].off ELSE S[i].off + S[i].size

\* Every OUTPUT starts where the mark before it ended; n is where the last ends.
Contiguous(S) ==
  /\ Len(S) > 1 /\ S[2].type = "ATTACHED"
  /\ \A i, j \in Marks(S) :
       i < j /\ (\A k \in Marks(S) : k <= i \/ j <= k) => S[j].off = Reached(S, i)
UpTo(S, n) ==
  \A i \in Marks(S) : (\A k \in Marks(S) : k <= i) => Reached(S, i) = n

\* A subscriber sees the output stream without hole or repetition from the
\* offset of ATTACHED on, up to `next' as long as it is connected.
StreamContiguous ==
  \A c \in Conns :
    LET S == Stream(c)
    IN /\ (\E i \in DOMAIN S : S[i].type = "OUTPUT") \/ Subscriber(c) => Contiguous(S)
       /\ Subscriber(c) => UpTo(S, next)

\* EXIT is announced once, after the last output byte; nothing follows it, and
\* after the announcement every connected subscriber has it.
ExitLast ==
  \A c \in Conns :
    LET S == Stream(c)
    IN /\ \A i \in DOMAIN S : S[i].type = "EXIT" =>
            i = Len(S) /\ S[i].off = next /\ eof /\ ~childLive
       /\ exitSent /\ Subscriber(c) => S # <<>> /\ S[Len(S)].type = "EXIT"

\* The first packet on a connection answers its request, and it is the only
\* answer: a late or repeated reply would be taken for that of another call.
OneReply ==
  \A c \in Conns : \A i \in DOMAIN Stream(c) :
    IF i = 1 THEN Stream(c)[1].type = conn[c].asked
    ELSE Stream(c)[i].type \in EventTypes

\* The acknowledgement of TERMINATE is sent only when no descendant is left,
\* adopted and stubborn ones included, and the name is free again.
AckMeansGone ==
  \A c \in Conns : \A i \in DOMAIN conn[c].rx :
    conn[c].rx[i].type = "TERMINATE" => ~bound /\ \A p \in Procs : ~Present(p)

\* Input bytes reach the PTY once and in the order they were accepted; the ring
\* holds exactly the accepted bytes not yet written or thrown away.
InputFifo ==
  /\ accepted = Len(written) + lost + inSize
  /\ \A i \in 1 .. inSize :
       inBuf[(inHead + i - 1) % InputLimit] = accepted - inSize + i - 1
  /\ \A i \in 1 .. Len(written) : written[i] < accepted - inSize
  /\ \A i \in 1 .. Len(written) - 1 : written[i] < written[i + 1]

-----------------------------------------------------------------------------
(* Liveness.                                                               *)

\* The service's own steps, the clocks, the death of a killed process; a
\* client that stays connected reads; listing the children works sometimes.
Fairness ==
  /\ WF_vars(Service) /\ SF_vars(CleanSignals) /\ WF_vars(StopClock)
  /\ \A s \in Slots : WF_vars(Age(s)) /\ SF_vars(cur = s /\ \E k \in 1 .. FlushQuota : Flush(k))
  /\ \A p \in Procs : WF_vars(proc[p].st = "dying" /\ ProcExit(p))

FairSpec == Spec /\ Fairness

Refused(c) == conn[c].st = "refused" \/ Closed(c)

\* Every request is answered, or its connection is closed: no client waits on a
\* service that forgot it.
RequestSettles ==
  \A c \in Conns : conn[c].inbox # <<>> ~> (conn[c].rx # <<>> \/ Refused(c))

\* Once stopping, the service ends, whatever the processes do with SIGTERM.
StopEnds == stopping ~> pc = "exited"

\* A connection that never becomes a subscriber gives its slot back.
SlotsComeBack ==
  \A c \in Conns : conn[c].st = "accepted" ~> (Refused(c) \/ Subscriber(c))

\* A subscriber that keeps reading is told of the exit, or disconnected.
ExitReachesSubscribers ==
  \A c \in Conns : Subscriber(c) /\ exitSent ~>
    (Refused(c) \/ \E i \in DOMAIN conn[c].rx : conn[c].rx[i].type = "EXIT")

=============================================================================
