--------------------------- MODULE ClusterProofs ---------------------------
(***************************************************************************)
(* For any number of directories, ports, rows, faults and restarts: the    *)
(* seed's roster is sound, the state files of a running listener are its   *)
(* own, and `leave' stops the listener of its own directory only (IInv).   *)
(* A node belongs to one cluster, on which listeners, rows and datagrams   *)
(* agree (ClusterInv), and has one request or answer under way, which      *)
(* tells only nodes that were listed since it was sent (FreshInv).         *)
(***************************************************************************)
EXTENDS Cluster, FiniteSetTheorems, TLAPS

\* The seed never joins; whom it has not heard of is never the seed itself.
SeedInv ==
  /\ proc[Seed].pc # "join"
  /\ proc[Seed].pc = "off" => old = {}
  /\ proc[Seed].pc = "run" => proc[Seed].node \notin old /\ IsFiniteSet(proc[Seed].rows)
  /\ SeedRoster

\* A node id names one directory, in its listener, its files and its `leave'.
NodeInv ==
  /\ \A d \in Dirs : /\ proc[d].pc = "off" => proc[d] = Off
                     /\ proc[d].pc # "off" => proc[d].node # NoNode
                     /\ files[d].whole => files[d].node # NoNode
                     /\ cmd[d].pc = "idle" => cmd[d] = NoCmd
                     /\ cmd[d].pc = "loaded" => cmd[d].node # NoNode
                     /\ proc[d].node <= starts /\ files[d].node <= starts /\ cmd[d].node <= starts
  /\ \A d, e \in Dirs : d # e /\ proc[e].node # NoNode =>
       proc[e].node \notin {proc[d].node, files[d].node, cmd[d].node}

\* The nodes that a STOP may be about: those of no listener, or of one whose
\* directory's `leave' has sent it.
Stoppable == {n \in 1..starts : \A d \in Dirs : proc[d].node = n => cmd[d].node = n}
Stopping(box, S) == \A q \in Ports : \A i \in DOMAIN box[q] :
                      box[q][i].type = "STOP" => box[q][i].node \in S
StopInv == StopsOwn /\ Stopping(inbox, Stoppable)

IInv == TypeOK /\ SeedInv /\ FilesOwned /\ NodeInv /\ StopInv

-----------------------------------------------------------------------------
(* Datagrams and socket buffers.                                           *)

Boxes == [Ports -> Seq(PacketType)]
Sender == [port : Ports \union {0}, node : Nat, cluster : Nat]

\* A datagram that a listener or `leave' makes has its type.
LEMMA PacketOK ==
  ASSUME NEW type \in {"JOIN", "BEAT", "LEAVE", "ROSTER", "PONG", "ERROR", "STOP"}, NEW s,
         s.port \in Ports \union {0}, s.node \in Nat, s.cluster \in Nat,
         NEW req \in Nat \union Dirs, NEW rows \in SUBSET Row, NEW fresh \in BOOLEAN
  PROVE  /\ Packet(type, s, req, rows, fresh) \in PacketType
         /\ Packet(type, s, req, rows, fresh).type = type
         /\ Packet(type, s, req, rows, fresh).node = s.node
  BY DEF Packet, PacketType

\* Sending keeps the buffers well-formed, and the STOPs in them rightful.
LEMMA SendOK ==
  ASSUME NEW box \in Boxes, NEW p \in PacketType, NEW to, NEW S,
         Stopping(box, S), p.type = "STOP" => p.node \in S
  PROVE  Send(box, p, to) \in Boxes /\ Stopping(Send(box, p, to), S)
<1> HIDE DEF PacketType
<1>1. CASE to \in Bound /\ to \in Ports /\ Len(box[to]) < Room
  <2>1. Send(box, p, to) = [box EXCEPT ![to] = Append(box[to], p)]
    BY <1>1 DEF Send
  <2>2. Append(box[to], p) \in Seq(PacketType)
    BY <1>1 DEF Boxes
  <2>3. \A i \in DOMAIN Append(box[to], p) :
          Append(box[to], p)[i] = p \/ (i \in DOMAIN box[to] /\ Append(box[to], p)[i] = box[to][i])
    BY <1>1 DEF Boxes
  <2>4. [box EXCEPT ![to] = Append(box[to], p)] \in Boxes
    BY <1>1, <2>2 DEF Boxes
  <2>5. Stopping([box EXCEPT ![to] = Append(box[to], p)], S)
    BY <1>1, <2>3 DEF Boxes, Stopping
  <2> QED
    BY <2>1, <2>4, <2>5
<1>2. CASE ~(to \in Bound /\ to \in Ports /\ Len(box[to]) < Room)
  BY <1>2 DEF Send
<1> QED
  BY <1>1, <1>2

\* A nonce that gets old changes neither.
LEMMA OutdateOK ==
  ASSUME NEW box \in Boxes, NEW n, NEW S, Stopping(box, S)
  PROVE  Outdate(box, n) \in Boxes /\ Stopping(Outdate(box, n), S)
<1>1. ASSUME NEW p \in PacketType
      PROVE  /\ [p EXCEPT !.fresh = @ /\ p.req # n] \in PacketType
             /\ [p EXCEPT !.fresh = @ /\ p.req # n].type = p.type
             /\ [p EXCEPT !.fresh = @ /\ p.req # n].node = p.node
  BY DEF PacketType
<1> HIDE DEF PacketType
<1>2. \A q \in Ports : box[q] \in Seq(PacketType)
  BY DEF Boxes
<1>3. \A q \in Ports : /\ DOMAIN Outdate(box, n)[q] = DOMAIN box[q]
                       /\ \A i \in DOMAIN box[q] :
                            Outdate(box, n)[q][i] = [box[q][i] EXCEPT !.fresh = @ /\ box[q][i].req # n]
  BY DEF Outdate
<1>4. \A q \in Ports : Outdate(box, n)[q] \in Seq(PacketType)
  <2> SUFFICES ASSUME NEW q \in Ports PROVE Outdate(box, n)[q] \in Seq(PacketType)
    OBVIOUS
  <2>1. Outdate(box, n)[q] = [i \in 1..Len(box[q]) |-> [box[q][i] EXCEPT !.fresh = @ /\ box[q][i].req # n]]
    BY <1>2 DEF Outdate
  <2>2. \A i \in 1..Len(box[q]) : [box[q][i] EXCEPT !.fresh = @ /\ box[q][i].req # n] \in PacketType
    BY <1>1, <1>2
  <2>3. Len(box[q]) \in Nat
    BY <1>2
  <2> QED
    BY <2>1, <2>2, <2>3
<1>5. Outdate(box, n) \in Boxes
  BY <1>4 DEF Boxes, Outdate
<1>6. Stopping(Outdate(box, n), S)
  <2> SUFFICES ASSUME NEW q \in Ports, NEW i \in DOMAIN Outdate(box, n)[q],
                      Outdate(box, n)[q][i].type = "STOP"
               PROVE  Outdate(box, n)[q][i].node \in S
    BY DEF Stopping
  <2>1. i \in DOMAIN box[q] /\ box[q][i] \in PacketType
    BY <1>2, <1>3
  <2>2. Outdate(box, n)[q][i] = [box[q][i] EXCEPT !.fresh = @ /\ box[q][i].req # n]
    BY <1>3, <2>1
  <2>3. /\ Outdate(box, n)[q][i].type = box[q][i].type
        /\ Outdate(box, n)[q][i].node = box[q][i].node
    BY <1>1, <2>1, <2>2
  <2> QED
    BY <2>1, <2>3 DEF Stopping
<1> QED
  BY <1>5, <1>6

\* A socket that is closed takes its datagrams along.
LEMMA ClearOK ==
  ASSUME NEW box \in Boxes, NEW q, NEW S, Stopping(box, S)
  PROVE  [box EXCEPT ![q] = <<>>] \in Boxes /\ Stopping([box EXCEPT ![q] = <<>>], S)
<1> HIDE DEF PacketType
<1>0. <<>> \in Seq(PacketType)
  OBVIOUS
<1>1. [box EXCEPT ![q] = <<>>] \in Boxes
  BY <1>0 DEF Boxes
<1>2. \A z \in Ports : [box EXCEPT ![q] = <<>>][z] = IF z = q THEN <<>> ELSE box[z]
  BY DEF Boxes
<1>3. DOMAIN <<>> = {}
  OBVIOUS
<1> QED
  BY <1>1, <1>2, <1>3 DEF Stopping

\* What is left when a datagram is taken, and the datagram itself.
LEMMA TailOK ==
  ASSUME NEW box \in Boxes, NEW q \in Ports, box[q] # <<>>, NEW S, Stopping(box, S)
  PROVE  /\ [box EXCEPT ![q] = Tail(@)] \in Boxes /\ Stopping([box EXCEPT ![q] = Tail(@)], S)
         /\ Head(box[q]) \in PacketType /\ (Head(box[q]).type = "STOP" => Head(box[q]).node \in S)
<1> HIDE DEF PacketType
<1>1. box[q] \in Seq(PacketType) /\ box[q] # <<>>
  BY DEF Boxes
<1>2. Tail(box[q]) \in Seq(PacketType) /\ Head(box[q]) \in PacketType /\ Head(box[q]) = box[q][1]
  BY <1>1
<1>3. 1 \in DOMAIN box[q] /\ \A i \in DOMAIN Tail(box[q]) :
        i + 1 \in DOMAIN box[q] /\ Tail(box[q])[i] = box[q][i + 1]
  BY <1>1
<1>4. [box EXCEPT ![q] = Tail(@)] \in Boxes
  BY <1>2 DEF Boxes
<1>5. Stopping([box EXCEPT ![q] = Tail(@)], S)
  BY <1>3 DEF Boxes, Stopping
<1> QED
  BY <1>2, <1>3, <1>4, <1>5 DEF Stopping

\* Mutual facts of a listener that has a datagram, and of what it sends.
LEMMA FirstOK ==
  ASSUME IInv, NEW d \in Dirs, Waiting(d)
  PROVE  /\ Rest(d) \in Boxes /\ Stopping(Rest(d), Stoppable) /\ First(d) \in PacketType
         /\ First(d).type = "STOP" => First(d).node \in Stoppable
  BY TailOK DEF IInv, TypeOK, StopInv, Waiting, Rest, First, Boxes

\* An answer of a listener.
LEMMA AnswerOK ==
  ASSUME IInv, NEW d \in Dirs, Waiting(d), NEW type \in {"ROSTER", "PONG", "ERROR"},
         NEW rows \in SUBSET Row
  PROVE  Answer(d, type, rows) \in Boxes /\ Stopping(Answer(d, type, rows), Stoppable)
<1> DEFINE p == Packet(type, proc[d], First(d).req, rows, First(d).fresh)
<1>1. /\ proc[d].port \in Ports \union {0} /\ proc[d].node \in Nat /\ proc[d].cluster \in Nat
      /\ First(d).req \in Nat \union Dirs /\ First(d).fresh \in BOOLEAN
  <2>1. proc[d] \in ProcType
    BY DEF IInv, TypeOK
  <2>2. First(d) \in PacketType
    BY FirstOK
  <2> QED
    BY <2>1, <2>2 DEF ProcType, PacketType
<1>2. p \in PacketType /\ p.type # "STOP"
  BY <1>1, PacketOK
<1>3. Rest(d) \in Boxes /\ Stopping(Rest(d), Stoppable)
  BY FirstOK
<1> HIDE DEF p
<1> QED
  BY <1>2, <1>3, SendOK DEF Answer, p

\* A join request or a heartbeat.
LEMMA RequestOK ==
  ASSUME IInv, NEW s, s.port \in Ports \union {0}, s.node \in Nat, s.cluster \in Nat,
         NEW type \in {"JOIN", "BEAT"}
  PROVE  Request(s, type) \in Boxes /\ Stopping(Request(s, type), Stoppable)
<1> DEFINE p == Packet(type, s, s.node, {}, TRUE)
<1>1. p \in PacketType /\ p.type # "STOP"
  BY PacketOK
<1>2. Outdate(inbox, s.node) \in Boxes /\ Stopping(Outdate(inbox, s.node), Stoppable)
  BY OutdateOK DEF IInv, TypeOK, StopInv, Boxes
<1> HIDE DEF p
<1> QED
  BY <1>1, <1>2, SendOK DEF Request, p

\* The LEAVE of a listener that ends.
LEMMA FarewellOK ==
  ASSUME IInv, NEW box \in Boxes, Stopping(box, Stoppable), NEW s,
         s.port \in Ports \union {0}, s.node \in Nat, s.cluster \in Nat
  PROVE  LET out == Send(box, Packet("LEAVE", s, NoNode, {}, FALSE), SeedPort)
         IN  out \in Boxes /\ Stopping(out, Stoppable)
<1> DEFINE p == Packet("LEAVE", s, NoNode, {}, FALSE)
<1>1. p \in PacketType /\ p.type # "STOP"
  BY PacketOK DEF NoNode
<1> HIDE DEF p
<1> QED
  BY <1>1, SendOK DEF p

-----------------------------------------------------------------------------
(* The socket buffers after a step.                                        *)

\* Every step keeps the buffers well-formed, and the STOPs in them rightful.
LEMMA BoxStep ==
  ASSUME IInv, Next
  PROVE  inbox' \in Boxes /\ Stopping(inbox', Stoppable)
<1> DEFINE Good == inbox' \in Boxes /\ Stopping(inbox', Stoppable)
<1>1. inbox \in Boxes /\ Stopping(inbox, Stoppable)
  BY DEF IInv, TypeOK, StopInv, Boxes
<1>2. ASSUME inbox' = inbox PROVE Good
  BY <1>1, <1>2
<1>3. ASSUME NEW q \in Ports, Lose(q) PROVE Good
  BY <1>1, <1>3, TailOK DEF Lose
<1>4. ASSUME NEW d \in Members, NEW q \in PortsOf[d], Join(d, q) PROVE Good
  <2>1. q \in Ports /\ starts \in Nat
    BY ClusterAssumption DEF IInv, TypeOK, Members
  <2>2. New(d, q).port = q /\ New(d, q).node \in Nat /\ New(d, q).cluster \in Nat
    BY <2>1 DEF New, Off, NoNode
  <2> QED
    BY <1>4, <2>1, <2>2, RequestOK DEF Join
<1>5. ASSUME NEW d \in Dirs, JoinDrops(d) \/ Snapshot(d) \/ Ignore(d) \/ Stop(d) PROVE Good
  <2>1. Waiting(d) /\ inbox' = Rest(d)
    BY <1>5 DEF JoinDrops, Snapshot, Ignore, Stop, Stops, Handles
  <2> QED
    BY <2>1, FirstOK
<1>6. ASSUME NEW d \in Dirs, Error(d) PROVE Good
  <2>1. Waiting(d) /\ inbox' = Answer(d, "ERROR", {})
    BY <1>6 DEF Error, Handles
  <2> QED
    BY <2>1, AnswerOK
<1>7. CASE Register \/ Refused \/ Unregister
  <2>1. Seed \in Dirs /\ Waiting(Seed) /\ First(Seed) \in PacketType
    BY <1>7, FirstOK, ClusterAssumption DEF Register, Refused, Unregister, Handles
  <2>2. proc[Seed] \in ProcType
    BY <2>1 DEF IInv, TypeOK
  <2>3. PICK type \in {"ROSTER", "PONG", "ERROR"}, rows \in SUBSET Row :
          inbox' = Answer(Seed, type, rows) \/ inbox' = Rest(Seed)
    <3>1. CASE Register
      <4> DEFINE s == [proc[Seed] EXCEPT !.rows = @ \union {[node |-> First(Seed).node, port |-> First(Seed).from]}]
      <4>1. s.rows \in SUBSET Row
        BY <2>1, <2>2 DEF ProcType, PacketType, Row
      <4> QED
        BY <3>1, <4>1 DEF Register
    <3>2. CASE Refused \/ Unregister
      BY <3>2 DEF Refused, Unregister
    <3> QED
      BY <1>7, <3>1, <3>2
  <2> QED
    BY <2>1, <2>3, AnswerOK, FirstOK
<1>8. ASSUME NEW d \in Dirs, JoinAnswered(d) PROVE Good
  <2> DEFINE s == [proc[d] EXCEPT !.cluster = First(d).cluster]
  <2>1. Waiting(d) /\ proc[d] \in ProcType /\ First(d) \in PacketType
    BY <1>8, FirstOK DEF JoinAnswered, IInv, TypeOK
  <2>2. s.port \in Ports \union {0} /\ s.node \in Nat /\ s.cluster \in Nat
    BY <2>1 DEF ProcType, PacketType
  <2>3. Rest(d) \in Boxes /\ Stopping(Rest(d), Stoppable)
    BY <2>1, FirstOK
  <2> HIDE DEF s
  <2>4. CASE inbox' = Rest(d)
    BY <2>3, <2>4
  <2>5. CASE inbox' = [Send(Rest(d), Packet("LEAVE", s, NoNode, {}, FALSE), SeedPort)
                         EXCEPT ![proc[d].port] = <<>>]
    BY <2>2, <2>3, <2>5, FarewellOK, ClearOK
  <2> QED
    BY <1>8, <2>4, <2>5 DEF JoinAnswered, Gone, s
<1>9. ASSUME NEW d \in Dirs, JoinTimeout(d) \/ Kill(d) PROVE Good
  <2>1. inbox' = [inbox EXCEPT ![proc[d].port] = <<>>]
    BY <1>9 DEF JoinTimeout, Kill, Gone
  <2> QED
    BY <1>1, <2>1, ClearOK
<1>10. ASSUME NEW d \in Dirs, Quit(d) PROVE Good
  <2>1. proc[d].port \in Ports \union {0} /\ proc[d].node \in Nat /\ proc[d].cluster \in Nat
    BY DEF IInv, TypeOK, ProcType
  <2>2. CASE d = Seed
    BY <1>1, <1>10, <2>2, ClearOK DEF Quit, Gone
  <2>3. CASE d # Seed
    <3>1. inbox' = [Send(inbox, Packet("LEAVE", proc[d], NoNode, {}, FALSE), SeedPort)
                      EXCEPT ![proc[d].port] = <<>>]
      BY <1>10, <2>3 DEF Quit, Gone
    <3> QED
      BY <1>1, <2>1, <3>1, FarewellOK, ClearOK
  <2> QED
    BY <2>2, <2>3
<1>11. ASSUME NEW d \in Dirs, LeaveSends(d) PROVE Good
  <2> DEFINE s == [cmd[d] EXCEPT !.port = 0]
             p == Packet("STOP", s, d, {}, TRUE)
  <2>1. cmd[d] \in CmdType
    BY DEF IInv, TypeOK
  <2>2. s.port = 0 /\ s.node = cmd[d].node /\ s.node \in Nat /\ s.cluster \in Nat
    BY <2>1 DEF CmdType
  <2> HIDE DEF s
  <2>3. p \in PacketType /\ p.node = cmd[d].node
    <3>1. /\ s.port \in Ports \union {0} /\ s.node \in Nat /\ s.cluster \in Nat
          /\ d \in Nat \union Dirs /\ {} \in SUBSET Row /\ TRUE \in BOOLEAN
      BY <2>2
    <3>2. p \in PacketType /\ p.node = s.node
      BY <3>1 DEF Packet, PacketType
    <3> QED
      BY <2>2, <3>2
  <2>4. cmd[d].node \in Stoppable
    BY <1>11, <2>1 DEF LeaveSends, IInv, NodeInv, Stoppable, CmdType, TypeOK, NoNode
  <2>5. inbox' = Send(inbox, p, cmd[d].port)
    BY <1>11 DEF LeaveSends, s
  <2> HIDE DEF p
  <2> QED
    BY <1>1, <2>3, <2>4, <2>5, SendOK
<1>12. ASSUME NEW d \in Dirs, LeaveTimeout(d) PROVE Good
  BY <1>1, <1>12, OutdateOK DEF LeaveTimeout
<1>13. ASSUME NEW d \in Dirs, NEW late \in BOOLEAN, Beat(d, late) PROVE Good
  <2>1. proc[d].port \in Ports \union {0} /\ proc[d].node \in Nat /\ proc[d].cluster \in Nat
    BY DEF IInv, TypeOK, ProcType
  <2> QED
    BY <1>13, <2>1, RequestOK DEF Beat
<1>14. ASSUME NEW d \in Dirs, \/ Term(d) \/ LeaveBegins(d) \/ LeaveCleans(d)
                              \/ Outage(d) \/ \E late \in BOOLEAN : MemberAges(d, late)
       PROVE  Good
  BY <1>2, <1>14 DEF Term, LeaveBegins, LeaveCleans, MemberAges, Outage
<1>15. CASE StartSeed(SeedPort) \/ Expire \/ \E n \in 1..MaxStarts : \E late \in BOOLEAN : RowAges(n, late)
  BY <1>2, <1>15 DEF StartSeed, Expire, RowAges
<1> HIDE DEF Good
<1> QED
  BY <1>3, <1>4, <1>5, <1>6, <1>7, <1>8, <1>9, <1>10, <1>11, <1>12, <1>13, <1>14, <1>15
  DEF Next, Listener, Good

-----------------------------------------------------------------------------
(* The other variables: types.                                             *)

\* A directory without a listener, files or `leave' has its types.
LEMMA Constants == Off \in ProcType /\ NoFiles \in FilesType /\ NoCmd \in CmdType /\ Seed \in Dirs
  BY ClusterAssumption DEF Off, NoFiles, NoCmd, NoNode, ProcType, FilesType, CmdType

\* The state files that a listener writes have their type.
LEMMA PersistedOK == ASSUME NEW s \in ProcType PROVE Persisted(s) \in FilesType
  BY DEF Persisted, ProcType, FilesType

\* So has a listener that takes over a roster or a cluster.
LEMMA AdoptOK ==
  ASSUME NEW s \in ProcType, NEW p \in PacketType, NEW c \in Nat
  PROVE  /\ Adopt(s, p) \in ProcType /\ [Adopt(s, p) EXCEPT !.pc = "run"] \in ProcType
         /\ [s EXCEPT !.cluster = c] \in ProcType
  BY DEF Adopt, ProcType, PacketType

\* So has a listener with other rows.
LEMMA RowsOK ==
  ASSUME NEW s \in ProcType, NEW rows \in SUBSET Row
  PROVE  [s EXCEPT !.rows = rows] \in ProcType /\ [s EXCEPT !.rows = rows, !.connected = FALSE] \in ProcType
  BY DEF ProcType

\* So has a listener that is told to quit, or has heard nothing.
LEMMA FlagsOK ==
  ASSUME NEW s \in ProcType, NEW q \in {"no", "stop", "term", "refused"}
  PROVE  [s EXCEPT !.quit = q] \in ProcType /\ [s EXCEPT !.stale = TRUE] \in ProcType
  BY DEF ProcType

\* The nodes and the own row of a listener.
LEMMA NodesOK == ASSUME NEW s \in ProcType PROVE Nodes(s.rows) \subseteq Nat /\ Own(s) \in Row
  BY DEF ProcType, Nodes, Row, Own

\* Faults are counted within their bound.
LEMMA FaultOK == ASSUME IInv, Fault \/ UNCHANGED faults PROVE faults' \in 0..MaxFaults
  BY ClusterAssumption DEF IInv, TypeOK, Fault

-----------------------------------------------------------------------------
(* What a step may do to one directory, and what that preserves.           *)

\* The directory gets the listener s and the files f; its listener keeps its
\* node, is gone or is new; its files and its `leave' take their node from it;
\* and a `leave' keeps its node as long as the listener it names is there.
Changes(d, s, f) ==
  /\ d \in Dirs /\ s \in ProcType /\ f \in FilesType /\ cmd' \in [Dirs -> CmdType]
  /\ proc' = [proc EXCEPT ![d] = s] /\ files' = [files EXCEPT ![d] = f]
  /\ starts' \in Nat /\ starts <= starts'
  /\ \/ s = Off
     \/ s.node = proc[d].node
     \/ s.node = starts + 1 /\ starts' = starts + 1
  /\ (s.pc = "off" => s = Off) /\ (s.pc # "off" => s.node # NoNode)
  /\ f.node \in {files[d].node, s.node, NoNode} /\ (f.whole => f.node # NoNode)
  /\ cmd'[d].node \in {cmd[d].node, files[d].node, NoNode}
  /\ cmd'[d].pc = "idle" => cmd'[d] = NoCmd
  /\ cmd'[d].pc = "loaded" => cmd'[d].node # NoNode
  /\ \A e \in Dirs \ {d} : /\ cmd'[e].node = cmd[e].node
                           /\ cmd'[e].pc \in {"idle", "loaded"} => cmd'[e] = cmd[e]
  /\ s.pc = "run" => f = Persisted(s)
  /\ s.quit = "stop" => cmd'[d].node = s.node
  /\ s.node # NoNode /\ s.node = cmd[d].node => cmd'[d].node = s.node

Kept == /\ proc' \in [Dirs -> ProcType] /\ files' \in [Dirs -> FilesType]
        /\ cmd' \in [Dirs -> CmdType]
        /\ FilesOwned' /\ NodeInv' /\ StopsOwn' /\ Stoppable \subseteq Stoppable'

\* Such a step keeps the types, the files and the nodes.
LEMMA ChangesKeep ==
  ASSUME IInv, NEW d, NEW s, NEW f, Changes(d, s, f)
  PROVE  Kept
<1> USE DEF Changes
<1>1. /\ proc \in [Dirs -> ProcType] /\ files \in [Dirs -> FilesType] /\ cmd \in [Dirs -> CmdType]
      /\ starts \in Nat
  BY ClusterAssumption DEF IInv, TypeOK
<1>2. proc' \in [Dirs -> ProcType] /\ files' \in [Dirs -> FilesType] /\ cmd' \in [Dirs -> CmdType]
  BY <1>1
<1>3. /\ d \in Dirs /\ proc'[d] = s /\ files'[d] = f
      /\ \A e \in Dirs \ {d} : proc'[e] = proc[e] /\ files'[e] = files[e]
  BY <1>1
<1>4. /\ \A e \in Dirs : proc[e].node \in Nat /\ files[e].node \in Nat /\ cmd[e].node \in Nat
      /\ s.node \in Nat /\ f.node \in Nat /\ \A e \in Dirs : cmd'[e].node \in Nat
  BY <1>1 DEF ProcType, FilesType, CmdType
<1>5. Off.node = NoNode /\ Off.pc = "off" /\ Off.quit = "no" /\ NoNode = 0
  BY DEF Off, NoNode
<1>6. FilesOwned'
  <2> SUFFICES ASSUME NEW e \in Dirs, proc'[e].pc = "run"
               PROVE  files'[e] = Persisted(proc'[e])
    BY DEF FilesOwned, Persisted
  <2>1. CASE e = d
    BY <1>3, <2>1
  <2>2. CASE e # d
    <3>1. proc'[e] = proc[e] /\ files'[e] = files[e]
      BY <1>3, <2>2
    <3>2. files[e] = Persisted(proc[e])
      BY <3>1 DEF IInv, FilesOwned
    <3> QED
      BY <3>1, <3>2
  <2> QED
    BY <2>1, <2>2
<1>7. \A e \in Dirs :
        /\ proc'[e].pc = "off" => proc'[e] = Off
        /\ proc'[e].pc # "off" => proc'[e].node # NoNode
        /\ files'[e].whole => files'[e].node # NoNode
        /\ cmd'[e].pc = "idle" => cmd'[e] = NoCmd
        /\ cmd'[e].pc = "loaded" => cmd'[e].node # NoNode
  BY <1>3 DEF IInv, NodeInv
<1>8. \A e \in Dirs : proc'[e].node <= starts' /\ files'[e].node <= starts' /\ cmd'[e].node <= starts'
  <2>1. \A e \in Dirs : proc[e].node <= starts /\ files[e].node <= starts /\ cmd[e].node <= starts
    BY DEF IInv, NodeInv
  <2>2. s.node <= starts' /\ f.node <= starts' /\ cmd'[d].node <= starts'
    BY <1>1, <1>3, <1>4, <1>5, <2>1
  <2> QED
    BY <1>1, <1>3, <1>4, <2>1, <2>2
<1>9. \A e, g \in Dirs : e # g /\ proc'[g].node # NoNode =>
        proc'[g].node \notin {proc'[e].node, files'[e].node, cmd'[e].node}
  <2>1. \A e \in Dirs : proc[e].node <= starts /\ files[e].node <= starts /\ cmd[e].node <= starts
    BY DEF IInv, NodeInv
  <2>2. \A e, g \in Dirs : e # g /\ proc[g].node # NoNode =>
          proc[g].node \notin {proc[e].node, files[e].node, cmd[e].node}
    BY DEF IInv, NodeInv
  <2>3. ASSUME NEW g \in Dirs \ {d}, proc[g].node # NoNode
        PROVE  proc[g].node \notin {s.node, f.node, cmd'[d].node}
    BY <1>1, <1>3, <1>4, <1>5, <2>1, <2>2, <2>3
  <2>4. ASSUME NEW e \in Dirs \ {d}, s.node # NoNode
        PROVE  s.node \notin {proc[e].node, files[e].node, cmd[e].node}
    BY <1>1, <1>3, <1>4, <1>5, <2>1, <2>2, <2>4
  <2> QED
    BY <1>3, <2>2, <2>3, <2>4
<1>10. NodeInv'
  BY <1>7, <1>8, <1>9 DEF NodeInv
<1>11. StopsOwn'
  BY <1>3 DEF IInv, StopInv, StopsOwn
<1>12. Stoppable \subseteq Stoppable'
  <2> SUFFICES ASSUME NEW n \in 1..starts, \A e \in Dirs : proc[e].node = n => cmd[e].node = n
               PROVE  n \in 1..starts' /\ \A e \in Dirs : proc'[e].node = n => cmd'[e].node = n
    BY DEF Stoppable
  <2>1. n \in 1..starts' /\ n # NoNode /\ n # starts + 1
    BY <1>1, <1>5
  <2> QED
    BY <1>3, <1>5, <2>1
<1> QED
  BY <1>2, <1>6, <1>10, <1>11, <1>12 DEF Kept

\* What the invariant says of one directory.
LEMMA Local ==
  ASSUME IInv, NEW d \in Dirs
  PROVE  /\ proc[d] \in ProcType /\ files[d] \in FilesType /\ cmd[d] \in CmdType
         /\ cmd \in [Dirs -> CmdType] /\ starts \in Nat
         /\ proc = [proc EXCEPT ![d] = proc[d]] /\ files = [files EXCEPT ![d] = files[d]]
         /\ proc[d].pc = "off" => proc[d] = Off
         /\ proc[d].pc # "off" => proc[d].node # NoNode
         /\ files[d].whole => files[d].node # NoNode
         /\ cmd[d].pc = "idle" => cmd[d] = NoCmd
         /\ cmd[d].pc = "loaded" => cmd[d].node # NoNode
         /\ proc[d].pc = "run" => files[d] = Persisted(proc[d])
         /\ proc[d].quit = "stop" => cmd[d].node = proc[d].node
         /\ \A e \in Dirs : cmd[e].pc = "idle" => cmd[e] = NoCmd
<1>1. starts \in Nat
  BY ClusterAssumption DEF IInv, TypeOK
<1>2. proc \in [Dirs -> ProcType] /\ files \in [Dirs -> FilesType] /\ cmd \in [Dirs -> CmdType]
  BY DEF IInv, TypeOK
<1> QED
  BY <1>1, <1>2 DEF IInv, NodeInv, FilesOwned, StopInv, StopsOwn

\* What there is in a directory without a listener, files or `leave'.
LEMMA Plain ==
  /\ Off.node = NoNode /\ Off.pc = "off" /\ Off.quit = "no" /\ NoFiles.node = NoNode /\ ~NoFiles.whole
  /\ NoCmd.node = NoNode /\ NoCmd.pc = "idle"
  /\ \A s : Persisted(s).node = s.node
  BY DEF Off, NoFiles, NoCmd, Persisted

\* A step that keeps the listener, and may set its rows and flags.
LEMMA Updates ==
  ASSUME IInv, NEW d \in Dirs, NEW s \in ProcType, NEW f, proc[d].pc # "off",
         s.pc # "off", s.node = proc[d].node, f = files[d] \/ f = Persisted(s),
         s.pc = "run" => f = Persisted(s), s.quit = "stop" => cmd[d].node = s.node,
         proc' = [proc EXCEPT ![d] = s], files' = [files EXCEPT ![d] = f],
         cmd' = cmd, starts' = starts
  PROVE  Changes(d, s, f)
<1>1. f \in FilesType
  BY Local, PersistedOK
<1>2. f.node \in {files[d].node, s.node} /\ (f.whole => f.node # NoNode)
  BY Local, Plain
<1> QED
  BY <1>1, <1>2, Local DEF Changes

\* A step that leaves all listeners and files alone.
LEMMA Same ==
  ASSUME IInv, NEW d \in Dirs, proc' = proc, files' = files, cmd' = cmd, starts' = starts
  PROVE  Changes(d, proc[d], files[d])
  BY Local DEF Changes

\* A step that ends the listener.
LEMMA Ends ==
  ASSUME IInv, NEW d \in Dirs, NEW f \in {files[d], NoFiles}, cmd' = cmd, starts' = starts,
         proc' = [proc EXCEPT ![d] = Off], files' = [files EXCEPT ![d] = f]
  PROVE  Changes(d, Off, f)
<1>1. f \in FilesType /\ f.node \in {files[d].node, NoNode} /\ (f.whole => f.node # NoNode)
  BY Local, Constants, Plain
<1> QED
  BY <1>1, Local, Constants, Plain DEF Changes

\* A step of `leave', in a directory whose files may be removed once the
\* listener is gone.
LEMMA Leaves ==
  ASSUME IInv, NEW d \in Dirs, NEW c \in CmdType, NEW f \in {files[d], NoFiles},
         f # files[d] => proc[d].pc = "off",
         \/ c.node = cmd[d].node /\ c.pc # "idle" /\ c.pc # "loaded"
         \/ c = cmd[d]
         \/ cmd[d].pc = "idle" /\ c.node = files[d].node /\ files[d].whole /\ c.pc = "loaded"
         \/ c.node = NoNode /\ c.pc = "done" /\ proc[d].pc = "off",
         cmd' = [cmd EXCEPT ![d] = c], files' = [files EXCEPT ![d] = f],
         proc' = proc, starts' = starts
  PROVE  Changes(d, proc[d], f)
<1>1. f \in FilesType /\ f.node \in {files[d].node, NoNode} /\ (f.whole => f.node # NoNode)
  BY Local, Constants, Plain
<1>2. cmd' \in [Dirs -> CmdType] /\ cmd'[d] = c /\ \A e \in Dirs \ {d} : cmd'[e] = cmd[e]
  BY Local
<1>3. /\ cmd'[d].node \in {cmd[d].node, files[d].node, NoNode}
      /\ cmd'[d].pc = "idle" => cmd'[d] = NoCmd
      /\ cmd'[d].pc = "loaded" => cmd'[d].node # NoNode
      /\ proc[d].node # NoNode /\ proc[d].node = cmd[d].node => cmd'[d].node = proc[d].node
      /\ proc[d].quit = "stop" => cmd'[d].node = proc[d].node
  BY <1>2, Local, Plain
<1> QED
  BY <1>1, <1>2, <1>3, Local, Plain DEF Changes

-----------------------------------------------------------------------------
(* Every step changes one directory in this way.                           *)

Changed == \E d, s, f : Changes(d, s, f)

\* `init' and `join' start a listener with a new node.
LEMMA StartStep ==
  ASSUME IInv, StartSeed(SeedPort) \/ \E d \in Members : \E q \in PortsOf[d] : Join(d, q)
  PROVE  Changed
<1>1. Seed \in Dirs /\ SeedPort \in Ports /\ \A d \in Members : d \in Dirs /\ PortsOf[d] \subseteq Ports
  BY ClusterAssumption DEF Members
<1>2. CASE StartSeed(SeedPort)
  <2> DEFINE s == [New(Seed, SeedPort) EXCEPT !.pc = "run", !.cluster = starts + 1, !.connected = TRUE,
                                   !.rows = {[node |-> starts + 1, port |-> SeedPort]}]
  <2>1. CASE SeedPort \in Bound
    <3>1. Changes(Seed, proc[Seed], NoFiles)
      <4>1. /\ files' = [files EXCEPT ![Seed] = NoFiles] /\ proc' = proc /\ starts' = starts
            /\ cmd' = cmd /\ proc[Seed].pc = "off"
        BY <1>2, <2>1 DEF StartSeed
      <4>2. cmd' = [cmd EXCEPT ![Seed] = cmd[Seed]]
        BY <1>1, <4>1, Local
      <4> QED
        BY <1>1, <4>1, <4>2, Local, Leaves
    <3> QED
      BY <3>1 DEF Changed
  <2>2. CASE SeedPort \notin Bound
    <3>1. starts \in Nat /\ starts + 1 \in Nat /\ starts + 1 # NoNode
      BY <1>1, Local DEF NoNode
    <3>2. s \in ProcType /\ s.node = starts + 1 /\ s.pc = "run" /\ s.quit = "no"
      <4> DEFINE rows == {[node |-> starts + 1, port |-> SeedPort]}
      <4>1. rows \in SUBSET Row /\ SeedPort \in Ports \union {0}
        BY <1>1, <3>1 DEF Row
      <4>2. New(Seed, SeedPort) \in ProcType /\ New(Seed, SeedPort).node = starts + 1
            /\ New(Seed, SeedPort).quit = "no"
        BY <3>1, <4>1 DEF New, Off, NoNode, ProcType
      <4> DEFINE w == New(Seed, SeedPort)
      <4>3. s = [w EXCEPT !.pc = "run", !.cluster = starts + 1, !.connected = TRUE, !.rows = rows]
        OBVIOUS
      <4> HIDE DEF s, rows, w
      <4>4. w \in ProcType /\ w.node = starts + 1 /\ w.quit = "no"
        BY <4>2 DEF w
      <4> QED
        BY <3>1, <4>1, <4>3, <4>4 DEF ProcType
    <3> HIDE DEF s
    <3>3. /\ starts' = starts + 1 /\ proc' = [proc EXCEPT ![Seed] = s] /\ cmd' = cmd
          /\ files' = [files EXCEPT ![Seed] = Persisted(s)]
      BY <1>2, <2>2 DEF StartSeed, s
    <3>4. Persisted(s) \in FilesType /\ Persisted(s).node = s.node
      BY <3>2, PersistedOK, Plain
    <3>5. s.node # cmd[Seed].node
      BY <1>1, <3>1, <3>2 DEF IInv, NodeInv, TypeOK, CmdType
    <3>6. Changes(Seed, s, Persisted(s))
      BY <1>1, <3>1, <3>2, <3>3, <3>4, <3>5, Local DEF Changes
    <3> QED
      BY <3>6 DEF Changed
  <2> QED
    BY <2>1, <2>2
<1>3. ASSUME NEW d \in Members, NEW q \in PortsOf[d], Join(d, q) PROVE Changed
  <2> DEFINE s == [New(d, q) EXCEPT !.pc = "join"]
  <2>1. starts \in Nat /\ starts + 1 \in Nat /\ starts + 1 # NoNode /\ d \in Dirs /\ q \in Ports
    BY <1>1, <1>3, Local DEF NoNode
  <2>2. s \in ProcType /\ s.node = starts + 1 /\ s.pc = "join" /\ s.quit = "no"
    BY <2>1 DEF New, Off, ProcType, NoNode
  <2> HIDE DEF s
  <2>3. /\ starts' = starts + 1 /\ proc' = [proc EXCEPT ![d] = s] /\ cmd' = cmd
        /\ files' = [files EXCEPT ![d] = NoFiles]
    BY <1>3 DEF Join, s
  <2>5. s.node # cmd[d].node
    BY <2>1, <2>2 DEF IInv, NodeInv, TypeOK, CmdType
  <2>6. Changes(d, s, NoFiles)
    BY <2>1, <2>2, <2>3, <2>5, Local, Plain, Constants DEF Changes
  <2> QED
    BY <2>6 DEF Changed
<1> QED
  BY <1>2, <1>3

\* The seed adds or drops rows.
LEMMA SeedRowStep ==
  ASSUME IInv, Register \/ Unregister \/ Expire
  PROVE  /\ Changed
         /\ \E rows \in SUBSET Row : proc' = [proc EXCEPT ![Seed] = [proc[Seed] EXCEPT !.rows = rows]]
<1>1. Seed \in Dirs /\ proc[Seed] \in ProcType
  BY Constants, Local
<1>2. PICK rows \in SUBSET Row :
        LET s == [proc[Seed] EXCEPT !.rows = rows] IN
        proc' = [proc EXCEPT ![Seed] = s] /\ files' = [files EXCEPT ![Seed] = Persisted(s)]
  <2>1. CASE Register
    <3>1. First(Seed) \in PacketType
      BY <1>1, <2>1, FirstOK DEF Register, Handles
    <3>2. proc[Seed].rows \union {[node |-> First(Seed).node, port |-> First(Seed).from]} \in SUBSET Row
      BY <1>1, <3>1 DEF ProcType, PacketType, Row
    <3> QED
      BY <2>1, <3>2 DEF Register
  <2>2. CASE Unregister
    <3>1. proc[Seed].rows \ {[node |-> First(Seed).node, port |-> First(Seed).from]} \in SUBSET Row
      BY <1>1 DEF ProcType
    <3> QED
      BY <2>2, <3>1 DEF Unregister
  <2>3. CASE Expire
    <3>1. {r \in proc[Seed].rows : r.node \notin old} \in SUBSET Row
      BY <1>1 DEF ProcType
    <3> QED
      BY <2>3, <3>1 DEF Expire
  <2> QED
    BY <2>1, <2>2, <2>3
<1> DEFINE s == [proc[Seed] EXCEPT !.rows = rows]
<1>3. s \in ProcType
  BY <1>1, RowsOK
<1>4. s.node = proc[Seed].node /\ s.pc = proc[Seed].pc /\ s.quit = proc[Seed].quit
  BY <1>1 DEF ProcType
<1>5. proc[Seed].pc = "run" /\ cmd' = cmd /\ starts' = starts
  BY DEF Register, Unregister, Expire, Handles, Running
<1>6. proc' = [proc EXCEPT ![Seed] = s] /\ files' = [files EXCEPT ![Seed] = Persisted(s)]
  BY <1>2
<1> HIDE DEF s
<1>7. Changes(Seed, s, Persisted(s))
  BY <1>1, <1>3, <1>4, <1>5, <1>6, Local, Updates
<1> QED
  BY <1>2, <1>7 DEF Changed

\* A listener takes a datagram, or ends.
LEMMA ListenerStep ==
  ASSUME IInv, NEW d \in Dirs,
         \/ JoinDrops(d) \/ JoinAnswered(d) \/ Snapshot(d) \/ Ignore(d) \/ Stop(d) \/ Error(d)
         \/ Refused \/ JoinTimeout(d) \/ Quit(d) \/ Kill(d)
  PROVE  Changed
<1>1. CASE JoinDrops(d) \/ Ignore(d) \/ Error(d) \/ Refused
  <2>1. proc' = proc /\ files' = files /\ cmd' = cmd /\ starts' = starts
    BY <1>1 DEF JoinDrops, Ignore, Error, Refused
  <2> QED
    BY <2>1, Same DEF Changed
<1>2. ASSUME NEW f \in {files[d], NoFiles}, cmd' = cmd, starts' = starts,
             proc' = [proc EXCEPT ![d] = Off], files' = [files EXCEPT ![d] = f]
      PROVE  Changed
  BY <1>2, Ends DEF Changed
<1>3. CASE JoinTimeout(d) \/ Kill(d)
  BY <1>2, <1>3, Local DEF JoinTimeout, Kill, Gone
<1>4. CASE Quit(d)
  BY <1>2, <1>4 DEF Quit, Gone
<1>5. CASE JoinAnswered(d)
  <2> DEFINE c == [proc[d] EXCEPT !.cluster = First(d).cluster]
             s == [Adopt(c, First(d)) EXCEPT !.pc = "run"]
  <2>1. CASE Valid(c, First(d)) /\ c.quit = "no"
    <3>1. First(d) \in PacketType /\ proc[d] \in ProcType
      BY <1>5, FirstOK, Local DEF JoinAnswered
    <3>2. First(d).cluster \in Nat
      BY <3>1 DEF PacketType
    <3>3. c \in ProcType /\ s \in ProcType
      BY <3>1, <3>2, AdoptOK
    <3>4. s.pc = "run" /\ s.node = proc[d].node /\ s.quit = "no" /\ Persisted(s) = Persisted(Adopt(c, First(d)))
      BY <2>1, <3>1 DEF Adopt, ProcType, Persisted
    <3>5. /\ proc' = [proc EXCEPT ![d] = s] /\ files' = [files EXCEPT ![d] = Persisted(Adopt(c, First(d)))]
          /\ cmd' = cmd /\ starts' = starts /\ proc[d].pc = "join"
      BY <1>5, <2>1 DEF JoinAnswered
    <3> HIDE DEF s, c
    <3>6. Changes(d, s, Persisted(s))
      BY <3>3, <3>4, <3>5, Updates
    <3> QED
      BY <3>6 DEF Changed
  <2>2. CASE ~(Valid(c, First(d)) /\ c.quit = "no")
    BY <1>2, <1>5, <2>2, Local DEF JoinAnswered, Gone
  <2> QED
    BY <2>1, <2>2
<1>6. CASE Snapshot(d)
  <2>1. /\ First(d) \in PacketType /\ proc[d] \in ProcType /\ cmd' = cmd /\ starts' = starts
        /\ proc[d].pc = "run" /\ proc[d].quit = "no"
    BY <1>6, FirstOK, Local DEF Snapshot, Running
  <2>2. CASE Answers(d, First(d)) /\ Valid(proc[d], First(d))
    <3> DEFINE s == Adopt(proc[d], First(d))
    <3>1. s \in ProcType
      BY <2>1, AdoptOK DEF PacketType
    <3>2. s.pc = "run" /\ s.node = proc[d].node /\ s.quit = "no"
      BY <2>1 DEF Adopt, ProcType
    <3>3. proc' = [proc EXCEPT ![d] = s] /\ files' = [files EXCEPT ![d] = Persisted(s)]
      BY <1>6, <2>2 DEF Snapshot
    <3> HIDE DEF s
    <3>4. Changes(d, s, Persisted(s))
      BY <2>1, <3>1, <3>2, <3>3, Updates
    <3> QED
      BY <3>4 DEF Changed
  <2>3. CASE Answers(d, First(d)) /\ ~Valid(proc[d], First(d))
    <3> DEFINE s == [proc[d] EXCEPT !.quit = "refused"]
    <3>1. s \in ProcType
      BY <2>1, FlagsOK
    <3>2. s.pc = "run" /\ s.node = proc[d].node /\ s.quit = "refused" /\ Persisted(s) = Persisted(proc[d])
      BY <2>1 DEF ProcType, Persisted
    <3>3. proc' = [proc EXCEPT ![d] = s] /\ files' = files
      BY <1>6, <2>3 DEF Snapshot
    <3> HIDE DEF s
    <3>4. Changes(d, s, files[d])
      BY <2>1, <3>1, <3>2, <3>3, Local, Updates
    <3> QED
      BY <3>4 DEF Changed
  <2>4. CASE ~Answers(d, First(d))
    <3>1. proc' = proc /\ files' = files
      BY <1>6, <2>4 DEF Snapshot
    <3> QED
      BY <2>1, <3>1, Same DEF Changed
  <2> QED
    BY <2>2, <2>3, <2>4
<1>7. CASE Stop(d)
  <2> DEFINE s == [proc[d] EXCEPT !.quit = "stop"]
  <2>1. /\ First(d) \in PacketType /\ proc[d] \in ProcType /\ starts' = starts
        /\ proc[d].pc = "run" /\ First(d).node = proc[d].node /\ First(d).node \in Stoppable
    BY <1>7, FirstOK, Local DEF Stop, Stops, Handles, Running
  <2>2. cmd[d].node = proc[d].node
    BY <2>1 DEF Stoppable
  <2>3. s \in ProcType
    BY <2>1, FlagsOK
  <2>4. s.pc = "run" /\ s.node = proc[d].node /\ Persisted(s) = Persisted(proc[d])
    BY <2>1 DEF ProcType, Persisted
  <2>5. proc' = [proc EXCEPT ![d] = s] /\ files' = files
    BY <1>7 DEF Stop
  <2>6. /\ cmd' \in [Dirs -> CmdType]
        /\ \A e \in Dirs : cmd'[e].node = cmd[e].node /\ (cmd'[e].pc \in {"idle", "loaded"} => cmd'[e] = cmd[e])
    <3>1. cmd \in [Dirs -> CmdType]
      BY Local
    <3>2. \A e \in Dirs : cmd'[e] = cmd[e] \/ cmd'[e] = [cmd[e] EXCEPT !.pc = "wait"]
      BY <1>7 DEF Stop
    <3>3. \A e \in Dirs : LET c == [cmd[e] EXCEPT !.pc = "wait"] IN
            c \in CmdType /\ c.node = cmd[e].node /\ c.pc = "wait"
      BY <3>1 DEF CmdType
    <3>4. cmd' = [e \in Dirs |-> cmd'[e]]
      BY <1>7 DEF Stop
    <3>5. \A e \in Dirs : cmd'[e] \in CmdType
      BY <3>1, <3>2, <3>3
    <3>6. cmd' \in [Dirs -> CmdType]
      BY <3>4, <3>5
    <3> QED
      BY <3>2, <3>3, <3>6
  <2> HIDE DEF s
  <2>7. /\ proc[d].node # NoNode /\ files[d] = Persisted(proc[d]) /\ files = [files EXCEPT ![d] = files[d]]
        /\ files[d] \in FilesType /\ (files[d].whole => files[d].node # NoNode)
        /\ starts \in Nat /\ (cmd[d].pc = "idle" => cmd[d] = NoCmd)
        /\ (cmd[d].pc = "loaded" => cmd[d].node # NoNode)
    BY <2>1, Local
  <2>8. Changes(d, s, files[d])
    BY <2>1, <2>2, <2>3, <2>4, <2>5, <2>6, <2>7 DEF Changes
  <2> QED
    BY <2>8 DEF Changed
<1> QED
  BY <1>1, <1>3, <1>4, <1>5, <1>6, <1>7

\* `leave' goes through its steps.
LEMMA LeaveStep ==
  ASSUME IInv, NEW d \in Dirs,
         LeaveBegins(d) \/ LeaveSends(d) \/ LeaveCleans(d) \/ LeaveTimeout(d)
  PROVE  Changed
<1>1. /\ cmd[d] \in CmdType /\ files[d] \in FilesType
      /\ cmd = [cmd EXCEPT ![d] = cmd[d]] /\ files = [files EXCEPT ![d] = files[d]]
  BY Local
<1>2. proc' = proc /\ starts' = starts
  BY DEF LeaveBegins, LeaveSends, LeaveCleans, LeaveTimeout
<1>3. \A k \in {"sent", "done"} : LET c == [cmd[d] EXCEPT !.pc = k] IN
        c \in CmdType /\ c.node = cmd[d].node /\ c.pc = k
  BY <1>1 DEF CmdType
<1>4. CASE LeaveBegins(d)
  <2>1. CASE proc[d].pc = "off"
    <3>1. files' = [files EXCEPT ![d] = NoFiles] /\ cmd' = [cmd EXCEPT ![d] = cmd[d]]
      BY <1>1, <1>4, <2>1 DEF LeaveBegins
    <3>2. Changes(d, proc[d], NoFiles)
      BY <1>1, <1>2, <2>1, <3>1, Leaves
    <3> QED
      BY <3>2 DEF Changed
  <2>2. CASE proc[d].pc # "off"
    <3> DEFINE c == [pc |-> "loaded", node |-> files[d].node, port |-> files[d].port,
                     cluster |-> files[d].cluster]
    <3>1. c \in CmdType /\ c.node = files[d].node /\ c.pc = "loaded"
      BY <1>1 DEF CmdType, FilesType
    <3>2. /\ cmd' = [cmd EXCEPT ![d] = c] /\ files' = [files EXCEPT ![d] = files[d]]
          /\ cmd[d].pc = "idle" /\ files[d].whole
      BY <1>1, <1>4, <2>2 DEF LeaveBegins
    <3> HIDE DEF c
    <3>3. Changes(d, proc[d], files[d])
      BY <1>2, <3>1, <3>2, Leaves
    <3> QED
      BY <3>3 DEF Changed
  <2> QED
    BY <2>1, <2>2
<1>5. CASE LeaveSends(d) \/ LeaveTimeout(d)
  <2>1. PICK k \in {"sent", "done"} :
          /\ cmd' = [cmd EXCEPT ![d] = [cmd[d] EXCEPT !.pc = k]] /\ files' = [files EXCEPT ![d] = files[d]]
    BY <1>1, <1>5 DEF LeaveSends, LeaveTimeout
  <2> DEFINE c == [cmd[d] EXCEPT !.pc = k]
  <2>2. c \in CmdType /\ c.node = cmd[d].node /\ c.pc = k
    BY <1>3
  <2>3. cmd' = [cmd EXCEPT ![d] = c]
    BY <2>1
  <2> HIDE DEF c
  <2>4. Changes(d, proc[d], files[d])
    BY <1>2, <2>1, <2>2, <2>3, Leaves
  <2> QED
    BY <2>4 DEF Changed
<1>6. CASE LeaveCleans(d)
  <2> DEFINE c == [NoCmd EXCEPT !.pc = "done"]
  <2>1. c \in CmdType /\ c.node = NoNode /\ c.pc = "done"
    BY Constants DEF NoCmd, CmdType, NoNode
  <2>2. cmd' = [cmd EXCEPT ![d] = c] /\ files' = [files EXCEPT ![d] = NoFiles] /\ proc[d].pc = "off"
    BY <1>6 DEF LeaveCleans
  <2> HIDE DEF c
  <2>3. Changes(d, proc[d], NoFiles)
    BY <1>2, <2>1, <2>2, Leaves
  <2> QED
    BY <2>3 DEF Changed
<1> QED
  BY <1>4, <1>5, <1>6

\* The network, signals and the clock.
LEMMA ClockStep ==
  ASSUME IInv, \/ \E q \in Ports : Lose(q)
               \/ \E n \in 1..MaxStarts : \E late \in BOOLEAN : RowAges(n, late)
               \/ \E d \in Dirs : \/ Term(d) \/ Outage(d)
                                \/ \E late \in BOOLEAN : Beat(d, late) \/ MemberAges(d, late)
  PROVE  Changed
<1>1. CASE (\E q \in Ports : Lose(q)) \/ \E n \in 1..MaxStarts : \E late \in BOOLEAN : RowAges(n, late)
  <2>1. proc' = proc /\ files' = files /\ cmd' = cmd /\ starts' = starts
    BY <1>1 DEF Lose, RowAges
  <2> QED
    BY <2>1, Constants, Same DEF Changed
<1>2. ASSUME NEW d \in Dirs, Term(d) PROVE Changed
  <2> DEFINE s == [proc[d] EXCEPT !.quit = "term"]
  <2>1. proc[d] \in ProcType /\ files = [files EXCEPT ![d] = files[d]]
    BY <1>2, Local
  <2>2. s \in ProcType /\ s.node = proc[d].node /\ s.pc = proc[d].pc /\ s.quit = "term"
    BY <2>1, FlagsOK DEF ProcType
  <2>3. Persisted(s) = Persisted(proc[d])
    BY <2>1 DEF ProcType, Persisted
  <2>4. /\ proc' = [proc EXCEPT ![d] = s] /\ files' = files /\ cmd' = cmd /\ starts' = starts
        /\ proc[d].pc # "off"
    BY <1>2 DEF Term
  <2> HIDE DEF s
  <2>5. Changes(d, s, files[d])
    BY <1>2, <2>1, <2>2, <2>3, <2>4, Local, Updates
  <2> QED
    BY <2>5 DEF Changed
<1>3. ASSUME NEW d \in Dirs, Outage(d) \/ \E late \in BOOLEAN : MemberAges(d, late) PROVE Changed
  <2> DEFINE s == [proc[d] EXCEPT !.stale = TRUE]
  <2>1. proc[d] \in ProcType /\ files = [files EXCEPT ![d] = files[d]]
    BY <1>3, Local
  <2>2. s \in ProcType /\ s.node = proc[d].node /\ s.pc = proc[d].pc /\ s.quit = proc[d].quit
    BY <2>1, FlagsOK DEF ProcType
  <2>3. Persisted(s) = Persisted(proc[d])
    BY <2>1 DEF ProcType, Persisted
  <2>4. /\ proc' = [proc EXCEPT ![d] = s] /\ files' = files /\ cmd' = cmd /\ starts' = starts
        /\ proc[d].pc = "run"
    BY <1>3 DEF MemberAges, Outage, Peer, Running
  <2> HIDE DEF s
  <2>5. Changes(d, s, files[d])
    BY <1>3, <2>1, <2>2, <2>3, <2>4, Local, Updates
  <2> QED
    BY <2>5 DEF Changed
<1>4. ASSUME NEW d \in Dirs, NEW late \in BOOLEAN, Beat(d, late) PROVE Changed
  <2> DEFINE s == IF proc[d].stale /\ Cardinality(proc[d].rows) # 1
                  THEN [proc[d] EXCEPT !.rows = {Own(proc[d])}, !.connected = FALSE] ELSE proc[d]
  <2>1. proc[d] \in ProcType /\ {Own(proc[d])} \in SUBSET Row
    BY <1>4, Local, NodesOK
  <2>2. s \in ProcType
    BY <2>1, RowsOK
  <2>3. s.node = proc[d].node /\ s.pc = proc[d].pc /\ s.quit = proc[d].quit
    BY <2>1 DEF ProcType
  <2>4. /\ proc' = [proc EXCEPT ![d] = s] /\ files' = [files EXCEPT ![d] = Persisted(s)]
        /\ cmd' = cmd /\ starts' = starts /\ proc[d].pc = "run"
    BY <1>4 DEF Beat, Running
  <2> HIDE DEF s
  <2>5. Changes(d, s, Persisted(s))
    BY <1>4, <2>1, <2>2, <2>3, <2>4, Local, Updates
  <2> QED
    BY <2>5 DEF Changed
<1> QED
  BY <1>1, <1>2, <1>3, <1>4

\* Every step keeps the types, the files and the nodes.
LEMMA StateStep == ASSUME IInv, Next PROVE Kept
<1>1. Changed
  BY StartStep, SeedRowStep, ListenerStep, LeaveStep, ClockStep, Constants DEF Next, Listener
<1> QED
  BY <1>1, ChangesKeep DEF Changed

-----------------------------------------------------------------------------
(* Counters, the aging rows and the history.                               *)

Counted == /\ old' \subseteq Nat /\ starts' \in 0..MaxStarts /\ faults' \in 0..MaxFaults
           /\ asked' \in [Dirs -> SUBSET Nat]

\* Every step keeps the counters and the histories.
LEMMA CountStep == ASSUME IInv, Next PROVE Counted
<1>1. /\ old \subseteq Nat /\ starts \in 0..MaxStarts /\ faults \in 0..MaxFaults
      /\ asked \in [Dirs -> SUBSET Nat] /\ Seed \in Dirs /\ MaxStarts \in Nat
  BY ClusterAssumption DEF IInv, TypeOK
<1>2. faults' \in 0..MaxFaults
  <2> DEFINE Taken == Fault \/ UNCHANGED faults
  <2>1. ASSUME NEW d \in Dirs, NEW late, LeaveTimeout(d) \/ Beat(d, late) \/ MemberAges(d, late) PROVE Taken
    BY <2>1 DEF LeaveTimeout, Beat, MemberAges, Takes
  <2>2. ASSUME NEW n, NEW late, RowAges(n, late) PROVE Taken
    BY <2>2 DEF RowAges, Takes
  <2>3. ASSUME NEW d \in Dirs, Listener(d) PROVE Taken
    BY <2>3 DEF Listener, JoinDrops, JoinAnswered, Snapshot, Ignore, Stop, Error, Register, Refused, Unregister
  <2>4. ASSUME NEW d \in Dirs, \/ JoinTimeout(d) \/ Quit(d) \/ Term(d) \/ Kill(d) \/ LeaveBegins(d)
                               \/ LeaveSends(d) \/ LeaveCleans(d) \/ Outage(d)
        PROVE  Taken
    BY <2>4 DEF JoinTimeout, Quit, Term, Kill, LeaveBegins, LeaveSends, LeaveCleans, Outage
  <2>5. ASSUME \/ StartSeed(SeedPort) \/ Expire \/ \E q \in Ports : Lose(q)
               \/ \E d \in Members : \E q \in PortsOf[d] : Join(d, q)
        PROVE  Taken
    BY <2>5 DEF StartSeed, Expire, Lose, Join
  <2>6. Taken
    <3> HIDE DEF Taken
    <3> QED
      BY <2>1, <2>2, <2>3, <2>4, <2>5 DEF Next
  <2> QED
    BY <2>6, FaultOK
<1>3. starts' \in 0..MaxStarts
  <2>1. starts' = starts \/ (starts < MaxStarts /\ starts' = starts + 1)
    BY DEF Next, Listener, StartSeed, Lose, Join, JoinDrops, JoinAnswered, Snapshot, Ignore, Stop,
           Error, Register, Refused, Unregister, JoinTimeout, Quit, Term, Kill, LeaveBegins, LeaveSends,
           LeaveCleans, LeaveTimeout, Beat, MemberAges, Expire, RowAges, Outage
  <2> QED
    BY <1>1, <2>1
<1>4. old' \subseteq Nat
  <2>1. \/ old' \subseteq old \/ \E n \in 1..MaxStarts : old' = old \union {n}
        \/ \E d \in Dirs : old' = old \union {proc[d].node}
    BY DEF Next, Listener, StartSeed, Lose, Join, JoinDrops, JoinAnswered, Snapshot, Ignore, Stop,
           Error, Register, Refused, Unregister, JoinTimeout, Quit, Term, Kill, LeaveBegins, LeaveSends,
           LeaveCleans, LeaveTimeout, Beat, MemberAges, Expire, RowAges, Gone, Outage
  <2>2. 1..MaxStarts \subseteq Nat /\ \A d \in Dirs : proc[d].node \in Nat
    BY <1>1 DEF IInv, TypeOK, ProcType
  <2>3. \A d \in Dirs : old' = old \union {proc[d].node} => old' \subseteq Nat
    BY <1>1, <2>2
  <2>4. \A n \in 1..MaxStarts : old' = old \union {n} => old' \subseteq Nat
    BY <1>1, <2>2
  <2> QED
    BY <1>1, <2>1, <2>3, <2>4, Zenon
<1>5. asked' \in [Dirs -> SUBSET Nat]
  <2>1. Nodes(proc[Seed].rows) \in SUBSET Nat
    BY <1>1, Local, NodesOK
  <2>2. CASE Register
    <3>1. First(Seed).node \in Nat
      <4>1. First(Seed) \in PacketType
        BY <1>1, <2>2, FirstOK DEF Register, Handles
      <4> QED
        BY <4>1 DEF PacketType
    <3> QED
      BY <1>1, <2>2, <3>1 DEF Register, Ask
  <2>3. CASE ~Register
    <3>1. asked' = asked \/ \E d \in Dirs : \E S \in {{}, Nodes(proc[Seed].rows)} : asked' = [asked EXCEPT ![d] = S]
      BY <2>3, <1>1 DEF Next, Listener, StartSeed, Lose, Join, JoinDrops, JoinAnswered, Snapshot, Ignore, Stop,
             Error, Refused, Unregister, JoinTimeout, Quit, Term, Kill, LeaveBegins, LeaveSends,
             LeaveCleans, LeaveTimeout, Beat, MemberAges, Expire, RowAges, Gone, Members,
             Outage
    <3> QED
      BY <1>1, <2>1, <3>1
  <2> QED
    BY <2>2, <2>3
<1> QED
  BY <1>2, <1>3, <1>4, <1>5 DEF Counted

-----------------------------------------------------------------------------
(* The seed's roster.                                                      *)

Sound(s) == /\ Own(s) \in s.rows /\ IsFiniteSet(s.rows) /\ Cardinality(s.rows) <= BcMax
            /\ \A r, q \in s.rows : r.node = q.node \/ r.port = q.port => r = q

\* SeedInv for a given listener of the seed and a given set of aging rows.
SeedOK(s, o) == /\ s.pc # "join" /\ (s.pc = "off" => o = {})
                /\ (s.pc = "run" => s.node \notin o /\ Sound(s))

\* What the invariant says of the seed, in this state and in the next.
LEMMA SeedSplit == /\ SeedInv <=> SeedOK(proc[Seed], old)
                   /\ SeedInv' <=> SeedOK(proc'[Seed], old')
  BY DEF SeedInv, SeedOK, SeedRoster, Sound, Own

\* A subset of the roster with the seed's row in it is as sound.
LEMMA FewerRows ==
  ASSUME NEW s \in ProcType, Sound(s), NEW rows \in SUBSET s.rows, Own(s) \in rows
  PROVE  Sound([s EXCEPT !.rows = rows])
<1>1. IsFiniteSet(rows) /\ Cardinality(rows) <= Cardinality(s.rows)
  BY FS_Subset DEF Sound
<1>2. Cardinality(rows) \in Nat /\ Cardinality(s.rows) \in Nat /\ BcMax \in Nat
  BY <1>1, FS_CardinalityType, ClusterAssumption DEF Sound
<1>3. Cardinality(rows) <= BcMax
  BY <1>1, <1>2 DEF Sound
<1>4. LET z == [s EXCEPT !.rows = rows] IN z.rows = rows /\ Own(z) = Own(s)
  BY DEF ProcType, Own
<1> QED
  BY <1>1, <1>3, <1>4 DEF Sound

\* A row that does not clash, and fits, leaves the roster as sound.
LEMMA OneMoreRow ==
  ASSUME NEW s \in ProcType, Sound(s), NEW p \in PacketType, ~Clash(s.rows, p),
         p.node \in Nodes(s.rows) \/ Cardinality(s.rows) < BcMax
  PROVE  Sound([s EXCEPT !.rows = @ \union {[node |-> p.node, port |-> p.from]}])
<1> DEFINE r == [node |-> p.node, port |-> p.from]
           rows == s.rows \union {r}
<1>1. s.rows \subseteq Row /\ r.node = p.node /\ r.port = p.from
  BY DEF ProcType
<1>2. \A q \in s.rows : q.node = r.node \/ q.port = r.port => q = r
  BY <1>1 DEF Clash, Row
<1>3. IsFiniteSet(rows) /\ Cardinality(rows) <= BcMax
  <2>1. CASE r \in s.rows
    <3>1. rows = s.rows
      BY <2>1
    <3> QED
      BY <3>1 DEF Sound
  <2>2. CASE r \notin s.rows
    <3>1. p.node \notin Nodes(s.rows)
      BY <1>1, <1>2, <2>2 DEF Nodes
    <3>2. IsFiniteSet(rows) /\ Cardinality(rows) = Cardinality(s.rows) + 1
      BY <2>2, FS_AddElement DEF Sound
    <3>3. Cardinality(s.rows) \in Nat /\ BcMax \in Nat
      BY FS_CardinalityType, ClusterAssumption DEF Sound
    <3> QED
      BY <3>1, <3>2, <3>3
  <2> QED
    BY <2>1, <2>2
<1>4. \A a, b \in rows : a.node = b.node \/ a.port = b.port => a = b
  <2> HIDE DEF r
  <2> QED
    BY <1>2 DEF Sound
<1>5. Own(s) \in rows
  BY DEF Sound
<1> HIDE DEF rows
<1>6. LET z == [s EXCEPT !.rows = rows] IN z.rows = rows /\ Own(z) = Own(s)
  BY DEF ProcType, Own
<1> QED
  BY <1>3, <1>4, <1>5, <1>6 DEF Sound, rows

\* Every step keeps the seed's roster sound.
LEMMA SeedStep == ASSUME IInv, Next PROVE SeedInv'
<1>1. Seed \in Dirs /\ proc[Seed] \in ProcType /\ proc \in [Dirs -> ProcType] /\ SeedOK(proc[Seed], old)
  BY Constants, Local, SeedSplit DEF IInv, TypeOK
<1> SUFFICES SeedOK(proc'[Seed], old')
  BY SeedSplit
<1>2. ASSUME proc'[Seed] = proc[Seed], old' = old PROVE SeedOK(proc'[Seed], old')
  BY <1>1, <1>2
<1>3. ASSUME proc'[Seed] = Off, old' = {} PROVE SeedOK(proc'[Seed], old')
  BY <1>3, Plain DEF SeedOK
<1>4. ASSUME NEW q, proc' = [proc EXCEPT ![Seed] = [proc[Seed] EXCEPT !.quit = q]], old' = old
      PROVE  SeedOK(proc'[Seed], old')
  <2>1. LET z == proc'[Seed] IN /\ z.pc = proc[Seed].pc /\ z.node = proc[Seed].node
                                /\ z.port = proc[Seed].port /\ z.rows = proc[Seed].rows
    BY <1>1, <1>4 DEF ProcType
  <2> QED
    BY <1>1, <1>4, <2>1 DEF SeedOK, Sound, Own
<1>5. ASSUME NEW d \in Dirs, NEW box, Gone(d, box) PROVE SeedOK(proc'[Seed], old')
  BY <1>1, <1>2, <1>3, <1>5 DEF Gone
<1>6. CASE StartSeed(SeedPort)
  <2> DEFINE rows == {[node |-> starts + 1, port |-> SeedPort]}
             w == New(Seed, SeedPort)
             s == [w EXCEPT !.pc = "run", !.cluster = starts + 1, !.connected = TRUE, !.rows = rows]
  <2>1. CASE SeedPort \in Bound
    BY <1>2, <1>6, <2>1 DEF StartSeed
  <2>2. CASE SeedPort \notin Bound
    <3>1. proc'[Seed] = s /\ old' = {}
      BY <1>1, <1>6, <2>2 DEF StartSeed, SeedOK
    <3>2. w \in ProcType /\ w.node = starts + 1 /\ w.port = SeedPort
      <4>1. starts + 1 \in Nat /\ SeedPort \in Ports \union {0} /\ {} \in SUBSET Row
        BY <1>1, Local, ClusterAssumption
      <4> QED
        BY <4>1 DEF New, Off, NoNode, ProcType
    <3> HIDE DEF w, rows
    <3>3. s.pc = "run" /\ s.rows = rows /\ s.node = starts + 1 /\ s.port = SeedPort
      BY <3>2 DEF ProcType
    <3>4. IsFiniteSet(rows) /\ Cardinality(rows) = 1
      BY FS_Singleton DEF rows
    <3>5. Own(s) \in rows /\ \A r, q \in rows : r = q
      BY <3>3 DEF Own, rows
    <3> HIDE DEF s
    <3> QED
      BY <3>1, <3>3, <3>4, <3>5, ClusterAssumption DEF SeedOK, Sound
  <2> QED
    BY <2>1, <2>2
<1>7. CASE Register
  <2> DEFINE p == First(Seed)
             s == [proc[Seed] EXCEPT !.rows = @ \union {[node |-> p.node, port |-> p.from]}]
  <2>1. p \in PacketType /\ proc[Seed].pc = "run"
    BY <1>1, <1>7, FirstOK DEF Register, Handles, Running
  <2>2. /\ ~Clash(proc[Seed].rows, p) /\ proc'[Seed] = s /\ old' = old \ {p.node}
        /\ p.node \in Nodes(proc[Seed].rows) \/ Cardinality(proc[Seed].rows) < BcMax
    BY <1>1, <1>7 DEF Register
  <2>3. Sound(s)
    BY <1>1, <2>1, <2>2, OneMoreRow DEF SeedOK
  <2>4. s.pc = "run" /\ s.node = proc[Seed].node
    BY <1>1, <2>1 DEF ProcType
  <2> HIDE DEF s
  <2> QED
    BY <1>1, <2>1, <2>2, <2>3, <2>4 DEF SeedOK
<1>8. CASE Unregister \/ Expire
  <2>1. PICK rows \in SUBSET proc[Seed].rows :
          /\ proc'[Seed] = [proc[Seed] EXCEPT !.rows = rows] /\ old' \subseteq old
          /\ Own(proc[Seed]) \in rows /\ proc[Seed].pc = "run"
    <3>1. CASE Unregister
      <4> DEFINE r == [node |-> First(Seed).node, port |-> First(Seed).from]
      <4>1. proc[Seed].pc = "run" /\ First(Seed).node # proc[Seed].node
        BY <3>1 DEF Unregister, Handles, Running, Mine
      <4>2. Own(proc[Seed]) \in proc[Seed].rows \ {r}
        BY <1>1, <4>1 DEF SeedOK, Sound, Own
      <4>3. proc'[Seed] = [proc[Seed] EXCEPT !.rows = proc[Seed].rows \ {r}] /\ old' \subseteq old
        BY <1>1, <3>1 DEF Unregister
      <4> QED
        BY <4>1, <4>2, <4>3
    <3>2. CASE Expire
      <4>1. proc[Seed].pc = "run"
        BY <3>2 DEF Expire, Running
      <4>2. Own(proc[Seed]) \in {r \in proc[Seed].rows : r.node \notin old}
        BY <1>1, <4>1 DEF SeedOK, Sound, Own
      <4>3. /\ proc'[Seed] = [proc[Seed] EXCEPT !.rows = {r \in proc[Seed].rows : r.node \notin old}]
            /\ old' \subseteq old
        BY <1>1, <3>2 DEF Expire
      <4> QED
        BY <4>1, <4>2, <4>3
    <3> QED
      BY <1>8, <3>1, <3>2
  <2> DEFINE s == [proc[Seed] EXCEPT !.rows = rows]
  <2>2. Sound(s)
    BY <1>1, <2>1, FewerRows DEF SeedOK
  <2>3. s.pc = "run" /\ s.node = proc[Seed].node /\ proc'[Seed] = s
    BY <1>1, <2>1 DEF ProcType
  <2> HIDE DEF s
  <2> QED
    BY <1>1, <2>1, <2>2, <2>3 DEF SeedOK
<1>9. ASSUME NEW n, NEW late, RowAges(n, late) PROVE SeedOK(proc'[Seed], old')
  BY <1>1, <1>9 DEF RowAges, Running, SeedOK
<1>10. ASSUME NEW d \in Dirs, Stop(d) \/ Term(d) PROVE SeedOK(proc'[Seed], old')
  <2>1. old' = old /\ \E q : proc' = [proc EXCEPT ![d] = [proc[d] EXCEPT !.quit = q]]
    BY <1>10 DEF Stop, Term
  <2>2. CASE d = Seed
    BY <1>4, <2>1, <2>2
  <2>3. CASE d # Seed
    BY <1>1, <1>2, <2>1, <2>3
  <2> QED
    BY <2>2, <2>3
<1>11. ASSUME NEW d \in Dirs, JoinAnswered(d) PROVE SeedOK(proc'[Seed], old')
  <2>1. d # Seed
    BY <1>1, <1>11 DEF JoinAnswered, SeedOK
  <2> QED
    BY <1>1, <1>2, <1>5, <1>11, <2>1 DEF JoinAnswered
<1>12. ASSUME NEW d \in Dirs, JoinTimeout(d) \/ Quit(d) \/ Kill(d) PROVE SeedOK(proc'[Seed], old')
  BY <1>5, <1>12 DEF JoinTimeout, Quit, Kill
<1>13. ASSUME NEW d \in Members,
              \/ \E q \in PortsOf[d] : Join(d, q)
              \/ Snapshot(d) \/ \E late \in BOOLEAN : Beat(d, late) \/ MemberAges(d, late)
       PROVE  SeedOK(proc'[Seed], old')
  <2>1. d # Seed /\ old' = old /\ \E s : proc' = [proc EXCEPT ![d] = s] \/ proc' = proc
    BY <1>13 DEF Join, Snapshot, Beat, MemberAges, Members
  <2> QED
    BY <1>1, <1>2, <2>1
<1>14. ASSUME NEW d \in Dirs, \/ JoinDrops(d) \/ Ignore(d) \/ Error(d) \/ Refused \/ LeaveBegins(d)
                              \/ LeaveSends(d) \/ LeaveCleans(d) \/ LeaveTimeout(d)
                              \/ \E q \in Ports : Lose(q)
       PROVE  SeedOK(proc'[Seed], old')
  <2>1. proc' = proc /\ old' = old
    BY <1>14 DEF JoinDrops, Ignore, Error, Refused, LeaveBegins, LeaveSends, LeaveCleans, LeaveTimeout, Lose
  <2> QED
    BY <1>2, <2>1
<1>15. ASSUME NEW d \in Dirs, Snapshot(d) \/ \E late \in BOOLEAN : Beat(d, late) \/ MemberAges(d, late)
       PROVE  d \in Members
  BY <1>15 DEF Snapshot, Beat, MemberAges
<1>16. ASSUME NEW d \in Dirs, Outage(d) PROVE SeedOK(proc'[Seed], old')
  <2>1. /\ d # Seed /\ proc[Seed].pc = "run" /\ proc' = [proc EXCEPT ![d].stale = TRUE]
        /\ old' = old \union {proc[d].node} /\ proc[d].node # proc[Seed].node
    BY <1>16 DEF Outage, Peer, Running, Members
  <2>2. proc'[Seed] = proc[Seed]
    BY <1>1, <2>1
  <2> QED
    BY <1>1, <2>1, <2>2 DEF SeedOK
<1> QED
  BY <1>1, <1>6, <1>7, <1>8, <1>9, <1>10, <1>11, <1>12, <1>13, <1>14, <1>15, <1>16 DEF Next, Listener

-----------------------------------------------------------------------------
(* The theorems.                                                           *)

\* Every step of a listener, of `leave', of the network and of the clock keeps
\* the inductive invariant.
THEOREM Invariance == Spec => []IInv
<1>1. Init => IInv
  <2> SUFFICES ASSUME Init PROVE IInv
    OBVIOUS
  <2>1. TypeOK
    <3>1. inbox \in [Ports -> Seq(PacketType)]
      <4> HIDE DEF PacketType
      <4> QED
        BY DEF Init
    <3> QED
      BY <3>1, Constants, ClusterAssumption DEF Init, TypeOK
  <2>2. /\ \A d \in Dirs : proc[d] = Off /\ files[d] = NoFiles /\ cmd[d] = NoCmd
        /\ starts = 0 /\ old = {} /\ NoNode = 0
        /\ \A q \in Ports : inbox[q] = <<>>
    BY DEF Init, NoNode
  <2>3. NodeInv /\ FilesOwned
    BY <2>2, Plain DEF NodeInv, FilesOwned
  <2>4. StopInv
    BY <2>2, Plain DEF StopInv, StopsOwn, Stopping
  <2>5. SeedInv
    BY <2>2, Constants, Plain DEF SeedInv, SeedRoster
  <2> QED
    BY <2>1, <2>3, <2>4, <2>5 DEF IInv
<1>2. IInv /\ [Next]_vars => IInv'
  <2> SUFFICES ASSUME IInv, [Next]_vars PROVE IInv'
    OBVIOUS
  <2>1. CASE Next
    <3>1. Kept /\ Counted /\ SeedInv'
      BY <2>1, StateStep, CountStep, SeedStep
    <3>2. inbox' \in [Ports -> Seq(PacketType)] /\ Stopping(inbox', Stoppable)
      BY <2>1, BoxStep DEF Boxes
    <3>3. TypeOK'
      BY <3>1, <3>2 DEF Kept, Counted, TypeOK, Row, ProcType, FilesType, CmdType, PacketType
    <3>4. Stopping(inbox, Stoppable)'
      BY <3>1, <3>2 DEF Kept, Stopping
    <3> QED
      BY <3>1, <3>3, <3>4 DEF Kept, IInv, StopInv
  <2>2. CASE UNCHANGED vars
    <3> USE <2>2 DEF vars
    <3>1. TypeOK'
      BY DEF IInv, TypeOK, Row, ProcType, FilesType, CmdType, PacketType
    <3>2. SeedInv'
      BY SeedSplit DEF IInv
    <3>3. FilesOwned' /\ NodeInv'
      BY DEF IInv, FilesOwned, NodeInv, Persisted
    <3>4. StopInv'
      BY DEF IInv, StopInv, StopsOwn, Stopping, Stoppable
    <3> QED
      BY <3>1, <3>2, <3>3, <3>4 DEF IInv
  <2> QED
    BY <2>1, <2>2
<1> QED
  BY <1>1, <1>2, PTL DEF Spec

\* Listeners, state files and datagrams keep their types in every step.
THEOREM TypeCorrect == Spec => []TypeOK
<1>1. IInv => TypeOK
  BY DEF IInv
<1> QED
  BY <1>1, Invariance, PTL

\* The seed's roster has the seed in it, at most BcMax rows, and no node or
\* endpoint twice.
THEOREM SeedRosterHolds == Spec => []SeedRoster
<1>1. IInv => SeedRoster
  BY DEF IInv, SeedInv
<1> QED
  BY <1>1, Invariance, PTL

\* A running listener's state files are what it last persisted.
THEOREM FilesAreOwned == Spec => []FilesOwned
<1>1. IInv => FilesOwned
  BY DEF IInv
<1> QED
  BY <1>1, Invariance, PTL

\* `leave' never stops the listener of another directory.
THEOREM StopsOnlyOwn == Spec => []StopsOwn
<1>1. IInv => StopsOwn
  BY DEF IInv, StopInv
<1> QED
  BY <1>1, Invariance, PTL

-----------------------------------------------------------------------------
(* Steps that neither ask for a roster nor tell one.                       *)

\* A set of socket buffers that datagrams can be taken from, that other datagrams
\* can be sent to, and in which nonces may get old.
Talk == {"LEAVE", "PONG", "ERROR", "STOP"}
Plainly(S) ==
  /\ S \subseteq Boxes
  /\ \A box \in S, q \in Ports : box[q] # <<>> => [box EXCEPT ![q] = Tail(box[q])] \in S
  /\ \A box \in S, p \in PacketType : p.type \in Talk => \A to : Send(box, p, to) \in S
  /\ \A box \in S : \A n : Outdate(box, n) \in S

\* A datagram is taken, and may be answered.
LEMMA PlainRest ==
  ASSUME IInv, NEW S, Plainly(S), inbox \in S, NEW d \in Dirs, Waiting(d)
  PROVE  Rest(d) \in S /\ \A type \in {"PONG", "ERROR"} : Answer(d, type, {}) \in S
<1>1. Rest(d) \in S
  <2>1. proc[d].port \in Ports /\ inbox[proc[d].port] # <<>>
    BY DEF Waiting
  <2>2. Rest(d) = [inbox EXCEPT ![proc[d].port] = Tail(inbox[proc[d].port])]
    BY DEF Rest
  <2> QED
    BY <2>1, <2>2 DEF Plainly
<1>2. ASSUME NEW type \in {"PONG", "ERROR"} PROVE Answer(d, type, {}) \in S
  <2> DEFINE p == Packet(type, proc[d], First(d).req, {}, First(d).fresh)
  <2>1. proc[d] \in ProcType /\ First(d) \in PacketType
    BY FirstOK DEF IInv, TypeOK
  <2>2. /\ proc[d].port \in Ports \union {0} /\ proc[d].node \in Nat /\ proc[d].cluster \in Nat
        /\ First(d).req \in Nat \union Dirs /\ First(d).fresh \in BOOLEAN /\ {} \in SUBSET Row
    BY <2>1 DEF ProcType, PacketType
  <2>3. p \in PacketType /\ p.type = type
    BY <2>2 DEF Packet, PacketType
  <2>4. Answer(d, type, {}) = Send(Rest(d), p, First(d).from)
    BY DEF Answer
  <2> HIDE DEF p
  <2> QED
    BY <1>1, <2>3, <2>4 DEF Plainly, Talk
<1> QED
  BY <1>1, <1>2

\* A listener says that it is leaving.
LEMMA PlainFarewell ==
  ASSUME NEW S, Plainly(S), NEW box \in S, NEW s,
         s.port \in Ports \union {0}, s.node \in Nat, s.cluster \in Nat
  PROVE  Send(box, Packet("LEAVE", s, NoNode, {}, FALSE), SeedPort) \in S
<1> DEFINE p == Packet("LEAVE", s, NoNode, {}, FALSE)
<1>1. p \in PacketType /\ p.type = "LEAVE"
  <2>1. NoNode \in Nat \union Dirs /\ {} \in SUBSET Row /\ FALSE \in BOOLEAN
    BY DEF NoNode
  <2> QED
    BY <2>1, PacketOK
<1> HIDE DEF p
<1> QED
  BY <1>1 DEF Plainly, Talk, p

\* The steps in which a listener stays and no request or roster is sent.
LEMMA PlainStep ==
  ASSUME IInv, NEW S, Plainly(S), inbox \in S, NEW d \in Dirs,
         \/ JoinDrops(d) \/ Ignore(d) \/ Stop(d) \/ Snapshot(d) \/ Error(d) \/ Refused \/ Unregister
         \/ LeaveBegins(d) \/ LeaveSends(d) \/ LeaveCleans(d) \/ LeaveTimeout(d)
         \/ Term(d) \/ Outage(d) \/ (\E late : MemberAges(d, late))
         \/ Expire \/ (\E n, late : RowAges(n, late)) \/ (\E q \in Ports : Lose(q))
  PROVE  inbox' \in S
<1>1. CASE JoinDrops(d) \/ Ignore(d) \/ Stop(d) \/ Snapshot(d)
  <2>1. Waiting(d) /\ inbox' = Rest(d)
    BY <1>1 DEF JoinDrops, Ignore, Stop, Stops, Handles, Snapshot
  <2> QED
    BY <2>1, PlainRest
<1>2. CASE Error(d)
  <2>1. Waiting(d) /\ inbox' = Answer(d, "ERROR", {})
    BY <1>2 DEF Error, Handles
  <2> QED
    BY <2>1, PlainRest
<1>3. CASE Refused \/ Unregister
  <2>1. /\ Waiting(Seed) /\ Seed \in Dirs
        /\ inbox' \in {Rest(Seed), Answer(Seed, "ERROR", {}), Answer(Seed, "PONG", {})}
    BY <1>3, Constants DEF Refused, Unregister, Handles
  <2> QED
    BY <2>1, PlainRest
<1>4. CASE \/ LeaveBegins(d) \/ LeaveCleans(d) \/ Term(d) \/ Outage(d) \/ (\E late : MemberAges(d, late))
           \/ Expire \/ (\E n, late : RowAges(n, late))
  BY <1>4 DEF LeaveBegins, LeaveCleans, Term, Outage, MemberAges, Expire, RowAges
<1>5. CASE LeaveSends(d)
  <2> DEFINE s == [cmd[d] EXCEPT !.port = 0]
             p == Packet("STOP", s, d, {}, TRUE)
  <2>1. cmd[d] \in CmdType
    BY DEF IInv, TypeOK
  <2>2. s.port = 0 /\ s.node \in Nat /\ s.cluster \in Nat
    BY <2>1 DEF CmdType
  <2> HIDE DEF s
  <2>3. p \in PacketType /\ p.type = "STOP"
    <3>1. /\ s.port \in Ports \union {0} /\ s.node \in Nat /\ s.cluster \in Nat
          /\ d \in Nat \union Dirs /\ {} \in SUBSET Row /\ TRUE \in BOOLEAN
      BY <2>2
    <3> QED
      BY <3>1 DEF Packet, PacketType
  <2>4. inbox' = Send(inbox, p, cmd[d].port)
    BY <1>5 DEF LeaveSends, s
  <2> HIDE DEF p
  <2> QED
    BY <2>3, <2>4 DEF Plainly, Talk
<1>6. CASE LeaveTimeout(d)
  BY <1>6 DEF LeaveTimeout, Plainly
<1>7. ASSUME NEW q \in Ports, Lose(q) PROVE inbox' \in S
  BY <1>7 DEF Lose, Plainly
<1> QED
  BY <1>1, <1>2, <1>3, <1>4, <1>5, <1>6, <1>7

\* The steps in which a listener ends.
LEMMA PlainEnd ==
  ASSUME IInv, NEW S, Plainly(S), inbox \in S, NEW d \in Dirs,
         \/ JoinTimeout(d) \/ Kill(d) \/ Quit(d)
         \/ JoinAnswered(d) /\ ~(Valid([proc[d] EXCEPT !.cluster = First(d).cluster], First(d)) /\ proc[d].quit = "no")
  PROVE  proc[d].pc # "off" /\ starts' = starts /\ \E box \in S : Gone(d, box)
<1>1. CASE JoinTimeout(d) \/ Kill(d)
  BY <1>1 DEF JoinTimeout, Kill
<1>2. proc[d] \in ProcType
  BY DEF IInv, TypeOK
<1>3. CASE Quit(d)
  <2>1. proc[d].port \in Ports \union {0} /\ proc[d].node \in Nat /\ proc[d].cluster \in Nat
    BY <1>2 DEF ProcType
  <2>2. Send(inbox, Packet("LEAVE", proc[d], NoNode, {}, FALSE), SeedPort) \in S
    BY <2>1, PlainFarewell
  <2> QED
    BY <1>3, <2>2 DEF Quit
<1>4. CASE JoinAnswered(d) /\ ~(Valid([proc[d] EXCEPT !.cluster = First(d).cluster], First(d)) /\ proc[d].quit = "no")
  <2> DEFINE s == [proc[d] EXCEPT !.cluster = First(d).cluster]
             box == Send(Rest(d), Packet("LEAVE", s, NoNode, {}, FALSE), SeedPort)
  <2>1. Waiting(d) /\ proc[d].pc = "join" /\ starts' = starts
    BY <1>4 DEF JoinAnswered
  <2>2. First(d) \in PacketType
    BY <2>1, FirstOK
  <2>3. s.port \in Ports \union {0} /\ s.node \in Nat /\ s.cluster \in Nat /\ s.quit = proc[d].quit
    BY <1>2, <2>2 DEF ProcType, PacketType
  <2>4. Gone(d, box)
    BY <1>4, <2>3 DEF JoinAnswered
  <2> HIDE DEF s
  <2>5. box \in S
    BY <2>1, <2>3, PlainRest, PlainFarewell
  <2> HIDE DEF box
  <2> QED
    BY <2>1, <2>4, <2>5
<1> QED
  BY <1>1, <1>3, <1>4

-----------------------------------------------------------------------------
(* One cluster.                                                            *)

\* A node that asked to join is served by one seed only.  K gives every node the
\* cluster that it belongs to, NoNode while no seed has taken it in.  What a
\* listener, a row of the seed or a datagram says of a node agrees with K, and a
\* JOIN waits for a seed that has the node already or is the first to take it in.
Asks == {"JOIN", "BEAT"}
Fits(K, P, n, p, q) ==
  /\ (p.type = "JOIN" => K[p.node] \in {NoNode, P[Seed].node})
  /\ (p.type = "BEAT" => p.cluster # NoNode /\ K[p.node] = p.cluster)
  /\ (p.type \in Asks => /\ q = SeedPort /\ p.req = p.node /\ p.node \in 1..n
                         /\ \A d \in Dirs : P[d].node = p.node => P[d].port = p.from)
  /\ (p.type = "ROSTER" => /\ p.req \in 1..n /\ p.cluster # NoNode /\ K[p.req] = p.cluster
                           /\ [node |-> p.node, port |-> SeedPort] \in p.rows
                           /\ \A d \in Dirs : P[d].node = p.req => Own(P[d]) \in p.rows)
Goods(K, P, n) == [q \in Ports |-> {p \in PacketType : Fits(K, P, n, p, q)}]
Within(box, G) == \A q \in Ports : \A i \in DOMAIN box[q] : box[q][i] \in G[q]
Claims(K, P) ==
  /\ \A d \in Members : P[d].pc = "run" => P[d].cluster # NoNode /\ K[P[d].node] = P[d].cluster
  /\ \A r \in P[Seed].rows : K[r.node] = P[Seed].node
Unused(K, n) == \A m \in Nat : m > n => K[m] = NoNode

\* A socket that is closed has no datagrams.
Closed(box, B) == \A q \in Ports : q \notin B => box[q] = <<>>

PortsIn(P) == {P[d].port : d \in Dirs}

Serves(K, P, box, n) ==
  /\ P[Seed].pc = "run" => P[Seed].port = SeedPort /\ P[Seed].cluster = P[Seed].node
  /\ \A d \in Members : P[d].quit # "refused"
  /\ Claims(K, P) /\ Unused(K, n)
  /\ Within(box, Goods(K, P, n)) /\ Closed(box, PortsIn(P))
ClusterInv == \E K \in [Nat -> Nat] : Serves(K, proc, inbox, starts)

\* Datagrams in socket buffers, each of a kind that its port may have.
Kinds == [Ports -> SUBSET PacketType]

\* A datagram is sent.
LEMMA SendWithin ==
  ASSUME NEW box \in Boxes, NEW p \in PacketType, NEW to, NEW G \in Kinds, Within(box, G),
         to \in Ports => p \in G[to]
  PROVE  Within(Send(box, p, to), G) /\ (Closed(box, Bound) => Closed(Send(box, p, to), Bound))
<1> HIDE DEF PacketType
<1>1. CASE to \in Bound /\ to \in Ports /\ Len(box[to]) < Room
  <2>1. Send(box, p, to) = [box EXCEPT ![to] = Append(box[to], p)]
    BY <1>1 DEF Send
  <2>2. \A i \in DOMAIN Append(box[to], p) :
          Append(box[to], p)[i] = p \/ (i \in DOMAIN box[to] /\ Append(box[to], p)[i] = box[to][i])
    BY <1>1 DEF Boxes
  <2> DEFINE b == Append(box[to], p)
  <2> HIDE DEF b
  <2>3. /\ Send(box, p, to)[to] = b
        /\ \A q \in Ports : q # to => Send(box, p, to)[q] = box[q]
    BY <1>1, <2>1 DEF Boxes, b
  <2>4. \A i \in DOMAIN b : b[i] \in G[to]
    BY <1>1, <2>2 DEF Within, b
  <2> QED
    BY <1>1, <2>3, <2>4 DEF Within, Closed
<1>2. CASE ~(to \in Bound /\ to \in Ports /\ Len(box[to]) < Room)
  BY <1>2 DEF Send
<1> QED
  BY <1>1, <1>2

\* The first datagram of a port is taken.
LEMMA TailWithin ==
  ASSUME NEW box \in Boxes, NEW q \in Ports, box[q] # <<>>, NEW G, Within(box, G)
  PROVE  /\ Within([box EXCEPT ![q] = Tail(box[q])], G) /\ Head(box[q]) \in G[q]
         /\ \A B : Closed(box, B) => Closed([box EXCEPT ![q] = Tail(box[q])], B)
<1> HIDE DEF PacketType
<1>1. box[q] \in Seq(PacketType) /\ box[q] # <<>>
  BY DEF Boxes
<1>2. /\ 1 \in DOMAIN box[q] /\ Head(box[q]) = box[q][1]
      /\ \A i \in DOMAIN Tail(box[q]) : i + 1 \in DOMAIN box[q] /\ Tail(box[q])[i] = box[q][i + 1]
  BY <1>1
<1> DEFINE t == Tail(box[q])
           new == [box EXCEPT ![q] = t]
<1> HIDE DEF t
<1>3. new[q] = t /\ \A z \in Ports : z # q => new[z] = box[z]
  BY DEF Boxes
<1> HIDE DEF new
<1>4. \A i \in DOMAIN t : t[i] \in G[q]
  BY <1>2 DEF Within, t
<1>5. Within(new, G)
  BY <1>3, <1>4 DEF Within
<1>6. \A B : Closed(box, B) => Closed(new, B)
  BY <1>3 DEF Closed
<1> QED
  BY <1>2, <1>5, <1>6 DEF Within, new, t

\* A socket is closed.
LEMMA ClearWithin ==
  ASSUME NEW box \in Boxes, NEW q, NEW G, NEW H, Within(box, G),
         \A z \in Ports : z # q => G[z] \subseteq H[z]
  PROVE  /\ Within([box EXCEPT ![q] = <<>>], H)
         /\ \A B, C : Closed(box, B) /\ B \subseteq C \union {q} => Closed([box EXCEPT ![q] = <<>>], C)
<1> DEFINE new == [box EXCEPT ![q] = <<>>]
<1>1. \A z \in Ports : new[z] = IF z = q THEN <<>> ELSE box[z]
  BY DEF Boxes
<1> HIDE DEF new
<1>2. DOMAIN <<>> = {}
  OBVIOUS
<1>3. Within(new, H)
  BY <1>1, <1>2 DEF Within
<1>4. ASSUME NEW B, NEW C, Closed(box, B), B \subseteq C \union {q}
      PROVE  Closed(new, C)
  BY <1>1, <1>4 DEF Closed
<1> QED
  BY <1>3, <1>4 DEF new

\* The ports know more kinds than before, or have no datagrams.
LEMMA GrowWithin ==
  ASSUME NEW box, NEW G, NEW H, Within(box, G),
         \A z \in Ports : box[z] = <<>> \/ G[z] \subseteq H[z]
  PROVE  Within(box, H)
<1>1. DOMAIN <<>> = {}
  OBVIOUS
<1> QED
  BY <1>1 DEF Within

Outdated(p, n) == [p EXCEPT !.fresh = @ /\ p.req # n]

\* A nonce is used no more.
LEMMA OutdateWithin ==
  ASSUME NEW box \in Boxes, NEW n, NEW G \in Kinds, Within(box, G),
         \A q \in Ports : \A p \in G[q] : Outdated(p, n) \in G[q]
  PROVE  /\ Within(Outdate(box, n), G)
         /\ \A B : Closed(box, B) => Closed(Outdate(box, n), B)
<1> HIDE DEF PacketType
<1>1. \A q \in Ports : /\ DOMAIN Outdate(box, n)[q] = DOMAIN box[q]
                       /\ \A i \in DOMAIN box[q] : Outdate(box, n)[q][i] = Outdated(box[q][i], n)
  BY DEF Outdate, Outdated
<1>2. Within(Outdate(box, n), G)
  <2> SUFFICES ASSUME NEW q \in Ports, NEW i \in DOMAIN Outdate(box, n)[q]
               PROVE  Outdate(box, n)[q][i] \in G[q]
    BY DEF Within
  <2>1. i \in DOMAIN box[q] /\ box[q][i] \in G[q]
    BY <1>1 DEF Within
  <2> QED
    BY <1>1, <2>1
<1>3. ASSUME NEW B, Closed(box, B), NEW q \in Ports, q \notin B
      PROVE  Outdate(box, n)[q] = <<>>
  <2>1. box[q] = <<>>
    BY <1>3 DEF Closed
  <2>2. Outdate(box, n)[q] = [i \in DOMAIN box[q] |-> [box[q][i] EXCEPT !.fresh = @ /\ box[q][i].req # n]]
    BY DEF Outdate
  <2> QED
    BY <2>1, <2>2
<1> QED
  BY <1>2, <1>3 DEF Closed

-----------------------------------------------------------------------------
(* What fits, and what keeps fitting.                                      *)

\* Which datagrams are in Goods.
LEMMA GoodsAt ==
  ASSUME NEW K, NEW P, NEW n
  PROVE  /\ Goods(K, P, n) \in Kinds
         /\ \A q \in Ports : \A p : p \in Goods(K, P, n)[q] <=> p \in PacketType /\ Fits(K, P, n, p, q)
<1> HIDE DEF PacketType, Fits
<1> QED
  BY DEF Goods, Kinds

\* What neither asks nor tells of a roster says nothing of a cluster.
LEMMA PlainFits ==
  ASSUME NEW K, NEW P, NEW n, NEW p, NEW q, p.type \in {"LEAVE", "PONG", "ERROR", "STOP"}
  PROVE  Fits(K, P, n, p, q)
  BY DEF Fits, Asks

\* An old nonce changes nothing.
LEMMA OutdatedFits ==
  ASSUME NEW K, NEW P, NEW n, NEW q \in Ports, NEW p \in Goods(K, P, n)[q], NEW m
  PROVE  Outdated(p, m) \in Goods(K, P, n)[q]
<1>1. p \in PacketType /\ Fits(K, P, n, p, q)
  BY GoodsAt
<1>2. /\ Outdated(p, m) \in PacketType
      /\ Outdated(p, m).type = p.type /\ Outdated(p, m).node = p.node /\ Outdated(p, m).from = p.from
      /\ Outdated(p, m).req = p.req /\ Outdated(p, m).cluster = p.cluster /\ Outdated(p, m).rows = p.rows
  BY <1>1 DEF PacketType, Outdated
<1> DEFINE z == Outdated(p, m)
<1> HIDE DEF z
<1>3. Fits(K, P, n, z, q)
  BY <1>1, <1>2 DEF Fits, z
<1> QED
  BY <1>2, <1>3, GoodsAt DEF z

\* Nodes are taken in by the seed, listeners end or start with new nodes; a
\* JOIN needs the seed that it was sent to.
LEMMA GoodsGrow ==
  ASSUME NEW K, NEW L, NEW P, NEW Q, NEW n \in Nat, NEW m \in Nat, n <= m,
         \A x \in 1..n : L[x] = K[x] \/ (K[x] = NoNode /\ L[x] = Q[Seed].node),
         \A e \in Dirs : Q[e].node \notin 1..n \/ (Q[e].node = P[e].node /\ Q[e].port = P[e].port),
         NEW q \in Ports, q # SeedPort \/ Q[Seed].node = P[Seed].node
  PROVE  Goods(K, P, n)[q] \subseteq Goods(L, Q, m)[q]
<1> SUFFICES ASSUME NEW p \in PacketType, Fits(K, P, n, p, q) PROVE Fits(L, Q, m, p, q)
  BY GoodsAt
<1> HIDE DEF PacketType
<1>1. 1..n \subseteq 1..m
  OBVIOUS
<1>2. \A e \in Dirs : Q[e].node \in 1..n => /\ Q[e].node = P[e].node /\ Q[e].port = P[e].port
                                           /\ Own(Q[e]) = Own(P[e])
  BY DEF Own
<1>3. CASE p.type = "JOIN"
  BY <1>1, <1>2, <1>3 DEF Fits, Asks
<1>4. CASE p.type = "BEAT"
  BY <1>1, <1>2, <1>4 DEF Fits, Asks
<1>5. CASE p.type = "ROSTER"
  BY <1>1, <1>2, <1>5 DEF Fits, Asks
<1> QED
  BY <1>3, <1>4, <1>5 DEF Fits, Asks

\* A listener that keeps its node, endpoint and cluster, and a seed that lists no
\* more rows, disturb nothing.
LEMMA Calm ==
  ASSUME NEW K, NEW P \in [Dirs -> ProcType], NEW n \in Nat, NEW box, Serves(K, P, box, n),
         NEW d \in Dirs, NEW s \in ProcType, s.pc = P[d].pc, s.node = P[d].node,
         s.port = P[d].port, s.cluster = P[d].cluster,
         d \in Members => s.quit # "refused", d = Seed => s.rows \subseteq P[d].rows,
         NEW new, Within(new, Goods(K, P, n)), Closed(new, PortsIn(P)),
         NEW Q, Q = [P EXCEPT ![d] = s]
  PROVE  Serves(K, Q, new, n)
<1>1. /\ \A e \in Dirs : /\ Q[e].pc = P[e].pc /\ Q[e].node = P[e].node
                         /\ Q[e].port = P[e].port /\ Q[e].cluster = P[e].cluster
      /\ \A e \in Members : Q[e].quit # "refused"
      /\ Q[Seed].rows \subseteq P[Seed].rows
  BY Constants DEF Serves, Members
<1>2. Seed \in Dirs /\ Members \subseteq Dirs
  BY Constants DEF Members
<1>3. \A q \in Ports : Goods(K, P, n)[q] \subseteq Goods(K, Q, n)[q]
  <2> SUFFICES ASSUME NEW q \in Ports PROVE Goods(K, P, n)[q] \subseteq Goods(K, Q, n)[q]
    OBVIOUS
  <2>1. n <= n
    OBVIOUS
  <2> QED
    BY <1>1, <1>2, <2>1, GoodsGrow
<1>4. Within(new, Goods(K, Q, n))
  BY <1>3, GrowWithin
<1>5. PortsIn(Q) = PortsIn(P)
  BY <1>1 DEF PortsIn
<1>6. Claims(K, Q)
  BY <1>1, <1>2 DEF Serves, Claims
<1> QED
  BY <1>1, <1>2, <1>4, <1>5, <1>6 DEF Serves

\* A listener ends, and its socket with it.
LEMMA Ending ==
  ASSUME NEW K, NEW P \in [Dirs -> ProcType], NEW n \in Nat, NEW box, Serves(K, P, box, n),
         NEW d \in Dirs, d = Seed => P[d].pc = "run",
         NEW out \in Boxes, Within(out, Goods(K, P, n)), Closed(out, PortsIn(P)),
         NEW new, new = [out EXCEPT ![P[d].port] = <<>>], NEW Q, Q = [P EXCEPT ![d] = Off]
  PROVE  Serves(K, Q, new, n)
<1>1. Q[d] = Off /\ \A e \in Dirs : e # d => Q[e] = P[e]
  OBVIOUS
<1>2. /\ Off.node = NoNode /\ Off.pc = "off" /\ Off.rows = {} /\ Off.quit = "no" /\ NoNode = 0
  BY DEF Off, NoNode
<1>3. Seed \in Dirs /\ Members \subseteq Dirs /\ SeedPort \in Ports
  BY ClusterAssumption DEF Members
<1>4. \A q \in Ports : q # P[d].port => Goods(K, P, n)[q] \subseteq Goods(K, Q, n)[q]
  <2> SUFFICES ASSUME NEW q \in Ports, q # P[d].port PROVE Goods(K, P, n)[q] \subseteq Goods(K, Q, n)[q]
    OBVIOUS
  <2>1. n <= n
    OBVIOUS
  <2>2. \A e \in Dirs : Q[e].node \notin 1..n \/ (Q[e].node = P[e].node /\ Q[e].port = P[e].port)
    BY <1>1, <1>2
  <2>3. q # SeedPort \/ Q[Seed].node = P[Seed].node
    BY <1>1, <1>3 DEF Serves
  <2> QED
    BY <2>1, <2>2, <2>3, GoodsGrow
<1>5. PortsIn(P) \subseteq PortsIn(Q) \union {P[d].port}
  BY <1>1 DEF PortsIn
<1>6. Within(new, Goods(K, Q, n)) /\ Closed(new, PortsIn(Q))
  BY <1>4, <1>5, ClearWithin
<1>7. Claims(K, Q)
  BY <1>1, <1>2, <1>3 DEF Serves, Claims
<1> QED
  BY <1>1, <1>2, <1>3, <1>6, <1>7 DEF Serves

-----------------------------------------------------------------------------
(* What is sent.                                                           *)

\* Socket buffers in which everything fits.
Sane(K, box) == /\ box \in Boxes /\ Within(box, Goods(K, proc, starts))
                /\ Closed(box, PortsIn(proc))

\* Every datagram names a node.
LEMMA AnyStops == ASSUME NEW box \in Boxes PROVE Stopping(box, Nat)
<1>1. \A q \in Ports : \A i \in DOMAIN box[q] : box[q][i] \in PacketType
  <2> HIDE DEF PacketType
  <2> QED
    BY DEF Boxes
<1>2. \A p \in PacketType : p.node \in Nat
  BY DEF PacketType
<1> QED
  BY <1>1, <1>2 DEF Stopping

\* The rest of a buffer, and the datagram that was taken from it.
LEMMA RestSane ==
  ASSUME IInv, NEW K, Sane(K, inbox), NEW d \in Dirs, Waiting(d)
  PROVE  /\ Sane(K, Rest(d)) /\ proc[d].port \in Ports
         /\ First(d) \in PacketType /\ Fits(K, proc, starts, First(d), proc[d].port)
<1>1. proc[d].port \in Ports /\ inbox[proc[d].port] # <<>> /\ inbox \in Boxes
  BY DEF Waiting, Sane
<1> DEFINE q == proc[d].port
<1> HIDE DEF q
<1>2. q \in Ports /\ inbox[q] # <<>> /\ Rest(d) = [inbox EXCEPT ![q] = Tail(inbox[q])] /\ First(d) = Head(inbox[q])
  BY <1>1 DEF Rest, First, q
<1> DEFINE G == Goods(K, proc, starts)
<1>a. Within(inbox, G) /\ Closed(inbox, PortsIn(proc))
  BY DEF Sane
<1> HIDE DEF G
<1>3. Within(Rest(d), G) /\ Closed(Rest(d), PortsIn(proc)) /\ First(d) \in G[q]
  <2>1. /\ Within([inbox EXCEPT ![q] = Tail(inbox[q])], G) /\ Head(inbox[q]) \in G[q]
        /\ \A B : Closed(inbox, B) => Closed([inbox EXCEPT ![q] = Tail(inbox[q])], B)
    BY <1>1, <1>2, <1>a, TailWithin
  <2> QED
    BY <1>2, <1>a, <2>1
<1>4. First(d) \in PacketType /\ Fits(K, proc, starts, First(d), q)
  BY <1>2, <1>3, GoodsAt DEF G
<1> QED
  BY <1>1, <1>3, <1>4, FirstOK DEF Sane, q, G

\* A datagram that fits is sent.
LEMMA SendSane ==
  ASSUME NEW K, NEW box, Sane(K, box), NEW p \in PacketType, NEW to,
         to \in Ports => Fits(K, proc, starts, p, to)
  PROVE  Sane(K, Send(box, p, to))
<1>1. Stopping(box, Nat)
  BY AnyStops DEF Sane
<1>2. p.type = "STOP" => p.node \in Nat
  BY DEF PacketType
<1> HIDE DEF PacketType, Fits
<1>3. Send(box, p, to) \in Boxes
  BY <1>1, <1>2, SendOK DEF Sane
<1>4. to \in Ports => p \in Goods(K, proc, starts)[to]
  BY GoodsAt
<1>5. PortsIn(proc) = Bound
  BY DEF PortsIn, Bound
<1>6. Within(Send(box, p, to), Goods(K, proc, starts)) /\ Closed(Send(box, p, to), Bound)
  BY <1>4, <1>5, GoodsAt, SendWithin DEF Sane
<1> QED
  BY <1>3, <1>5, <1>6 DEF Sane

\* A nonce gets old.
LEMMA OutdateSane ==
  ASSUME NEW K, NEW box, Sane(K, box), NEW m
  PROVE  Sane(K, Outdate(box, m))
<1>1. Stopping(box, Nat)
  BY AnyStops DEF Sane
<1>2. Outdate(box, m) \in Boxes
  BY <1>1, OutdateOK DEF Sane
<1> DEFINE G == Goods(K, proc, starts)
<1>3. G \in Kinds /\ \A q \in Ports : \A p \in G[q] : Outdated(p, m) \in G[q]
  BY GoodsAt, OutdatedFits
<1> HIDE DEF G
<1>4. Within(Outdate(box, m), G) /\ Closed(Outdate(box, m), PortsIn(proc))
  BY <1>3, OutdateWithin DEF Sane, G
<1> QED
  BY <1>2, <1>4 DEF Sane, G

\* Datagrams that neither ask nor tell always fit.
LEMMA SanePlainly == ASSUME NEW K PROVE Plainly({box \in Boxes : Sane(K, box)})
<1> DEFINE S == {box \in Boxes : Sane(K, box)}
<1>1. ASSUME NEW box \in S, NEW q \in Ports, box[q] # <<>>
      PROVE  [box EXCEPT ![q] = Tail(box[q])] \in S
  <2> DEFINE G == Goods(K, proc, starts)
             new == [box EXCEPT ![q] = Tail(box[q])]
  <2>1. box \in Boxes /\ Within(box, G) /\ Closed(box, PortsIn(proc)) /\ Stopping(box, Nat)
    BY AnyStops DEF Sane
  <2>2. new \in Boxes
    BY <1>1, <2>1, TailOK
  <2> HIDE DEF G
  <2>3. Within(new, G) /\ \A B : Closed(box, B) => Closed(new, B)
    BY <1>1, <2>1, TailWithin
  <2> HIDE DEF new
  <2>4. Closed(new, PortsIn(proc))
    BY <2>1, <2>3
  <2> QED
    BY <2>2, <2>3, <2>4 DEF Sane, G, new
<1>2. ASSUME NEW box \in S, NEW p \in PacketType, p.type \in Talk, NEW to
      PROVE  Send(box, p, to) \in S
  <2>1. Fits(K, proc, starts, p, to)
    BY <1>2, PlainFits DEF Talk
  <2> QED
    BY <2>1, SendSane DEF Sane
<1>3. ASSUME NEW box \in S, NEW m PROVE Outdate(box, m) \in S
  BY OutdateSane DEF Sane
<1> HIDE DEF S
<1> QED
  <2>1. S \subseteq Boxes
    BY DEF S
  <2> QED
    BY <1>1, <1>2, <1>3, <2>1 DEF Plainly, S

-----------------------------------------------------------------------------
(* The steps.                                                              *)

Served == \E L \in [Nat -> Nat] : Serves(L, proc', inbox', starts')

\* The invariant, for the steps below.
Serving(K) == IInv /\ K \in [Nat -> Nat] /\ Serves(K, proc, inbox, starts)

\* What a step starts from.
LEMMA Before ==
  ASSUME NEW K, Serving(K)
  PROVE  /\ Sane(K, inbox) /\ proc \in [Dirs -> ProcType] /\ starts \in Nat /\ IInv
         /\ proc[Seed].pc # "join" /\ Seed \in Dirs
         /\ proc[Seed].pc = "off" => proc[Seed] = Off
         /\ \A d \in Dirs : proc[d].node <= starts /\ proc[d].node \in Nat
<1>1. IInv /\ Serves(K, proc, inbox, starts)
  BY DEF Serving
<1>2. Seed \in Dirs /\ proc \in [Dirs -> ProcType] /\ inbox \in Boxes /\ starts \in Nat
  BY <1>1, Constants, ClusterAssumption DEF IInv, TypeOK, Boxes
<1>3. proc[Seed].pc # "join" /\ (proc[Seed].pc = "off" => proc[Seed] = Off)
  BY <1>1, <1>2, Local DEF IInv, SeedInv
<1>4. \A d \in Dirs : proc[d].node <= starts /\ proc[d].node \in Nat
  BY <1>1, <1>2 DEF IInv, NodeInv, ProcType
<1> QED
  BY <1>1, <1>2, <1>3, <1>4 DEF Sane, Serves

\* A step that gives a listener the state s and keeps what others rely on.
LEMMA QuietStep ==
  ASSUME NEW K, Serving(K), NEW d \in Dirs, NEW s \in ProcType,
         s.pc = proc[d].pc, s.node = proc[d].node, s.port = proc[d].port, s.cluster = proc[d].cluster,
         d \in Members => s.quit # "refused", d = Seed => s.rows \subseteq proc[d].rows,
         proc' = [proc EXCEPT ![d] = s], Sane(K, inbox'), starts' = starts
  PROVE  Served
<1>1. /\ Within(inbox', Goods(K, proc, starts)) /\ Closed(inbox', PortsIn(proc))
      /\ Serves(K, proc, inbox, starts) /\ K \in [Nat -> Nat]
  BY DEF Sane, Serving
<1>2. Serves(K, proc', inbox', starts)
  BY <1>1, Before, Calm
<1> QED
  BY <1>1, <1>2 DEF Served

\* A step that leaves the listeners alone.
LEMMA StillStep ==
  ASSUME NEW K, Serving(K), proc' = proc, Sane(K, inbox'), starts' = starts
  PROVE  Served
<1>1. Seed \in Dirs /\ proc[Seed] \in ProcType /\ proc' = [proc EXCEPT ![Seed] = proc[Seed]]
  BY Before
<1>2. Seed \in Members => proc[Seed].quit # "refused"
  BY DEF Members
<1> QED
  BY <1>1, <1>2, QuietStep

\* A step that ends a listener.
LEMMA GoneStep ==
  ASSUME NEW K, Serving(K), NEW d \in Dirs, proc[d].pc # "off",
         NEW box, Sane(K, box), Gone(d, box), starts' = starts
  PROVE  Served
<1>1. /\ Within(box, Goods(K, proc, starts)) /\ Closed(box, PortsIn(proc)) /\ box \in Boxes
      /\ Serves(K, proc, inbox, starts) /\ K \in [Nat -> Nat]
  BY DEF Sane, Serving
<1>2. proc' = [proc EXCEPT ![d] = Off] /\ inbox' = [box EXCEPT ![proc[d].port] = <<>>]
  BY DEF Gone
<1>3. d = Seed => proc[d].pc = "run"
  BY Before DEF ProcType
<1>4. Serves(K, proc', inbox', starts)
  BY <1>1, <1>2, <1>3, Before, Ending
<1> QED
  BY <1>1, <1>4 DEF Served

\* A step that asks for no roster and tells none keeps the buffers sane.
LEMMA SaneStep ==
  ASSUME NEW K, Serving(K), NEW d \in Dirs,
         \/ JoinDrops(d) \/ Ignore(d) \/ Stop(d) \/ Snapshot(d) \/ Error(d) \/ Refused \/ Unregister
         \/ LeaveBegins(d) \/ LeaveSends(d) \/ LeaveCleans(d) \/ LeaveTimeout(d)
         \/ Term(d) \/ Outage(d) \/ (\E late : MemberAges(d, late))
         \/ Expire \/ (\E n, late : RowAges(n, late)) \/ (\E q \in Ports : Lose(q))
  PROVE  Sane(K, inbox')
<1> DEFINE S == {box \in Boxes : Sane(K, box)}
<1>1. Plainly(S) /\ inbox \in S /\ IInv
  BY Before, SanePlainly DEF Sane
<1> HIDE DEF S
<1>2. inbox' \in S
  BY <1>1, PlainStep
<1> QED
  BY <1>2 DEF S

\* Datagrams are dropped, lost, refused or answered with an error, and `leave'
\* goes its way: no listener changes.
LEMMA StillSteps ==
  ASSUME NEW K, Serving(K), NEW d \in Dirs,
         \/ JoinDrops(d) \/ Ignore(d) \/ Error(d) \/ Refused
         \/ LeaveBegins(d) \/ LeaveSends(d) \/ LeaveCleans(d) \/ LeaveTimeout(d)
         \/ \E q \in Ports : Lose(q)
         \/ \E n, late : RowAges(n, late)
  PROVE  Served
<1>1. proc' = proc /\ starts' = starts
  BY DEF JoinDrops, Ignore, Error, Refused, LeaveBegins, LeaveSends, LeaveCleans, LeaveTimeout,
         Lose, RowAges
<1>2. Sane(K, inbox')
  BY SaneStep
<1> QED
  BY <1>1, <1>2, StillStep

\* A listener ends, for want of an answer, by a signal or on demand.
LEMMA GoneSteps ==
  ASSUME NEW K, Serving(K), NEW d \in Dirs,
         \/ JoinTimeout(d) \/ Kill(d) \/ Quit(d)
         \/ JoinAnswered(d) /\ ~(Valid([proc[d] EXCEPT !.cluster = First(d).cluster], First(d)) /\ proc[d].quit = "no")
  PROVE  Served
<1> DEFINE S == {box \in Boxes : Sane(K, box)}
<1>1. Plainly(S) /\ inbox \in S /\ IInv
  BY Before, SanePlainly DEF Sane
<1> HIDE DEF S
<1>2. proc[d].pc # "off" /\ starts' = starts /\ \E box \in S : Gone(d, box)
  BY <1>1, PlainEnd
<1>3. PICK box : Sane(K, box) /\ Gone(d, box)
  BY <1>2 DEF S
<1> QED
  BY <1>2, <1>3, GoneStep

\* A listener is told to stop, or a deadline passes.
LEMMA FlagSteps ==
  ASSUME NEW K, Serving(K), NEW d \in Dirs, Stop(d) \/ Term(d) \/ Outage(d) \/ \E late : MemberAges(d, late)
  PROVE  Served
<1>1. proc[d] \in ProcType
  BY Before
<1>2. starts' = starts /\ Sane(K, inbox')
  BY SaneStep DEF Stop, Term, Outage, MemberAges
<1>3. CASE Stop(d) \/ Term(d)
  <2>1. PICK v \in {"stop", "term"} : proc' = [proc EXCEPT ![d] = [proc[d] EXCEPT !.quit = v]]
    BY <1>3 DEF Stop, Term
  <2> DEFINE s == [proc[d] EXCEPT !.quit = v]
  <2>2. /\ s \in ProcType /\ s.pc = proc[d].pc /\ s.node = proc[d].node /\ s.port = proc[d].port
        /\ s.cluster = proc[d].cluster /\ s.rows = proc[d].rows /\ s.quit = v
    BY <1>1 DEF ProcType
  <2>3. proc' = [proc EXCEPT ![d] = s] /\ s.quit # "refused"
    BY <2>1, <2>2
  <2> HIDE DEF s
  <2> QED
    BY <1>2, <2>2, <2>3, QuietStep
<1>4. CASE Outage(d) \/ \E late : MemberAges(d, late)
  <2> DEFINE s == [proc[d] EXCEPT !.stale = TRUE]
  <2>1. proc' = [proc EXCEPT ![d] = s] /\ d \in Members
    BY <1>4 DEF MemberAges, Outage
  <2>2. /\ s \in ProcType /\ s.pc = proc[d].pc /\ s.node = proc[d].node /\ s.port = proc[d].port
        /\ s.cluster = proc[d].cluster /\ s.rows = proc[d].rows /\ s.quit = proc[d].quit
    BY <1>1 DEF ProcType
  <2>3. s.quit # "refused"
    BY <2>1, <2>2 DEF Serving, Serves
  <2> HIDE DEF s
  <2> QED
    BY <1>2, <2>1, <2>2, <2>3, QuietStep
<1> QED
  BY <1>3, <1>4

\* Expire and Unregister leave the seed with fewer rows.
LEMMA RowsGo ==
  ASSUME IInv, Unregister \/ Expire
  PROVE  \E rows \in SUBSET proc[Seed].rows :
            proc' = [proc EXCEPT ![Seed] = [proc[Seed] EXCEPT !.rows = rows]]
<1>1. CASE Unregister
  <2> DEFINE rows == proc[Seed].rows \ {[node |-> First(Seed).node, port |-> First(Seed).from]}
  <2>1. proc' = [proc EXCEPT ![Seed] = [proc[Seed] EXCEPT !.rows = rows]]
    BY <1>1 DEF Unregister
  <2> QED
    BY <2>1
<1>2. CASE Expire
  <2> DEFINE rows == {r \in proc[Seed].rows : r.node \notin old}
  <2>1. proc' = [proc EXCEPT ![Seed] = [proc[Seed] EXCEPT !.rows = rows]]
    BY <1>2 DEF Expire
  <2> QED
    BY <2>1
<1> QED
  BY <1>1, <1>2

\* The seed drops rows.
LEMMA RowSteps ==
  ASSUME NEW K, Serving(K), Unregister \/ Expire
  PROVE  Served
<1>1. IInv /\ Seed \in Dirs /\ proc[Seed] \in ProcType
  BY Before
<1>2. starts' = starts /\ Sane(K, inbox')
  BY <1>1, SaneStep DEF Unregister, Expire
<1>3. PICK rows \in SUBSET proc[Seed].rows : proc' = [proc EXCEPT ![Seed] = [proc[Seed] EXCEPT !.rows = rows]]
  BY <1>1, RowsGo
<1> DEFINE s == [proc[Seed] EXCEPT !.rows = rows]
<1>4. /\ s \in ProcType /\ s.pc = proc[Seed].pc /\ s.node = proc[Seed].node /\ s.port = proc[Seed].port
      /\ s.cluster = proc[Seed].cluster /\ s.rows = rows /\ Seed \notin Members
  BY <1>1, <1>3 DEF ProcType, Members
<1>5. proc' = [proc EXCEPT ![Seed] = s] /\ s.rows \subseteq proc[Seed].rows
  BY <1>3, <1>4
<1> HIDE DEF s
<1> QED
  BY <1>1, <1>2, <1>4, <1>5, QuietStep

\* A heartbeat carries the cluster that its node belongs to.
LEMMA BeatStep ==
  ASSUME NEW K, Serving(K), NEW d \in Dirs, NEW late, Beat(d, late)
  PROVE  Served
<1>1. Sane(K, inbox) /\ IInv /\ proc[d] \in ProcType /\ starts \in Nat
  BY Before
<1>2. d \in Members /\ proc[d].pc = "run" /\ starts' = starts
  BY DEF Beat, Running
<1>3. /\ proc[d].cluster # NoNode /\ K[proc[d].node] = proc[d].cluster /\ proc[d].quit # "refused"
      /\ proc[d].node \in 1..starts /\ \A e \in Dirs : proc[e].node = proc[d].node => e = d
  <2>1. proc[d].node # NoNode
    BY <1>1, <1>2, Local
  <2> QED
    BY <1>1, <1>2, <2>1, Before DEF Serving, Serves, Claims, IInv, NodeInv, NoNode
<1> DEFINE p == Packet("BEAT", proc[d], proc[d].node, {}, TRUE)
<1>4. /\ p \in PacketType /\ p.type = "BEAT" /\ p.node = proc[d].node /\ p.req = proc[d].node
      /\ p.cluster = proc[d].cluster /\ p.from = proc[d].port
  <2>1. /\ proc[d].port \in Ports \union {0} /\ proc[d].node \in Nat /\ proc[d].cluster \in Nat
        /\ {} \in SUBSET Row /\ proc[d].node \in Nat \union Dirs
    BY <1>1 DEF ProcType
  <2> QED
    BY <2>1 DEF Packet, PacketType
<1>5. inbox' = Send(Outdate(inbox, proc[d].node), p, SeedPort)
  BY DEF Beat, Request
<1> HIDE DEF p
<1>6. Fits(K, proc, starts, p, SeedPort)
  BY <1>3, <1>4 DEF Fits, Asks
<1>7. Sane(K, inbox')
  BY <1>1, <1>4, <1>5, <1>6, OutdateSane, SendSane
<1>8. PICK s \in ProcType :
        /\ proc' = [proc EXCEPT ![d] = s]
        /\ s.pc = proc[d].pc /\ s.node = proc[d].node /\ s.port = proc[d].port
        /\ s.cluster = proc[d].cluster /\ s.quit = proc[d].quit
  <2>1. CASE proc' = [proc EXCEPT ![d] = proc[d]]
    BY <1>1, <2>1
  <2>2. CASE proc' = [proc EXCEPT ![d] = [proc[d] EXCEPT !.rows = {Own(proc[d])}, !.connected = FALSE]]
    <3> DEFINE z == [proc[d] EXCEPT !.rows = {Own(proc[d])}, !.connected = FALSE]
    <3>1. Own(proc[d]) \in Row
      BY <1>1, NodesOK
    <3>2. /\ z \in ProcType /\ z.pc = proc[d].pc /\ z.node = proc[d].node /\ z.port = proc[d].port
          /\ z.cluster = proc[d].cluster /\ z.quit = proc[d].quit
      BY <1>1, <3>1 DEF ProcType
    <3> QED
      BY <2>2, <3>2
  <2> QED
    BY <2>1, <2>2 DEF Beat
<1>9. d # Seed
  BY <1>2 DEF Members
<1> QED
  BY <1>2, <1>3, <1>7, <1>8, <1>9, QuietStep

\* An answer to a heartbeat is never refused: it comes from the cluster that the
\* node belongs to.
LEMMA SnapshotStep ==
  ASSUME NEW K, Serving(K), NEW d \in Dirs, Snapshot(d)
  PROVE  Served
<1>1. Sane(K, inbox) /\ IInv /\ proc[d] \in ProcType /\ starts \in Nat
  BY Before
<1>2. d \in Members /\ proc[d].pc = "run" /\ starts' = starts /\ Waiting(d) /\ inbox' = Rest(d)
      /\ First(d).type = "ROSTER"
  BY DEF Snapshot, Running
<1>3. Sane(K, inbox') /\ First(d) \in PacketType /\ Fits(K, proc, starts, First(d), proc[d].port)
  BY <1>1, <1>2, RestSane
<1>4. K[proc[d].node] = proc[d].cluster /\ proc[d].quit # "refused" /\ d # Seed
  BY <1>2 DEF Serving, Serves, Claims, Members
<1>5. Answers(d, First(d)) => Valid(proc[d], First(d))
  <2> SUFFICES ASSUME First(d).req = proc[d].node PROVE Valid(proc[d], First(d))
    BY DEF Answers
  <2>1. First(d).cluster = proc[d].cluster /\ Own(proc[d]) \in First(d).rows
        /\ [node |-> First(d).node, port |-> SeedPort] \in First(d).rows
    BY <1>2, <1>3, <1>4 DEF Fits
  <2> QED
    BY <2>1 DEF Valid
<1>6. CASE ~Answers(d, First(d))
  <2>1. proc' = proc
    BY <1>6 DEF Snapshot
  <2> QED
    BY <1>2, <1>3, <2>1, StillStep
<1>7. CASE Answers(d, First(d))
  <2> DEFINE s == Adopt(proc[d], First(d))
  <2>1. proc' = [proc EXCEPT ![d] = s]
    BY <1>5, <1>7 DEF Snapshot
  <2>2. /\ s \in ProcType /\ s.pc = proc[d].pc /\ s.node = proc[d].node /\ s.port = proc[d].port
        /\ s.cluster = proc[d].cluster /\ s.quit = proc[d].quit
    BY <1>1, <1>3 DEF Adopt, ProcType, PacketType
  <2> HIDE DEF s
  <2> QED
    BY <1>2, <1>3, <1>4, <2>1, <2>2, QuietStep
<1> QED
  BY <1>6, <1>7

\* The same for whole socket buffers.
LEMMA Onward ==
  ASSUME NEW K, NEW L, NEW P, NEW Q, NEW n \in Nat, NEW m \in Nat, n <= m,
         \A x \in 1..n : L[x] = K[x] \/ (K[x] = NoNode /\ L[x] = Q[Seed].node),
         \A e \in Dirs : Q[e].node \notin 1..n \/ (Q[e].node = P[e].node /\ Q[e].port = P[e].port),
         NEW box, Within(box, Goods(K, P, n)), box[SeedPort] = <<>> \/ Q[Seed].node = P[Seed].node
  PROVE  Within(box, Goods(L, Q, m))
<1>1. \A q \in Ports : box[q] = <<>> \/ Goods(K, P, n)[q] \subseteq Goods(L, Q, m)[q]
  <2> SUFFICES ASSUME NEW q \in Ports, box[q] # <<>> PROVE Goods(K, P, n)[q] \subseteq Goods(L, Q, m)[q]
    OBVIOUS
  <2>1. q # SeedPort \/ Q[Seed].node = P[Seed].node
    OBVIOUS
  <2> QED
    BY <2>1, GoodsGrow
<1> QED
  BY <1>1, GrowWithin

\* The answer to a join request tells the listener the cluster that its node
\* was taken into.
LEMMA AnsweredStep ==
  ASSUME NEW K, Serving(K), NEW d \in Dirs, JoinAnswered(d)
  PROVE  Served
<1> DEFINE s == [proc[d] EXCEPT !.cluster = First(d).cluster]
<1>1. Sane(K, inbox) /\ IInv /\ proc \in [Dirs -> ProcType] /\ starts \in Nat /\ Seed \in Dirs
  BY Before
<1>2. proc[d].pc = "join" /\ starts' = starts /\ Waiting(d) /\ Answers(d, First(d))
  BY DEF JoinAnswered
<1>3. d # Seed /\ d \in Members
  BY <1>2, Before DEF Members
<1>4. Sane(K, Rest(d)) /\ First(d) \in PacketType /\ Fits(K, proc, starts, First(d), proc[d].port)
  BY <1>1, <1>2, RestSane
<1>5. proc[d] \in ProcType /\ First(d).cluster \in Nat
  BY <1>1, <1>4 DEF PacketType
<1>6. First(d).cluster # NoNode /\ K[proc[d].node] = First(d).cluster
  BY <1>2, <1>4 DEF Answers, Fits
<1>7. s.quit = proc[d].quit
  BY <1>5 DEF ProcType
<1>8. CASE Valid(s, First(d)) /\ s.quit = "no"
  <2> DEFINE z == [Adopt(s, First(d)) EXCEPT !.pc = "run"]
  <2>1. /\ proc' = [proc EXCEPT ![d] = z] /\ inbox' = Rest(d)
    BY <1>2, <1>8 DEF JoinAnswered
  <2>2. /\ z.node = proc[d].node /\ z.port = proc[d].port /\ z.cluster = First(d).cluster
        /\ z.quit = "no"
    BY <1>5, <1>8 DEF Adopt, ProcType
  <2> HIDE DEF z, s
  <2>3. /\ proc'[d] = z /\ \A e \in Dirs : e # d => proc'[e] = proc[e]
        /\ \A e \in Dirs : proc'[e].node = proc[e].node /\ proc'[e].port = proc[e].port
    BY <1>1, <2>1, <2>2
  <2>4. Serves(K, proc, inbox, starts) /\ K \in [Nat -> Nat]
    BY DEF Serving
  <2>5. Claims(K, proc')
    BY <1>1, <1>3, <1>6, <2>2, <2>3, <2>4 DEF Serves, Claims, Members
  <2>6. PortsIn(proc') = PortsIn(proc)
    BY <2>3 DEF PortsIn
  <2>7. Within(Rest(d), Goods(K, proc', starts))
    <3>1. Within(Rest(d), Goods(K, proc, starts)) /\ starts <= starts
      BY <1>1, <1>4 DEF Sane
    <3> QED
      BY <1>1, <2>3, <3>1, Onward
  <2>8. Closed(Rest(d), PortsIn(proc'))
    BY <1>4, <2>6 DEF Sane
  <2>9. Serves(K, proc', inbox', starts)
    BY <1>1, <1>3, <2>1, <2>2, <2>3, <2>4, <2>5, <2>7, <2>8 DEF Serves, Members
  <2> QED
    BY <1>2, <2>4, <2>9 DEF Served
<1>9. CASE ~(Valid(s, First(d)) /\ s.quit = "no")
  BY <1>7, <1>9, GoneSteps
<1> QED
  BY <1>8, <1>9

\* A new seed is a new cluster, and finds no datagrams.
LEMMA SeedStarts ==
  ASSUME NEW K, Serving(K), StartSeed(SeedPort)
  PROVE  Served
<1>1. Sane(K, inbox) /\ proc \in [Dirs -> ProcType] /\ starts \in Nat /\ Seed \in Dirs
      /\ proc[Seed] = Off /\ SeedPort \in Ports
  BY Before, ClusterAssumption DEF StartSeed
<1>2. Serves(K, proc, inbox, starts) /\ K \in [Nat -> Nat] /\ inbox' = inbox
  BY DEF Serving, StartSeed
<1>3. CASE SeedPort \in Bound
  <2>1. proc' = proc /\ starts' = starts
    BY <1>3 DEF StartSeed
  <2> QED
    BY <1>1, <1>2, <2>1, StillStep
<1>4. CASE SeedPort \notin Bound
  <2> DEFINE n == starts + 1
             rows == {[node |-> n, port |-> SeedPort]}
             s == [New(Seed, SeedPort) EXCEPT !.pc = "run", !.cluster = starts + 1, !.connected = TRUE,
                                              !.rows = {[node |-> starts + 1, port |-> SeedPort]}]
             L == [K EXCEPT ![n] = n]
  <2>1. proc' = [proc EXCEPT ![Seed] = s] /\ starts' = n
    BY <1>4 DEF StartSeed
  <2>2. s.pc = "run" /\ s.node = n /\ s.port = SeedPort /\ s.cluster = n /\ s.rows = rows /\ s.quit = "no"
    BY DEF New, Off
  <2>3. n \in Nat /\ starts <= n /\ n \notin 1..starts /\ n # NoNode /\ ~(n <= starts)
    BY <1>1 DEF NoNode
  <2>4. L \in [Nat -> Nat] /\ L[n] = n /\ \A x \in Nat : x # n => L[x] = K[x]
    BY <1>2, <2>3
  <2> HIDE DEF s, L
  <2>5. proc'[Seed] = s /\ \A e \in Dirs : e # Seed => proc'[e] = proc[e]
    BY <1>1, <2>1
  <2>6. inbox[SeedPort] = <<>>
    BY <1>1, <1>2, <1>4 DEF Serves, Closed, PortsIn, Bound
  <2>7. Within(inbox, Goods(L, proc', n))
    <3>1. \A x \in 1..starts : L[x] = K[x]
      BY <1>1, <2>3, <2>4
    <3>2. \A e \in Dirs : \/ proc'[e].node \notin 1..starts
                          \/ proc'[e].node = proc[e].node /\ proc'[e].port = proc[e].port
      BY <2>2, <2>3, <2>5
    <3>3. Within(inbox, Goods(K, proc, starts))
      BY <1>2 DEF Serves
    <3> HIDE DEF n
    <3> QED
      BY <1>1, <2>3, <2>6, <3>1, <3>2, <3>3, Onward
  <2>8. Claims(L, proc')
    <3>1. \A d \in Members : d # Seed /\ d \in Dirs /\ proc[d].node <= starts /\ proc[d].node \in Nat
      BY Before DEF Members
    <3>2. \A d \in Members : proc'[d] = proc[d] /\ L[proc[d].node] = K[proc[d].node]
      BY <2>3, <2>4, <2>5, <3>1
    <3>3. \A r \in rows : r.node = n
      OBVIOUS
    <3> QED
      BY <1>2, <2>2, <2>4, <2>5, <3>2, <3>3 DEF Claims, Serves
  <2>9. Unused(L, n)
    BY <1>1, <1>2, <2>4 DEF Unused, Serves
  <2>10. Closed(inbox, PortsIn(proc'))
    <3>1. Off.port = 0 /\ 0 \notin Ports
      BY ClusterAssumption DEF Off
    <3>2. \A q \in Ports : q \in PortsIn(proc) => q \in PortsIn(proc')
      BY <1>1, <2>5, <3>1 DEF PortsIn
    <3> QED
      BY <1>2, <3>2 DEF Serves, Closed
  <2>11. \A d \in Members : proc'[d].quit # "refused"
    BY <1>2, <2>5 DEF Serves, Members
  <2>12. Serves(L, proc', inbox', n)
    BY <1>2, <2>2, <2>5, <2>7, <2>8, <2>9, <2>10, <2>11 DEF Serves
  <2> QED
    BY <2>1, <2>4, <2>12 DEF Served
<1> QED
  BY <1>3, <1>4

\* A new node asks, and no seed has taken it in yet.
LEMMA JoinStep ==
  ASSUME NEW K, Serving(K), NEW d \in Members, NEW port \in PortsOf[d], Join(d, port)
  PROVE  Served
<1> DEFINE n == starts + 1
           w == New(d, port)
           s == [w EXCEPT !.pc = "join"]
           p == Packet("JOIN", w, w.node, {}, TRUE)
<1>1. /\ Sane(K, inbox) /\ proc \in [Dirs -> ProcType] /\ starts \in Nat /\ Seed \in Dirs /\ d \in Dirs
      /\ d # Seed /\ IInv
  BY Before DEF Members
<1>2. Serves(K, proc, inbox, starts) /\ K \in [Nat -> Nat]
  BY DEF Serving
<1>3. /\ proc[d] = Off /\ starts' = n /\ proc' = [proc EXCEPT ![d] = s]
      /\ inbox' = Send(Outdate(inbox, w.node), p, SeedPort)
  BY <1>1, Local DEF Join, Request
<1>4. w.node = n /\ w.port = port /\ w.cluster = NoNode /\ w.quit = "no" /\ w.pc = "off"
  BY DEF New, Off
<1>5. s.node = n /\ s.port = port /\ s.quit = "no" /\ s.pc = "join"
  BY DEF New, Off
<1>6. n \in Nat /\ starts <= n /\ n \notin 1..starts /\ n \in 1..n /\ n > starts
  BY <1>1
<1>7. port \in Ports
  BY <1>1, ClusterAssumption
<1>8. /\ p \in PacketType /\ p.type = "JOIN" /\ p.node = n /\ p.req = n /\ p.from = port
  <2> HIDE DEF w, n
  <2>1. /\ w.port \in Ports \union {0} /\ w.node \in Nat /\ w.cluster \in Nat
        /\ {} \in SUBSET Row /\ w.node \in Nat \union Dirs
    BY <1>4, <1>6, <1>7 DEF NoNode
  <2> QED
    BY <1>4, <2>1 DEF Packet, PacketType
<1> HIDE DEF p, s, w, n
<1>9. proc'[d] = s /\ \A e \in Dirs : e # d => proc'[e] = proc[e]
  BY <1>1, <1>3
<1>10. Fits(K, proc', n, p, SeedPort)
  <2>1. K[n] = NoNode
    BY <1>2, <1>6 DEF Serves, Unused
  <2>2. \A e \in Dirs : proc'[e].node = n => proc'[e].port = port
    BY <1>5, <1>6, <1>9, Before
  <2> QED
    BY <1>6, <1>8, <2>1, <2>2 DEF Fits, Asks
<1> DEFINE G == Goods(K, proc', n)
           box == Outdate(inbox, w.node)
<1>11. Sane(K, box)
  BY <1>1, OutdateSane
<1> HIDE DEF box
<1>12. Within(box, G)
  <2>1. \A e \in Dirs : \/ proc'[e].node \notin 1..starts
                        \/ proc'[e].node = proc[e].node /\ proc'[e].port = proc[e].port
    BY <1>5, <1>6, <1>9
  <2>2. Within(box, Goods(K, proc, starts)) /\ proc'[Seed].node = proc[Seed].node
    BY <1>1, <1>9, <1>11 DEF Sane
  <2> QED
    BY <1>1, <1>6, <2>1, <2>2, Onward
<1>13. Within(inbox', G) /\ Closed(inbox', Bound)
  <2>1. G \in Kinds /\ p \in G[SeedPort] /\ SeedPort \in Ports
    BY <1>8, <1>10, GoodsAt, ClusterAssumption
  <2>2. box \in Boxes /\ Closed(box, Bound)
    BY <1>11 DEF Sane, PortsIn, Bound
  <2> HIDE DEF G
  <2>3. Within(Send(box, p, SeedPort), G) /\ (Closed(box, Bound) => Closed(Send(box, p, SeedPort), Bound))
    BY <1>8, <1>12, <2>1, <2>2, SendWithin
  <2> QED
    BY <1>3, <2>2, <2>3 DEF box
<1>14. Closed(inbox', PortsIn(proc'))
  <2>1. Off.port = 0 /\ 0 \notin Ports
    BY ClusterAssumption DEF Off
  <2>2. \A q \in Ports : q \in Bound => q \in PortsIn(proc')
    BY <1>3, <1>9, <2>1 DEF PortsIn, Bound
  <2> QED
    BY <1>13, <2>2 DEF Closed
<1>15. Claims(K, proc')
  BY <1>1, <1>2, <1>5, <1>9 DEF Claims, Serves, Members
<1>16. Unused(K, n)
  BY <1>1, <1>2, <1>6 DEF Unused, Serves, n
<1>17. \A e \in Members : proc'[e].quit # "refused"
  BY <1>2, <1>5, <1>9 DEF Serves, Members
<1>18. Serves(K, proc', inbox', n)
  BY <1>1, <1>2, <1>9, <1>13, <1>14, <1>15, <1>16, <1>17 DEF Serves
<1> QED
  BY <1>2, <1>3, <1>18 DEF Served

\* The seed takes a node in that has no cluster, or is in its own; the answer
\* has the rows of the asking listener and of the seed.
LEMMA RegisterStep ==
  ASSUME NEW K, Serving(K), Register
  PROVE  Served
<1> DEFINE p == First(Seed)
           row == [node |-> p.node, port |-> p.from]
           c == proc[Seed].node
           s == [proc[Seed] EXCEPT !.rows = @ \union {row}]
           L == [K EXCEPT ![p.node] = c]
           a == Packet("ROSTER", proc[Seed], p.req, s.rows, p.fresh)
<1>1. /\ Sane(K, inbox) /\ proc \in [Dirs -> ProcType] /\ starts \in Nat /\ Seed \in Dirs /\ IInv
      /\ proc[Seed] \in ProcType /\ SeedPort \in Ports
  BY Before, ClusterAssumption
<1>2. Serves(K, proc, inbox, starts) /\ K \in [Nat -> Nat]
  BY DEF Serving
<1>3. /\ Waiting(Seed) /\ proc[Seed].pc = "run" /\ p.type \in {"JOIN", "BEAT"}
      /\ p.type = "JOIN" \/ p.cluster = proc[Seed].cluster
      /\ proc' = [proc EXCEPT ![Seed] = s] /\ inbox' = Send(Rest(Seed), a, p.from) /\ starts' = starts
  BY DEF Register, Handles, Running, ForRoster, Mine, Answer
<1>4. /\ Sane(K, Rest(Seed)) /\ p \in PacketType /\ Fits(K, proc, starts, p, proc[Seed].port)
  BY <1>1, <1>3, RestSane
<1>5. /\ proc[Seed].port = SeedPort /\ proc[Seed].cluster = c /\ c \in Nat /\ c # NoNode
      /\ Own(proc[Seed]) \in proc[Seed].rows
  BY <1>1, <1>2, <1>3, Local DEF Serves, ProcType, IInv, SeedInv, SeedRoster
<1>6. /\ p.node \in Nat /\ p.req \in Nat \union Dirs /\ p.fresh \in BOOLEAN /\ p.from \in Ports \union {0}
      /\ row \in Row /\ row.node = p.node
  BY <1>4 DEF PacketType, Row
<1>7. /\ s \in ProcType /\ s.pc = "run" /\ s.node = c /\ s.port = SeedPort /\ s.cluster = c
      /\ s.rows = proc[Seed].rows \union {row}
  BY <1>1, <1>3, <1>5, <1>6 DEF ProcType
<1> HIDE DEF p
<1>8. /\ p.req = p.node /\ p.node \in 1..starts /\ K[p.node] \in {NoNode, c}
      /\ \A e \in Dirs : proc[e].node = p.node => proc[e].port = p.from
  BY <1>3, <1>4, <1>5 DEF Fits, Asks
<1>9. L \in [Nat -> Nat] /\ L[p.node] = c /\ \A x \in Nat : x # p.node => L[x] = K[x]
  BY <1>2, <1>5, <1>6
<1>10. /\ a \in PacketType /\ a.type = "ROSTER" /\ a.req = p.node /\ a.cluster = c /\ a.node = c
       /\ a.rows = s.rows
  <2>1. /\ proc[Seed].port \in Ports \union {0} /\ proc[Seed].node \in Nat /\ proc[Seed].cluster \in Nat
        /\ s.rows \in SUBSET Row
    BY <1>1, <1>7 DEF ProcType
  <2> HIDE DEF s
  <2> QED
    BY <1>5, <1>6, <1>8, <2>1 DEF Packet, PacketType
<1> HIDE DEF a, L, s
<1>11. /\ proc'[Seed] = s /\ \A e \in Dirs : e # Seed => proc'[e] = proc[e]
       /\ \A e \in Dirs : proc'[e].node = proc[e].node /\ proc'[e].port = proc[e].port
  BY <1>1, <1>3, <1>5, <1>7
<1>12. \A q : Fits(L, proc', starts, a, q)
  <2>1. [node |-> c, port |-> SeedPort] \in s.rows
    BY <1>5, <1>7 DEF Own
  <2>2. \A e \in Dirs : proc'[e].node = p.node => Own(proc'[e]) = row
    BY <1>8, <1>11 DEF Own
  <2> HIDE DEF row
  <2>3. \A e \in Dirs : proc'[e].node = p.node => Own(proc'[e]) \in s.rows
    BY <1>7, <2>2
  <2> QED
    BY <1>5, <1>8, <1>9, <1>10, <2>1, <2>3 DEF Fits, Asks
<1> DEFINE G == Goods(L, proc', starts)
<1>13. Within(Rest(Seed), G)
  <2>1. \A x \in 1..starts : L[x] = K[x] \/ (K[x] = NoNode /\ L[x] = proc'[Seed].node)
    BY <1>7, <1>8, <1>9, <1>11
  <2>2. Within(Rest(Seed), Goods(K, proc, starts)) /\ starts <= starts /\ proc'[Seed].node = proc[Seed].node
    BY <1>1, <1>4, <1>11 DEF Sane
  <2> QED
    BY <1>1, <1>11, <2>1, <2>2, Onward
<1>14. Within(inbox', G) /\ Closed(inbox', Bound)
  <2>1. G \in Kinds /\ \A q \in Ports : a \in G[q]
    BY <1>10, <1>12, GoodsAt
  <2>2. Rest(Seed) \in Boxes /\ Closed(Rest(Seed), Bound)
    BY <1>4 DEF Sane, PortsIn, Bound
  <2> HIDE DEF G
  <2>3. /\ Within(Send(Rest(Seed), a, p.from), G)
        /\ Closed(Rest(Seed), Bound) => Closed(Send(Rest(Seed), a, p.from), Bound)
    BY <1>10, <1>13, <2>1, <2>2, SendWithin
  <2> QED
    BY <1>3, <2>2, <2>3
<1>15. PortsIn(proc') = Bound
  BY <1>11 DEF PortsIn, Bound
<1>16. Claims(L, proc')
  <2>1. ASSUME NEW d \in Members, proc'[d].pc = "run"
        PROVE  proc'[d].cluster # NoNode /\ L[proc'[d].node] = proc'[d].cluster
    <3>1. d \in Dirs /\ d # Seed /\ proc'[d] = proc[d] /\ proc[d].node \in Nat
      BY <1>11, Before DEF Members
    <3>2. proc[d].cluster # NoNode /\ K[proc[d].node] = proc[d].cluster
      BY <1>2, <2>1, <3>1 DEF Serves, Claims
    <3> QED
      BY <1>8, <1>9, <3>1, <3>2
  <2>2. ASSUME NEW r \in s.rows PROVE L[r.node] = c
    <3>1. CASE r = row
      BY <1>6, <1>9, <3>1
    <3>2. CASE r \in proc[Seed].rows
      <4>1. r.node \in Nat /\ K[r.node] = c
        BY <1>1, <1>2, <3>2 DEF Serves, Claims, ProcType, Row
      <4> QED
        BY <1>9, <4>1
    <3> QED
      BY <1>7, <2>2, <3>1, <3>2
  <2> QED
    BY <1>7, <1>11, <2>1, <2>2 DEF Claims
<1>17. Unused(L, starts)
  BY <1>1, <1>2, <1>8, <1>9 DEF Serves, Unused
<1>18. \A e \in Members : proc'[e].quit # "refused"
  BY <1>2, <1>11 DEF Serves, Members
<1>19. Serves(L, proc', inbox', starts)
  BY <1>7, <1>11, <1>14, <1>15, <1>16, <1>17, <1>18 DEF Serves
<1> QED
  BY <1>3, <1>9, <1>19 DEF Served

\* Every node is in one cluster at most, and all listeners, rows and datagrams
\* agree on which (bc_start, bc_handle, bc_snapshot).
THEOREM ClusterHolds == Spec => []ClusterInv
<1>1. Init => ClusterInv
  <2> SUFFICES ASSUME Init PROVE ClusterInv
    OBVIOUS
  <2> DEFINE K == [x \in Nat |-> 0]
  <2>1. /\ \A d \in Dirs : proc[d] = Off
        /\ \A q \in Ports : inbox[q] = <<>> /\ DOMAIN inbox[q] = {}
    BY DEF Init
  <2>2. Off.pc = "off" /\ Off.rows = {} /\ Off.quit = "no" /\ NoNode = 0 /\ Seed \in Dirs /\ Members \subseteq Dirs
    BY Constants DEF Off, NoNode, Members
  <2>3. K \in [Nat -> Nat] /\ \A x \in Nat : K[x] = 0
    OBVIOUS
  <2> HIDE DEF K
  <2>4. Serves(K, proc, inbox, starts)
    BY <2>1, <2>2, <2>3 DEF Serves, Claims, Unused, Within, Closed
  <2> QED
    BY <2>3, <2>4 DEF ClusterInv
<1>2. IInv /\ ClusterInv /\ [Next]_vars => ClusterInv'
  <2> SUFFICES ASSUME IInv, ClusterInv, [Next]_vars PROVE Served
    BY DEF Served, ClusterInv
  <2>1. PICK K : Serving(K)
    BY DEF ClusterInv, Serving
  <2>2. CASE UNCHANGED vars
    BY <2>1, <2>2, StillStep, Before DEF vars
  <2>3. CASE Next
    <3>1. Seed \in Dirs
      BY Constants
    <3> QED
      BY <2>1, <2>3, <3>1, StillSteps, GoneSteps, FlagSteps, RowSteps, BeatStep, SnapshotStep, AnsweredStep,
         SeedStarts, JoinStep, RegisterStep DEF Next, Listener
  <2> QED
    BY <2>2, <2>3
<1> QED
  BY <1>1, <1>2, Invariance, PTL DEF Spec

\* A seed lists only listeners that asked to join its own cluster, and no answer
\* makes a running listener quit (bc_handle, bc_snapshot).
THEOREM OneClusterHolds == Spec => []OneCluster
<1>1. ClusterInv => OneCluster
  <2> SUFFICES ASSUME ClusterInv, NEW d \in Members
               PROVE  /\ proc[d].quit # "refused"
                      /\ proc[d].pc = "run" /\ proc[d].node \in Nodes(proc[Seed].rows)
                           => proc[d].cluster = proc[Seed].node
    BY DEF OneCluster
  <2>1. PICK K \in [Nat -> Nat] : Serves(K, proc, inbox, starts)
    BY DEF ClusterInv
  <2> QED
    BY <2>1 DEF Serves, Claims, Nodes
<1> QED
  BY <1>1, ClusterHolds, PTL

-----------------------------------------------------------------------------
(* Fresh rosters.                                                          *)

\* A node has one request or answer under its latest nonce.  As long as the seed
\* has not answered the request, all nodes of its roster have been noted since
\* the member asked; the answer tells nodes so noted.
Alive(p) == p.fresh /\ p.type \in Asks \union {"ROSTER"}
OneAlive(box) == \A q, z \in Ports : \A i \in DOMAIN box[q], j \in DOMAIN box[z] :
  Alive(box[q][i]) /\ Alive(box[z][j]) /\ box[q][i].req = box[z][j].req => q = z /\ i = j
NoneAlive(box, n) == \A q \in Ports : \A i \in DOMAIN box[q] : Alive(box[q][i]) => box[q][i].req # n

Knows(P, A, n, p, q) ==
  /\ (p.type \in Asks => q = SeedPort)
  /\ (Alive(p) => p.req \in 1..n)
  /\ \A d \in Members : P[d].node = p.req /\ Alive(p) =>
       /\ (p.type \in Asks /\ P[Seed].pc = "run" => A[d] # {} /\ Nodes(P[Seed].rows) \subseteq A[d])
       /\ (p.type = "ROSTER" => Nodes(p.rows) \subseteq A[d])
Tells(P, A, n) == [q \in Ports |-> {p \in PacketType : Knows(P, A, n, p, q)}]

FreshInv == OneAlive(inbox) /\ Within(inbox, Tells(proc, asked, starts))

\* Which datagrams are in Tells.
LEMMA TellsAt ==
  ASSUME NEW P, NEW A, NEW n
  PROVE  /\ Tells(P, A, n) \in Kinds
         /\ \A q \in Ports : \A p : p \in Tells(P, A, n)[q] <=> p \in PacketType /\ Knows(P, A, n, p, q)
<1> HIDE DEF PacketType, Knows
<1> QED
  BY DEF Tells, Kinds

\* Outdated datagrams know no less.
LEMMA OutdatedTells ==
  ASSUME NEW P, NEW A, NEW n, NEW q \in Ports, NEW p \in Tells(P, A, n)[q], NEW m
  PROVE  Outdated(p, m) \in Tells(P, A, n)[q]
<1>1. p \in PacketType /\ Knows(P, A, n, p, q)
  BY TellsAt
<1>2. /\ Outdated(p, m) \in PacketType
      /\ Outdated(p, m).type = p.type /\ Outdated(p, m).req = p.req /\ Outdated(p, m).rows = p.rows
      /\ Outdated(p, m).fresh => p.fresh
  BY <1>1 DEF PacketType, Outdated
<1> DEFINE z == Outdated(p, m)
<1> HIDE DEF z
<1>3. Alive(z) => Alive(p)
  BY <1>2 DEF Alive, z
<1>4. Knows(P, A, n, z, q)
  BY <1>1, <1>2, <1>3 DEF Knows, z
<1> QED
  BY <1>2, <1>4, TellsAt DEF z

\* After a step members have new nodes, or nobody is waiting for an answer, or
\* more nodes are noted; and a seed that has requests has its rows noted.
Noted(P, Q, A, B, n, box) ==
  \A d \in Members : \/ Q[d].node \notin 1..n \/ NoneAlive(box, Q[d].node)
                     \/ Q[d].node = P[d].node /\ A[d] \subseteq B[d]
Covered(P, Q, A, B, box) ==
  \/ box[SeedPort] = <<>>
  \/ Q[Seed].pc = "run" =>
       /\ P[Seed].pc = "run"
       /\ \A d \in Members : A[d] # {} /\ A[d] \subseteq B[d] /\ Nodes(P[Seed].rows) \subseteq A[d]
                               => Nodes(Q[Seed].rows) \subseteq B[d]

\* What the datagrams of a buffer know after such a step.
LEMMA KnowsOn ==
  ASSUME NEW P, NEW Q, NEW A, NEW B, NEW n \in Nat, NEW m \in Nat, n <= m,
         NEW box, Within(box, Tells(P, A, n)),
         Noted(P, Q, A, B, n, box), Covered(P, Q, A, B, box)
  PROVE  Within(box, Tells(Q, B, m))
<1> SUFFICES ASSUME NEW q \in Ports, NEW i \in DOMAIN box[q]
             PROVE  box[q][i] \in Tells(Q, B, m)[q]
  BY DEF Within
<1> DEFINE p == box[q][i]
<1>1. p \in PacketType /\ Knows(P, A, n, p, q)
  BY TellsAt DEF Within
<1>2. \A d \in Members : Q[d].node = p.req /\ Alive(p) => P[d].node = p.req /\ A[d] \subseteq B[d]
  BY <1>1 DEF Knows, NoneAlive, Noted
<1>3. p.type \in Asks => box[SeedPort] # <<>>
  <2>1. DOMAIN <<>> = {}
    OBVIOUS
  <2> QED
    BY <1>1, <2>1 DEF Knows
<1>4. 1..n \subseteq 1..m
  OBVIOUS
<1> HIDE DEF p, PacketType
<1>5. ASSUME NEW d \in Members, Q[d].node = p.req, Alive(p)
      PROVE  /\ (p.type \in Asks /\ Q[Seed].pc = "run" => B[d] # {} /\ Nodes(Q[Seed].rows) \subseteq B[d])
             /\ (p.type = "ROSTER" => Nodes(p.rows) \subseteq B[d])
  <2>1. P[d].node = p.req /\ A[d] \subseteq B[d]
    BY <1>2, <1>5
  <2>2. /\ (p.type \in Asks /\ P[Seed].pc = "run" => A[d] # {} /\ Nodes(P[Seed].rows) \subseteq A[d])
        /\ (p.type = "ROSTER" => Nodes(p.rows) \subseteq A[d])
    BY <1>1, <1>5, <2>1 DEF Knows
  <2> QED
    BY <1>3, <2>1, <2>2 DEF Covered
<1>6. Knows(Q, B, m, p, q)
  BY <1>1, <1>4, <1>5 DEF Knows
<1> QED
  BY <1>1, <1>6, TellsAt DEF p

\* At most one request or answer is under way: a datagram is sent.
LEMMA SendAlive ==
  ASSUME NEW box \in Boxes, OneAlive(box), NEW p \in PacketType, Alive(p) => NoneAlive(box, p.req), NEW to
  PROVE  OneAlive(Send(box, p, to))
<1> HIDE DEF PacketType
<1>1. CASE to \in Bound /\ to \in Ports /\ Len(box[to]) < Room
  <2> DEFINE new == Send(box, p, to)
  <2>1. new = [box EXCEPT ![to] = Append(box[to], p)]
    BY <1>1 DEF Send
  <2>2. \A i \in DOMAIN Append(box[to], p) :
          \/ i = Len(box[to]) + 1 /\ Append(box[to], p)[i] = p
          \/ i \in DOMAIN box[to] /\ Append(box[to], p)[i] = box[to][i]
    BY <1>1 DEF Boxes
  <2> DEFINE b == Append(box[to], p)
             k == Len(box[to]) + 1
  <2> HIDE DEF b
  <2>3. new[to] = b /\ \A q \in Ports : q # to => new[q] = box[q]
    BY <1>1, <2>1 DEF Boxes, b
  <2> HIDE DEF new, k
  <2>4. \A q \in Ports : \A i \in DOMAIN new[q] :
          \/ q = to /\ i = k /\ new[q][i] = p
          \/ i \in DOMAIN box[q] /\ new[q][i] = box[q][i]
    BY <1>1, <2>2, <2>3 DEF b, k
  <2>5. OneAlive(new)
    <3> SUFFICES ASSUME NEW q \in Ports, NEW z \in Ports, NEW i \in DOMAIN new[q], NEW j \in DOMAIN new[z],
                        Alive(new[q][i]), Alive(new[z][j]), new[q][i].req = new[z][j].req
                 PROVE  q = z /\ i = j
      BY DEF OneAlive
    <3> QED
      BY <2>4 DEF OneAlive, NoneAlive
  <2> QED
    BY <2>5 DEF new
<1>2. CASE ~(to \in Bound /\ to \in Ports /\ Len(box[to]) < Room)
  BY <1>2 DEF Send
<1> QED
  BY <1>1, <1>2

\* A datagram is taken: it was the only one of its node.
LEMMA TailAlive ==
  ASSUME NEW box \in Boxes, OneAlive(box), NEW q \in Ports, box[q] # <<>>,
         NEW new, new = [box EXCEPT ![q] = Tail(box[q])]
  PROVE  OneAlive(new) /\ (Alive(Head(box[q])) => NoneAlive(new, Head(box[q]).req))
<1> HIDE DEF PacketType
<1>1. box[q] \in Seq(PacketType) /\ box[q] # <<>>
  BY DEF Boxes
<1>2. /\ 1 \in DOMAIN box[q] /\ Head(box[q]) = box[q][1]
      /\ \A i \in DOMAIN Tail(box[q]) : i \in Nat /\ i # 0 /\ i + 1 \in DOMAIN box[q] /\ Tail(box[q])[i] = box[q][i + 1]
  BY <1>1
<1>3. /\ \A i \in DOMAIN new[q] : i \in Nat /\ i # 0 /\ i + 1 \in DOMAIN box[q] /\ new[q][i] = box[q][i + 1]
      /\ \A z \in Ports : z # q => new[z] = box[z]
  BY <1>2 DEF Boxes
<1>4. OneAlive(new)
  <2> SUFFICES ASSUME NEW x \in Ports, NEW z \in Ports, NEW i \in DOMAIN new[x], NEW j \in DOMAIN new[z],
                      Alive(new[x][i]), Alive(new[z][j]), new[x][i].req = new[z][j].req
               PROVE  x = z /\ i = j
    BY DEF OneAlive
  <2>1. CASE x = q /\ z = q
    BY <1>3, <2>1 DEF OneAlive
  <2>2. CASE x # q /\ z # q
    BY <1>3, <2>2 DEF OneAlive
  <2>3. CASE x = q /\ z # q
    BY <1>3, <2>3 DEF OneAlive
  <2>4. CASE x # q /\ z = q
    BY <1>3, <2>4 DEF OneAlive
  <2> QED
    BY <2>1, <2>2, <2>3, <2>4
<1>5. ASSUME Alive(Head(box[q])), NEW z \in Ports, NEW i \in DOMAIN new[z], Alive(new[z][i])
      PROVE  new[z][i].req # Head(box[q]).req
  <2>1. CASE z = q
    <3>1. i + 1 # 1 /\ i + 1 \in DOMAIN box[q] /\ new[q][i] = box[q][i + 1]
      BY <1>3, <1>5, <2>1
    <3> QED
      BY <1>2, <1>5, <2>1, <3>1 DEF OneAlive
  <2>2. CASE z # q
    BY <1>2, <1>3, <1>5, <2>2 DEF OneAlive
  <2> QED
    BY <2>1, <2>2
<1> QED
  BY <1>4, <1>5 DEF NoneAlive

\* A socket is closed.
LEMMA ClearAlive ==
  ASSUME NEW box \in Boxes, OneAlive(box), NEW q, NEW new, new = [box EXCEPT ![q] = <<>>]
  PROVE  OneAlive(new)
<1>1. \A z \in Ports : new[z] = IF z = q THEN <<>> ELSE box[z]
  BY DEF Boxes
<1>2. DOMAIN <<>> = {}
  OBVIOUS
<1>3. \A z \in Ports : \A i \in DOMAIN new[z] : i \in DOMAIN box[z] /\ new[z][i] = box[z][i]
  BY <1>1, <1>2
<1> QED
  BY <1>3 DEF OneAlive

\* A nonce is used no more: nothing is under way for it.
LEMMA OutdateAlive ==
  ASSUME NEW box \in Boxes, OneAlive(box), NEW n
  PROVE  OneAlive(Outdate(box, n)) /\ NoneAlive(Outdate(box, n), n)
<1> DEFINE new == Outdate(box, n)
<1>1. \A q \in Ports : /\ DOMAIN new[q] = DOMAIN box[q]
                       /\ \A i \in DOMAIN box[q] : new[q][i] = Outdated(box[q][i], n)
  BY DEF Outdate, Outdated
<1>2. \A q \in Ports : \A i \in DOMAIN box[q] : box[q][i] \in PacketType
  <2> HIDE DEF PacketType
  <2> QED
    BY DEF Boxes
<1>3. \A p \in PacketType : /\ Outdated(p, n).req = p.req
                            /\ Alive(Outdated(p, n)) => Alive(p) /\ p.req # n
  BY DEF PacketType, Outdated, Alive
<1> HIDE DEF new, PacketType
<1>4. \A q \in Ports : \A i \in DOMAIN new[q] :
        /\ i \in DOMAIN box[q] /\ new[q][i].req = box[q][i].req
        /\ Alive(new[q][i]) => Alive(box[q][i]) /\ box[q][i].req # n
  BY <1>1, <1>2, <1>3
<1>5. OneAlive(new) /\ NoneAlive(new, n)
  BY <1>4 DEF OneAlive, NoneAlive
<1> QED
  BY <1>5 DEF new

\* Socket buffers as the invariant has them.
Live(box) == box \in Boxes /\ OneAlive(box) /\ Within(box, Tells(proc, asked, starts))

\* A datagram that may be there is sent.
LEMMA SendLive ==
  ASSUME NEW box, Live(box), NEW p \in PacketType, NEW to,
         to \in Ports => Knows(proc, asked, starts, p, to), Alive(p) => NoneAlive(box, p.req)
  PROVE  Live(Send(box, p, to))
<1>1. Stopping(box, Nat) /\ box \in Boxes
  BY AnyStops DEF Live
<1>2. p.type = "STOP" => p.node \in Nat
  BY DEF PacketType
<1> HIDE DEF PacketType, Knows
<1>3. Send(box, p, to) \in Boxes
  BY <1>1, <1>2, SendOK
<1> DEFINE G == Tells(proc, asked, starts)
<1>4. G \in Kinds /\ (to \in Ports => p \in G[to]) /\ Within(box, G)
  BY TellsAt DEF Live
<1> HIDE DEF G
<1>5. Within(Send(box, p, to), G)
  BY <1>1, <1>4, SendWithin
<1>6. OneAlive(Send(box, p, to))
  BY <1>1, SendAlive DEF Live
<1> QED
  BY <1>3, <1>5, <1>6 DEF Live, G

\* A datagram is taken.
LEMMA TailLive ==
  ASSUME NEW box, Live(box), NEW q \in Ports, box[q] # <<>>,
         NEW new, new = [box EXCEPT ![q] = Tail(box[q])]
  PROVE  /\ Live(new) /\ Head(box[q]) \in PacketType /\ Knows(proc, asked, starts, Head(box[q]), q)
         /\ Alive(Head(box[q])) => NoneAlive(new, Head(box[q]).req)
<1>1. Stopping(box, Nat) /\ box \in Boxes /\ OneAlive(box)
  BY AnyStops DEF Live
<1>2. new \in Boxes
  BY <1>1, TailOK
<1> DEFINE G == Tells(proc, asked, starts)
<1>3. Within(box, G)
  BY DEF Live
<1> HIDE DEF G
<1>4. Within(new, G) /\ Head(box[q]) \in G[q]
  BY <1>1, <1>3, TailWithin
<1>5. Head(box[q]) \in PacketType /\ Knows(proc, asked, starts, Head(box[q]), q)
  BY <1>4, TellsAt DEF G
<1>6. OneAlive(new) /\ (Alive(Head(box[q])) => NoneAlive(new, Head(box[q]).req))
  BY <1>1, TailAlive
<1> QED
  BY <1>2, <1>4, <1>5, <1>6 DEF Live, G

\* A nonce gets old.
LEMMA OutdateLive ==
  ASSUME NEW box, Live(box), NEW m
  PROVE  Live(Outdate(box, m)) /\ NoneAlive(Outdate(box, m), m)
<1>1. Stopping(box, Nat) /\ box \in Boxes /\ OneAlive(box)
  BY AnyStops DEF Live
<1>2. Outdate(box, m) \in Boxes
  BY <1>1, OutdateOK
<1> DEFINE G == Tells(proc, asked, starts)
<1>3. G \in Kinds /\ (\A q \in Ports : \A p \in G[q] : Outdated(p, m) \in G[q]) /\ Within(box, G)
  BY TellsAt, OutdatedTells DEF Live
<1> HIDE DEF G
<1>4. Within(Outdate(box, m), G)
  BY <1>1, <1>3, OutdateWithin
<1> QED
  BY <1>1, <1>2, <1>4, OutdateAlive DEF Live, G

\* Datagrams that neither ask nor tell may always be there.
LEMMA LivePlainly == Plainly({box \in Boxes : Live(box)})
<1> DEFINE S == {box \in Boxes : Live(box)}
<1>1. ASSUME NEW box \in S, NEW q \in Ports, box[q] # <<>>
      PROVE  [box EXCEPT ![q] = Tail(box[q])] \in S
  <2> DEFINE new == [box EXCEPT ![q] = Tail(box[q])]
  <2>1. new = [box EXCEPT ![q] = Tail(box[q])]
    OBVIOUS
  <2> HIDE DEF new
  <2>2. Live(new)
    BY <1>1, <2>1, TailLive
  <2> QED
    BY <2>1, <2>2 DEF Live
<1>2. ASSUME NEW box \in S, NEW p \in PacketType, p.type \in Talk, NEW to
      PROVE  Send(box, p, to) \in S
  <2>1. Knows(proc, asked, starts, p, to) /\ ~Alive(p)
    BY <1>2 DEF Knows, Alive, Asks, Talk
  <2> QED
    BY <2>1, SendLive DEF Live
<1>3. ASSUME NEW box \in S, NEW m PROVE Outdate(box, m) \in S
  BY OutdateLive DEF Live
<1> HIDE DEF S
<1> QED
  <2>1. S \subseteq Boxes
    BY DEF S
  <2> QED
    BY <1>1, <1>2, <1>3, <2>1 DEF Plainly, S

-----------------------------------------------------------------------------
(* The steps.                                                              *)

Told == OneAlive(inbox') /\ Within(inbox', Tells(proc', asked', starts'))
Listens == IInv /\ FreshInv

\* What a step starts from.
LEMMA Listening ==
  ASSUME Listens
  PROVE  /\ IInv /\ Live(inbox) /\ proc \in [Dirs -> ProcType] /\ asked \in [Dirs -> SUBSET Nat]
         /\ starts \in Nat /\ starts <= starts /\ Seed \in Dirs /\ Members \subseteq Dirs /\ Seed \notin Members
         /\ proc[Seed].pc # "join"
         /\ \A d \in Dirs : proc[d].node <= starts /\ proc[d].node \in Nat
<1>1. IInv /\ starts \in Nat /\ proc \in [Dirs -> ProcType]
  BY ClusterAssumption DEF Listens, IInv, TypeOK
<1>2. \A d \in Dirs : proc[d].node <= starts /\ proc[d].node \in Nat
  BY <1>1 DEF IInv, NodeInv, ProcType
<1>3. starts <= starts
  BY <1>1
<1> QED
  BY <1>1, <1>2, <1>3, Constants DEF Listens, FreshInv, Live, IInv, TypeOK, Boxes, Members, SeedInv

\* A step that leaves the nodes of the members and what is noted alone, and a
\* seed with no more rows.
LEMMA HushStep ==
  ASSUME Listens, Live(inbox'), asked' = asked, starts' = starts,
         \A d \in Members : proc'[d].node = proc[d].node,
         proc'[Seed].pc = "run" => proc[Seed].pc = "run" /\ proc'[Seed].rows \subseteq proc[Seed].rows
  PROVE  Told
<1>1. Nodes(proc'[Seed].rows) \subseteq Nodes(proc[Seed].rows) \/ proc'[Seed].pc # "run"
  BY DEF Nodes
<1>2. OneAlive(inbox') /\ Within(inbox', Tells(proc, asked, starts))
  BY DEF Live
<1>3. Within(inbox', Tells(proc', asked, starts))
  <2>1. Noted(proc, proc', asked, asked, starts, inbox') /\ Covered(proc, proc', asked, asked, inbox')
    BY <1>1 DEF Noted, Covered
  <2> QED
    BY <1>2, <2>1, Listening, KnowsOn
<1> QED
  BY <1>2, <1>3 DEF Told

\* The steps in which a listener stays and no request or roster is sent.
LEMMA HushSteps ==
  ASSUME Listens, NEW d \in Dirs,
         \/ JoinDrops(d) \/ Ignore(d) \/ Stop(d) \/ Error(d) \/ Refused \/ Unregister
         \/ LeaveBegins(d) \/ LeaveSends(d) \/ LeaveCleans(d) \/ LeaveTimeout(d)
         \/ Term(d) \/ Outage(d) \/ (\E late : MemberAges(d, late))
         \/ Expire \/ (\E n, late : RowAges(n, late)) \/ (\E q \in Ports : Lose(q))
  PROVE  Told
<1> DEFINE S == {box \in Boxes : Live(box)}
<1>1. Plainly(S) /\ inbox \in S /\ IInv
  BY Listening, LivePlainly DEF Live
<1> HIDE DEF S
<1>2. inbox' \in S
  BY <1>1, PlainStep
<1>3. Live(inbox') /\ asked' = asked /\ starts' = starts
  BY <1>2 DEF S, JoinDrops, Ignore, Stop, Error, Refused, Unregister, LeaveBegins, LeaveSends, LeaveCleans,
              LeaveTimeout, Term, Outage, MemberAges, Expire, RowAges, Lose
<1>4. \/ proc' = proc
      \/ \E v : proc' = [proc EXCEPT ![d] = [proc[d] EXCEPT !.quit = v]]
      \/ proc' = [proc EXCEPT ![d] = [proc[d] EXCEPT !.stale = TRUE]]
      \/ \E rows \in SUBSET proc[Seed].rows : proc' = [proc EXCEPT ![Seed] = [proc[Seed] EXCEPT !.rows = rows]]
  BY <1>1, RowsGo DEF JoinDrops, Ignore, Stop, Error, Refused, LeaveBegins, LeaveSends, LeaveCleans,
              LeaveTimeout, Term, Outage, MemberAges, RowAges, Lose
<1>5. proc[d] \in ProcType /\ proc[Seed] \in ProcType /\ proc \in [Dirs -> ProcType] /\ Seed \in Dirs
  BY Listening
<1>6. \A e \in Dirs : /\ proc'[e].node = proc[e].node /\ proc'[e].pc = proc[e].pc
                      /\ proc'[e].rows = proc[e].rows \/ (e = Seed /\ proc'[e].rows \subseteq proc[e].rows)
  <2>1. CASE proc' = proc
    BY <2>1
  <2>2. ASSUME NEW v, proc' = [proc EXCEPT ![d] = [proc[d] EXCEPT !.quit = v]]
        PROVE  \A e \in Dirs : proc'[e].node = proc[e].node /\ proc'[e].pc = proc[e].pc /\ proc'[e].rows = proc[e].rows
    BY <1>5, <2>2 DEF ProcType
  <2>3. ASSUME proc' = [proc EXCEPT ![d] = [proc[d] EXCEPT !.stale = TRUE]]
        PROVE  \A e \in Dirs : proc'[e].node = proc[e].node /\ proc'[e].pc = proc[e].pc /\ proc'[e].rows = proc[e].rows
    BY <1>5, <2>3 DEF ProcType
  <2>4. ASSUME NEW rows \in SUBSET proc[Seed].rows,
               proc' = [proc EXCEPT ![Seed] = [proc[Seed] EXCEPT !.rows = rows]]
        PROVE  \A e \in Dirs : /\ proc'[e].node = proc[e].node /\ proc'[e].pc = proc[e].pc
                               /\ proc'[e].rows = proc[e].rows \/ (e = Seed /\ proc'[e].rows \subseteq proc[e].rows)
    BY <1>5, <2>4 DEF ProcType
  <2> QED
    BY <1>4, <2>1, <2>2, <2>3, <2>4
<1> QED
  BY <1>3, <1>5, <1>6, HushStep, Listening

\* A listener ends: nobody waits for its answers.
LEMMA EndSteps ==
  ASSUME Listens, NEW d \in Dirs,
         \/ JoinTimeout(d) \/ Kill(d) \/ Quit(d)
         \/ JoinAnswered(d) /\ ~(Valid([proc[d] EXCEPT !.cluster = First(d).cluster], First(d)) /\ proc[d].quit = "no")
  PROVE  Told
<1> DEFINE S == {box \in Boxes : Live(box)}
<1>1. Plainly(S) /\ inbox \in S /\ IInv
  BY Listening, LivePlainly DEF Live
<1> HIDE DEF S
<1>2. starts' = starts /\ \E box \in S : Gone(d, box)
  BY <1>1, PlainEnd
<1>3. PICK box : Live(box) /\ Gone(d, box)
  BY <1>2 DEF S
<1>4. /\ proc' = [proc EXCEPT ![d] = Off] /\ inbox' = [box EXCEPT ![proc[d].port] = <<>>]
      /\ asked' = [asked EXCEPT ![d] = {}] /\ box \in Boxes
  BY <1>3 DEF Gone, Live
<1>5. Off.node \notin 1..starts /\ Off.pc = "off"
  BY DEF Off, NoNode
<1>6. /\ proc'[d] = Off /\ \A e \in Dirs : e # d => proc'[e] = proc[e] /\ asked'[e] = asked[e]
  BY <1>4, Listening
<1>7. Within(box, Tells(proc', asked', starts))
  <2>1. Noted(proc, proc', asked, asked', starts, box)
    BY <1>5, <1>6, Listening DEF Noted
  <2>2. proc'[Seed].pc = "run" => proc[Seed].pc = "run" /\ proc'[Seed].rows = proc[Seed].rows
    BY <1>5, <1>6, Listening
  <2>3. Covered(proc, proc', asked, asked', box)
    BY <2>2 DEF Covered
  <2>4. Within(box, Tells(proc, asked, starts))
    BY <1>3 DEF Live
  <2> QED
    BY <2>1, <2>3, <2>4, Listening, KnowsOn
<1>8. Within(inbox', Tells(proc', asked', starts))
  BY <1>4, <1>7, ClearWithin
<1>9. OneAlive(inbox')
  BY <1>3, <1>4, ClearAlive DEF Live
<1> QED
  BY <1>2, <1>8, <1>9 DEF Told

\* The datagram that a listener takes.
LEMMA FirstLive ==
  ASSUME Listens, NEW d \in Dirs, Waiting(d)
  PROVE  /\ Live(Rest(d)) /\ First(d) \in PacketType /\ proc[d].port \in Ports
         /\ Knows(proc, asked, starts, First(d), proc[d].port)
         /\ Alive(First(d)) => NoneAlive(Rest(d), First(d).req)
<1>1. proc[d].port \in Ports /\ inbox[proc[d].port] # <<>> /\ Live(inbox)
  BY Listening DEF Waiting
<1>2. Rest(d) = [inbox EXCEPT ![proc[d].port] = Tail(inbox[proc[d].port])] /\ First(d) = Head(inbox[proc[d].port])
  BY DEF Rest, First
<1> DEFINE q == proc[d].port
<1> HIDE DEF q
<1>3. q \in Ports /\ inbox[q] # <<>> /\ Rest(d) = [inbox EXCEPT ![q] = Tail(inbox[q])] /\ First(d) = Head(inbox[q])
  BY <1>1, <1>2 DEF q
<1>4. /\ Live(Rest(d)) /\ Head(inbox[q]) \in PacketType /\ Knows(proc, asked, starts, Head(inbox[q]), q)
      /\ Alive(Head(inbox[q])) => NoneAlive(Rest(d), Head(inbox[q]).req)
  BY <1>1, <1>3, TailLive
<1> QED
  BY <1>1, <1>3, <1>4 DEF q

\* What an answer tells has been noted.
LEMMA AnswerTells ==
  ASSUME Listens, NEW d \in Members, Waiting(d), Answers(d, First(d))
  PROVE  Nodes(First(d).rows) \subseteq asked[d]
<1>1. First(d).type = "ROSTER" /\ First(d).fresh /\ First(d).req = proc[d].node
  BY DEF Answers
<1>2. Knows(proc, asked, starts, First(d), proc[d].port)
  BY FirstLive, Listening
<1> QED
  BY <1>1, <1>2 DEF Knows, Alive

\* An answer is taken: nothing else is under way for the node.
LEMMA TakeStep ==
  ASSUME Listens, NEW d \in Members, Waiting(d), Answers(d, First(d)), inbox' = Rest(d),
         asked' = [asked EXCEPT ![d] = {}], starts' = starts,
         NEW s, proc' = [proc EXCEPT ![d] = s], s.node = proc[d].node
  PROVE  Told
<1>1. /\ d \in Dirs /\ d # Seed /\ proc'[d] = s /\ \A e \in Dirs : e # d => proc'[e] = proc[e] /\ asked'[e] = asked[e]
  BY Listening
<1>2. Live(Rest(d)) /\ NoneAlive(Rest(d), proc'[d].node)
  <2>1. Alive(First(d)) /\ First(d).req = proc'[d].node
    BY <1>1 DEF Answers, Alive
  <2> QED
    BY <1>1, <2>1, FirstLive
<1>3. Within(inbox', Tells(proc', asked', starts))
  <2>1. Noted(proc, proc', asked, asked', starts, Rest(d))
    BY <1>1, <1>2, Listening DEF Noted
  <2>2. proc'[Seed] = proc[Seed]
    BY <1>1, Listening
  <2>3. Covered(proc, proc', asked, asked', Rest(d))
    BY <2>2 DEF Covered
  <2>4. Within(Rest(d), Tells(proc, asked, starts))
    BY <1>2 DEF Live
  <2> QED
    BY <2>1, <2>3, <2>4, Listening, KnowsOn
<1> QED
  BY <1>2, <1>3 DEF Told, Live

\* The answer to a heartbeat.
LEMMA SnapshotTold ==
  ASSUME Listens, NEW d \in Dirs, Snapshot(d)
  PROVE  Told
<1>1. /\ d \in Members /\ Waiting(d) /\ inbox' = Rest(d) /\ starts' = starts /\ d # Seed
      /\ proc \in [Dirs -> ProcType] /\ proc[d] \in ProcType
  BY Listening DEF Snapshot
<1>2. First(d) \in PacketType /\ Live(inbox')
  BY <1>1, FirstLive
<1>3. CASE Answers(d, First(d)) /\ Valid(proc[d], First(d))
  <2> DEFINE s == Adopt(proc[d], First(d))
  <2>1. proc' = [proc EXCEPT ![d] = s] /\ asked' = [asked EXCEPT ![d] = {}]
    BY <1>3 DEF Snapshot
  <2>2. s.node = proc[d].node
    BY <1>1 DEF Adopt, ProcType
  <2> HIDE DEF s
  <2> QED
    BY <1>1, <1>3, <2>1, <2>2, TakeStep
<1>4. CASE ~(Answers(d, First(d)) /\ Valid(proc[d], First(d)))
  <2>1. asked' = asked /\ (proc' = proc \/ proc' = [proc EXCEPT ![d] = [proc[d] EXCEPT !.quit = "refused"]])
    BY <1>4 DEF Snapshot
  <2>2. \A e \in Dirs : proc'[e].node = proc[e].node /\ (e # d => proc'[e] = proc[e])
    BY <1>1, <2>1 DEF ProcType
  <2>3. proc'[Seed] = proc[Seed] /\ \A e \in Members : proc'[e].node = proc[e].node
    BY <1>1, <2>2, Listening
  <2> QED
    BY <1>1, <1>2, <2>1, <2>3, HushStep
<1> QED
  BY <1>3, <1>4

\* The answer to a join request.
LEMMA AnsweredTold ==
  ASSUME Listens, NEW d \in Dirs, JoinAnswered(d)
  PROVE  Told
<1> DEFINE s == [proc[d] EXCEPT !.cluster = First(d).cluster]
<1>1. /\ d \in Members /\ Waiting(d) /\ Answers(d, First(d)) /\ starts' = starts /\ proc[d] \in ProcType
  BY Listening DEF JoinAnswered, Members
<1>2. s.quit = proc[d].quit
  BY <1>1 DEF ProcType
<1>3. CASE Valid(s, First(d)) /\ s.quit = "no"
  <2> DEFINE z == [Adopt(s, First(d)) EXCEPT !.pc = "run"]
  <2>1. proc' = [proc EXCEPT ![d] = z] /\ asked' = [asked EXCEPT ![d] = {}] /\ inbox' = Rest(d)
    BY <1>1, <1>3 DEF JoinAnswered
  <2>2. z.node = proc[d].node
    BY <1>1 DEF Adopt, ProcType
  <2> HIDE DEF z
  <2> QED
    BY <1>1, <2>1, <2>2, TakeStep
<1>4. CASE ~(Valid(s, First(d)) /\ s.quit = "no")
  BY <1>2, <1>4, EndSteps
<1> QED
  BY <1>3, <1>4

\* A new seed finds no requests.
LEMMA SeedTold ==
  ASSUME Listens, StartSeed(SeedPort), Closed(inbox, Bound)
  PROVE  Told
<1>1. Live(inbox) /\ inbox' = inbox /\ asked' = asked
  BY Listening DEF StartSeed
<1>2. CASE SeedPort \in Bound
  <2>1. proc' = proc /\ starts' = starts
    BY <1>2 DEF StartSeed
  <2> QED
    BY <1>1, <2>1, HushStep
<1>3. CASE SeedPort \notin Bound
  <2>1. inbox[SeedPort] = <<>>
    BY <1>3, ClusterAssumption DEF Closed
  <2>2. starts' = starts + 1 /\ \E s : proc' = [proc EXCEPT ![Seed] = s]
    BY <1>3 DEF StartSeed
  <2>3. starts' \in Nat /\ starts <= starts' /\ \A d \in Members : proc'[d] = proc[d]
    BY <2>2, Listening
  <2>4. Within(inbox, Tells(proc, asked, starts)) /\ OneAlive(inbox)
    BY <1>1 DEF Live
  <2>5. Within(inbox, Tells(proc', asked, starts'))
    <3>1. Noted(proc, proc', asked, asked, starts, inbox) /\ Covered(proc, proc', asked, asked, inbox)
      BY <2>1, <2>3 DEF Noted, Covered
    <3>2. starts \in Nat
      BY Listening
    <3> QED
      BY <2>3, <2>4, <3>1, <3>2, KnowsOn
  <2> QED
    BY <1>1, <2>4, <2>5 DEF Told
<1> QED
  BY <1>2, <1>3

\* A member asks: the nodes of the seed's roster are noted, and older requests
\* and answers are of no use any more.
LEMMA AskStep ==
  ASSUME Listens, NEW d \in Members, NEW s, NEW w, NEW type \in Asks,
         w.node \in 1..starts', w.node = proc[d].node \/ w.node \notin 1..starts,
         w.port \in Ports \union {0}, w.cluster \in Nat, s.node = w.node,
         proc' = [proc EXCEPT ![d] = s], inbox' = Request(w, type),
         asked' = [asked EXCEPT ![d] = Nodes(proc[Seed].rows)],
         \A e \in Members : e # d => proc[e].node # w.node,
         starts' \in Nat, starts <= starts'
  PROVE  Told
<1> DEFINE n == w.node
           p == Packet(type, w, n, {}, TRUE)
           box == Outdate(inbox, n)
<1>1. /\ d \in Dirs /\ d # Seed /\ proc'[d] = s /\ asked'[d] = Nodes(proc[Seed].rows)
      /\ \A e \in Dirs : e # d => proc'[e] = proc[e] /\ asked'[e] = asked[e]
  BY Listening
<1>2. Live(box) /\ NoneAlive(box, n)
  BY Listening, OutdateLive
<1>3. inbox' = Send(box, p, SeedPort)
  BY DEF Request
<1>4. n \in Nat /\ n \in 1..starts'
  BY Listening
<1>5. /\ p \in PacketType /\ p.type = type /\ p.req = n /\ p.type \in Asks
  <2>1. n \in Nat \union Dirs /\ {} \in SUBSET Row /\ type \in {"JOIN", "BEAT"}
    BY <1>4 DEF Asks
  <2> HIDE DEF n
  <2> QED
    BY <1>4, <2>1 DEF Packet, PacketType, Asks, n
<1> HIDE DEF p, box, n
<1>6. Within(box, Tells(proc', asked', starts'))
  <2>1. Noted(proc, proc', asked, asked', starts, box)
    BY <1>1, <1>2, Listening DEF Noted, n
  <2>2. proc'[Seed] = proc[Seed]
    BY <1>1, Listening
  <2>3. Covered(proc, proc', asked, asked', box)
    BY <2>2 DEF Covered
  <2>4. Within(box, Tells(proc, asked, starts))
    BY <1>2 DEF Live
  <2> QED
    BY <2>1, <2>3, <2>4, Listening, KnowsOn
<1>7. Knows(proc', asked', starts', p, SeedPort)
  <2>1. ASSUME NEW e \in Members, proc'[e].node = n PROVE e = d
    BY <1>1, <2>1, Listening DEF n
  <2>2. proc[Seed].pc = "run" => Nodes(proc[Seed].rows) # {}
    BY Listening DEF IInv, SeedInv, SeedRoster, Nodes
  <2>3. proc'[Seed] = proc[Seed]
    BY <1>1, Listening
  <2>4. p.type # "ROSTER"
    BY <1>5 DEF Asks
  <2> QED
    BY <1>1, <1>4, <1>5, <2>1, <2>2, <2>3, <2>4 DEF Knows
<1>8. OneAlive(inbox')
  BY <1>2, <1>3, <1>5, SendAlive DEF Live
<1>9. Within(inbox', Tells(proc', asked', starts'))
  <2> DEFINE G == Tells(proc', asked', starts')
  <2>1. G \in Kinds /\ p \in G[SeedPort] /\ SeedPort \in Ports
    BY <1>5, <1>7, TellsAt, ClusterAssumption
  <2>2. box \in Boxes /\ Within(box, G)
    BY <1>2, <1>6 DEF Live
  <2> HIDE DEF G
  <2>3. Within(Send(box, p, SeedPort), G)
    BY <1>5, <2>1, <2>2, SendWithin
  <2> QED
    BY <1>3, <2>3 DEF G
<1> QED
  BY <1>8, <1>9 DEF Told

\* A heartbeat and a join request are sent.
LEMMA AskSteps ==
  ASSUME Listens, NEW d \in Members,
         (\E late : Beat(d, late)) \/ \E port \in PortsOf[d] : Join(d, port)
  PROVE  Told
<1>1. /\ d \in Dirs /\ proc[d] \in ProcType /\ starts \in Nat /\ IInv /\ Members \subseteq Dirs
      /\ \A e \in Dirs : proc[e].node <= starts /\ proc[e].node \in Nat
  BY Listening
<1>2. ASSUME NEW late, Beat(d, late) PROVE Told
  <2>1. PICK s : proc' = [proc EXCEPT ![d] = s] /\ s.node = proc[d].node
    <3>1. [proc[d] EXCEPT !.rows = {Own(proc[d])}, !.connected = FALSE].node = proc[d].node
      BY <1>1 DEF ProcType
    <3> QED
      BY <1>2, <3>1 DEF Beat
  <2>2. /\ inbox' = Request(proc[d], "BEAT") /\ asked' = [asked EXCEPT ![d] = Nodes(proc[Seed].rows)]
        /\ starts' = starts /\ proc[d].pc = "run" /\ "BEAT" \in Asks
    BY <1>2 DEF Beat, Running, Asks
  <2>3. proc[d].node # NoNode /\ \A e \in Members : e # d => proc[e].node # proc[d].node
    BY <1>1, <2>2, Local DEF IInv, NodeInv
  <2>4. /\ proc[d].node \in 1..starts' /\ starts' \in Nat /\ starts <= starts'
        /\ proc[d].port \in Ports \union {0} /\ proc[d].cluster \in Nat
    BY <1>1, <2>2, <2>3 DEF NoNode, ProcType
  <2> QED
    BY <2>1, <2>2, <2>3, <2>4, AskStep
<1>3. ASSUME NEW port \in PortsOf[d], Join(d, port) PROVE Told
  <2> DEFINE w == New(d, port)
             s == [w EXCEPT !.pc = "join"]
  <2>1. /\ inbox' = Request(w, "JOIN") /\ asked' = [asked EXCEPT ![d] = Nodes(proc[Seed].rows)]
        /\ starts' = starts + 1 /\ proc' = [proc EXCEPT ![d] = s] /\ "JOIN" \in Asks
    BY <1>3 DEF Join, Asks
  <2>2. w.node = starts + 1 /\ w.port = port /\ w.cluster = 0 /\ s.node = starts + 1
    BY DEF New, Off, NoNode
  <2>3. port \in Ports \union {0}
    BY <1>1, ClusterAssumption
  <2>4. /\ w.node \in 1..starts' /\ starts' \in Nat /\ starts <= starts' /\ w.node \notin 1..starts
        /\ w.port \in Ports \union {0} /\ w.cluster \in Nat /\ s.node = w.node
        /\ \A e \in Members : proc[e].node # w.node
    BY <1>1, <2>1, <2>2, <2>3
  <2> HIDE DEF w, s
  <2> QED
    BY <2>1, <2>4, AskStep
<1> QED
  BY <1>2, <1>3

\* The seed answers a request with rows that have been noted.
LEMMA RegisterTold ==
  ASSUME Listens, Register
  PROVE  Told
<1> DEFINE p == First(Seed)
           row == [node |-> p.node, port |-> p.from]
           s == [proc[Seed] EXCEPT !.rows = @ \union {row}]
           a == Packet("ROSTER", proc[Seed], p.req, s.rows, p.fresh)
           B == [d \in Dirs |-> IF asked[d] = {} THEN {} ELSE asked[d] \union {p.node}]
           box == Rest(Seed)
<1>1. /\ proc \in [Dirs -> ProcType] /\ starts \in Nat /\ Seed \in Dirs /\ proc[Seed] \in ProcType
      /\ Members \subseteq Dirs /\ Seed \notin Members
  BY Listening
<1>2. /\ Waiting(Seed) /\ proc[Seed].pc = "run" /\ p.type \in Asks
      /\ proc' = [proc EXCEPT ![Seed] = s] /\ inbox' = Send(box, a, p.from) /\ starts' = starts /\ asked' = B
  BY DEF Register, Handles, Running, ForRoster, Answer, Ask, Asks
<1>3. /\ Live(box) /\ p \in PacketType /\ Knows(proc, asked, starts, p, proc[Seed].port)
      /\ (Alive(p) => NoneAlive(box, p.req))
  BY <1>1, <1>2, FirstLive
<1>4. /\ p.node \in Nat /\ p.req \in Nat \union Dirs /\ p.fresh \in BOOLEAN /\ p.from \in Ports \union {0}
      /\ row \in Row /\ row.node = p.node
  BY <1>3 DEF PacketType, Row
<1>5. s \in ProcType /\ s.node = proc[Seed].node /\ s.rows = proc[Seed].rows \union {row} /\ s.pc = "run"
  BY <1>1, <1>2, <1>4 DEF ProcType
<1> HIDE DEF p, box
<1>6. a \in PacketType /\ a.type = "ROSTER" /\ a.req = p.req /\ a.rows = s.rows /\ (Alive(a) => Alive(p))
  <2>1. /\ proc[Seed].port \in Ports \union {0} /\ proc[Seed].node \in Nat /\ proc[Seed].cluster \in Nat
        /\ s.rows \in SUBSET Row
    BY <1>1, <1>5 DEF ProcType
  <2> HIDE DEF s
  <2>2. a \in PacketType /\ a.type = "ROSTER" /\ a.req = p.req /\ a.rows = s.rows /\ a.fresh = p.fresh
    BY <1>4, <2>1 DEF Packet, PacketType
  <2> HIDE DEF a
  <2> QED
    BY <1>2, <2>2 DEF Alive
<1>7. /\ Nodes(s.rows) \subseteq Nodes(proc[Seed].rows) \union {p.node}
      /\ \A d \in Members : /\ asked[d] \subseteq B[d]
                            /\ asked[d] # {} => B[d] = asked[d] \union {p.node}
  BY <1>1, <1>4, <1>5 DEF Nodes
<1> HIDE DEF a, s, B, row
<1>8. proc'[Seed] = s /\ \A e \in Members : proc'[e] = proc[e]
  BY <1>1, <1>2
<1> DEFINE G == Tells(proc', B, starts)
<1>9. Within(box, G)
  <2>1. Noted(proc, proc', asked, B, starts, box)
    BY <1>7, <1>8 DEF Noted
  <2>2. Covered(proc, proc', asked, B, box)
    BY <1>2, <1>7, <1>8 DEF Covered
  <2>3. Within(box, Tells(proc, asked, starts))
    BY <1>3 DEF Live
  <2> QED
    BY <2>1, <2>2, <2>3, Listening, KnowsOn
<1>10. \A q : Knows(proc', B, starts, a, q)
  <2>1. ASSUME NEW d \in Members, proc'[d].node = a.req, Alive(a) PROVE Nodes(a.rows) \subseteq B[d]
    <3>1. asked[d] # {} /\ Nodes(proc[Seed].rows) \subseteq asked[d]
      BY <1>2, <1>3, <1>6, <1>8, <2>1 DEF Knows
    <3> QED
      BY <1>6, <1>7, <3>1
  <2>2. a.type \notin Asks /\ (Alive(a) => a.req \in 1..starts)
    BY <1>3, <1>6 DEF Knows, Asks
  <2> QED
    BY <2>1, <2>2 DEF Knows
<1>11. Within(inbox', G)
  <2>1. G \in Kinds /\ \A q \in Ports : a \in G[q]
    BY <1>6, <1>10, TellsAt
  <2>2. box \in Boxes
    BY <1>3 DEF Live
  <2> HIDE DEF G
  <2>3. Within(Send(box, a, p.from), G)
    BY <1>6, <1>9, <2>1, <2>2, SendWithin
  <2> QED
    BY <1>2, <2>3
<1>12. OneAlive(inbox')
  BY <1>2, <1>3, <1>6, SendAlive DEF Live
<1> QED
  BY <1>2, <1>11, <1>12 DEF Told

\* The rows of a member that is connected change with an answer only.
LEMMA RosterTaken ==
  ASSUME Listens, Next, NEW d \in Members, proc'[d].rows # proc[d].rows, proc'[d].connected
  PROVE  Waiting(d) /\ Answers(d, First(d)) /\ proc'[d].rows = First(d).rows
<1>1. /\ d \in Dirs /\ d # Seed /\ proc \in [Dirs -> ProcType] /\ Seed \in Dirs /\ Members \subseteq Dirs /\ IInv
      /\ proc[d] \in ProcType
  BY Listening
<1>2. Off.rows = {} /\ ~Off.connected
  BY DEF Off
<1>3. proc' # proc
  OBVIOUS
<1>4. ASSUME NEW e \in Dirs, NEW s, proc' = [proc EXCEPT ![e] = s] PROVE e = d /\ s.rows # proc[d].rows /\ s.connected
  BY <1>1, <1>4
<1>5. ASSUME NEW e \in Dirs, NEW box, Gone(e, box) PROVE FALSE
  BY <1>2, <1>4, <1>5 DEF Gone
<1>6. ASSUME NEW e \in Dirs, Stop(e) \/ Term(e) \/ Outage(e) \/ \E late : MemberAges(e, late) PROVE FALSE
  <2>1. CASE Stop(e) \/ Term(e)
    <3>1. PICK v : proc' = [proc EXCEPT ![e] = [proc[e] EXCEPT !.quit = v]]
      BY <2>1 DEF Stop, Term
    <3>2. e = d /\ [proc[e] EXCEPT !.quit = v].rows # proc[d].rows
      BY <1>4, <3>1
    <3> QED
      BY <1>1, <3>2 DEF ProcType
  <2>2. CASE Outage(e) \/ \E late : MemberAges(e, late)
    <3>1. proc' = [proc EXCEPT ![e] = [proc[e] EXCEPT !.stale = TRUE]]
      BY <2>2 DEF MemberAges, Outage
    <3>2. e = d /\ [proc[e] EXCEPT !.stale = TRUE].rows # proc[d].rows
      BY <1>4, <3>1
    <3> QED
      BY <1>1, <3>2 DEF ProcType
  <2> QED
    BY <1>6, <2>1, <2>2
<1>7. ASSUME NEW e \in Dirs, \E late : Beat(e, late) PROVE FALSE
  <2> DEFINE z == [proc[e] EXCEPT !.rows = {Own(proc[e])}, !.connected = FALSE]
  <2>1. proc' = [proc EXCEPT ![e] = z] \/ proc' = [proc EXCEPT ![e] = proc[e]]
    BY <1>7 DEF Beat
  <2>2. ~z.connected
    BY <1>1 DEF ProcType
  <2> HIDE DEF z
  <2> QED
    BY <1>4, <2>1, <2>2
<1>8. ASSUME NEW e \in Members, NEW q, Join(e, q) PROVE FALSE
  <2>1. [New(e, q) EXCEPT !.pc = "join"].rows = {} /\ Off.rows = {}
    BY DEF New, Off
  <2>2. proc' = [proc EXCEPT ![e] = [New(e, q) EXCEPT !.pc = "join"]] /\ proc[e] = Off
    BY <1>1, <1>8, Local DEF Join
  <2> QED
    BY <1>1, <1>4, <2>1, <2>2
<1>9. \A s : proc' # [proc EXCEPT ![Seed] = s]
  BY <1>1, <1>4
<1>10. ASSUME NEW e \in Dirs, JoinAnswered(e)
       PROVE  Waiting(d) /\ Answers(d, First(d)) /\ proc'[d].rows = First(d).rows
  <2> DEFINE s == [proc[e] EXCEPT !.cluster = First(e).cluster]
             z == [Adopt(s, First(e)) EXCEPT !.pc = "run"]
  <2>1. proc' = [proc EXCEPT ![e] = z] /\ Waiting(e) /\ Answers(e, First(e))
    BY <1>5, <1>10 DEF JoinAnswered
  <2>2. z.rows = First(e).rows
    BY <1>1 DEF Adopt, ProcType
  <2> HIDE DEF z
  <2> QED
    BY <1>1, <1>4, <2>1, <2>2
<1>11. ASSUME NEW e \in Dirs, Snapshot(e)
       PROVE  Waiting(d) /\ Answers(d, First(d)) /\ proc'[d].rows = First(d).rows
  <2> DEFINE z == Adopt(proc[e], First(e))
             v == [proc[e] EXCEPT !.quit = "refused"]
  <2>1. \/ proc' = [proc EXCEPT ![e] = z] /\ Waiting(e) /\ Answers(e, First(e))
        \/ proc' = [proc EXCEPT ![e] = v]
    BY <1>3, <1>11 DEF Snapshot
  <2>2. z.rows = First(e).rows /\ v.rows = proc[e].rows
    BY <1>1 DEF Adopt, ProcType
  <2> HIDE DEF z, v
  <2> QED
    BY <1>1, <1>4, <2>1, <2>2
<1>12. ASSUME NEW e \in Dirs, JoinTimeout(e) \/ Kill(e) \/ Quit(e) PROVE FALSE
  BY <1>5, <1>12 DEF JoinTimeout, Kill, Quit
<1>13. CASE StartSeed(SeedPort) \/ Register \/ Unregister \/ Expire
  BY <1>3, <1>9, <1>13 DEF StartSeed, Register, Unregister, Expire
<1>14. ASSUME NEW e \in Dirs,
              \/ JoinDrops(e) \/ Ignore(e) \/ Error(e) \/ Refused \/ LeaveBegins(e) \/ LeaveSends(e)
              \/ LeaveCleans(e) \/ LeaveTimeout(e) \/ (\E q \in Ports : Lose(q)) \/ (\E n, late : RowAges(n, late))
       PROVE  FALSE
  BY <1>3, <1>14 DEF JoinDrops, Ignore, Error, Refused, LeaveBegins, LeaveSends, LeaveCleans, LeaveTimeout,
                     Lose, RowAges
<1> QED
  BY <1>1, <1>6, <1>7, <1>8, <1>10, <1>11, <1>12, <1>13, <1>14 DEF Next, Listener

-----------------------------------------------------------------------------
(* The theorems.                                                           *)

\* A node has at most one request or answer under its latest nonce, and the
\* nodes that it will be told have been noted (bc_rpc, bc_service, bc_handle).
THEOREM FreshHolds == Spec => []FreshInv
<1>1. Init => FreshInv
  <2> SUFFICES ASSUME Init PROVE FreshInv
    OBVIOUS
  <2>1. \A q \in Ports : DOMAIN inbox[q] = {}
    BY DEF Init
  <2> QED
    BY <2>1 DEF FreshInv, OneAlive, Within
<1>2. IInv /\ ClusterInv /\ FreshInv /\ [Next]_vars => FreshInv'
  <2> SUFFICES ASSUME IInv, ClusterInv, FreshInv, [Next]_vars PROVE Told
    BY DEF Told, FreshInv
  <2>1. Listens
    BY DEF Listens
  <2>2. Closed(inbox, Bound)
    BY DEF ClusterInv, Serves, PortsIn, Bound
  <2>3. CASE UNCHANGED vars
    BY <2>1, <2>3, HushStep, Listening DEF vars
  <2>4. CASE Next
    <3>1. Seed \in Dirs /\ \A d \in Dirs : \A late : Beat(d, late) => d \in Members
      BY Constants DEF Beat
    <3> QED
      BY <2>1, <2>2, <2>4, <3>1, HushSteps, EndSteps, SnapshotTold, AnsweredTold, SeedTold, AskSteps, RegisterTold
      DEF Next, Listener
  <2> QED
    BY <2>3, <2>4
<1> QED
  BY <1>1, <1>2, Invariance, ClusterHolds, PTL DEF Spec

\* A member never takes over a roster with a node that had been dropped from the
\* seed's before the member asked (bc_snapshot).
THEOREM RosterIsFresh == Spec => FreshRoster
<1>1. IInv /\ FreshInv /\ [Next]_vars =>
        [\A d \in Members : proc'[d].rows # proc[d].rows /\ proc'[d].connected
                              => Nodes(proc'[d].rows) \subseteq asked[d]]_vars
  <2> SUFFICES ASSUME IInv, FreshInv, Next, NEW d \in Members, proc'[d].rows # proc[d].rows, proc'[d].connected
               PROVE  Nodes(proc'[d].rows) \subseteq asked[d]
    OBVIOUS
  <2>1. Listens
    BY DEF Listens
  <2>2. Waiting(d) /\ Answers(d, First(d)) /\ proc'[d].rows = First(d).rows
    BY <2>1, RosterTaken
  <2>3. Nodes(First(d).rows) \subseteq asked[d]
    BY <2>1, <2>2, AnswerTells
  <2> QED
    BY <2>2, <2>3
<1> QED
  BY <1>1, Invariance, FreshHolds, PTL DEF Spec, FreshRoster

=============================================================================
