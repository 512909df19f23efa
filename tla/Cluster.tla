------------------------------ MODULE Cluster ------------------------------
(***************************************************************************)
(* Cluster membership (cluster.c).  `cluster init' or `join' in a state    *)
(* directory starts a listener with a fresh node id on a loopback UDP      *)
(* port; the seed's listener owns the roster, and a member learns it from  *)
(* the answers to its join request and to its heartbeats.                  *)
(*                                                                         *)
(* A port keeps datagrams in order, drops them when its buffer is full and *)
(* loses them with its socket.  A nonce is either that of a node's latest  *)
(* request (fresh) or an older one.  Rows form a set; the seed's own row,  *)
(* which the code keeps first, is the one with the seed's node id.  Clocks *)
(* are left out: old and stale say that three deadlines have passed.       *)
(***************************************************************************)
EXTENDS Naturals, Sequences, FiniteSets

CONSTANTS
  Dirs, Seed,        \* state directories; the one `cluster init' is used in
  Ports, SeedPort,
  PortsOf,           \* bound: per directory, the -p options used there
  Leavers,           \* bound: the directories in which `leave' is used, once
  BcMax,             \* BC_MAX: rows of a roster
  Room,              \* datagrams a socket buffer holds
  MaxStarts,         \* bound: listeners started
  MaxFaults          \* bound: signals to a listener, lost datagrams, late answers

ASSUME ClusterAssumption ==
  /\ Seed \in Dirs /\ SeedPort \in Ports /\ BcMax \in Nat \ {0} /\ Room \in Nat
  /\ MaxStarts \in Nat /\ MaxFaults \in Nat /\ 0 \notin Ports
  /\ PortsOf \in [Dirs -> SUBSET Ports] /\ PortsOf[Seed] = {SeedPort} /\ Leavers \subseteq Dirs

VARIABLES
  proc,    \* per directory: the listener; its lock is held unless pc is "off"
  files,   \* per directory: the state files
  inbox,   \* per port: the datagrams in the socket buffer
  cmd,     \* per directory: the `leave' command
  old,     \* nodes the seed has not heard of for three deadlines
  starts, faults,
  asked    \* history: nodes on the seed's roster since an unanswered request

vars == <<proc, files, inbox, cmd, old, starts, faults, asked>>

NoNode == 0     \* also a cluster id and a port of zero bytes
Off == [pc |-> "off", node |-> NoNode, port |-> 0, cluster |-> NoNode, rows |-> {},
        connected |-> FALSE, stale |-> FALSE, quit |-> "no"]
NoFiles == [whole |-> FALSE, node |-> NoNode, port |-> 0, cluster |-> NoNode, rows |-> {},
            state |-> "none"]
NoCmd == [pc |-> "idle", node |-> NoNode, port |-> 0, cluster |-> NoNode]

Members == Dirs \ {Seed}
Fault == faults < MaxFaults /\ faults' = faults + 1
Takes(fault) == IF fault THEN Fault ELSE UNCHANGED faults
Running(d) == proc[d].pc = "run" /\ proc[d].quit = "no"
Nodes(rows) == {r.node : r \in rows}
Own(s) == [node |-> s.node, port |-> s.port]
Bound == {proc[d].port : d \in Dirs}

\* What bc_persist, bc_roster_write and the `state' writes leave on disk.
Persisted(s) == [whole |-> TRUE, node |-> s.node, port |-> s.port, cluster |-> s.cluster,
                 rows |-> s.rows, state |-> IF s.connected THEN "initialized" ELSE "disconnected"]

Init ==
  /\ proc = [d \in Dirs |-> Off] /\ files = [d \in Dirs |-> NoFiles]
  /\ inbox = [p \in Ports |-> <<>>] /\ cmd = [d \in Dirs |-> NoCmd]
  /\ old = {} /\ starts = 0 /\ faults = 0 /\ asked = [d \in Dirs |-> {}]

-----------------------------------------------------------------------------
(* Datagrams.  req is the node whose nonce the datagram carries.           *)

Packet(type, s, req, rows, fresh) ==
  [type |-> type, from |-> s.port, node |-> s.node, cluster |-> s.cluster, req |-> req,
   rows |-> rows, fresh |-> fresh]

Send(box, p, to) == IF to \in Bound /\ to \in Ports /\ Len(box[to]) < Room
                    THEN [box EXCEPT ![to] = Append(@, p)] ELSE box
Outdate(box, n) == [q \in Ports |-> [i \in DOMAIN box[q] |->
                     [box[q][i] EXCEPT !.fresh = @ /\ box[q][i].req # n]]]
Request(s, type) == Send(Outdate(inbox, s.node), Packet(type, s, s.node, {}, TRUE), SeedPort)

Waiting(d) == proc[d].port \in Ports /\ inbox[proc[d].port] # <<>>
First(d) == Head(inbox[proc[d].port])
Rest(d) == [inbox EXCEPT ![proc[d].port] = Tail(@)]
Answer(d, type, rows) ==
  Send(Rest(d), Packet(type, proc[d], First(d).req, rows, First(d).fresh), First(d).from)

\* The listener ends: bc_cleanup, then the socket and the lock are closed.
Gone(d, box) == /\ proc' = [proc EXCEPT ![d] = Off]
                /\ inbox' = [box EXCEPT ![proc[d].port] = <<>>]
                /\ old' = (IF d = Seed THEN {} ELSE old) /\ asked' = [asked EXCEPT ![d] = {}]

-----------------------------------------------------------------------------
(* bc_start.                                                               *)

New(d, port) == [Off EXCEPT !.node = starts + 1, !.port = port]

\* `cluster init' recovers what a killed listener left.
StartSeed(port) ==
  LET s == [New(Seed, port) EXCEPT !.pc = "run", !.cluster = starts + 1, !.connected = TRUE,
                                   !.rows = {[node |-> starts + 1, port |-> port]}] IN
  /\ proc[Seed].pc = "off" /\ starts < MaxStarts
  /\ IF port \in Bound THEN files' = [files EXCEPT ![Seed] = NoFiles] /\ UNCHANGED <<proc, starts>>
     ELSE /\ starts' = starts + 1 /\ proc' = [proc EXCEPT ![Seed] = s]
          /\ files' = [files EXCEPT ![Seed] = Persisted(s)]
  /\ UNCHANGED <<inbox, cmd, old, faults, asked>>

\* `cluster join' refuses while state files are there, and asks the seed.
Join(d, port) ==
  LET s == New(d, port) IN
  /\ proc[d].pc = "off" /\ starts < MaxStarts /\ ~files[d].whole /\ port \notin Bound
  /\ starts' = starts + 1
  /\ proc' = [proc EXCEPT ![d] = [s EXCEPT !.pc = "join"]]
  /\ files' = [files EXCEPT ![d] = NoFiles]
  /\ inbox' = Request(s, "JOIN")
  /\ asked' = [asked EXCEPT ![d] = Nodes(proc[Seed].rows)]
  /\ UNCHANGED <<cmd, old, faults>>

\* bc_snapshot: the roster has this node in it and comes from the seed.
Valid(s, p) == /\ p.rows # {} /\ p.cluster = s.cluster /\ Own(s) \in p.rows
               /\ [node |-> p.node, port |-> SeedPort] \in p.rows
Adopt(s, p) == [s EXCEPT !.rows = p.rows, !.connected = TRUE, !.stale = FALSE]

\* Mutant of Answers: any roster from the seed will do.
AnswersAny(d, p) == p.type = "ROSTER" /\ p.from = SeedPort

Answers(d, p) == /\ p.type = "ROSTER" /\ p.from = SeedPort
                 /\ p.req = proc[d].node /\ p.fresh

\* bc_rpc of the join request: other datagrams are dropped.
JoinDrops(d) ==
  /\ proc[d].pc = "join" /\ Waiting(d) /\ ~Answers(d, First(d)) /\ inbox' = Rest(d)
  /\ UNCHANGED <<proc, files, cmd, old, starts, faults, asked>>

\* The answer: the cluster's id and roster are taken over and persisted.  A
\* listener that was told to quit meanwhile leaves again.
JoinAnswered(d) ==
  LET s == [proc[d] EXCEPT !.cluster = First(d).cluster] IN
  /\ proc[d].pc = "join" /\ Waiting(d) /\ Answers(d, First(d))
  /\ IF Valid(s, First(d)) /\ s.quit = "no"
     THEN /\ proc' = [proc EXCEPT ![d] = [Adopt(s, First(d)) EXCEPT !.pc = "run"]]
          /\ files' = [files EXCEPT ![d] = Persisted(Adopt(s, First(d)))]
          /\ inbox' = Rest(d) /\ asked' = [asked EXCEPT ![d] = {}] /\ UNCHANGED old
     ELSE /\ Gone(d, Send(Rest(d), Packet("LEAVE", s, NoNode, {}, FALSE), SeedPort))
          /\ UNCHANGED files
  /\ UNCHANGED <<cmd, starts, faults>>

\* Without an answer in time, no LEAVE is sent: the cluster is not known.
JoinTimeout(d) ==
  /\ proc[d].pc = "join" /\ Gone(d, inbox)
  /\ UNCHANGED <<files, cmd, starts, faults>>

-----------------------------------------------------------------------------
(* bc_service: the timer.                                                  *)

\* Mutant of Expire: the loop over the rows ends one early.
ExpireAllButFirst ==
  LET due == old \ {CHOOSE n \in old : \A m \in old : n <= m}
      s == [proc[Seed] EXCEPT !.rows = {r \in @ : r.node \notin due}] IN
  /\ Running(Seed) /\ old # {}
  /\ proc' = [proc EXCEPT ![Seed] = s] /\ files' = [files EXCEPT ![Seed] = Persisted(s)]
  /\ old' = old \ due
  /\ UNCHANGED <<inbox, cmd, starts, faults, asked>>

\* The seed drops the rows it has not heard of.
Expire ==
  LET s == [proc[Seed] EXCEPT !.rows = {r \in @ : r.node \notin old}] IN
  /\ Running(Seed) /\ old # {}
  /\ proc' = [proc EXCEPT ![Seed] = s] /\ files' = [files EXCEPT ![Seed] = Persisted(s)]
  /\ old' = {}
  /\ UNCHANGED <<inbox, cmd, starts, faults, asked>>

\* A member sends a heartbeat, and gives up the roster when no answer has come
\* for three deadlines.  That a heartbeat overtakes the answer to the one
\* before counts as a fault.
Outstanding(n) == \E q \in Ports : \E i \in DOMAIN inbox[q] :
  LET p == inbox[q][i] IN p.req = n /\ p.fresh /\ p.type \in {"BEAT", "ROSTER"}

\* Mutant of Beat: the roster is kept.
BeatKeeps(d, late) ==
  /\ d \in Members /\ Running(d)
  /\ late = Outstanding(proc[d].node) /\ Takes(late)
  /\ inbox' = Request(proc[d], "BEAT")
  /\ asked' = [asked EXCEPT ![d] = Nodes(proc[Seed].rows)]
  /\ UNCHANGED <<proc, files, cmd, old, starts>>

Beat(d, late) ==
  LET s == IF proc[d].stale /\ Cardinality(proc[d].rows) # 1
           THEN [proc[d] EXCEPT !.rows = {Own(proc[d])}, !.connected = FALSE] ELSE proc[d] IN
  /\ d \in Members /\ Running(d)
  /\ late = Outstanding(proc[d].node) /\ Takes(late)
  /\ inbox' = Request(proc[d], "BEAT")
  /\ asked' = [asked EXCEPT ![d] = Nodes(proc[Seed].rows)]
  /\ proc' = [proc EXCEPT ![d] = s] /\ files' = [files EXCEPT ![d] = Persisted(s)]
  /\ UNCHANGED <<cmd, old, starts>>

-----------------------------------------------------------------------------
(* bc_service and bc_handle: a datagram.                                   *)

\* A member takes the answer to its latest heartbeat, and drops older ones.
Snapshot(d) ==
  LET s == Adopt(proc[d], First(d)) IN
  /\ d \in Members /\ Running(d) /\ Waiting(d) /\ First(d).type = "ROSTER"
  /\ inbox' = Rest(d)
  /\ IF Answers(d, First(d)) /\ Valid(proc[d], First(d))
     THEN /\ proc' = [proc EXCEPT ![d] = s] /\ files' = [files EXCEPT ![d] = Persisted(s)]
          /\ asked' = [asked EXCEPT ![d] = {}]
     ELSE /\ proc' = IF Answers(d, First(d)) THEN [proc EXCEPT ![d].quit = "refused"] ELSE proc
          /\ UNCHANGED <<files, asked>>
  /\ UNCHANGED <<cmd, old, starts, faults>>

\* Mutant of Mine: a request of any cluster is served.
MineAny(d) == TRUE

ForRoster(d) == d = Seed /\ First(d).type \in {"JOIN", "BEAT", "LEAVE"}

\* What bc_handle goes on with: a JOIN or a request of this cluster, and about
\* the roster only what does not come in the seed's own name.
Mine(d) == /\ First(d).type = "JOIN" \/ First(d).cluster = proc[d].cluster
           /\ ForRoster(d) => First(d).node # proc[d].node
Handles(d) == /\ Running(d) /\ Waiting(d)
              /\ (d \in Members => First(d).type # "ROSTER") /\ First(d).rows = {} /\ Mine(d)

Ignore(d) ==
  /\ Running(d) /\ Waiting(d) /\ (d \in Members => First(d).type # "ROSTER")
  /\ First(d).rows # {} \/ ~Mine(d)
  /\ inbox' = Rest(d) /\ UNCHANGED <<proc, files, cmd, old, starts, faults, asked>>

\* Mutant of Clash: only the node's own endpoint is compared.
ClashOwn(rows, p) == \E r \in rows : r.node = p.node /\ r.port # p.from

\* A node cannot move an endpoint, nor take that of another row.
Clash(rows, p) == \E r \in rows : (r.node = p.node) # (r.port = p.from)

Ask(n) == asked' = [d \in Dirs |-> IF asked[d] = {} THEN {} ELSE asked[d] \union {n}]

\* Mutant of Register: a heartbeat keeps a row and never adds one.
RegisterKnown ==
  LET p == First(Seed)
      s == [proc[Seed] EXCEPT !.rows = 
                                   IF p.type = "JOIN" THEN @ \union {[node |-> p.node, port |-> p.from]} ELSE @] IN
  /\ Handles(Seed) /\ ForRoster(Seed) /\ p.type # "LEAVE"
  /\ ~Clash(proc[Seed].rows, p)
  /\ p.node \in Nodes(proc[Seed].rows) \/ Cardinality(proc[Seed].rows) < BcMax
  /\ proc' = [proc EXCEPT ![Seed] = s] /\ files' = [files EXCEPT ![Seed] = Persisted(s)]
  /\ inbox' = IF p.node \in Nodes(s.rows) THEN Answer(Seed, "ROSTER", s.rows) ELSE Rest(Seed)
  /\ old' = old \ {p.node} /\ Ask(p.node)
  /\ UNCHANGED <<cmd, starts, faults>>

\* JOIN and BEAT: the node is listed, if need be again, and gets the roster.
Register ==
  LET p == First(Seed)
      s == [proc[Seed] EXCEPT !.rows = @ \union {[node |-> p.node, port |-> p.from]}] IN
  /\ Handles(Seed) /\ ForRoster(Seed) /\ p.type # "LEAVE"
  /\ ~Clash(proc[Seed].rows, p)
  /\ p.node \in Nodes(proc[Seed].rows) \/ Cardinality(proc[Seed].rows) < BcMax
  /\ proc' = [proc EXCEPT ![Seed] = s] /\ files' = [files EXCEPT ![Seed] = Persisted(s)]
  /\ inbox' = Answer(Seed, "ROSTER", s.rows)
  /\ old' = old \ {p.node} /\ Ask(p.node)
  /\ UNCHANGED <<cmd, starts, faults>>

\* A clash is dropped; a node that does not fit gets an error.
Refused ==
  LET p == First(Seed) IN
  /\ Handles(Seed) /\ ForRoster(Seed) /\ p.type # "LEAVE"
  /\ Clash(proc[Seed].rows, p) \/ (/\ p.node \notin Nodes(proc[Seed].rows)
                                   /\ Cardinality(proc[Seed].rows) >= BcMax)
  /\ inbox' = IF Clash(proc[Seed].rows, p) THEN Rest(Seed) ELSE Answer(Seed, "ERROR", {})
  /\ UNCHANGED <<proc, files, cmd, old, starts, faults, asked>>

Unregister ==
  LET p == First(Seed)
      s == [proc[Seed] EXCEPT !.rows = @ \ {[node |-> p.node, port |-> p.from]}] IN
  /\ Handles(Seed) /\ ForRoster(Seed) /\ p.type = "LEAVE"
  /\ proc' = [proc EXCEPT ![Seed] = s] /\ files' = [files EXCEPT ![Seed] = Persisted(s)]
  /\ inbox' = Answer(Seed, "PONG", {}) /\ old' = old \ ({p.node} \ Nodes(s.rows))
  /\ UNCHANGED <<cmd, starts, faults, asked>>

\* Mutant of Stops: whoever has the port stops.
StopsAny(d) == Handles(d) /\ First(d).type = "STOP"

Stops(d) == Handles(d) /\ First(d).type = "STOP" /\ First(d).node = proc[d].node

\* `leave' gets its answer when it is still waiting for it.
Stop(d) ==
  /\ Stops(d) /\ inbox' = Rest(d) /\ proc' = [proc EXCEPT ![d].quit = "stop"]
  /\ cmd' = [e \in Dirs |-> IF First(d).req = e /\ First(d).fresh /\ cmd[e].pc = "sent"
                            THEN [cmd[e] EXCEPT !.pc = "wait"] ELSE cmd[e]]
  /\ UNCHANGED <<files, old, starts, faults, asked>>

\* Everything else is answered with an error, also errors and answers.
Error(d) ==
  /\ Handles(d) /\ ~ForRoster(d) /\ ~Stops(d) /\ inbox' = Answer(d, "ERROR", {})
  /\ UNCHANGED <<proc, files, cmd, old, starts, faults, asked>>

\* The listener quits: a member says so to the seed, once.
Quit(d) ==
  /\ proc[d].pc = "run" /\ proc[d].quit # "no"
  /\ Gone(d, IF d = Seed THEN inbox
             ELSE Send(inbox, Packet("LEAVE", proc[d], NoNode, {}, FALSE), SeedPort))
  /\ files' = [files EXCEPT ![d] = NoFiles]
  /\ UNCHANGED <<cmd, starts, faults>>

-----------------------------------------------------------------------------
(* `cluster leave': bc_contact with STOP, and the wait for the lock.       *)

LeaveBegins(d) ==
  /\ d \in Leavers /\ cmd[d].pc = "idle" /\ files[d].whole
  /\ IF proc[d].pc = "off" THEN files' = [files EXCEPT ![d] = NoFiles] /\ UNCHANGED cmd
     ELSE /\ cmd' = [cmd EXCEPT ![d] = [pc |-> "loaded", node |-> files[d].node,
                                        port |-> files[d].port, cluster |-> files[d].cluster]]
          /\ UNCHANGED files
  /\ UNCHANGED <<proc, inbox, old, starts, faults, asked>>

LeaveSends(d) ==
  /\ cmd[d].pc = "loaded" /\ cmd' = [cmd EXCEPT ![d].pc = "sent"]
  /\ inbox' = Send(inbox, Packet("STOP", [cmd[d] EXCEPT !.port = 0], d, {}, TRUE), cmd[d].port)
  /\ UNCHANGED <<proc, files, old, starts, faults, asked>>

\* Mutant of LeaveCleans: the answer is taken for the end of the listener.
LeaveCleansEarly(d) ==
  /\ cmd[d].pc = "wait" /\ cmd' = [cmd EXCEPT ![d].pc = "done"]
  /\ files' = [files EXCEPT ![d] = NoFiles]
  /\ UNCHANGED <<proc, inbox, old, starts, faults, asked>>

LeaveCleans(d) ==
  /\ cmd[d].pc = "wait" /\ proc[d].pc = "off" /\ cmd' = [cmd EXCEPT ![d] = [NoCmd EXCEPT !.pc = "done"]]
  /\ files' = [files EXCEPT ![d] = NoFiles]
  /\ UNCHANGED <<proc, inbox, old, starts, faults, asked>>

\* The answer, or the lock, does not come in time: a fault while the listener
\* has the request.
LeaveTimeout(d) ==
  /\ cmd[d].pc \in {"sent", "wait"} /\ cmd' = [cmd EXCEPT ![d].pc = "done"]
  /\ Takes(cmd[d].pc = "wait" \/ \E q \in Ports : \E i \in DOMAIN inbox[q] : inbox[q][i].req = d)
  /\ inbox' = Outdate(inbox, d)
  /\ UNCHANGED <<proc, files, old, starts, asked>>

-----------------------------------------------------------------------------
(* What happens to the processes, the network and the clock.               *)

\* bc_signal: TERM, or the owning shell has died.
Term(d) ==
  /\ Fault /\ proc[d].pc # "off" /\ proc[d].quit = "no" /\ proc' = [proc EXCEPT ![d].quit = "term"]
  /\ UNCHANGED <<files, inbox, cmd, old, starts, asked>>

Kill(d) ==
  /\ Fault /\ proc[d].pc # "off" /\ Gone(d, inbox)
  /\ UNCHANGED <<files, cmd, starts>>

Lose(q) ==
  /\ Fault /\ inbox[q] # <<>> /\ inbox' = [inbox EXCEPT ![q] = Tail(@)]
  /\ UNCHANGED <<proc, files, cmd, old, starts, asked>>

\* Three deadlines without a heartbeat, or without an answer.  Where the other
\* side is there and of this cluster, that takes a fault.
Peer(d) == Running(d) /\ Running(Seed) /\ proc[d].cluster = proc[Seed].cluster
RowAges(n, late) ==
  /\ Running(Seed) /\ n \in Nodes(proc[Seed].rows) \ ({proc[Seed].node} \union old)
  /\ old' = old \union {n}
  /\ late = (\E d \in Members : proc[d].node = n /\ Peer(d)) /\ Takes(late)
  /\ UNCHANGED <<proc, files, inbox, cmd, starts, asked>>
MemberAges(d, late) ==
  /\ d \in Members /\ Running(d) /\ ~proc[d].stale /\ proc' = [proc EXCEPT ![d].stale = TRUE]
  /\ late = Peer(d) /\ Takes(late)
  /\ UNCHANGED <<files, inbox, cmd, old, starts, asked>>

\* Neither hears of the other for three deadlines: one outage, both directions.
Outage(d) ==
  /\ d \in Members /\ Peer(d) /\ ~proc[d].stale
  /\ proc[d].node \in Nodes(proc[Seed].rows) \ ({proc[Seed].node} \union old)
  /\ Fault /\ proc' = [proc EXCEPT ![d].stale = TRUE] /\ old' = old \union {proc[d].node}
  /\ UNCHANGED <<files, inbox, cmd, starts, asked>>

Listener(d) == \/ JoinDrops(d) \/ JoinAnswered(d) \/ Snapshot(d) \/ Ignore(d) \/ Stop(d)
               \/ Error(d) \/ (d = Seed /\ (Register \/ Refused \/ Unregister))

Next ==
  \/ StartSeed(SeedPort) \/ \E q \in Ports : Lose(q)
  \/ \E d \in Members : \E q \in PortsOf[d] : Join(d, q)
  \/ \E d \in Dirs : \/ Listener(d) \/ JoinTimeout(d) \/ Quit(d) \/ Term(d) \/ Kill(d) \/ Outage(d)
                     \/ LeaveBegins(d) \/ LeaveSends(d) \/ LeaveCleans(d) \/ LeaveTimeout(d)
                     \/ \E late \in BOOLEAN : Beat(d, late) \/ MemberAges(d, late)
  \/ Expire \/ \E n \in 1..MaxStarts : \E late \in BOOLEAN : RowAges(n, late)

\* Listeners run and handle datagrams, and time passes.
Spec == /\ Init /\ [][Next]_vars
        /\ WF_vars(Expire \/ \E n \in 1..MaxStarts : RowAges(n, FALSE))
        /\ \A d \in Dirs : WF_vars(Listener(d) \/ JoinTimeout(d) \/ Quit(d))
        /\ \A d \in Members : WF_vars(Beat(d, FALSE)) /\ WF_vars(MemberAges(d, FALSE))

-----------------------------------------------------------------------------
(* Properties.                                                             *)

Row == [node : Nat, port : Ports \union {0}]
ProcType == [pc : {"off", "join", "run"}, node : Nat, port : Ports \union {0}, cluster : Nat,
             rows : SUBSET Row, connected : BOOLEAN, stale : BOOLEAN,
             quit : {"no", "stop", "term", "refused"}]
FilesType == [whole : BOOLEAN, node : Nat, port : Ports \union {0}, cluster : Nat,
              rows : SUBSET Row, state : {"none", "initialized", "disconnected"}]
CmdType == [pc : {"idle", "loaded", "sent", "wait", "done"}, node : Nat,
            port : Ports \union {0}, cluster : Nat]
PacketType == [type : {"JOIN", "BEAT", "LEAVE", "ROSTER", "PONG", "ERROR", "STOP"},
               from : Ports \union {0}, node : Nat, cluster : Nat, req : Nat \union Dirs,
               rows : SUBSET Row, fresh : BOOLEAN]

\* Listeners, state files and datagrams are well-formed.
TypeOK ==
  /\ proc \in [Dirs -> ProcType] /\ files \in [Dirs -> FilesType]
  /\ inbox \in [Ports -> Seq(PacketType)] /\ cmd \in [Dirs -> CmdType]
  /\ old \subseteq Nat /\ starts \in 0..MaxStarts /\ faults \in 0..MaxFaults
  /\ asked \in [Dirs -> SUBSET Nat]

\* The seed is always listed and no two rows share a node or an endpoint, also
\* when a port is taken over from a listener that was killed.
SeedRoster == proc[Seed].pc = "run" =>
  LET rows == proc[Seed].rows IN
  /\ Own(proc[Seed]) \in rows /\ Cardinality(rows) <= BcMax
  /\ \A r, q \in rows : r.node = q.node \/ r.port = q.port => r = q

\* A seed lists only listeners that asked to join its own cluster: a listener
\* of an earlier seed on the same port is not taken in by its heartbeats, and no
\* answer ever makes a running listener quit.
OneCluster == \A d \in Members :
  /\ proc[d].quit # "refused"
  /\ proc[d].pc = "run" /\ proc[d].node \in Nodes(proc[Seed].rows) => proc[d].cluster = proc[Seed].node

\* The state files of a running listener are its own and up to date, whatever
\* `leave' and `init' clean up.
FilesOwned == \A d \in Dirs : proc[d].pc = "run" => files[d] = Persisted(proc[d])

\* `leave' stops the listener of its own directory and no other, whoever has
\* got the port by the time the request arrives.
StopsOwn == \A d \in Dirs : proc[d].quit = "stop" => cmd[d].node = proc[d].node

\* A member never takes over a roster with a node that had been dropped from
\* the seed's before the member asked.
FreshRoster == [][\A d \in Members :
  proc'[d].rows # proc[d].rows /\ proc'[d].connected => Nodes(proc'[d].rows) \subseteq asked[d]]_vars

\* The rows of listeners that are gone go, with or without a LEAVE.
Ghosts == Nodes(proc[Seed].rows) \ {proc[d].node : d \in Dirs}
GoneExpires == (Ghosts # {}) ~> (Ghosts = {})

\* When the seed disappears, a member that stays is left with its own row and
\* says that it is disconnected.
LeftBehind == {d \in Members : /\ Running(d) /\ ~Peer(d)
                               /\ proc[d].rows # {Own(proc[d])} \/ files[d].state # "disconnected"}
Disconnects == (LeftBehind # {}) ~> (LeftBehind = {})

\* While the seed and members of its cluster run, they have the seed's roster in
\* the end, after lost datagrams, expiries and an outage of the link, provided
\* that the roster always had room for everyone who is there.
RoomForAll == Cardinality((Nodes(proc[Seed].rows) \union {proc[d].node : d \in Members}) \ {NoNode}) <= BcMax
Converges == \A d \in Members :
  []RoomForAll /\ <>[]Peer(d) => <>[](proc[d].rows = proc[Seed].rows)
=============================================================================
