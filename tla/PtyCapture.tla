----------------------------- MODULE PtyCapture -----------------------------
(***************************************************************************)
(* pb_capture (loadables/_ptybroker/client.c) against the history ring of  *)
(* a service whose PTY keeps producing output: the client asks for the     *)
(* status once and then for one chunk per connection, and the ring may     *)
(* overwrite the window between any two of its requests.  It connects by   *)
(* name each time: when the session ends and its ID is given to a new one, *)
(* the rest of the requests reach the new one.                             *)
(***************************************************************************)
EXTENDS PtyRing

CONSTANTS Clients,
          MaxOutput,    \* bound: bytes of output of a session
          MaxSessions   \* bound: sessions that have the ID, one after the other

ASSUME BoundsAssumption == MaxOutput \in Nat /\ MaxSessions \in Nat \ {0}

VARIABLES
  gen,              \* the session that has, or had last, the ID
  next, hist, up,   \* its service: bytes read, history ring, still serving
  st,               \* per client: idle, loop, answered, done or failed
  snap, off,        \* the status snapshot [lo, hi) of session gen, the client's offset
  reply,            \* the answer that is under way to it
  out, err,         \* the bytes it wrote to its descriptor; why it failed
  met               \* history: the sessions that have answered it

service == <<gen, next, hist, up>>
clientVars == <<st, snap, off, reply, out, err, met>>
vars == <<service, clientVars>>

NoReply == [err |-> "0", off |-> 0, data |-> <<>>]

\* The ring of a new service; what malloc left in it is never read.
NewRing == [j \in 0 .. History - 1 |-> 0]

Init ==
  /\ gen = 1 /\ next = 0 /\ hist = NewRing /\ up = TRUE
  /\ st = [c \in Clients |-> "idle"]
  /\ snap = [c \in Clients |-> [gen |-> 1, lo |-> 0, hi |-> 0]]
  /\ off = [c \in Clients |-> 0]
  /\ reply = [c \in Clients |-> NoReply]
  /\ out = [c \in Clients |-> <<>>]
  /\ err = [c \in Clients |-> "0"]
  /\ met = [c \in Clients |-> {}]

\* forward_output reads n more bytes from the PTY.
Output(n) ==
  /\ up /\ next + n <= MaxOutput
  /\ hist' = RingPut(hist, History, next, next, n)
  /\ next' = next + n
  /\ UNCHANGED <<gen, up, clientVars>>

\* The service ends and removes its name; requests fail until the ID is reused.
ServiceEnds ==
  /\ up /\ up' = FALSE
  /\ UNCHANGED <<gen, next, hist, clientVars>>

\* A new session is started under the same ID, with a ring and offsets of its own.
Recreate ==
  /\ ~up /\ gen < MaxSessions
  /\ gen' = gen + 1 /\ next' = 0 /\ hist' = NewRing /\ up' = TRUE
  /\ UNCHANGED clientVars

\* pb_status: the service takes the snapshot that bounds the whole copy.
AskStatus(c) ==
  /\ st[c] = "idle" /\ up
  /\ snap' = [snap EXCEPT ![c] = [gen |-> gen, lo |-> Oldest(next), hi |-> next]]
  /\ off' = [off EXCEPT ![c] = Oldest(next)]
  /\ met' = [met EXCEPT ![c] = {gen}]
  /\ st' = [st EXCEPT ![c] = "loop"]
  /\ UNCHANGED <<service, reply, out, err>>

\* The service that has the ID now handles CAPTURE for [off, hi) and its answer
\* is under way.
AskChunk(c) ==
  /\ st[c] = "loop" /\ off[c] < snap[c].hi /\ up
  /\ reply' = [reply EXCEPT ![c] = CaptureAnswer(hist, next, off[c], snap[c].hi)]
  /\ met' = [met EXCEPT ![c] = @ \union {gen}]
  /\ st' = [st EXCEPT ![c] = "answered"]
  /\ UNCHANGED <<service, snap, off, out, err>>

\* The client's own check of a successful answer.
Plausible(c) ==
  /\ reply[c].data # <<>> /\ reply[c].off = off[c]
  /\ Len(reply[c].data) <= snap[c].hi - off[c]

Failed(c, e) ==
  /\ st' = [st EXCEPT ![c] = "failed"]
  /\ err' = [err EXCEPT ![c] = e]
  /\ reply' = [reply EXCEPT ![c] = NoReply]
  /\ UNCHANGED <<service, snap, off, met>>

\* Mutant: a short write passes for a whole one.
AcceptShortWrite(c) ==
  /\ st[c] = "answered" /\ reply[c].err = "0" /\ Plausible(c)
  /\ out' = [out EXCEPT ![c] = Append(@, Head(reply[c].data))]
  /\ off' = [off EXCEPT ![c] = @ + Len(reply[c].data)]
  /\ st' = [st EXCEPT ![c] = "loop"]
  /\ reply' = [reply EXCEPT ![c] = NoReply]
  /\ UNCHANGED <<service, snap, err, met>>

\* The chunk is written to the caller's descriptor in full.
Accept(c) ==
  /\ st[c] = "answered" /\ reply[c].err = "0" /\ Plausible(c)
  /\ out' = [out EXCEPT ![c] = @ \o reply[c].data]
  /\ off' = [off EXCEPT ![c] = @ + Len(reply[c].data)]
  /\ st' = [st EXCEPT ![c] = "loop"]
  /\ reply' = [reply EXCEPT ![c] = NoReply]
  /\ UNCHANGED <<service, snap, err, met>>

\* pb_fd_write fails or times out after k bytes of the chunk; after all of them
\* when the descriptor's flags cannot be restored.
WriteFails(c, k) ==
  /\ st[c] = "answered" /\ reply[c].err = "0" /\ Plausible(c) /\ k <= Len(reply[c].data)
  /\ out' = [out EXCEPT ![c] = @ \o SubSeq(reply[c].data, 1, k)]
  /\ Failed(c, "EPIPE")

\* Mutant: an error is taken for a passing one and the chunk asked for again.
RejectRetries(c) ==
  /\ st[c] = "answered" /\ reply[c].err # "0"
  /\ st' = [st EXCEPT ![c] = "loop"]
  /\ reply' = [reply EXCEPT ![c] = NoReply]
  /\ UNCHANGED <<service, snap, off, out, err, met>>

\* An error answer, or one that fails the checks, ends the capture.
Reject(c) ==
  /\ st[c] = "answered"
  /\ \/ reply[c].err # "0" /\ Failed(c, reply[c].err)
     \/ reply[c].err = "0" /\ ~Plausible(c) /\ Failed(c, "EPROTO")
  /\ UNCHANGED out

\* No connection, no answer, or the deadline passes.
RequestFails(c) ==
  /\ st[c] \in {"idle", "answered"} \/ (st[c] = "loop" /\ off[c] < snap[c].hi)
  /\ Failed(c, "ETIMEDOUT")
  /\ UNCHANGED out

Finish(c) ==
  /\ st[c] = "loop" /\ off[c] >= snap[c].hi
  /\ st' = [st EXCEPT ![c] = "done"]
  /\ UNCHANGED <<service, snap, off, reply, out, err, met>>

Client(c) ==
  \/ AskStatus(c) \/ AskChunk(c) \/ Accept(c) \/ Reject(c) \/ RequestFails(c) \/ Finish(c)
  \/ \E k \in 0 .. Chunk : WriteFails(c, k)

\* Every client has returned and nothing more is written to the PTY.
Finished == (\A c \in Clients : st[c] \in {"done", "failed"}) /\ UNCHANGED vars

Next ==
  \/ \E n \in 1 .. Chunk : Output(n)
  \/ ServiceEnds \/ Recreate
  \/ \E c \in Clients : Client(c)
  \/ Finished

Spec == Init /\ [][Next]_vars

\* A capture that has begun goes on: each of its calls has a deadline.
FairSpec == Spec /\ \A c \in Clients : WF_vars(st[c] # "idle" /\ Client(c))

-----------------------------------------------------------------------------
TypeOK ==
  /\ gen \in Nat /\ next \in Nat /\ hist \in [0 .. History - 1 -> Nat] /\ up \in BOOLEAN
  /\ st \in [Clients -> {"idle", "loop", "answered", "done", "failed"}]
  /\ snap \in [Clients -> [gen : Nat, lo : Nat, hi : Nat]]
  /\ off \in [Clients -> Nat]
  /\ reply \in [Clients -> [err : {"0", "EOVERFLOW", "EINVAL"}, off : Nat, data : Seq(Nat)]]
  /\ out \in [Clients -> Seq(Nat)]
  /\ err \in [Clients -> {"0", "EOVERFLOW", "EINVAL", "EPROTO", "EPIPE", "ETIMEDOUT"}]
  /\ met \in [Clients -> SUBSET Nat]

\* The history ring holds the bytes from `oldest' to `next'.
HistoryWindow == \A k \in Oldest(next) .. next - 1 : hist[k % History] = k

\* Another session than that of its snapshot has answered a capture.
Torn(c) == \E g \in met[c] : g # snap[c].gen

\* A client only ever writes the bytes at the offsets of its snapshot, in order
\* and without a hole, however much the ring was overwritten between its
\* requests; a capture that succeeds has written all of them.  They are bytes of
\* one session unless the ID was given to another one since the snapshot.
CaptureExact ==
  \A c \in Clients :
    /\ \A i \in 1 .. Len(out[c]) : out[c][i] = snap[c].lo + i - 1
    /\ st[c] = "done" => Len(out[c]) = snap[c].hi - snap[c].lo
    /\ Torn(c) => snap[c].gen < gen

\* The service never answers what the client's checks call a protocol error:
\* each answer inside the window makes progress.  Only a session that took over
\* the ID refuses a request as invalid.
NoProtocolError == \A c \in Clients : err[c] # "EPROTO" /\ (err[c] = "EINVAL" => Torn(c))

\* A client is told EOVERFLOW only about bytes that are really gone from the ring
\* of the session that said so, which is the current one if that has answered.
OverflowIsReal ==
  \A c \in Clients : err[c] = "EOVERFLOW" /\ gen \in met[c] => off[c] < Oldest(next)

\* The three together: the bytes, the dialogue and the reported loss of every
\* capture are right, however far the ring has moved between two chunks and
\* whichever session answers them.
CaptureCorrect == CaptureExact /\ NoProtocolError /\ OverflowIsReal

\* The copy refines the snapshot of SnapshotCopy.
Phase(s) == IF s \in {"loop", "answered"} THEN "copying" ELSE s
Abstract == INSTANCE SnapshotCopy WITH
  session <- gen,
  length <- next,
  copy <- [c \in Clients |-> [st |-> Phase(st[c]), of |-> snap[c].gen, lo |-> snap[c].lo,
                              hi |-> snap[c].hi, out |-> out[c], by |-> met[c]]]
Snapshot == Abstract!Spec

\* Every capture that has begun returns.
CaptureEnds == \A c \in Clients : st[c] # "idle" ~> st[c] \in {"done", "failed"}

=============================================================================
