-------------------------- MODULE PtyCaptureProofs --------------------------
(***************************************************************************)
(* Proofs about PtyCapture for every ring size, chunk size and number of   *)
(* readers, and however often the ID changes hands: the copy is exact, the *)
(* client's protocol checks never fire, and the chunked copy implements    *)
(* the snapshot of SnapshotCopy.                                           *)
(***************************************************************************)
EXTENDS PtyCapture, PtyRingProofs

\* s is the slice of the output stream that starts at lo.
IsSlice(s, lo) == \A i \in 1 .. Len(s) : s[i] = lo + i - 1

\* Two adjacent slices make a slice.
LEMMA SliceConcat ==
  ASSUME NEW s \in Seq(Nat), NEW t \in Seq(Nat), NEW lo \in Nat, NEW mid \in Nat,
         IsSlice(s, lo), IsSlice(t, mid), Len(s) = mid - lo
  PROVE  /\ s \o t \in Seq(Nat) /\ Len(s \o t) = Len(s) + Len(t)
         /\ IsSlice(s \o t, lo)
<1>1. s \o t \in Seq(Nat) /\ Len(s \o t) = Len(s) + Len(t)
  OBVIOUS
<1>2. ASSUME NEW i \in 1 .. Len(s \o t) PROVE (s \o t)[i] = lo + i - 1
  <2>1. CASE i <= Len(s)
    <3>1. (s \o t)[i] = s[i] /\ i \in 1 .. Len(s)
      BY <2>1
    <3> QED
      BY <3>1 DEF IsSlice
  <2>2. CASE i > Len(s)
    <3>1. (s \o t)[i] = t[i - Len(s)] /\ i - Len(s) \in 1 .. Len(t)
      BY <1>1, <2>2
    <3>2. t[i - Len(s)] = mid + (i - Len(s)) - 1
      BY <3>1 DEF IsSlice
    <3> QED
      BY <3>1, <3>2
  <2> QED
    BY <2>1, <2>2
<1> QED
  BY <1>1, <1>2 DEF IsSlice

\* A prefix of a slice is a slice.
LEMMA SlicePrefix ==
  ASSUME NEW t \in Seq(Nat), NEW lo \in Nat, IsSlice(t, lo), NEW k \in 0 .. Len(t)
  PROVE  /\ SubSeq(t, 1, k) \in Seq(Nat) /\ Len(SubSeq(t, 1, k)) = k
         /\ IsSlice(SubSeq(t, 1, k), lo)
<1>1. SubSeq(t, 1, k) \in Seq(Nat) /\ Len(SubSeq(t, 1, k)) = k
  OBVIOUS
<1>2. \A i \in 1 .. k : SubSeq(t, 1, k)[i] = t[i] /\ i \in 1 .. Len(t)
  OBVIOUS
<1> QED
  BY <1>1, <1>2 DEF IsSlice

\* Any answer to CAPTURE: an error for what the ring does not hold, or the bytes
\* from off on.
LEMMA AnswerAny ==
  ASSUME NEW h \in [0 .. History - 1 -> Nat], NEW n \in Nat, Window(h, n),
         NEW o \in Nat, NEW e \in Nat, o < e
  PROVE  LET a == CaptureAnswer(h, n, o, e)
         IN /\ a \in [err : {"0", "EOVERFLOW", "EINVAL"}, off : Nat, data : Seq(Nat)]
            /\ a.err = "EOVERFLOW" => o < Oldest(n)
            /\ a.err = "EINVAL" => e > n
            /\ a.err = "0" => /\ a.off = o
                              /\ Len(a.data) \in 1 .. Chunk /\ Len(a.data) <= e - o
                              /\ \A i \in 1 .. Len(a.data) : a.data[i] = o + i - 1
<1> DEFINE a == CaptureAnswer(h, n, o, e)
<1>1. CASE e <= n
  BY <1>1, AnswerExact
<1>2. CASE e > n
  <2>1. Oldest(n) \in Nat /\ <<>> \in Seq(Nat)
    BY RingAssumption DEF Oldest
  <2>2. CASE o < Oldest(n)
    <3>1. a = [err |-> "EOVERFLOW", off |-> Oldest(n), data |-> <<>>]
      BY <2>2 DEF CaptureAnswer
    <3> QED
      BY <2>1, <2>2, <3>1
  <2>3. CASE ~(o < Oldest(n))
    <3>1. a = [err |-> "EINVAL", off |-> 0, data |-> <<>>]
      BY <1>2, <2>3 DEF CaptureAnswer
    <3> QED
      BY <1>2, <2>1, <3>1
  <2> QED
    BY <2>2, <2>3
<1> QED
  BY <1>1, <1>2

\* The part of the invariant about one reader: while it copies, it has written
\* the bytes from lo to off; an answer under way continues them at off.  What the
\* ring says is binding only while the session that said it has the ID.
ReaderInv(c) ==
  /\ snap[c].lo <= off[c] /\ off[c] <= snap[c].hi
  /\ snap[c].gen <= gen /\ (snap[c].gen = gen => snap[c].hi <= next)
  /\ \A g \in met[c] : snap[c].gen <= g /\ g <= gen
  /\ IsSlice(out[c], snap[c].lo)
  /\ st[c] \in {"idle", "loop", "answered"} => Len(out[c]) = off[c] - snap[c].lo
  /\ st[c] = "done" => Len(out[c]) = snap[c].hi - snap[c].lo
  /\ st[c] = "idle" => snap[c].hi = snap[c].lo /\ out[c] = <<>> /\ met[c] = {}
  /\ st[c] = "answered" =>
       /\ off[c] < snap[c].hi
       /\ reply[c].err = "EINVAL" => Torn(c)
       /\ reply[c].err = "EOVERFLOW" /\ gen \in met[c] => off[c] < Oldest(next)
       /\ reply[c].err = "0" =>
            /\ reply[c].off = off[c]
            /\ Len(reply[c].data) \in 1 .. snap[c].hi - off[c]
            /\ IsSlice(reply[c].data, off[c])
  /\ st[c] # "failed" => err[c] = "0"
  /\ err[c] # "EPROTO" /\ (err[c] = "EINVAL" => Torn(c))
  /\ err[c] = "EOVERFLOW" /\ gen \in met[c] => off[c] < Oldest(next)

IInv == TypeOK /\ HistoryWindow /\ \A c \in Clients : ReaderInv(c)

-----------------------------------------------------------------------------
\* The capture starts in the invariant.
LEMMA InitInv == Init => IInv
<1> SUFFICES ASSUME Init PROVE IInv
  OBVIOUS
<1> USE RingAssumption
<1>1. TypeOK
  BY DEF Init, TypeOK, NoReply, NewRing
<1>2. HistoryWindow
  BY DEF Init, HistoryWindow, Oldest
<1>3. ASSUME NEW c \in Clients PROVE ReaderInv(c)
  BY DEF Init, ReaderInv, NoReply, IsSlice, Torn
<1> QED
  BY <1>1, <1>2, <1>3 DEF IInv

\* Output keeps the ring exact and can only make more bytes old.
LEMMA OutputInv ==
  ASSUME IInv, NEW n \in 1 .. Chunk, Output(n)
  PROVE  IInv'
<1> USE RingAssumption DEF IInv
<1>1. next' \in Nat /\ hist' \in [0 .. History - 1 -> Nat]
  <2>1. n \in Nat /\ next \in Nat /\ hist \in [0 .. History - 1 -> Nat] /\ History \in Nat \ {0}
    BY DEF TypeOK
  <2>2. RingPut(hist, History, next, next, n) \in [0 .. History - 1 -> Nat]
    BY <2>1, RingPutType, Zenon
  <2> QED
    BY <2>1, <2>2 DEF Output
<1>2. TypeOK'
  BY <1>1 DEF TypeOK, Output, clientVars
<1>3. HistoryWindow'
  <2>1. n \in 0 .. Chunk /\ next \in Nat /\ hist \in [0 .. History - 1 -> Nat]
    BY DEF TypeOK
  <2>2. Window(hist, next)
    BY DEF Window, HistoryWindow
  <2>3. Window(hist', next')
    BY <2>1, <2>2, WindowMoves DEF Output
  <2> QED
    BY <2>3 DEF Window, HistoryWindow
<1>4. ASSUME NEW c \in Clients PROVE ReaderInv(c)'
  <2>1. next <= next' /\ Oldest(next) <= Oldest(next') /\ Oldest(next) \in Int /\ Oldest(next') \in Int
    BY <1>1 DEF Output, Oldest, TypeOK
  <2>2. /\ off[c] \in Nat /\ snap[c].hi \in Nat /\ next \in Nat
    BY DEF TypeOK
  <2>3. /\ st' = st /\ snap' = snap /\ off' = off /\ reply' = reply /\ out' = out
        /\ err' = err /\ met' = met /\ gen' = gen
    BY DEF Output, clientVars
  <2>4. ReaderInv(c)
    OBVIOUS
  <2> QED
    BY <1>1, <2>1, <2>2, <2>3, <2>4 DEF ReaderInv, Torn
<1> QED
  BY <1>2, <1>3, <1>4

\* When a new session gets the ID, no reader has heard of it.
LEMMA RecreateInv ==
  ASSUME IInv, Recreate
  PROVE  IInv'
<1> USE RingAssumption DEF IInv
<1>1. /\ gen' = gen + 1 /\ gen \in Nat /\ next' = 0 /\ UNCHANGED clientVars
  BY DEF Recreate, TypeOK
<1>2. TypeOK'
  BY <1>1 DEF Recreate, TypeOK, clientVars, NewRing
<1>3. HistoryWindow'
  BY <1>1 DEF HistoryWindow, Oldest
<1>4. ASSUME NEW c \in Clients PROVE ReaderInv(c)'
  <2>1. /\ st' = st /\ snap' = snap /\ off' = off /\ reply' = reply /\ out' = out
        /\ err' = err /\ met' = met
    BY <1>1 DEF clientVars
  <2>2. ReaderInv(c) /\ snap[c].gen \in Nat /\ met[c] \subseteq Nat
    BY DEF TypeOK
  <2>3. snap[c].gen <= gen' /\ snap[c].gen # gen' /\ gen' \notin met[c]
    BY <1>1, <2>2 DEF ReaderInv
  <2>4. \A g \in met[c] : snap[c].gen <= g /\ g <= gen'
    BY <1>1, <2>2 DEF ReaderInv
  <2> QED
    BY <2>1, <2>2, <2>3, <2>4 DEF ReaderInv, Torn
<1> QED
  BY <1>2, <1>3, <1>4

\* A step of reader c leaves the service and the other readers alone.
LEMMA OthersInv ==
  ASSUME IInv, NEW c \in Clients, NEW d \in Clients, d # c, Client(c)
  PROVE  ReaderInv(d)'
<1> USE DEF IInv, TypeOK
<1>1. /\ next' = next /\ gen' = gen /\ met'[d] = met[d]
      /\ st'[d] = st[d] /\ snap'[d] = snap[d] /\ off'[d] = off[d] /\ reply'[d] = reply[d]
      /\ out'[d] = out[d] /\ err'[d] = err[d]
  BY DEF Client, AskStatus, AskChunk, Accept, Reject, RequestFails, Finish, WriteFails, Failed,
         service
<1>2. ReaderInv(d)
  OBVIOUS
<1> QED
  BY <1>1, <1>2 DEF ReaderInv, Torn

Reply == [err : {"0", "EOVERFLOW", "EINVAL"}, off : Nat, data : Seq(Nat)]
ErrorCodes == {"0", "EOVERFLOW", "EINVAL", "EPROTO", "EPIPE", "ETIMEDOUT"}

\* The steps of a client keep the types and the window.
LEMMA ClientTypeOK ==
  ASSUME IInv, NEW c \in Clients, Client(c)
  PROVE  TypeOK' /\ HistoryWindow'
<1> USE RingAssumption DEF IInv
<1>0. HistoryWindow' /\ next' = next /\ hist' = hist /\ up' = up /\ gen' = gen
  BY DEF HistoryWindow, Client, AskStatus, AskChunk, Accept, Reject, RequestFails,
         Finish, WriteFails, Failed, service
<1>a. NoReply \in Reply
  BY DEF NoReply, Reply
<1>b. ASSUME NEW e \in ErrorCodes, Failed(c, e), out' \in [Clients -> Seq(Nat)]
      PROVE  TypeOK'
  BY <1>0, <1>a, <1>b DEF Failed, TypeOK, Reply, ErrorCodes
<1>1. CASE AskStatus(c)
  <2>1. Oldest(next) \in Nat
    BY DEF Oldest, TypeOK
  <2> QED
    BY <1>0, <1>1, <2>1 DEF AskStatus, TypeOK
<1>2. CASE AskChunk(c)
  <2>1. Window(hist, next) /\ next \in Nat /\ hist \in [0 .. History - 1 -> Nat]
    BY DEF Window, HistoryWindow, TypeOK
  <2>2. off[c] \in Nat /\ snap[c].hi \in Nat /\ off[c] < snap[c].hi
    BY <1>2 DEF AskChunk, TypeOK
  <2>3. CaptureAnswer(hist, next, off[c], snap[c].hi) \in
          [err : {"0", "EOVERFLOW", "EINVAL"}, off : Nat, data : Seq(Nat)]
    BY <2>1, <2>2, AnswerAny
  <2> QED
    BY <1>0, <1>2, <2>3 DEF AskChunk, TypeOK
<1>3. CASE Accept(c)
  <2>1. out[c] \in Seq(Nat) /\ reply[c].data \in Seq(Nat) /\ off[c] \in Nat
    BY DEF TypeOK
  <2>2. out[c] \o reply[c].data \in Seq(Nat) /\ off[c] + Len(reply[c].data) \in Nat
    BY <2>1
  <2> QED
    BY <1>0, <1>a, <1>3, <2>2 DEF Accept, TypeOK, Reply
<1>4. ASSUME NEW k \in 0 .. Chunk, WriteFails(c, k) PROVE TypeOK'
  <2>1. out[c] \in Seq(Nat) /\ reply[c].data \in Seq(Nat) /\ k \in 0 .. Len(reply[c].data)
    BY <1>4 DEF TypeOK, WriteFails
  <2>2. out[c] \o SubSeq(reply[c].data, 1, k) \in Seq(Nat)
    BY <2>1
  <2>3. out' \in [Clients -> Seq(Nat)] /\ Failed(c, "EPIPE")
    BY <1>4, <2>2 DEF WriteFails, TypeOK
  <2> QED
    BY <1>b, <2>3 DEF ErrorCodes
<1>5. CASE Reject(c)
  <2>1. reply[c].err \in ErrorCodes /\ "EPROTO" \in ErrorCodes
    BY DEF TypeOK, ErrorCodes
  <2>2. out' \in [Clients -> Seq(Nat)] /\ (Failed(c, reply[c].err) \/ Failed(c, "EPROTO"))
    BY <1>5 DEF Reject, TypeOK
  <2> QED
    BY <1>0, <1>b, <2>1, <2>2
<1>6. CASE RequestFails(c)
  <2>1. out' \in [Clients -> Seq(Nat)] /\ Failed(c, "ETIMEDOUT")
    BY <1>6 DEF RequestFails, TypeOK
  <2> QED
    BY <1>0, <1>b, <2>1 DEF ErrorCodes
<1>7. CASE Finish(c)
  BY <1>0, <1>7 DEF Finish, TypeOK
<1> QED
  BY <1>0, <1>1, <1>2, <1>3, <1>4, <1>5, <1>6, <1>7 DEF Client


\* The step of a reader keeps its own part of the invariant.
LEMMA ReaderStep ==
  ASSUME IInv, NEW c \in Clients, Client(c)
  PROVE  ReaderInv(c)'
<1> USE RingAssumption DEF IInv
<1>a. next' = next /\ gen' = gen /\ gen \in Nat
  BY DEF Client, AskStatus, AskChunk, Accept, Reject, RequestFails, Finish, WriteFails, Failed,
         service, TypeOK
<1>b. next \in Nat /\ Oldest(next) \in Nat /\ Oldest(next) <= next
  BY DEF TypeOK, Oldest
<1>c. /\ off[c] \in Nat /\ snap[c].lo \in Nat /\ snap[c].hi \in Nat
      /\ out[c] \in Seq(Nat) /\ reply[c].data \in Seq(Nat)
  BY DEF TypeOK
<1>0. ReaderInv(c)
  OBVIOUS
<1>1. CASE AskStatus(c)
  <2>1. /\ st'[c] = "loop" /\ snap'[c].lo = Oldest(next) /\ snap'[c].hi = next
        /\ snap'[c].gen = gen /\ met'[c] = {gen}
        /\ off'[c] = Oldest(next) /\ out'[c] = out[c] /\ err'[c] = err[c]
    BY <1>1 DEF AskStatus, TypeOK
  <2>2. out[c] = <<>> /\ IsSlice(<<>>, Oldest(next))
    BY <1>0, <1>1 DEF AskStatus, ReaderInv, IsSlice
  <2>3. err[c] = "0"
    BY <1>0, <1>1 DEF AskStatus, ReaderInv
  <2> QED
    BY <1>a, <1>b, <2>1, <2>2, <2>3 DEF ReaderInv, Torn
<1>2. CASE AskChunk(c)
  <2>1. /\ Window(hist, next) /\ hist \in [0 .. History - 1 -> Nat]
        /\ off[c] < snap[c].hi /\ snap[c].gen \in Nat /\ met[c] \subseteq Nat
    BY <1>0, <1>2 DEF AskChunk, ReaderInv, Window, HistoryWindow, TypeOK
  <2> DEFINE a == CaptureAnswer(hist, next, off[c], snap[c].hi)
  <2>2. /\ st'[c] = "answered" /\ snap'[c] = snap[c] /\ off'[c] = off[c] /\ out'[c] = out[c]
        /\ err'[c] = err[c] /\ reply'[c] = a /\ met'[c] = met[c] \union {gen}
    BY <1>2 DEF AskChunk, TypeOK
  <2>3. /\ a.err = "EOVERFLOW" => off[c] < Oldest(next)
        /\ a.err = "EINVAL" => snap[c].hi > next
        /\ a.err = "0" =>
             /\ a.off = off[c]
             /\ Len(a.data) \in 1 .. Chunk /\ Len(a.data) <= snap[c].hi - off[c]
             /\ IsSlice(a.data, off[c])
    <3> DEFINE o == off[c]
               e == snap[c].hi
               A == CaptureAnswer(hist, next, o, e)
    <3>1. o \in Nat /\ e \in Nat /\ o < e
      BY <1>c, <2>1
    <3> HIDE DEF o, e
    <3>2. /\ A.err = "EOVERFLOW" => o < Oldest(next)
          /\ A.err = "EINVAL" => e > next
          /\ A.err = "0" => /\ A.off = o
                            /\ Len(A.data) \in 1 .. Chunk /\ Len(A.data) <= e - o
                            /\ \A i \in 1 .. Len(A.data) : A.data[i] = o + i - 1
      BY <1>b, <2>1, <3>1, AnswerAny
    <3> QED
      BY <3>2 DEF IsSlice, o, e
  <2> HIDE DEF a
  <2>4. a.err = "0" => Len(a.data) \in 1 .. snap[c].hi - off[c]
    BY <1>c, <2>1, <2>3
  <2>5. a.err = "EINVAL" => snap[c].gen # gen
    BY <1>0, <1>b, <1>c, <2>3 DEF ReaderInv
  <2>6. a.err = "EINVAL" => Torn(c)'
    BY <2>2, <2>5 DEF Torn
  <2>7. /\ \A g \in met'[c] : snap[c].gen <= g /\ g <= gen
        /\ snap[c].gen <= gen /\ (snap[c].gen = gen => snap[c].hi <= next)
        /\ snap[c].lo <= off[c] /\ off[c] <= snap[c].hi /\ IsSlice(out[c], snap[c].lo)
        /\ Len(out[c]) = off[c] - snap[c].lo /\ err[c] = "0"
    BY <1>0, <1>a, <1>2, <2>2 DEF ReaderInv, AskChunk
  <2> QED
    BY <1>a, <2>1, <2>2, <2>3, <2>4, <2>6, <2>7 DEF ReaderInv
<1>3. CASE Accept(c)
  <2>1. /\ st'[c] = "loop" /\ snap'[c] = snap[c] /\ err'[c] = err[c] /\ met'[c] = met[c]
        /\ off'[c] = off[c] + Len(reply[c].data) /\ out'[c] = out[c] \o reply[c].data
    BY <1>3 DEF Accept, TypeOK
  <2>2. /\ Len(out[c]) = off[c] - snap[c].lo
        /\ Len(reply[c].data) \in 1 .. snap[c].hi - off[c]
        /\ IsSlice(reply[c].data, off[c]) /\ IsSlice(out[c], snap[c].lo)
        /\ snap[c].lo <= off[c] /\ err[c] = "0"
        /\ snap[c].gen <= gen /\ (snap[c].gen = gen => snap[c].hi <= next)
        /\ \A g \in met[c] : snap[c].gen <= g /\ g <= gen
    BY <1>0, <1>3 DEF Accept, ReaderInv
  <2>3. /\ Len(out'[c]) = Len(out[c]) + Len(reply[c].data)
        /\ IsSlice(out'[c], snap[c].lo)
    BY <1>c, <2>1, <2>2, SliceConcat
  <2>4. /\ snap[c].lo <= off'[c] /\ off'[c] <= snap[c].hi /\ off'[c] \in Nat
        /\ Len(out'[c]) = off'[c] - snap[c].lo
    <3> DEFINE n == Len(reply[c].data)
               m == Len(out'[c])
    <3>1. /\ off'[c] = off[c] + n /\ m = (off[c] - snap[c].lo) + n /\ n \in 1 .. snap[c].hi - off[c]
          /\ snap[c].lo <= off[c]
      BY <2>1, <2>2, <2>3
    <3> HIDE DEF n, m
    <3>2. /\ snap[c].lo <= off'[c] /\ off'[c] <= snap[c].hi /\ off'[c] \in Nat
          /\ m = off'[c] - snap[c].lo
      BY <1>c, <3>1
    <3> QED
      BY <3>2 DEF m
  <2> QED
    BY <1>a, <2>1, <2>2, <2>3, <2>4 DEF ReaderInv
<1>4. ASSUME NEW k \in 0 .. Chunk, WriteFails(c, k) PROVE ReaderInv(c)'
  <2> DEFINE part == SubSeq(reply[c].data, 1, k)
  <2>1. /\ st'[c] = "failed" /\ snap'[c] = snap[c] /\ err'[c] = "EPIPE"
        /\ off'[c] = off[c] /\ out'[c] = out[c] \o part /\ met'[c] = met[c]
    BY <1>4 DEF WriteFails, Failed, TypeOK
  <2>2. /\ Len(out[c]) = off[c] - snap[c].lo /\ k \in 0 .. Len(reply[c].data)
        /\ IsSlice(reply[c].data, off[c]) /\ IsSlice(out[c], snap[c].lo)
    BY <1>0, <1>c, <1>4 DEF WriteFails, ReaderInv
  <2>3. part \in Seq(Nat) /\ Len(part) = k /\ IsSlice(part, off[c])
    BY <1>c, <2>2, SlicePrefix
  <2> HIDE DEF part
  <2>4. IsSlice(out'[c], snap[c].lo)
    BY <1>c, <2>1, <2>2, <2>3, SliceConcat
  <2> QED
    BY <1>a, <1>0, <2>1, <2>4 DEF ReaderInv, Torn
<1>5. CASE Reject(c)
  <2>1. /\ st'[c] = "failed" /\ snap'[c] = snap[c] /\ off'[c] = off[c] /\ out'[c] = out[c]
        /\ met'[c] = met[c]
        /\ err'[c] = reply[c].err \/ (err'[c] = "EPROTO" /\ reply[c].err = "0" /\ ~Plausible(c))
    BY <1>5 DEF Reject, Failed, TypeOK
  <2>2. st[c] = "answered" /\ reply[c].err \in {"0", "EOVERFLOW", "EINVAL"}
    BY <1>0, <1>5 DEF Reject, ReaderInv, TypeOK
  <2>3. reply[c].err = "0" => Plausible(c)
    BY <1>0, <1>c, <2>2 DEF ReaderInv, Plausible
  <2> QED
    BY <1>a, <1>0, <2>1, <2>2, <2>3 DEF ReaderInv, Torn
<1>6. CASE RequestFails(c)
  <2>1. /\ st'[c] = "failed" /\ snap'[c] = snap[c] /\ off'[c] = off[c] /\ out'[c] = out[c]
        /\ err'[c] = "ETIMEDOUT" /\ met'[c] = met[c]
    BY <1>6 DEF RequestFails, Failed, TypeOK
  <2> QED
    BY <1>a, <1>0, <2>1 DEF ReaderInv, Torn
<1>7. CASE Finish(c)
  <2>1. /\ st'[c] = "done" /\ snap'[c] = snap[c] /\ off'[c] = off[c] /\ out'[c] = out[c]
        /\ met'[c] = met[c] /\ err'[c] = "0" /\ off[c] = snap[c].hi /\ Len(out[c]) = off[c] - snap[c].lo
    BY <1>0, <1>c, <1>7 DEF Finish, ReaderInv, TypeOK
  <2> QED
    BY <1>a, <1>0, <2>1 DEF ReaderInv, Torn
<1> QED
  BY <1>1, <1>2, <1>3, <1>4, <1>5, <1>6, <1>7 DEF Client

\* Every step keeps the invariant.
LEMMA NextInv == IInv /\ [Next]_vars => IInv'
<1> SUFFICES ASSUME IInv, [Next]_vars PROVE IInv'
  OBVIOUS
<1>1. ASSUME NEW n \in 1 .. Chunk, Output(n) PROVE IInv'
  BY <1>1, OutputInv
<1>2. ASSUME NEW c \in Clients, Client(c) PROVE IInv'
  <2>1. TypeOK' /\ HistoryWindow'
    BY <1>2, ClientTypeOK
  <2>2. ASSUME NEW d \in Clients PROVE ReaderInv(d)'
    BY <1>2, OthersInv, ReaderStep
  <2> QED
    BY <2>1, <2>2 DEF IInv
<1>3. CASE ServiceEnds \/ Finished \/ UNCHANGED vars
  <2>1. up' \in BOOLEAN /\ gen' = gen /\ next' = next /\ hist' = hist /\ UNCHANGED clientVars
    BY <1>3 DEF ServiceEnds, Finished, vars, service, IInv, TypeOK
  <2>2. TypeOK' /\ HistoryWindow'
    BY <2>1 DEF IInv, TypeOK, HistoryWindow, clientVars
  <2>3. ASSUME NEW d \in Clients PROVE ReaderInv(d)'
    <3>1. ReaderInv(d)
      BY DEF IInv
    <3> QED
      BY <2>1, <3>1 DEF ReaderInv, Torn, clientVars
  <2> QED
    BY <2>2, <2>3 DEF IInv
<1> QED
  BY <1>1, <1>2, <1>3, RecreateInv DEF Next

\* Readers and the window of the history stay consistent in every step of
\* the service and its clients.
THEOREM Invariance == Spec => []IInv
  BY InitInv, NextInv, PTL DEF Spec

-----------------------------------------------------------------------------
(* What the invariant says to a user of capture.                           *)

\* The types of all variables are kept.
THEOREM TypeCorrect == Spec => []TypeOK
<1>1. IInv => TypeOK
  BY DEF IInv
<1> QED
  BY Invariance, <1>1, PTL

\* A capture writes the bytes at the offsets of its snapshot and nothing else, for
\* every ring and chunk size and however the ring moves under it (pb_capture);
\* they are of one session unless the ID has changed hands since.
THEOREM CaptureIsExact == Spec => []CaptureExact
<1>1. IInv => CaptureExact
  <2> SUFFICES ASSUME IInv, NEW c \in Clients
               PROVE  /\ \A i \in 1 .. Len(out[c]) : out[c][i] = snap[c].lo + i - 1
                      /\ st[c] = "done" => Len(out[c]) = snap[c].hi - snap[c].lo
                      /\ Torn(c) => snap[c].gen < gen
    BY DEF CaptureExact
  <2>1. ReaderInv(c) /\ gen \in Nat /\ snap[c].gen \in Nat /\ met[c] \subseteq Nat
    BY DEF IInv, TypeOK
  <2>2. Torn(c) => snap[c].gen < gen
    BY <2>1 DEF ReaderInv, Torn
  <2> QED
    BY <2>1, <2>2 DEF ReaderInv, IsSlice
<1> QED
  BY Invariance, <1>1, PTL

\* The EPROTO branch of pb_capture is unreachable, and only a session that took
\* over the ID answers EINVAL.
THEOREM ProtocolHolds == Spec => []NoProtocolError
<1>1. IInv => NoProtocolError
  BY DEF IInv, ReaderInv, NoProtocolError
<1> QED
  BY Invariance, <1>1, PTL

\* EOVERFLOW is reported only for bytes that have left the window of the session
\* that reports it.
THEOREM OverflowHonest == Spec => []OverflowIsReal
<1>1. IInv => OverflowIsReal
  BY DEF IInv, ReaderInv, OverflowIsReal
<1> QED
  BY Invariance, <1>1, PTL

\* The three together, the property that the run of MCPtyCapture checks.
THEOREM CaptureIsCorrect == Spec => []CaptureCorrect
<1>1. CaptureExact /\ NoProtocolError /\ OverflowIsReal => CaptureCorrect
  BY DEF CaptureCorrect
<1> QED
  BY CaptureIsExact, ProtocolHolds, OverflowHonest, <1>1, PTL

-----------------------------------------------------------------------------
(* Refinement of SnapshotCopy.                                             *)

\* The abstract state of reader c, and of all readers.
View(c) == [st |-> Phase(st[c]), of |-> snap[c].gen, lo |-> snap[c].lo, hi |-> snap[c].hi,
            out |-> out[c], by |-> met[c]]
Views == [c \in Clients |-> View(c)]

\* A sequence that is a slice is the slice of that length.
LEMMA SliceIs ==
  ASSUME NEW s \in Seq(Nat), NEW lo \in Nat, IsSlice(s, lo)
  PROVE  s = Abstract!Slice(lo, Len(s))
<1>1. Len(s) \in Nat /\ DOMAIN s = 1 .. Len(s) /\ s = [i \in 1 .. Len(s) |-> s[i]]
  OBVIOUS
<1>2. \A i \in 1 .. Len(s) : s[i] = lo + i - 1
  BY DEF IsSlice
<1> QED
  BY <1>1, <1>2 DEF Abstract!Slice

\* The length of what a write of t's first k bytes leaves.
LEMMA AppendedLength ==
  ASSUME NEW s \in Seq(Nat), NEW t \in Seq(Nat), NEW k \in 0 .. Len(t)
  PROVE  /\ Len(s \o t) = Len(s) + Len(t)
         /\ Len(s \o SubSeq(t, 1, k)) = Len(s) + k
<1>1. SubSeq(t, 1, k) \in Seq(Nat) /\ Len(SubSeq(t, 1, k)) = k
  OBVIOUS
<1>2. \A u \in Seq(Nat) : Len(s \o u) = Len(s) + Len(u)
  OBVIOUS
<1> QED
  BY <1>1, <1>2

\* A reader's step changes the view of that reader only.
LEMMA OneView ==
  ASSUME IInv, NEW c \in Clients, Client(c)
  PROVE  gen' = gen /\ next' = next /\ Views' = [Views EXCEPT ![c] = View(c)']
<1>1. gen' = gen /\ next' = next
  BY DEF Client, AskStatus, AskChunk, Accept, Reject, RequestFails, Finish, WriteFails, Failed,
         service
<1>2. ASSUME NEW d \in Clients, d # c PROVE View(d)' = View(d)
  <2>1. st'[d] = st[d] /\ snap'[d] = snap[d] /\ out'[d] = out[d] /\ met'[d] = met[d]
    BY <1>2 DEF IInv, TypeOK, Client, AskStatus, AskChunk, Accept, Reject, RequestFails,
                Finish, WriteFails, Failed
  <2> QED
    BY <2>1 DEF View
<1> QED
  BY <1>1, <1>2 DEF Views

\* A reader's step is a step of SnapshotCopy or leaves its state alone.
LEMMA ClientRefines ==
  ASSUME IInv, IInv', NEW c \in Clients, Client(c)
  PROVE  Abstract!Next \/ (gen' = gen /\ next' = next /\ Views' = Views)
<1>0. gen' = gen /\ next' = next /\ Views' = [Views EXCEPT ![c] = View(c)'] /\ Views[c] = View(c)
  BY OneView DEF Views
<1>a. /\ out'[c] \in Seq(Nat) /\ out[c] \in Seq(Nat) /\ snap[c].lo \in Nat /\ snap[c].hi \in Nat
      /\ next \in Nat /\ ReaderInv(c) /\ ReaderInv(c)' /\ snap'[c] \in [gen : Nat, lo : Nat, hi : Nat]
      /\ st[c] \in {"idle", "loop", "answered", "done", "failed"}
  BY DEF IInv, TypeOK
<1>1. CASE AskStatus(c)
  <2>1. /\ View(c)' = [st |-> "copying", of |-> gen, lo |-> Oldest(next), hi |-> next,
                       out |-> <<>>, by |-> {gen}]
        /\ View(c).st = "idle"
    BY <1>1, <1>a DEF AskStatus, View, Phase, ReaderInv, IInv, TypeOK
  <2>2. Oldest(next) \in 0 .. next
    BY <1>a, RingAssumption DEF Oldest
  <2>3. Abstract!Begin(c)
    BY <1>0, <2>1, <2>2 DEF Abstract!Begin, Views, View
  <2> QED
    BY <2>3 DEF Abstract!Next
<1>2. CASE AskChunk(c)
  <2>1. View(c)' = [View(c) EXCEPT !.by = met[c] \union {gen}] /\ View(c).st = "copying"
    <3>1. /\ st[c] = "loop" /\ st'[c] = "answered" /\ snap'[c] = snap[c] /\ out'[c] = out[c]
          /\ met'[c] = met[c] \union {gen}
      BY <1>2 DEF AskChunk, IInv, TypeOK
    <3> QED
      BY <3>1 DEF View, Phase
  <2>2. View(c).by = met[c]
    BY DEF View
  <2>3. Abstract!Consult(c)
    BY <1>0, <2>1, <2>2 DEF Abstract!Consult, Views, View
  <2> QED
    BY <2>3 DEF Abstract!Next
<1>3. ASSUME st[c] \in {"loop", "answered"}, snap'[c] = snap[c], met'[c] = met[c],
             Len(out'[c]) >= Len(out[c]), NEW p \in {"copying", "failed"},
             Phase(st'[c]) = p, Len(out'[c]) <= snap[c].hi - snap[c].lo
      PROVE  Abstract!Extend(c, p)
  <2> DEFINE n == Len(out'[c])
  <2>1. out'[c] = Abstract!Slice(snap[c].lo, n)
    BY <1>a, <1>3, SliceIs DEF ReaderInv
  <2>2. n \in Len(out[c]) .. snap[c].hi - snap[c].lo
    BY <1>a, <1>3
  <2> DEFINE sl == Abstract!Slice(snap[c].lo, n)
             w  == View(c)
  <2>3. /\ View(c)' = [st |-> p, of |-> snap[c].gen, lo |-> snap[c].lo, hi |-> snap[c].hi,
                       out |-> sl, by |-> met[c]]
        /\ w = [st |-> "copying", of |-> snap[c].gen, lo |-> snap[c].lo, hi |-> snap[c].hi,
                out |-> out[c], by |-> met[c]]
    <3>1. /\ Phase(st'[c]) = p /\ snap'[c] = snap[c] /\ out'[c] = sl /\ met'[c] = met[c]
          /\ Phase(st[c]) = "copying"
      BY <1>3, <2>1 DEF Phase
    <3> HIDE DEF sl
    <3> QED
      BY <3>1 DEF View
  <2>4. /\ Views[c].st = "copying" /\ Views[c].of = snap[c].gen /\ Views[c].lo = snap[c].lo
        /\ Views[c].hi = snap[c].hi /\ Views[c].out = out[c] /\ Views[c].by = met[c]
    BY <1>0, <2>3
  <2>5. Views' = [Views EXCEPT ![c] = [st |-> p, of |-> Views[c].of, lo |-> Views[c].lo,
                                       hi |-> Views[c].hi, out |-> Abstract!Slice(Views[c].lo, n),
                                       by |-> Views[c].by]]
    <3> HIDE DEF n
    <3> QED
      BY <1>0, <2>3, <2>4, Zenon DEF sl
  <2>6. n \in Len(Views[c].out) .. Views[c].hi - Views[c].lo
    BY <2>2, <2>4, Zenon
  <2>7. \E j \in Len(Views[c].out) .. Views[c].hi - Views[c].lo :
          Views' = [Views EXCEPT ![c] = [st |-> p, of |-> Views[c].of, lo |-> Views[c].lo,
                                         hi |-> Views[c].hi, out |-> Abstract!Slice(Views[c].lo, j),
                                         by |-> Views[c].by]]
    <3> HIDE DEF n
    <3> QED
      BY <2>5, <2>6, Zenon
  <2>8. Views[c].st = "copying" /\ next' = next /\ gen' = gen
    BY <1>0, <2>4
  <2> QED
    BY <2>7, <2>8 DEF Abstract!Extend, Views, View
<1>4. CASE Accept(c)
  <2>1. /\ st[c] = "answered" /\ st'[c] = "loop" /\ snap'[c] = snap[c] /\ met'[c] = met[c]
        /\ out'[c] = out[c] \o reply[c].data /\ reply[c].data \in Seq(Nat)
    BY <1>4 DEF Accept, IInv, TypeOK
  <2>2. Len(out'[c]) >= Len(out[c])
    <3>1. Len(reply[c].data) \in Nat /\ Len(out[c]) \in Nat
      BY <1>a, <2>1
    <3>2. Len(out'[c]) = Len(out[c]) + Len(reply[c].data)
      <4>1. Len(reply[c].data) \in 0 .. Len(reply[c].data)
        BY <3>1
      <4> QED
        BY <1>a, <2>1, <4>1, AppendedLength, Zenon
    <3> DEFINE n == Len(out[c])
               m == Len(out'[c])
               r == Len(reply[c].data)
    <3> HIDE DEF n, m, r
    <3>3. n \in Nat /\ r \in Nat /\ m = n + r
      BY <3>1, <3>2, Zenon DEF n, m, r
    <3>4. m >= n
      BY <3>3
    <3> QED
      BY <3>4 DEF n, m
  <2>3. Len(out'[c]) <= snap[c].hi - snap[c].lo
    <3>1. Len(out'[c]) = off'[c] - snap[c].lo /\ off'[c] <= snap[c].hi /\ off'[c] \in Nat
      BY <1>a, <2>1 DEF ReaderInv, IInv, TypeOK
    <3> QED
      BY <1>a, <3>1
  <2>4. Phase(st'[c]) = "copying"
    BY <2>1 DEF Phase
  <2> QED
    BY <1>3, <2>1, <2>2, <2>3, <2>4 DEF Abstract!Next
<1>5. ASSUME NEW k \in 0 .. Chunk, WriteFails(c, k) PROVE Abstract!Next
  <2>1. /\ st[c] = "answered" /\ st'[c] = "failed" /\ snap'[c] = snap[c] /\ met'[c] = met[c]
        /\ out'[c] = out[c] \o SubSeq(reply[c].data, 1, k) /\ reply[c].data \in Seq(Nat)
        /\ k \in 0 .. Len(reply[c].data)
    <3>1. st[c] = "answered" /\ st'[c] = "failed" /\ snap'[c] = snap[c] /\ met'[c] = met[c]
      BY <1>5 DEF WriteFails, Failed, IInv, TypeOK
    <3>2. out'[c] = out[c] \o SubSeq(reply[c].data, 1, k)
      BY <1>5 DEF WriteFails, IInv, TypeOK
    <3>3. reply[c].data \in Seq(Nat) /\ k <= Len(reply[c].data)
      BY <1>5 DEF WriteFails, IInv, TypeOK
    <3>4. Len(reply[c].data) \in Nat
      BY <3>3
    <3>5. k \in 0 .. Len(reply[c].data)
      BY <3>3, <3>4
    <3> QED
      BY <3>1, <3>2, <3>3, <3>5
  <2>2. Len(out'[c]) = Len(out[c]) + k /\ Len(out[c]) \in Nat
    <3>1. Len(out[c] \o SubSeq(reply[c].data, 1, k)) = Len(out[c]) + k
      BY <1>a, <2>1, AppendedLength, Zenon
    <3>2. Len(out'[c]) = Len(out[c]) + k
      BY <2>1, <3>1, Zenon
    <3>3. Len(out[c]) \in Nat
      BY <1>a
    <3> QED
      BY <3>2, <3>3
  <2>3. Len(out'[c]) <= snap[c].hi - snap[c].lo
    <3>1. /\ Len(out[c]) = off[c] - snap[c].lo /\ off[c] \in Nat
          /\ Len(reply[c].data) <= snap[c].hi - off[c]
      BY <1>a, <1>5 DEF ReaderInv, IInv, TypeOK, WriteFails, Plausible
    <3>2. snap[c].lo \in Nat /\ snap[c].hi \in Nat /\ Len(reply[c].data) \in Nat
      BY <1>a, <2>1
    <3>3. k \in Int /\ k <= Len(reply[c].data)
      BY <2>1, <3>2
    <3> DEFINE n == Len(out[c])
               m == Len(out'[c])
               r == Len(reply[c].data)
               o == off[c]
               lo == snap[c].lo
               hi == snap[c].hi
    <3>4. /\ m = n + k /\ n = o - lo /\ r <= hi - o /\ k <= r
          /\ k \in Int /\ n \in Nat /\ r \in Nat /\ lo \in Nat /\ hi \in Nat /\ o \in Nat
      BY <2>2, <3>1, <3>2, <3>3
    <3> HIDE DEF n, m, r, o, lo, hi
    <3>5. m <= hi - lo
      BY <3>4
    <3> QED
      BY <3>5 DEF m, hi, lo
  <2>4. Phase(st'[c]) = "failed" /\ Len(out'[c]) >= Len(out[c])
    <3>1. Phase(st'[c]) = "failed"
      BY <2>1 DEF Phase
    <3> DEFINE n == Len(out[c])
               m == Len(out'[c])
    <3> HIDE DEF n, m
    <3>2. n \in Nat /\ m = n + k
      BY <2>2, Zenon DEF n, m
    <3>3. m >= n
      BY <3>2
    <3> QED
      BY <3>1, <3>3 DEF n, m
  <2> QED
    BY <1>3, <2>1, <2>3, <2>4 DEF Abstract!Next
<1>6. CASE Reject(c) \/ RequestFails(c)
  <2>1. /\ st[c] \in {"idle", "loop", "answered"} /\ st'[c] = "failed" /\ snap'[c] = snap[c]
        /\ out'[c] = out[c] /\ met'[c] = met[c]
    BY <1>6 DEF Reject, RequestFails, Failed, IInv, TypeOK
  <2>2. CASE st[c] = "idle"
    <3>1. View(c)' = [View(c) EXCEPT !.st = "failed"] /\ View(c).st = "idle"
      BY <2>1, <2>2 DEF View, Phase
    <3>2. Abstract!GiveUp(c)
      BY <1>0, <3>1 DEF Abstract!GiveUp, Views, View
    <3> QED
      BY <3>2 DEF Abstract!Next
  <2>3. CASE st[c] \in {"loop", "answered"}
    <3>1. Len(out[c]) = off[c] - snap[c].lo /\ off[c] <= snap[c].hi /\ off[c] \in Nat
      BY <1>a, <2>3 DEF ReaderInv, IInv, TypeOK
    <3>2. Len(out'[c]) <= snap[c].hi - snap[c].lo /\ Len(out'[c]) >= Len(out[c])
      BY <1>a, <2>1, <3>1
    <3>3. Phase(st'[c]) = "failed"
      BY <2>1 DEF Phase
    <3> QED
      BY <1>3, <2>1, <2>3, <3>2, <3>3 DEF Abstract!Next
  <2> QED
    BY <2>1, <2>2, <2>3
<1>7. CASE Finish(c)
  <2>1. /\ st[c] = "loop" /\ st'[c] = "done" /\ snap'[c] = snap[c] /\ out'[c] = out[c]
        /\ met'[c] = met[c]
        /\ off[c] >= snap[c].hi /\ off[c] \in Nat
    BY <1>7 DEF Finish, IInv, TypeOK
  <2>2. Len(out[c]) = snap[c].hi - snap[c].lo
    BY <1>a, <2>1 DEF ReaderInv
  <2>3. View(c)' = [View(c) EXCEPT !.st = "done"] /\ View(c).st = "copying"
    BY <2>1 DEF View, Phase
  <2>4. Abstract!Finish(c)
    BY <1>0, <2>2, <2>3 DEF Abstract!Finish, Views, View
  <2> QED
    BY <2>4 DEF Abstract!Next
<1> QED
  BY <1>1, <1>2, <1>4, <1>5, <1>6, <1>7 DEF Client

\* The chunked copy from a moving ring implements the snapshot, whichever sessions
\* answer its requests.
THEOREM Refinement == Spec => Snapshot
<1>1. Init => Abstract!Init
  BY DEF Init, Abstract!Init, Phase
<1>2. IInv /\ IInv' /\ [Next]_vars => [Abstract!Next]_<<gen, next, Views>>
  <2> SUFFICES ASSUME IInv, IInv', [Next]_vars
               PROVE  Abstract!Next \/ (gen' = gen /\ next' = next /\ Views' = Views)
    OBVIOUS
  <2>1. ASSUME NEW n \in 1 .. Chunk, Output(n) PROVE Abstract!Next
    <3>1. next \in Nat /\ next' = next + n /\ st' = st /\ snap' = snap /\ out' = out
          /\ gen' = gen /\ met' = met
      BY <2>1 DEF Output, clientVars, IInv, TypeOK
    <3>2. next' \in Nat /\ next' > next /\ gen' = gen /\ Views' = Views
      BY <3>1, RingAssumption DEF Views, View
    <3> QED
      BY <3>2 DEF Abstract!Next, Abstract!Grow, Views, View
  <2>2. CASE ServiceEnds \/ Finished \/ UNCHANGED vars
    BY <2>2 DEF ServiceEnds, Finished, vars, service, clientVars, Views, View
  <2>3. CASE Recreate
    <3>1. gen' = gen + 1 /\ next' = 0 /\ Views' = Views
      BY <2>3 DEF Recreate, clientVars, Views, View
    <3> QED
      BY <3>1 DEF Abstract!Next, Abstract!Replace, Views, View
  <2> QED
    BY <2>1, <2>2, <2>3, ClientRefines DEF Next
<1> QED
  BY <1>1, <1>2, Invariance, PTL DEF Spec, Snapshot, Abstract!Spec, Views, View

=============================================================================
