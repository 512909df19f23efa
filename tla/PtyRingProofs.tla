---------------------------- MODULE PtyRingProofs ----------------------------
(***************************************************************************)
(* Induction over the natural numbers, and facts about the rings of        *)
(* PtyRing: modular arithmetic, what a write puts where, what it leaves    *)
(* alone, and what a read returns.                                         *)
(***************************************************************************)
EXTENDS PtyRing, FiniteSetTheorems, TLAPS

-----------------------------------------------------------------------------
(* Induction, with sets in place of predicates: a set of numbers has a     *)
(* least element because strict inclusion of finite sets is well founded.  *)

\* A nonempty set of natural numbers has a least element.
LEMMA LeastNat ==
  ASSUME NEW T \in SUBSET Nat, T # {}
  PROVE  \E n \in T : \A m \in T : n <= m
<1> DEFINE F == {1 .. t : t \in T}
<1>1. F \subseteq FiniteSubsetsOf(Nat) /\ F # {}
  <2> SUFFICES ASSUME NEW t \in T
               PROVE  1 .. t \in FiniteSubsetsOf(Nat)
    OBVIOUS
  <2>1. IsFiniteSet(1 .. t)
    BY FS_Interval
  <2> QED
    BY <2>1 DEF FiniteSubsetsOf
<1>2. IsWellFoundedOn(StrictSubsetOrdering(Nat), FiniteSubsetsOf(Nat))
  BY FS_StrictSubsetOrderingWellFounded
<1> HIDE DEF F
<1>3. PICK x \in F : \A y \in F : <<y, x>> \notin StrictSubsetOrdering(Nat)
  BY <1>1, <1>2, WFMin, Zenon
<1>4. PICK n \in T : x = 1 .. n
  BY DEF F
<1>5. ASSUME NEW m \in T, m < n
      PROVE  FALSE
  <2>1. 1 .. m \in F /\ 1 .. m \subseteq x /\ 1 .. m # x /\ x \subseteq Nat
    BY <1>4, <1>5 DEF F
  <2>2. <<1 .. m, x>> \in StrictSubsetOrdering(Nat)
    BY <2>1 DEF StrictSubsetOrdering
  <2> QED
    BY <1>3, <2>1, <2>2
<1> QED
  BY <1>5

\* A set with 0 in it that is closed under successor holds every number.
LEMMA SetInduction ==
  ASSUME NEW S, 0 \in S, \A n \in Nat : n \in S => n + 1 \in S
  PROVE  Nat \subseteq S
<1> DEFINE T == {n \in Nat : n \notin S}
<1> SUFFICES ASSUME T # {}
             PROVE  FALSE
  OBVIOUS
<1>1. PICK n \in T : \A m \in T : n <= m
  BY LeastNat
<1>2. n # 0 /\ n - 1 \in Nat /\ n - 1 \in S
  BY <1>1
<1> QED
  BY <1>1, <1>2

\* Min of a set of numbers is its least element.
LEMMA MinNat ==
  ASSUME NEW T \in SUBSET Nat, T # {}
  PROVE  Min(T) \in T /\ \A m \in T : Min(T) <= m
  BY LeastNat DEF Min

-----------------------------------------------------------------------------
(* Arithmetic modulo the size of a ring.                                   *)

\* The remainder is a ring index and the quotient is whole.
LEMMA DivMod ==
  ASSUME NEW H \in Nat \ {0}, NEW a \in Int
  PROVE  /\ a % H \in 0 .. H - 1
         /\ a \div H \in Int
         /\ a = H * (a \div H) + (a % H)
  BY SMT

\* A number has one quotient and one remainder.
LEMMA ModUnique ==
  ASSUME NEW H \in Nat \ {0}, NEW q \in Int, NEW r \in 0 .. H - 1
  PROVE  (H * q + r) % H = r
  BY SMT

\* The distance from ring position m to that of k, at most a lap away.
LEMMA ModDistance ==
  ASSUME NEW H \in Nat \ {0}, NEW k \in Int, NEW m \in Int
  PROVE  /\ k - m \in 0 .. H - 1 => ((k % H) - m) % H = k - m
         /\ m - k \in 1 .. H => ((k % H) - m) % H = k - m + H
<1> DEFINE q == k \div H
           r == k % H
<1>1. q \in Int /\ r \in Int /\ k = H * q + r
  BY DivMod
<1> HIDE DEF q, r
<1>2. ASSUME k - m \in 0 .. H - 1
      PROVE  (r - m) % H = k - m
  <2>1. r - m = H * (-q) + (k - m)
    BY <1>1
  <2>2. (H * (-q) + (k - m)) % H = k - m
    <3>1. -q \in Int
      BY <1>1
    <3> QED
      BY <1>2, <3>1, ModUnique, Zenon
  <2> QED
    BY <2>1, <2>2, Zenon
<1>3. ASSUME m - k \in 1 .. H
      PROVE  (r - m) % H = k - m + H
  <2>1. r - m = H * (-1 - q) + (k - m + H)
    BY <1>1
  <2>2. (H * (-1 - q) + (k - m + H)) % H = k - m + H
    <3>1. -1 - q \in Int /\ k - m + H \in 0 .. H - 1
      BY <1>1, <1>3
    <3> QED
      BY <3>1, ModUnique, Zenon
  <2> QED
    BY <2>1, <2>2, Zenon
<1> QED
  BY <1>2, <1>3, Zenon DEF r

-----------------------------------------------------------------------------
(* Writing to and reading from a ring.                                     *)

\* A write is a ring again, of the same type.
LEMMA RingPutType ==
  ASSUME NEW size \in Nat \ {0}, NEW ring \in [0 .. size - 1 -> Nat],
         NEW at \in Nat, NEW first \in Nat, NEW n \in Nat
  PROVE  RingPut(ring, size, at, first, n) \in [0 .. size - 1 -> Nat]
<1> SUFFICES ASSUME NEW j \in 0 .. size - 1
             PROVE  (IF (j - at) % size < n THEN first + ((j - at) % size)
                     ELSE ring[j]) \in Nat
  BY DEF RingPut
<1>1. (j - at) % size \in 0 .. size - 1
  BY DivMod
<1> QED
  BY <1>1

\* What a write of n bytes leaves at position k: the positions less than a lap
\* after `at' hold the new bytes, in order, and those before it that the write
\* does not reach keep what they held.
PutAt(ring, size, at, first, n, k) ==
  /\ (at <= k /\ k < at + n =>
        RingPut(ring, size, at, first, n)[k % size] = first + (k - at))
  /\ (k < at /\ at + n <= k + size =>
        RingPut(ring, size, at, first, n)[k % size] = ring[k % size])

\* RingPut writes so.
LEMMA RingPutAt ==
  ASSUME NEW size \in Nat \ {0}, NEW ring, NEW at \in Nat, NEW first \in Nat,
         NEW n \in 0 .. size, NEW k \in Int
  PROVE  PutAt(ring, size, at, first, n, k)
<1> DEFINE i == ((k % size) - at) % size
<1>1. k % size \in 0 .. size - 1
  BY DivMod
<1>2. RingPut(ring, size, at, first, n)[k % size] =
        IF i < n THEN first + i ELSE ring[k % size]
  BY <1>1, Zenon DEF RingPut
<1>3. ASSUME at <= k, k < at + n
      PROVE  i = k - at
  <2>1. at \in Int /\ k - at \in 0 .. size - 1
    BY <1>3
  <2> QED
    BY <2>1, ModDistance, Zenon
<1>4. ASSUME k < at, at + n <= k + size
      PROVE  i = k - at + size
  <2>1. at \in Int /\ at - k \in 1 .. size
    BY <1>4
  <2> QED
    BY <2>1, ModDistance, Zenon
<1> DEFINE new == RingPut(ring, size, at, first, n)[k % size]
           old == ring[k % size]
<1> HIDE DEF i, new, old
<1>5. new = IF i < n THEN first + i ELSE old
  BY <1>2 DEF new, old
<1>6. ASSUME at <= k, k < at + n
      PROVE  new = first + (k - at)
  <2>1. i = k - at /\ k - at < n
    BY <1>3, <1>6
  <2> QED
    BY <1>5, <2>1
<1>7. ASSUME k < at, at + n <= k + size
      PROVE  new = old
  <2>1. i = k - at + size /\ ~(k - at + size < n)
    BY <1>4, <1>7
  <2> QED
    BY <1>5, <2>1
<1> QED
  BY <1>6, <1>7 DEF PutAt, new, old

\* A read returns a sequence of n bytes of the ring.
LEMMA RingGetType ==
  ASSUME NEW size \in Nat \ {0}, NEW ring \in [0 .. size - 1 -> Nat],
         NEW at \in Nat, NEW n \in Nat
  PROVE  /\ RingGet(ring, size, at, n) \in Seq(Nat)
         /\ Len(RingGet(ring, size, at, n)) = n
         /\ \A i \in 1 .. n : RingGet(ring, size, at, n)[i] = ring[(at + i - 1) % size]
<1>1. \A i \in 1 .. n : (at + i - 1) % size \in 0 .. size - 1
  BY DivMod
<1>2. RingGet(ring, size, at, n) \in [1 .. n -> Nat]
  BY <1>1 DEF RingGet
<1> QED
  BY <1>2 DEF RingGet

-----------------------------------------------------------------------------
(* The history of PTY output.                                              *)

\* `hist' holds the last History bytes of a stream of n bytes.
Window(hist, n) == \A k \in Oldest(n) .. n - 1 : hist[k % History] = k

\* Recording n more bytes moves the window and keeps it exact.
LEMMA WindowMoves ==
  ASSUME NEW hist \in [0 .. History - 1 -> Nat], NEW next \in Nat,
         NEW n \in 0 .. Chunk, Window(hist, next)
  PROVE  Window(RingPut(hist, History, next, next, n), next + n)
<1> USE RingAssumption
<1> SUFFICES ASSUME NEW k \in Oldest(next + n) .. next + n - 1
             PROVE  RingPut(hist, History, next, next, n)[k % History] = k
  BY DEF Window
<1>1. History \in Nat \ {0} /\ n \in 0 .. History /\ k \in Int
  BY DEF Oldest
<1>2. k % History \in 0 .. History - 1
  BY <1>1, DivMod
<1> DEFINE i == ((k % History) - next) % History
<1>3. RingPut(hist, History, next, next, n)[k % History] =
        IF i < n THEN next + i ELSE hist[k % History]
  BY <1>2, Zenon DEF RingPut
<1>4. /\ k - next \in 0 .. History - 1 => i = k - next
      /\ next - k \in 1 .. History => i = k - next + History
  <2>1. next \in Int
    OBVIOUS
  <2> QED
    BY <1>1, <2>1, ModDistance, Zenon
<1> HIDE DEF i
<1>5. k < next => hist[k % History] = k
  BY <1>1 DEF Window, Oldest
<1> QED
  BY <1>1, <1>3, <1>4, <1>5 DEF Oldest

\* Reading inside the window returns exactly the bytes asked for.
LEMMA WindowRead ==
  ASSUME NEW hist \in [0 .. History - 1 -> Nat], NEW next \in Nat, Window(hist, next),
         NEW off \in Nat, NEW n \in Nat, Oldest(next) <= off, off + n <= next
  PROVE  /\ RingGet(hist, History, off, n) \in Seq(Nat)
         /\ Len(RingGet(hist, History, off, n)) = n
         /\ \A i \in 1 .. n : RingGet(hist, History, off, n)[i] = off + i - 1
<1> USE RingAssumption
<1>1. \A i \in 1 .. n : hist[(off + i - 1) % History] = off + i - 1
  <2> TAKE i \in 1 .. n
  <2>1. off + i - 1 \in Oldest(next) .. next - 1
    BY DEF Oldest
  <2> QED
    BY <2>1 DEF Window
<1>2. History \in Nat \ {0}
  OBVIOUS
<1>3. /\ RingGet(hist, History, off, n) \in Seq(Nat)
      /\ Len(RingGet(hist, History, off, n)) = n
      /\ \A i \in 1 .. n : RingGet(hist, History, off, n)[i] = hist[(off + i - 1) % History]
  BY <1>2, RingGetType, Zenon
<1> QED
  BY <1>1, <1>3, Zenon

\* The smaller of two numbers.
LEMMA MinPair ==
  ASSUME NEW a \in Int, NEW b \in Int
  PROVE  Min({a, b}) = IF a <= b THEN a ELSE b
<1> DEFINE m == IF a <= b THEN a ELSE b
<1>1. m \in {a, b} /\ \A y \in {a, b} : m <= y
  OBVIOUS
<1>2. \A x \in {a, b} : (\A y \in {a, b} : x <= y) => x = m
  OBVIOUS
<1> HIDE DEF m
<1>3. Min({a, b}) = m
  BY <1>1, <1>2 DEF Min
<1> QED
  BY <1>3 DEF m

\* An answer to CAPTURE inside a window that exists: EOVERFLOW if its start is
\* gone, otherwise at least one byte, and exactly the bytes from off on.
LEMMA AnswerExact ==
  ASSUME NEW hist \in [0 .. History - 1 -> Nat], NEW next \in Nat, Window(hist, next),
         NEW off \in Nat, NEW end \in Nat, off < end, end <= next
  PROVE  LET a == CaptureAnswer(hist, next, off, end)
         IN /\ a.err = IF off < Oldest(next) THEN "EOVERFLOW" ELSE "0"
            /\ a \in [err : {"0", "EOVERFLOW", "EINVAL"}, off : Nat, data : Seq(Nat)]
            /\ a.err = "0" => /\ a.off = off
                              /\ Len(a.data) \in 1 .. Chunk /\ Len(a.data) <= end - off
                              /\ \A i \in 1 .. Len(a.data) : a.data[i] = off + i - 1
<1> USE RingAssumption
<1> DEFINE a == CaptureAnswer(hist, next, off, end)
           n == Min({end - off, Chunk})
<1>1. n \in 1 .. Chunk /\ n <= end - off
  <2>1. n = IF end - off <= Chunk THEN end - off ELSE Chunk
    BY MinPair
  <2> QED
    BY <2>1
<1>2. Oldest(next) \in Nat
  BY DEF Oldest
<1> HIDE DEF n
<1>3. CASE off < Oldest(next)
  <2>1. a = [err |-> "EOVERFLOW", off |-> Oldest(next), data |-> <<>>]
    BY <1>3 DEF CaptureAnswer
  <2>2. <<>> \in Seq(Nat)
    OBVIOUS
  <2> QED
    BY <1>2, <1>3, <2>1, <2>2
<1>4. CASE ~(off < Oldest(next))
  <2>1. a = [err |-> "0", off |-> off, data |-> RingGet(hist, History, off, n)]
    BY <1>4 DEF CaptureAnswer, n
  <2>2. n \in Nat /\ Oldest(next) <= off /\ off + n <= next
    BY <1>1, <1>2, <1>4
  <2>3. /\ RingGet(hist, History, off, n) \in Seq(Nat)
        /\ Len(RingGet(hist, History, off, n)) = n
        /\ \A i \in 1 .. n : RingGet(hist, History, off, n)[i] = off + i - 1
    BY <2>2, WindowRead
  <2> QED
    BY <1>1, <1>4, <2>1, <2>3
<1> QED
  BY <1>3, <1>4

=============================================================================
