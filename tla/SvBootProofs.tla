---------------------------- MODULE SvBootProofs ----------------------------
(***************************************************************************)
(* Proofs about the ordered commands of SvBoot, for any number of          *)
(* services, directives and bundles: the search finds an order exactly     *)
(* when there is one, services are started behind the barriers of what     *)
(* they depend on and stopped after their dependents, and every service    *)
(* is used as SvLife allows.                                               *)
(***************************************************************************)
EXTENDS SvBoot, FiniteSetTheorems, TLAPS

-----------------------------------------------------------------------------
(* Numbers in order.                                                       *)

\* A set with 0 in it that is closed under successor holds every number: the
\* least number outside is not there because strict inclusion of finite sets is
\* well founded.
LEMMA NumberInduction ==
  ASSUME NEW S, 0 \in S, \A n \in Nat : n \in S => n + 1 \in S
  PROVE  Nat \subseteq S
<1> DEFINE T == {n \in Nat : n \notin S}
           F == {1 .. t : t \in T}
<1> SUFFICES ASSUME T # {}
             PROVE  FALSE
  OBVIOUS
<1>1. F \subseteq FiniteSubsetsOf(Nat) /\ F # {}
  <2> SUFFICES ASSUME NEW t \in T
               PROVE  1 .. t \in FiniteSubsetsOf(Nat)
    OBVIOUS
  <2>1. IsFiniteSet(1 .. t)
    BY FS_Interval
  <2> QED
    BY <2>1 DEF FiniteSubsetsOf
<1>2. IsWellFoundedOn(StrictSubsetOrdering(Nat), FiniteSubsetsOf(Nat))
  BY FS_StrictSubsetOrderingWellFounded
<1> HIDE DEF F
<1>3. PICK x \in F : \A y \in F : <<y, x>> \notin StrictSubsetOrdering(Nat)
  BY <1>1, <1>2, WFMin, Zenon
<1>4. PICK n \in T : x = 1 .. n
  BY DEF F
<1>5. n # 0 /\ n - 1 \in Nat /\ n - 1 \notin S
  BY <1>4
<1>6. 1 .. (n - 1) \in F
  BY <1>5 DEF F
<1>7. 1 .. (n - 1) \subseteq x /\ 1 .. (n - 1) # x /\ x \subseteq Nat
  BY <1>4, <1>5
<1>8. <<1 .. (n - 1), x>> \in StrictSubsetOrdering(Nat)
  BY <1>7 DEF StrictSubsetOrdering
<1> QED
  BY <1>3, <1>6, <1>8

\* s lists the numbers of S in ascending order.
Lists(s, S) == /\ s \in [1..Cardinality(S) -> S] /\ ToSet(s) = S
               /\ \A a, b \in DOMAIN s : a < b => s[a] < s[b]

\* One more number, above all others, is listed last.
LEMMA ListMore ==
  ASSUME NEW n \in Nat, NEW T \in SUBSET (1..n), NEW s, Lists(s, T)
  PROVE  \E t : Lists(t, T \union {n + 1})
<1> DEFINE S == T \union {n + 1}
           m == Cardinality(T)
           t == [a \in 1..m+1 |-> IF a = m + 1 THEN n + 1 ELSE s[a]]
<1>1. IsFiniteSet(T)
  <2>1. IsFiniteSet(1..n)
    BY FS_Interval
  <2> QED
    BY <2>1, FS_Subset
<1>2. m \in Nat /\ Cardinality(S) = m + 1
  BY <1>1, FS_CardinalityType, FS_AddElement
<1> HIDE DEF m
<1>3. DOMAIN s = 1..m /\ \A a \in 1..m : s[a] \in T
  BY DEF Lists, m
<1>4. t \in [1..m+1 -> S]
  BY <1>2, <1>3
<1>5. \A x \in S : \E a \in 1..m+1 : t[a] = x
  <2>1. \A x \in T : \E a \in 1..m : s[a] = x
    BY <1>3 DEF Lists, ToSet
  <2> QED
    BY <1>2, <2>1
<1>6. ToSet(t) = S
  BY <1>4, <1>5 DEF ToSet
<1>7. \A a, b \in 1..m+1 : a < b => t[a] < t[b]
  <2>1. \A a, b \in 1..m : a < b => s[a] < s[b]
    BY <1>3 DEF Lists
  <2>2. \A a \in 1..m : s[a] < n + 1
    <3>1. \A x \in T : x \in 1..n
      OBVIOUS
    <3>2. \A x \in T : x < n + 1
      BY <3>1
    <3> QED
      BY <1>3, <3>2
  <2> QED
    BY <1>2, <2>1, <2>2
<1> HIDE DEF t
<1>8. Lists(t, S)
  BY <1>2, <1>4, <1>6, <1>7 DEF Lists
<1> QED
  BY <1>8

\* Every set of names can be listed.
LEMMA ListExists ==
  ASSUME NEW S \in SUBSET Names
  PROVE  \E s : Lists(s, S)
<1> DEFINE P == {n \in Nat : \A T \in SUBSET (1..n) : \E s : Lists(s, T)}
<1>1. 0 \in P
  <2> SUFFICES ASSUME NEW T \in SUBSET (1..0)
               PROVE  \E s : Lists(s, T)
    OBVIOUS
  <2>1. T = {}
    <3>1. 1..0 = {}
      OBVIOUS
    <3> QED
      BY <3>1
  <2>2. Cardinality(T) = 0
    BY <2>1, FS_EmptySet
  <2>3. Lists([a \in 1..0 |-> 0], T)
    BY <2>1, <2>2 DEF Lists, ToSet
  <2> QED
    BY <2>3
<1>2. ASSUME NEW n \in Nat, n \in P
      PROVE  n + 1 \in P
  <2> SUFFICES ASSUME NEW T \in SUBSET (1..n+1)
               PROVE  \E s : Lists(s, T)
    OBVIOUS
  <2>1. CASE n + 1 \notin T
    BY <1>2, <2>1
  <2>2. CASE n + 1 \in T
    <3> DEFINE R == T \ {n + 1}
    <3>1. R \in SUBSET (1..n) /\ T = R \union {n + 1}
      BY <2>2
    <3> HIDE DEF R
    <3>2. PICK s : Lists(s, R)
      BY <1>2, <3>1
    <3> QED
      BY <3>1, <3>2, ListMore
  <2> QED
    BY <2>1, <2>2
<1>3. Nat \subseteq P
  <2> HIDE DEF P
  <2> QED
    BY <1>1, <1>2, NumberInduction
<1>4. N + 1 \in Nat
  BY BootAssumption
<1>5. N + 1 \in P
  BY <1>3, <1>4
<1> QED
  BY <1>5 DEF Names

\* Ascending lists the names of a set.
LEMMA AscendingLists ==
  ASSUME NEW S \in SUBSET Names
  PROVE  Ascending(S) \in Seq(S) /\ ToSet(Ascending(S)) = S
<1>1. PICK s : Lists(s, S)
  BY ListExists
<1>2. Lists(Ascending(S), S)
  BY <1>1 DEF Lists, Ascending
<1>3. Cardinality(S) \in Nat
  <2>1. IsFiniteSet(Names)
    BY BootAssumption, FS_Interval DEF Names
  <2> QED
    BY <2>1, FS_Subset, FS_CardinalityType
<1> QED
  BY <1>2, <1>3 DEF Lists

-----------------------------------------------------------------------------
(* The search.  W is the stack, st the marks, o the order so far.          *)

Entry == [act : {"hard", "soft", "leave"}, i : Names]

\* The order so far: what is marked 2, once each and all enabled, with all it
\* requires, after everything it depends on.
Placed(st, o) ==
  /\ \A i \in Services : st[i] = 2 <=> \E a \in DOMAIN o : o[a] = i
  /\ IsInjective(o)
  /\ \A a \in DOMAIN o :
       /\ \A d \in g.requires[o[a]] : Enabled(d)
       /\ \A d \in Dependencies(o[a]) : \E b \in 1..a-1 : o[b] = d

\* What is marked 1 is on the stack, to be left once; marked services are
\* enabled and in reach.
Open(W, st) ==
  /\ \A i \in Services : st[i] = 1 <=> \E a \in DOMAIN W : W[a].act = "leave" /\ W[a].i = i
  /\ \A a, b \in DOMAIN W : W[a].act = "leave" /\ W[b].act = "leave" /\ W[a].i = W[b].i => a = b
  /\ \A a \in DOMAIN W : W[a].act = "leave" => W[a].i \in Services
  /\ \A i \in Services : st[i] # 0 => Enabled(i) /\ i \in Reaches(Selected)

\* Before a service is left all it depends on is placed: until then it is on the
\* stack before it.
Due(W, st) ==
  \A a \in DOMAIN W : W[a].act = "leave" =>
    /\ \A d \in g.requires[W[a].i] :
         (Enabled(d) /\ st[d] = 2) \/ \E b \in 1..a-1 : W[b].i = d /\ W[b].act # "soft"
    /\ \A d \in After(W[a].i) :
         ~Enabled(d) \/ st[d] = 2 \/ \E b \in 1..a-1 : W[b].i = d

\* The services that were asked for are placed or on the stack.
Roots(W, st) == \A i \in Selected : st[i] = 2 \/ \E b \in DOMAIN W : W[b].i = i

\* Everything on the stack is in reach, and a dependency of what is left after it.
Reached(W) ==
  \A b \in DOMAIN W :
    /\ Enabled(W[b].i) => W[b].i \in Reaches(Selected)
    /\ W[b].act = "hard" => \E p \in Reaches(Selected) : W[b].i \in g.requires[p]
    /\ \A a \in DOMAIN W : b < a /\ W[a].act = "leave" /\ Enabled(W[b].i)
                             => W[b].i \in Reaches(Dependencies(W[a].i))

Search(W, st, o) == Placed(st, o) /\ Open(W, st) /\ Due(W, st) /\ Roots(W, st) /\ Reached(W)

-----------------------------------------------------------------------------
(* The commands.                                                           *)

TypeOK ==
  /\ g \in Graph /\ stopping \in BOOLEAN /\ late \in BOOLEAN
  /\ work \in Seq(Entry) /\ state \in [Services -> 0..2] /\ order \in Seq(Services)
  /\ k \in Nat /\ passed \subseteq Services
  /\ life \in [Services -> {"off", "new", "on"}] /\ told \in [Services -> BOOLEAN]

\* The search has found an order.
Found ==
  /\ Orderable /\ ToSet(order) = Reaches(Selected) /\ IsInjective(order)
  /\ \A a, b \in DOMAIN order : order[b] \in Dependencies(order[a]) => b < a

SearchInv ==
  /\ pc = "order" => Search(work, state, order) /\ g.parsed /\ N + 1 \notin Marked
  /\ pc \in {"clear", "fork", "barrier", "down", "wait"} => Found
  /\ pc = "refused" => ~Orderable

\* No command begins or stops services while a supervisor is not yet visible.
Quiet == pc \in {"plan", "order", "down", "wait", "stopped"} => \A i \in Services : life[i] # "new"

\* Services before position k have passed their barriers, those after it have
\* not been started by this command.
Starting ==
  /\ pc = "order" => passed = {}
  /\ pc \in {"clear", "fork", "barrier"} =>
       /\ k \in 1..Len(order) + 1 /\ passed = {order[j] : j \in 1..k-1}
       /\ \A j \in k+1..Len(order) : life[order[j]] # "new"
       /\ pc = "clear" => \A j \in k..Len(order) : life[order[j]] # "new"
       /\ pc = "fork" => k <= Len(order) /\ life[order[k]] = "off" /\ ~told[order[k]]
       /\ pc = "barrier" => k <= Len(order)

\* Services behind position k are gone, unless a wait gave up.
Stopping ==
  pc \in {"down", "wait"} =>
    /\ k \in 0..Len(order) /\ (pc = "wait" => k > 0)
    /\ target = All /\ ~late => \A j \in k+1..Len(order) : life[order[j]] = "off"

BootInv == TypeOK /\ SearchInv /\ Quiet /\ Starting /\ Stopping

-----------------------------------------------------------------------------
(* Operators of the search.                                                *)

\* After lists and dependencies hold names and services.
LEMMA DependsOn ==
  ASSUME g \in Graph, NEW i \in Services
  PROVE  /\ g.requires[i] \in SUBSET Names /\ After(i) \in SUBSET Names
         /\ Dependencies(i) \in SUBSET Services
         /\ \A d : d \in Dependencies(i) <=> (d \in g.requires[i] \/ d \in After(i)) /\ Enabled(d)
<1>1. g.requires[i] \in SUBSET Names /\ g.after[i] \in SUBSET Names
  BY DEF Graph
<1>2. Services \subseteq Names
  BY BootAssumption DEF Services, Names
<1>3. After(i) \in SUBSET Names
  BY <1>1, <1>2 DEF After
<1> QED
  BY <1>1, <1>3 DEF Dependencies, Enabled

\* What Item lists.
LEMMA ItemAt ==
  ASSUME NEW act \in {"hard", "soft", "leave"}, NEW S \in SUBSET Names
  PROVE  /\ Item(act, S) \in Seq(Entry)
         /\ \A b \in DOMAIN Item(act, S) : Item(act, S)[b].act = act /\ Item(act, S)[b].i \in S
         /\ \A d \in S : \E b \in DOMAIN Item(act, S) : Item(act, S)[b].i = d
<1> DEFINE s == Ascending(S)
<1>1. s \in Seq(S) /\ ToSet(s) = S
  BY AscendingLists
<1> HIDE DEF s
<1>2. Item(act, S) = [n \in DOMAIN s |-> [act |-> act, i |-> s[n]]]
  BY DEF Item, s
<1>3. \A n \in DOMAIN s : s[n] \in S /\ s[n] \in Names
  BY <1>1
<1>4. \A d \in S : \E n \in DOMAIN s : s[n] = d
  BY <1>1 DEF ToSet
<1>5. \A n \in DOMAIN s : [act |-> act, i |-> s[n]] \in Entry
  BY <1>3 DEF Entry
<1>6. Item(act, S) \in Seq(Entry)
  BY <1>1, <1>2, <1>5
<1> QED
  BY <1>2, <1>3, <1>4, <1>6

\* V is the stack W after its head was opened: in front of the rest the service i
\* is left, and before that all it depends on is visited.
Opened(V, W, i, m) ==
  /\ V \in Seq(Entry) /\ Len(V) = m + Len(W) - 1
  /\ V[m].act = "leave" /\ V[m].i = i
  /\ \A b \in 1..m-1 : \/ V[b].act = "hard" /\ V[b].i \in g.requires[i]
                       \/ V[b].act = "soft" /\ V[b].i \in After(i)
  /\ \A d \in g.requires[i] : \E b \in 1..m-1 : V[b].act = "hard" /\ V[b].i = d
  /\ \A d \in After(i) : \E b \in 1..m-1 : V[b].i = d
  /\ \A b \in 2..Len(W) : V[m + b - 1] = W[b]

\* Four sequences one after the other.
Parts(V, A, B, L, T) ==
  LET n == Len(A) + Len(B)
  IN /\ Len(V) = n + Len(L) + Len(T)
     /\ \A b \in 1 .. Len(A) : V[b] = A[b]
     /\ \A b \in 1 .. Len(B) : V[Len(A) + b] = B[b]
     /\ \A b \in 1 .. Len(L) : V[n + b] = L[b]
     /\ \A b \in 1 .. Len(T) : V[n + Len(L) + b] = T[b]

\* Each of them is found again in their concatenation.
LEMMA FourParts ==
  ASSUME NEW S, NEW A \in Seq(S), NEW B \in Seq(S), NEW L \in Seq(S), NEW T \in Seq(S)
  PROVE  A \o B \o L \o T \in Seq(S) /\ Parts(A \o B \o L \o T, A, B, L, T)
<1>1. PICK C \in Seq(S) : C = A \o B
  <2>1. A \o B \in Seq(S)
    OBVIOUS
  <2> QED
    BY <2>1
<1>2. PICK D \in Seq(S) : D = C \o L
  <2>1. C \o L \in Seq(S)
    OBVIOUS
  <2> QED
    BY <2>1
<1>3. PICK V \in Seq(S) : V = D \o T
  <2>1. D \o T \in Seq(S)
    OBVIOUS
  <2> QED
    BY <2>1
<1>4. /\ Len(C) = Len(A) + Len(B)
      /\ \A b \in 1 .. Len(A) : C[b] = A[b]
      /\ \A b \in 1 .. Len(B) : C[Len(A) + b] = B[b]
  BY <1>1
<1>5. /\ Len(D) = Len(C) + Len(L)
      /\ \A b \in 1 .. Len(C) : D[b] = C[b]
      /\ \A b \in 1 .. Len(L) : D[Len(C) + b] = L[b]
  BY <1>2
<1>6. /\ Len(V) = Len(D) + Len(T)
      /\ \A b \in 1 .. Len(D) : V[b] = D[b]
      /\ \A b \in 1 .. Len(T) : V[Len(D) + b] = T[b]
  BY <1>3
<1>7. Len(A) \in Nat /\ Len(B) \in Nat /\ Len(L) \in Nat /\ Len(T) \in Nat
  OBVIOUS
<1>8. A \o B \o L \o T = V
  BY <1>1, <1>2, <1>3
<1> DEFINE n == Len(A) + Len(B)
<1>9. Len(V) = n + Len(L) + Len(T)
  BY <1>4, <1>5, <1>6
<1>10. \A b \in 1 .. Len(A) : V[b] = A[b]
  <2>1. \A b \in 1 .. Len(A) : b \in 1 .. Len(C) /\ b \in 1 .. Len(D)
    BY <1>4, <1>5, <1>7
  <2> QED
    BY <1>4, <1>5, <1>6, <2>1
<1>11. \A b \in 1 .. Len(B) : V[Len(A) + b] = B[b]
  <2>1. \A b \in 1 .. Len(B) : Len(A) + b \in 1 .. Len(C) /\ Len(A) + b \in 1 .. Len(D)
    BY <1>4, <1>5, <1>7
  <2> QED
    BY <1>4, <1>5, <1>6, <2>1
<1>12. \A b \in 1 .. Len(L) : V[n + b] = L[b]
  <2>1. \A b \in 1 .. Len(L) : Len(C) + b \in 1 .. Len(D)
    BY <1>4, <1>5, <1>7
  <2> QED
    BY <1>4, <1>5, <1>6, <2>1
<1>13. \A b \in 1 .. Len(T) : V[n + Len(L) + b] = T[b]
  BY <1>4, <1>5, <1>6
<1>14. Parts(V, A, B, L, T)
  BY <1>9, <1>10, <1>11, <1>12, <1>13 DEF Parts
<1> QED
  BY <1>8, <1>14

\* What is left when the head is gone.
LEMMA TailAt ==
  ASSUME NEW S, NEW s \in Seq(S), s # <<>>
  PROVE  /\ Tail(s) \in Seq(S) /\ Len(Tail(s)) = Len(s) - 1 /\ Len(s) \in Nat \ {0}
         /\ \A b \in 1 .. Len(s) - 1 : Tail(s)[b] = s[b + 1]
         /\ Head(s) = s[1] /\ s[1] \in S
  OBVIOUS

\* The stack that Order makes when it opens a service.
LEMMA Opens ==
  ASSUME g \in Graph, NEW W \in Seq(Entry), W # <<>>, NEW i \in Services
  PROVE  \E m \in Nat \ {0} :
           Opened(Item("hard", g.requires[i]) \o Item("soft", After(i)) \o Item("leave", {i}) \o Tail(W),
                  W, i, m)
<1> DEFINE A == Item("hard", g.requires[i])
           B == Item("soft", After(i))
           L == Item("leave", {i})
           T == Tail(W)
           V == A \o B \o L \o T
<1>1. g.requires[i] \in SUBSET Names /\ After(i) \in SUBSET Names /\ {i} \in SUBSET Names
  BY BootAssumption, DependsOn DEF Services, Names
<1>2. /\ A \in Seq(Entry)
      /\ \A b \in DOMAIN A : A[b].act = "hard" /\ A[b].i \in g.requires[i]
      /\ \A d \in g.requires[i] : \E b \in DOMAIN A : A[b].i = d
  BY <1>1, ItemAt
<1>3. /\ B \in Seq(Entry)
      /\ \A b \in DOMAIN B : B[b].act = "soft" /\ B[b].i \in After(i)
      /\ \A d \in After(i) : \E b \in DOMAIN B : B[b].i = d
  BY <1>1, ItemAt
<1>4. L \in Seq(Entry) /\ Len(L) = 1 /\ L[1].act = "leave" /\ L[1].i = i
  <2> DEFINE s == Ascending({i})
  <2>1. Cardinality({i}) = 1
    BY FS_Singleton
  <2>2. PICK t : Lists(t, {i})
    BY <1>1, ListExists
  <2>3. Lists(s, {i})
    BY <2>2 DEF Lists, Ascending
  <2> HIDE DEF s
  <2>4. s \in [1..1 -> {i}]
    BY <2>1, <2>3 DEF Lists
  <2>5. L = [n \in DOMAIN s |-> [act |-> "leave", i |-> s[n]]]
    BY DEF Item, s
  <2>6. L = [n \in 1..1 |-> [act |-> "leave", i |-> i]]
    BY <2>4, <2>5
  <2>7. L \in Seq(Entry)
    BY <1>1, ItemAt
  <2> QED
    BY <2>6, <2>7
<1>5. /\ T \in Seq(Entry) /\ Len(T) = Len(W) - 1 /\ Len(W) \in Nat \ {0}
      /\ \A b \in 1 .. Len(W) - 1 : T[b] = W[b + 1]
  BY TailAt
<1> HIDE DEF A, B, L, T
<1> DEFINE n == Len(A) + Len(B)
<1>10. Len(A) \in Nat /\ Len(B) \in Nat /\ DOMAIN A = 1 .. Len(A) /\ DOMAIN B = 1 .. Len(B)
  BY <1>2, <1>3
<1>12. /\ V \in Seq(Entry) /\ Len(V) = n + Len(L) + Len(T)
       /\ \A b \in 1 .. Len(A) : V[b] = A[b]
       /\ \A b \in 1 .. Len(B) : V[Len(A) + b] = B[b]
       /\ \A b \in 1 .. Len(L) : V[n + b] = L[b]
       /\ \A b \in 1 .. Len(T) : V[n + Len(L) + b] = T[b]
  <2>1. A \in Seq(Entry) /\ B \in Seq(Entry) /\ L \in Seq(Entry) /\ T \in Seq(Entry)
    BY <1>2, <1>3, <1>4, <1>5
  <2>2. V \in Seq(Entry) /\ Parts(V, A, B, L, T)
    BY <2>1, FourParts, Zenon
  <2> QED
    BY <2>2 DEF Parts
<1> HIDE DEF V
<1>11. /\ V \in Seq(Entry) /\ Len(V) = n + 1 + Len(W) - 1
       /\ V[n + 1] = L[1]
       /\ \A b \in 1 .. Len(W) - 1 : V[n + 1 + b] = W[b + 1]
  BY <1>4, <1>5, <1>10, <1>12
<1>13. \A b \in 1 .. n : \/ V[b].act = "hard" /\ V[b].i \in g.requires[i]
                         \/ V[b].act = "soft" /\ V[b].i \in After(i)
  <2> SUFFICES ASSUME NEW b \in 1 .. n
               PROVE  \/ V[b].act = "hard" /\ V[b].i \in g.requires[i]
                      \/ V[b].act = "soft" /\ V[b].i \in After(i)
    OBVIOUS
  <2>1. CASE b <= Len(A)
    <3>1. b \in 1 .. Len(A) /\ b \in DOMAIN A
      BY <1>10, <2>1
    <3>2. V[b] = A[b]
      BY <1>12, <3>1
    <3> QED
      BY <1>2, <3>1, <3>2
  <2>2. CASE b > Len(A)
    <3>1. b - Len(A) \in 1 .. Len(B) /\ Len(A) + (b - Len(A)) = b
      BY <1>10, <2>2
    <3>2. V[b] = B[b - Len(A)]
      BY <1>12, <3>1
    <3> QED
      BY <1>3, <1>10, <3>1, <3>2
  <2> QED
    BY <1>10, <2>1, <2>2
<1>14. \A d \in g.requires[i] : \E b \in 1 .. n : V[b].act = "hard" /\ V[b].i = d
  <2> SUFFICES ASSUME NEW d \in g.requires[i]
               PROVE  \E b \in 1 .. n : V[b].act = "hard" /\ V[b].i = d
    OBVIOUS
  <2>1. PICK b \in 1 .. Len(A) : A[b].i = d /\ A[b].act = "hard"
    BY <1>2, <1>10
  <2>2. V[b] = A[b] /\ b \in 1 .. n
    BY <1>10, <1>12, <2>1
  <2> QED
    BY <2>1, <2>2
<1>15. \A d \in After(i) : \E b \in 1 .. n : V[b].i = d
  <2> SUFFICES ASSUME NEW d \in After(i)
               PROVE  \E b \in 1 .. n : V[b].i = d
    OBVIOUS
  <2>1. PICK b \in 1 .. Len(B) : B[b].i = d
    BY <1>3, <1>10
  <2>2. V[Len(A) + b].i = d /\ Len(A) + b \in 1 .. n
    BY <1>10, <1>12, <2>1
  <2> QED
    BY <2>2
<1>16. \A b \in 2 .. Len(W) : V[n + 1 + b - 1] = W[b]
  <2> SUFFICES ASSUME NEW b \in 2 .. Len(W)
               PROVE  V[n + 1 + b - 1] = W[b]
    OBVIOUS
  <2>1. b - 1 \in 1 .. Len(W) - 1 /\ b - 1 + 1 = b /\ n + 1 + (b - 1) = n + 1 + b - 1
    BY <1>5, <1>10
  <2> QED
    BY <1>11, <2>1
<1> DEFINE m == n + 1
<1>17. m \in Nat \ {0} /\ m - 1 = n /\ V[m].act = "leave" /\ V[m].i = i
  BY <1>4, <1>10, <1>11
<1>18. Opened(V, W, i, m)
  <2> HIDE DEF n
  <2> QED
    BY <1>11, <1>13, <1>14, <1>15, <1>16, <1>17 DEF Opened
<1> QED
  BY <1>17, <1>18 DEF V, A, B, L, T

-----------------------------------------------------------------------------
(* Reach.                                                                  *)

\* What is reached holds what it is reached from and is closed, and every closed
\* set with that in it holds all of it.
LEMMA ReachesLeast ==
  ASSUME g \in Graph, NEW S \in SUBSET Services
  PROVE  /\ Reaches(S) \in SUBSET Services /\ S \subseteq Reaches(S)
         /\ \A i \in Reaches(S) : Dependencies(i) \subseteq Reaches(S)
         /\ \A T \in SUBSET Services : S \subseteq T /\ Closed(T) => Reaches(S) \subseteq T
<1>1. Reaches(S) \in SUBSET Services /\ S \subseteq Reaches(S)
  BY DEF Reaches
<1>2. \A T \in SUBSET Services : S \subseteq T /\ Closed(T) => Reaches(S) \subseteq T
  BY DEF Reaches
<1>3. ASSUME NEW i \in Reaches(S), NEW d \in Dependencies(i)
      PROVE  d \in Reaches(S)
  <2>1. d \in Services
    BY <1>1, DependsOn
  <2>2. ASSUME NEW T \in SUBSET Services, S \subseteq T, Closed(T)
        PROVE  d \in T
    BY <1>2, <2>2 DEF Closed
  <2> QED
    BY <2>1, <2>2 DEF Reaches
<1> QED
  BY <1>1, <1>2, <1>3

\* What was asked for is there and enabled.
LEMMA SelectedServices == Selected \in SUBSET Services /\ \A i \in Selected : Enabled(i)
  BY DEF Selected

\* A dependency of what i reaches is reached by i.
LEMMA ReachesMore ==
  ASSUME g \in Graph, NEW p \in Services, NEW i \in Services, i \in Reaches(Dependencies(p)),
         NEW d \in Dependencies(i)
  PROVE  d \in Reaches(Dependencies(p))
<1>1. Dependencies(p) \in SUBSET Services
  BY DependsOn
<1> QED
  BY <1>1, ReachesLeast

-----------------------------------------------------------------------------
(* One visit of the search.                                                *)

\* The stack of the first visit.
LEMMA SearchBegins ==
  ASSUME g \in Graph, NEW st, \A i \in Services : st[i] = 0
  PROVE  Item("soft", Selected) \in Seq(Entry) /\ Search(Item("soft", Selected), st, <<>>)
<1> DEFINE W == Item("soft", Selected)
<1>1. Selected \in SUBSET Services /\ Selected \in SUBSET Names
  BY SelectedServices, BootAssumption DEF Services, Names
<1>2. /\ W \in Seq(Entry)
      /\ \A b \in DOMAIN W : W[b].act = "soft" /\ W[b].i \in Selected
      /\ \A d \in Selected : \E b \in DOMAIN W : W[b].i = d
  BY <1>1, ItemAt
<1> HIDE DEF W
<1>3. Selected \subseteq Reaches(Selected)
  BY <1>1, ReachesLeast
<1>4. Placed(st, <<>>)
  BY DEF Placed, IsInjective
<1>5. Open(W, st)
  BY <1>2 DEF Open
<1>6. Due(W, st)
  BY <1>2 DEF Due
<1>7. Roots(W, st)
  BY <1>2 DEF Roots
<1>8. Reached(W)
  BY <1>2, <1>3 DEF Reached
<1> QED
  BY <1>2, <1>4, <1>5, <1>6, <1>7, <1>8 DEF Search, W

\* A dependency that is placed, or disabled and only wanted first, is skipped.
LEMMA SearchSkips ==
  ASSUME g \in Graph, NEW W \in Seq(Entry), W # <<>>, NEW st, NEW o, Search(W, st, o),
         \/ W[1].act = "soft" /\ ~Enabled(W[1].i)
         \/ W[1].act # "leave" /\ Enabled(W[1].i) /\ st[W[1].i] = 2
  PROVE  Search(Tail(W), st, o)
<1> DEFINE V == Tail(W)
<1>1. /\ V \in Seq(Entry) /\ Len(V) = Len(W) - 1 /\ Len(W) \in Nat \ {0}
      /\ \A b \in 1 .. Len(W) - 1 : V[b] = W[b + 1]
  BY TailAt
<1> HIDE DEF V
<1>2. DOMAIN V = 1 .. Len(W) - 1 /\ DOMAIN W = 1 .. Len(W)
  BY <1>1
<1>3. \A b \in DOMAIN V : b + 1 \in DOMAIN W /\ V[b] = W[b + 1] /\ b + 1 > 1
  BY <1>1, <1>2
<1>4. \A b \in DOMAIN W : b # 1 => b - 1 \in DOMAIN V /\ V[b - 1] = W[b]
  BY <1>1, <1>2
<1>5. Open(V, st)
  <2>1. \A i \in Services : (\E a \in DOMAIN W : W[a].act = "leave" /\ W[a].i = i)
                              <=> \E a \in DOMAIN V : V[a].act = "leave" /\ V[a].i = i
    BY <1>3, <1>4
  <2>2. \A a, b \in DOMAIN V : V[a].act = "leave" /\ V[b].act = "leave" /\ V[a].i = V[b].i => a = b
    <3> SUFFICES ASSUME NEW a \in DOMAIN V, NEW b \in DOMAIN V, V[a].act = "leave",
                        V[b].act = "leave", V[a].i = V[b].i
                 PROVE  a = b
      OBVIOUS
    <3>1. a + 1 = b + 1
      BY <1>3 DEF Search, Open
    <3> QED
      BY <1>2, <3>1
  <2>3. \A a \in DOMAIN V : V[a].act = "leave" => V[a].i \in Services
    BY <1>3 DEF Search, Open
  <2> QED
    BY <2>1, <2>2, <2>3 DEF Search, Open
<1>6. Due(V, st)
  <2> SUFFICES ASSUME NEW a \in DOMAIN V, V[a].act = "leave"
               PROVE  /\ \A d \in g.requires[V[a].i] :
                           (Enabled(d) /\ st[d] = 2) \/ \E b \in 1..a-1 : V[b].i = d /\ V[b].act # "soft"
                      /\ \A d \in After(V[a].i) :
                           ~Enabled(d) \/ st[d] = 2 \/ \E b \in 1..a-1 : V[b].i = d
    BY DEF Due
  <2>1. a + 1 \in DOMAIN W /\ V[a] = W[a + 1]
    BY <1>3
  <2>2. \A b \in 1..(a + 1) - 1 : b = 1 \/ (b - 1 \in 1..a-1 /\ V[b - 1] = W[b])
    BY <1>2, <1>4
  <2>3. ASSUME NEW d \in g.requires[V[a].i]
        PROVE  (Enabled(d) /\ st[d] = 2) \/ \E b \in 1..a-1 : V[b].i = d /\ V[b].act # "soft"
    <3>1. (Enabled(d) /\ st[d] = 2) \/ \E b \in 1..(a + 1)-1 : W[b].i = d /\ W[b].act # "soft"
      BY <2>1, <2>3 DEF Search, Due
    <3> QED
      BY <2>2, <3>1
  <2>4. ASSUME NEW d \in After(V[a].i)
        PROVE  ~Enabled(d) \/ st[d] = 2 \/ \E b \in 1..a-1 : V[b].i = d
    <3>1. ~Enabled(d) \/ st[d] = 2 \/ \E b \in 1..(a + 1)-1 : W[b].i = d
      BY <2>1, <2>4 DEF Search, Due
    <3> QED
      BY <2>2, <3>1
  <2> QED
    BY <2>3, <2>4
<1>7. Roots(V, st)
  BY <1>4, SelectedServices DEF Search, Roots
<1>8. Reached(V)
  BY <1>2, <1>3 DEF Search, Reached
<1> QED
  BY <1>5, <1>6, <1>7, <1>8 DEF Search, V

\* A service whose dependencies are all placed is placed.
LEMMA SearchLeaves ==
  ASSUME g \in Graph, NEW W \in Seq(Entry), W # <<>>, NEW st \in [Services -> 0..2],
         NEW o \in Seq(Services), Search(W, st, o), W[1].act = "leave"
  PROVE  /\ W[1].i \in Services
         /\ Search(Tail(W), [st EXCEPT ![W[1].i] = 2], Append(o, W[1].i))
<1> DEFINE V == Tail(W)
           i == W[1].i
           u == [st EXCEPT ![i] = 2]
           q == Append(o, i)
<1>1. /\ V \in Seq(Entry) /\ Len(V) = Len(W) - 1 /\ Len(W) \in Nat \ {0}
      /\ \A b \in 1 .. Len(W) - 1 : V[b] = W[b + 1]
  BY TailAt
<1> HIDE DEF V
<1>2. DOMAIN V = 1 .. Len(W) - 1 /\ DOMAIN W = 1 .. Len(W) /\ 1 \in DOMAIN W
  BY <1>1
<1>3. \A b \in DOMAIN V : b + 1 \in DOMAIN W /\ V[b] = W[b + 1] /\ b + 1 # 1
  BY <1>1, <1>2
<1>4. \A b \in DOMAIN W : b # 1 => b - 1 \in DOMAIN V /\ V[b - 1] = W[b]
  BY <1>1, <1>2
<1>5. i \in Services /\ st[i] = 1 /\ Enabled(i) /\ i \in Reaches(Selected)
  BY <1>2 DEF Search, Open
<1>6. u[i] = 2 /\ \A j \in Services : j # i => u[j] = st[j]
  BY <1>5
<1>7. /\ \A d \in g.requires[i] : Enabled(d) /\ st[d] = 2
      /\ \A d \in After(i) : ~Enabled(d) \/ st[d] = 2
  <2>1. 1..1-1 = {}
    OBVIOUS
  <2> QED
    BY <1>2, <2>1 DEF Search, Due
<1>8. /\ DOMAIN o = 1..Len(o) /\ DOMAIN q = 1..Len(o) + 1 /\ Len(o) \in Nat
      /\ q[Len(o) + 1] = i /\ \A a \in 1..Len(o) : q[a] = o[a] /\ o[a] \in Services
  BY <1>5
<1> HIDE DEF i, u, q
<1>9. \A d \in Dependencies(i) : d \in Services /\ st[d] = 2
  BY <1>5, <1>7, DependsOn
<1>10. Placed(u, q)
  <2>1. \A j \in Services : st[j] = 2 <=> \E a \in 1..Len(o) : o[a] = j
    BY <1>8 DEF Search, Placed
  <2>2. \A j \in Services : u[j] = 2 <=> \E a \in DOMAIN q : q[a] = j
    <3>1. \A j \in Services : j # i => (u[j] = 2 <=> \E a \in DOMAIN q : q[a] = j)
      <4>1. \A a \in DOMAIN q : a \in 1..Len(o) \/ a = Len(o) + 1
        BY <1>8
      <4>2. \A a \in 1..Len(o) : a \in DOMAIN q
        BY <1>8
      <4> QED
        BY <1>6, <1>8, <2>1, <4>1, <4>2
    <3>2. Len(o) + 1 \in DOMAIN q
      BY <1>8
    <3> QED
      BY <1>6, <1>8, <3>1, <3>2
  <2>3. IsInjective(q)
    <3>1. \A a \in 1..Len(o) : o[a] # i
      BY <1>5, <2>1
    <3>2. \A a, b \in 1..Len(o) : o[a] = o[b] => a = b
      BY <1>8 DEF Search, Placed, IsInjective
    <3> QED
      BY <1>8, <3>1, <3>2 DEF IsInjective
  <2>4. ASSUME NEW a \in DOMAIN q
        PROVE  /\ \A d \in g.requires[q[a]] : Enabled(d)
               /\ \A d \in Dependencies(q[a]) : \E b \in 1..a-1 : q[b] = d
    <3>1. CASE a \in 1..Len(o)
      <4>1. \A b \in 1..a-1 : q[b] = o[b]
        BY <1>8, <3>1
      <4> QED
        BY <1>8, <3>1, <4>1 DEF Search, Placed
    <3>2. CASE a = Len(o) + 1
      <4>1. q[a] = i /\ a - 1 = Len(o)
        BY <1>8, <3>2
      <4> QED
        BY <1>7, <1>8, <1>9, <2>1, <4>1
    <3> QED
      BY <1>8, <3>1, <3>2
  <2> QED
    BY <2>2, <2>3, <2>4 DEF Placed
<1>11. Open(V, u)
  <2>1. ASSUME NEW j \in Services
        PROVE  u[j] = 1 <=> \E a \in DOMAIN V : V[a].act = "leave" /\ V[a].i = j
    <3>1. st[j] = 1 <=> \E a \in DOMAIN W : W[a].act = "leave" /\ W[a].i = j
      BY DEF Search, Open
    <3>2. CASE j = i
      <4>1. \A a \in DOMAIN W : W[a].act = "leave" /\ W[a].i = j => a = 1
        BY <1>2, <3>2 DEF Search, Open, i
      <4>2. ~\E a \in DOMAIN V : V[a].act = "leave" /\ V[a].i = j
        BY <1>3, <4>1
      <4> QED
        BY <1>6, <3>2, <4>2
    <3>3. CASE j # i
      <4>1. \A a \in DOMAIN W : W[a].act = "leave" /\ W[a].i = j => a # 1
        BY <3>3 DEF i
      <4>2. (\E a \in DOMAIN W : W[a].act = "leave" /\ W[a].i = j)
              <=> \E a \in DOMAIN V : V[a].act = "leave" /\ V[a].i = j
        BY <1>3, <1>4, <4>1
      <4> QED
        BY <1>6, <3>1, <3>3, <4>2
    <3> QED
      BY <3>2, <3>3
  <2>2. \A a, b \in DOMAIN V : V[a].act = "leave" /\ V[b].act = "leave" /\ V[a].i = V[b].i => a = b
    <3> SUFFICES ASSUME NEW a \in DOMAIN V, NEW b \in DOMAIN V, V[a].act = "leave",
                        V[b].act = "leave", V[a].i = V[b].i
                 PROVE  a = b
      OBVIOUS
    <3>1. a + 1 = b + 1
      BY <1>3 DEF Search, Open
    <3> QED
      BY <1>2, <3>1
  <2>3. \A a \in DOMAIN V : V[a].act = "leave" => V[a].i \in Services
    BY <1>3 DEF Search, Open
  <2>4. \A j \in Services : u[j] # 0 => Enabled(j) /\ j \in Reaches(Selected)
    BY <1>5, <1>6 DEF Search, Open
  <2> QED
    BY <2>1, <2>2, <2>3, <2>4 DEF Open
<1>12. Due(V, u)
  <2> SUFFICES ASSUME NEW a \in DOMAIN V, V[a].act = "leave"
               PROVE  /\ \A d \in g.requires[V[a].i] :
                           (Enabled(d) /\ u[d] = 2) \/ \E b \in 1..a-1 : V[b].i = d /\ V[b].act # "soft"
                      /\ \A d \in After(V[a].i) :
                           ~Enabled(d) \/ u[d] = 2 \/ \E b \in 1..a-1 : V[b].i = d
    BY DEF Due
  <2>1. a + 1 \in DOMAIN W /\ V[a] = W[a + 1]
    BY <1>3
  <2>2. \A b \in 1..(a + 1) - 1 : W[b].i = i \/ (b - 1 \in 1..a-1 /\ V[b - 1] = W[b])
    BY <1>2, <1>4 DEF i
  <2>3. \A d : Enabled(d) /\ st[d] = 2 => Enabled(d) /\ u[d] = 2
    BY <1>6 DEF Enabled
  <2>4. Enabled(i) /\ u[i] = 2
    BY <1>5, <1>6
  <2>5. ASSUME NEW d \in g.requires[V[a].i]
        PROVE  (Enabled(d) /\ u[d] = 2) \/ \E b \in 1..a-1 : V[b].i = d /\ V[b].act # "soft"
    <3>1. (Enabled(d) /\ st[d] = 2) \/ \E b \in 1..(a + 1)-1 : W[b].i = d /\ W[b].act # "soft"
      BY <2>1, <2>5 DEF Search, Due
    <3> QED
      BY <2>2, <2>3, <2>4, <3>1
  <2>6. ASSUME NEW d \in After(V[a].i)
        PROVE  ~Enabled(d) \/ u[d] = 2 \/ \E b \in 1..a-1 : V[b].i = d
    <3>1. ~Enabled(d) \/ st[d] = 2 \/ \E b \in 1..(a + 1)-1 : W[b].i = d
      BY <2>1, <2>6 DEF Search, Due
    <3> QED
      BY <2>2, <2>3, <2>4, <3>1
  <2> QED
    BY <2>5, <2>6
<1>13. Roots(V, u)
  <2> SUFFICES ASSUME NEW j \in Selected
               PROVE  u[j] = 2 \/ \E b \in DOMAIN V : V[b].i = j
    BY DEF Roots
  <2>1. j \in Services /\ (st[j] = 2 \/ \E b \in DOMAIN W : W[b].i = j)
    BY SelectedServices DEF Search, Roots
  <2>2. CASE j = i
    BY <1>6, <2>2
  <2>3. CASE j # i
    <3>1. W[1].i # j
      BY <2>3 DEF i
    <3> QED
      BY <1>4, <1>6, <2>1, <2>3, <3>1
  <2> QED
    BY <2>2, <2>3
<1>14. Reached(V)
  BY <1>2, <1>3 DEF Search, Reached
<1> QED
  BY <1>5, <1>10, <1>11, <1>12, <1>13, <1>14 DEF Search, V, i, u, q

\* A service that was not visited is opened.
LEMMA SearchOpens ==
  ASSUME g \in Graph, NEW W \in Seq(Entry), W # <<>>, NEW st \in [Services -> 0..2], NEW o,
         Search(W, st, o), W[1].act # "leave", Enabled(W[1].i), st[W[1].i] = 0,
         NEW V, NEW m \in Nat \ {0}, Opened(V, W, W[1].i, m)
  PROVE  Search(V, [st EXCEPT ![W[1].i] = 1], o)
<1> DEFINE i == W[1].i
           u == [st EXCEPT ![i] = 1]
<1>1. i \in Services
  BY DEF Enabled
<1>2. u[i] = 1 /\ \A j \in Services : j # i => u[j] = st[j]
  BY <1>1
<1>3. V \in Seq(Entry) /\ Len(V) = m + Len(W) - 1 /\ Len(W) \in Nat \ {0}
  BY DEF Opened
<1>4. V[m].act = "leave" /\ V[m].i = i
  BY DEF Opened
<1>5. \A b \in 1..m-1 : \/ V[b].act = "hard" /\ V[b].i \in g.requires[i]
                        \/ V[b].act = "soft" /\ V[b].i \in After(i)
  BY DEF Opened
<1>6. /\ \A d \in g.requires[i] : \E b \in 1..m-1 : V[b].act = "hard" /\ V[b].i = d
      /\ \A d \in After(i) : \E b \in 1..m-1 : V[b].i = d
  BY DEF Opened
<1>7. \A b \in 2..Len(W) : V[m + b - 1] = W[b]
  BY DEF Opened
<1>8. DOMAIN W = 1..Len(W) /\ DOMAIN V = 1..m + Len(W) - 1 /\ 1 \in DOMAIN W
  BY <1>3
<1> HIDE DEF i, u
\* Positions behind m come from W, those before it are new.
<1>9. \A b \in DOMAIN W : b # 1 => /\ m + b - 1 \in DOMAIN V /\ V[m + b - 1] = W[b]
                                   /\ m + b - 1 > m
  BY <1>7, <1>8
<1>10. \A b \in DOMAIN V : b > m => b - m + 1 \in DOMAIN W /\ b - m + 1 # 1 /\ V[b] = W[b - m + 1]
  <2> SUFFICES ASSUME NEW b \in DOMAIN V, b > m
               PROVE  b - m + 1 \in DOMAIN W /\ b - m + 1 # 1 /\ V[b] = W[b - m + 1]
    OBVIOUS
  <2>1. b - m + 1 \in 2..Len(W) /\ m + (b - m + 1) - 1 = b
    BY <1>3, <1>8
  <2> QED
    BY <1>7, <1>8, <2>1
<1>11. m \in DOMAIN V /\ \A b \in DOMAIN V : b \in Nat /\ (b < m => b \in 1..m-1)
  BY <1>3, <1>8
<1>12. \A b \in DOMAIN V : b < m => V[b].act # "leave"
  BY <1>5, <1>11
<1>13. i \in Reaches(Selected)
  BY <1>8 DEF Search, Reached, i
<1>14. \A a \in DOMAIN W : W[a].act = "leave" => a # 1 /\ W[a].i \in Services /\ W[a].i # i
  <2>1. \A a \in DOMAIN W : W[a].act = "leave" => a # 1 /\ W[a].i \in Services /\ st[W[a].i] = 1
    BY DEF Search, Open
  <2> QED
    BY <2>1 DEF i
<1>15. Placed(u, o)
  <2>1. \A j \in Services : u[j] = 2 <=> st[j] = 2
    BY <1>2 DEF i
  <2> QED
    BY <2>1 DEF Search, Placed
<1>16. Open(V, u)
  <2>1. ASSUME NEW j \in Services
        PROVE  u[j] = 1 <=> \E a \in DOMAIN V : V[a].act = "leave" /\ V[a].i = j
    <3>1. CASE j = i
      BY <1>2, <1>4, <1>11, <3>1
    <3>2. CASE j # i
      <4>1. st[j] = 1 <=> \E a \in DOMAIN W : W[a].act = "leave" /\ W[a].i = j
        BY DEF Search, Open
      <4>2. ASSUME NEW a \in DOMAIN W, W[a].act = "leave", W[a].i = j
            PROVE  \E b \in DOMAIN V : V[b].act = "leave" /\ V[b].i = j
        BY <1>9, <1>14, <4>2
      <4>3. ASSUME NEW b \in DOMAIN V, V[b].act = "leave", V[b].i = j
            PROVE  \E a \in DOMAIN W : W[a].act = "leave" /\ W[a].i = j
        <5>1. b > m
          BY <1>4, <1>11, <1>12, <3>2, <4>3
        <5> QED
          BY <1>10, <4>3, <5>1
      <4> QED
        BY <1>2, <3>2, <4>1, <4>2, <4>3
    <3> QED
      BY <3>1, <3>2
  <2>2. ASSUME NEW a \in DOMAIN V, NEW b \in DOMAIN V, V[a].act = "leave", V[b].act = "leave",
               V[a].i = V[b].i
        PROVE  a = b
    <3>1. \A c \in DOMAIN V : V[c].act = "leave" /\ V[c].i = i => c = m
      <4> SUFFICES ASSUME NEW c \in DOMAIN V, V[c].act = "leave", V[c].i = i, c # m
                   PROVE  FALSE
        OBVIOUS
      <4>1. c > m
        BY <1>11, <1>12
      <4> QED
        BY <1>10, <1>14, <4>1
    <3>2. CASE V[a].i = i
      BY <2>2, <3>1, <3>2
    <3>3. CASE V[a].i # i
      <4>1. a > m /\ b > m
        BY <1>4, <1>11, <1>12, <2>2, <3>3
      <4>2. a - m + 1 = b - m + 1
        <5>1. /\ a - m + 1 \in DOMAIN W /\ V[a] = W[a - m + 1]
              /\ b - m + 1 \in DOMAIN W /\ V[b] = W[b - m + 1]
          BY <1>10, <4>1
        <5> QED
          BY <2>2, <5>1 DEF Search, Open
      <4> QED
        BY <1>11, <4>2
    <3> QED
      BY <3>2, <3>3
  <2>3. ASSUME NEW a \in DOMAIN V, V[a].act = "leave"
        PROVE  V[a].i \in Services
    <3>1. a = m \/ a > m
      BY <1>11, <1>12, <2>3
    <3> QED
      BY <1>1, <1>4, <1>10, <1>14, <2>3, <3>1 DEF i
  <2>4. \A j \in Services : u[j] # 0 => Enabled(j) /\ j \in Reaches(Selected)
    <3>1. Enabled(i)
      BY DEF i
    <3> QED
      BY <1>2, <1>13, <3>1 DEF Search, Open
  <2> QED
    BY <2>1, <2>2, <2>3, <2>4 DEF Open
<1>17. Due(V, u)
  <2> SUFFICES ASSUME NEW a \in DOMAIN V, V[a].act = "leave"
               PROVE  /\ \A d \in g.requires[V[a].i] :
                           (Enabled(d) /\ u[d] = 2) \/ \E b \in 1..a-1 : V[b].i = d /\ V[b].act # "soft"
                      /\ \A d \in After(V[a].i) :
                           ~Enabled(d) \/ u[d] = 2 \/ \E b \in 1..a-1 : V[b].i = d
    BY DEF Due
  <2>1. CASE a = m
    <3>1. \A b \in 1..m-1 : V[b].act = "hard" => V[b].act # "soft"
      OBVIOUS
    <3> QED
      BY <1>4, <1>6, <2>1, <3>1
  <2>2. CASE a > m
    <3> DEFINE c == a - m + 1
    <3>1. c \in DOMAIN W /\ V[a] = W[c]
      BY <1>10, <2>2
    <3>2. \A b \in 1..c-1 : b = 1 \/ (m + b - 1 \in 1..a-1 /\ V[m + b - 1] = W[b])
      <4> SUFFICES ASSUME NEW b \in 1..c-1, b # 1
                   PROVE  m + b - 1 \in 1..a-1 /\ V[m + b - 1] = W[b]
        OBVIOUS
      <4>1. a \in Nat /\ c \in 1..Len(W)
        BY <1>8, <1>11, <3>1
      <4>2. b \in DOMAIN W /\ m + b - 1 \in 1..a-1
        BY <1>3, <1>8, <2>2, <4>1
      <4> QED
        BY <1>9, <4>2
    <3>3. m \in 1..a-1
      BY <1>11, <2>2
    <3>4. \A d : Enabled(d) /\ st[d] = 2 => Enabled(d) /\ u[d] = 2
      BY <1>2 DEF Enabled, i
    <3>5. ASSUME NEW d \in g.requires[V[a].i]
          PROVE  (Enabled(d) /\ u[d] = 2) \/ \E b \in 1..a-1 : V[b].i = d /\ V[b].act # "soft"
      <4>1. (Enabled(d) /\ st[d] = 2) \/ \E b \in 1..c-1 : W[b].i = d /\ W[b].act # "soft"
        BY <3>1, <3>5 DEF Search, Due
      <4>2. ASSUME NEW b \in 1..c-1, W[b].i = d, W[b].act # "soft"
            PROVE  \E b1 \in 1..a-1 : V[b1].i = d /\ V[b1].act # "soft"
        <5>1. CASE b = 1
          BY <1>4, <3>3, <4>2, <5>1 DEF i
        <5>2. CASE b # 1
          BY <3>2, <4>2, <5>2
        <5> QED
          BY <5>1, <5>2
      <4> QED
        BY <3>4, <4>1, <4>2
    <3>6. ASSUME NEW d \in After(V[a].i)
          PROVE  ~Enabled(d) \/ u[d] = 2 \/ \E b \in 1..a-1 : V[b].i = d
      <4>1. ~Enabled(d) \/ st[d] = 2 \/ \E b \in 1..c-1 : W[b].i = d
        BY <3>1, <3>6 DEF Search, Due
      <4>2. ASSUME NEW b \in 1..c-1, W[b].i = d
            PROVE  \E b1 \in 1..a-1 : V[b1].i = d
        <5>1. CASE b = 1
          BY <1>4, <3>3, <4>2, <5>1 DEF i
        <5>2. CASE b # 1
          BY <3>2, <4>2, <5>2
        <5> QED
          BY <5>1, <5>2
      <4> QED
        BY <3>4, <4>1, <4>2
    <3> QED
      BY <3>5, <3>6
  <2> QED
    BY <1>11, <1>12, <2>1, <2>2
<1>18. Roots(V, u)
  <2> SUFFICES ASSUME NEW j \in Selected
               PROVE  u[j] = 2 \/ \E b \in DOMAIN V : V[b].i = j
    BY DEF Roots
  <2>1. j \in Services /\ (st[j] = 2 \/ \E b \in DOMAIN W : W[b].i = j)
    BY SelectedServices DEF Search, Roots
  <2>2. CASE j = i
    BY <1>4, <1>11, <2>2
  <2>3. CASE j # i
    <3>1. W[1].i # j
      BY <2>3 DEF i
    <3> QED
      BY <1>2, <1>9, <2>1, <2>3, <3>1
  <2> QED
    BY <2>2, <2>3
<1>19. Reached(V)
  <2>1. ASSUME NEW b \in DOMAIN V, b < m, Enabled(V[b].i)
        PROVE  V[b].i \in Dependencies(i)
    BY <1>1, <1>5, <1>11, <2>1, DependsOn DEF i
  <2>2. \A d \in Dependencies(i) : d \in Reaches(Selected)
    BY <1>13, SelectedServices, ReachesLeast
  <2>3. Dependencies(i) \in SUBSET Services
    BY <1>1, DependsOn DEF i
  <2>4. \A d \in Dependencies(i) : d \in Reaches(Dependencies(i))
    BY <2>3, ReachesLeast
  \* What is behind m is reached by what is left after it.
  <2>5. ASSUME NEW a \in DOMAIN V, V[a].act = "leave", a > m
        PROVE  V[a].i \in Services /\ i \in Reaches(Dependencies(V[a].i))
    <3>1. a - m + 1 \in DOMAIN W /\ a - m + 1 # 1 /\ V[a] = W[a - m + 1] /\ 1 < a - m + 1
      BY <1>8, <1>10, <1>11, <2>5
    <3>2. Enabled(W[1].i)
      OBVIOUS
    <3> QED
      BY <1>8, <1>14, <2>5, <3>1, <3>2 DEF Search, Reached, i
  <2>6. ASSUME NEW b \in DOMAIN V, Enabled(V[b].i)
        PROVE  V[b].i \in Reaches(Selected)
    <3>1. CASE b < m
      BY <2>1, <2>2, <2>6, <3>1
    <3>2. CASE b = m
      BY <1>4, <1>13, <3>2
    <3>3. CASE b > m
      BY <1>10, <2>6, <3>3 DEF Search, Reached
    <3> QED
      BY <1>11, <3>1, <3>2, <3>3
  <2>7. ASSUME NEW b \in DOMAIN V, V[b].act = "hard"
        PROVE  \E p \in Reaches(Selected) : V[b].i \in g.requires[p]
    <3>1. CASE b < m
      BY <1>5, <1>11, <1>13, <2>7, <3>1
    <3>2. CASE b > m
      BY <1>10, <2>7, <3>2 DEF Search, Reached
    <3> QED
      BY <1>4, <1>11, <2>7, <3>1, <3>2
  <2>8. ASSUME NEW b \in DOMAIN V, NEW a \in DOMAIN V, b < a, V[a].act = "leave", Enabled(V[b].i)
        PROVE  V[b].i \in Reaches(Dependencies(V[a].i))
    <3>1. a = m \/ a > m
      BY <1>11, <1>12, <2>8
    <3>2. CASE a = m
      BY <1>4, <2>1, <2>4, <2>8, <3>2
    <3>3. CASE a > m /\ b < m
      <4>1. V[b].i \in Dependencies(i) /\ V[a].i \in Services /\ i \in Reaches(Dependencies(V[a].i))
        BY <2>1, <2>5, <2>8, <3>3
      <4>2. i \in Services
        BY <1>1 DEF i
      <4> QED
        BY <4>1, <4>2, ReachesMore
    <3>4. CASE a > m /\ b = m
      BY <1>4, <2>5, <2>8, <3>4
    <3>5. CASE a > m /\ b > m
      <4>1. /\ a - m + 1 \in DOMAIN W /\ V[a] = W[a - m + 1]
            /\ b - m + 1 \in DOMAIN W /\ V[b] = W[b - m + 1] /\ b - m + 1 < a - m + 1
        BY <1>10, <1>11, <2>8, <3>5
      <4> QED
        BY <2>8, <4>1 DEF Search, Reached
    <3> QED
      BY <1>11, <3>1, <3>2, <3>3, <3>4, <3>5
  <2> QED
    BY <2>6, <2>7, <2>8 DEF Reached
<1> QED
  BY <1>15, <1>16, <1>17, <1>18, <1>19 DEF Search, u, i

\* The search gives up only when there is no order: a service in reach requires
\* what is not enabled, or depends on itself.
LEMMA SearchFails ==
  ASSUME g \in Graph, NEW W \in Seq(Entry), W # <<>>, NEW st, NEW o, Search(W, st, o),
         \/ W[1].act = "hard" /\ ~Enabled(W[1].i)
         \/ W[1].act # "leave" /\ Enabled(W[1].i) /\ st[W[1].i] = 1
  PROVE  ~Orderable
<1>1. DOMAIN W = 1..Len(W) /\ 1 \in DOMAIN W
  OBVIOUS
<1>2. CASE W[1].act = "hard" /\ ~Enabled(W[1].i)
  BY <1>1, <1>2 DEF Search, Reached, Orderable
<1>3. CASE W[1].act # "leave" /\ Enabled(W[1].i) /\ st[W[1].i] = 1
  <2> DEFINE i == W[1].i
  <2>1. i \in Services
    BY <1>3 DEF Enabled
  <2>2. PICK a \in DOMAIN W : W[a].act = "leave" /\ W[a].i = i
    BY <1>3, <2>1 DEF Search, Open
  <2>3. 1 < a
    BY <1>1, <1>3, <2>2
  <2>4. i \in Reaches(Dependencies(i)) /\ i \in Reaches(Selected)
    BY <1>1, <1>3, <2>2, <2>3 DEF Search, Reached
  <2> QED
    BY <2>4 DEF Orderable
<1> QED
  BY <1>2, <1>3

\* When the stack is empty an order has been found.
LEMMA SearchEnds ==
  ASSUME TypeOK, work = <<>>, Search(work, state, order), g.parsed, N + 1 \notin Marked
  PROVE  Found
<1>1. g \in Graph /\ state \in [Services -> 0..2] /\ order \in Seq(Services)
  BY DEF TypeOK
<1>2. \A i \in Services : state[i] = 2 <=> \E a \in DOMAIN order : order[a] = i
  BY DEF Search, Placed
<1>3. /\ \A a \in DOMAIN order : \A d \in g.requires[order[a]] : Enabled(d)
      /\ \A a \in DOMAIN order : \A d \in Dependencies(order[a]) : \E b \in 1..a-1 : order[b] = d
      /\ \A a, b \in DOMAIN order : order[a] = order[b] => a = b
  BY DEF Search, Placed, IsInjective
<1>4. DOMAIN order = 1..Len(order) /\ Len(order) \in Nat /\ \A a \in DOMAIN order : order[a] \in Services
  BY <1>1
<1>5. \A a \in DOMAIN order : order[a] \in Reaches(Selected)
  BY <1>2, <1>4 DEF Search, Open
<1>6. ASSUME NEW n \in 0..Len(order)
      PROVE  Closed({order[a] : a \in 1..n})
  <2> SUFFICES ASSUME NEW a \in 1..n, NEW d \in Dependencies(order[a])
               PROVE  \E b \in 1..n : order[b] = d
    BY DEF Closed
  <2>1. a \in DOMAIN order
    BY <1>4
  <2>2. PICK b \in 1..a-1 : order[b] = d
    BY <1>3, <2>1
  <2> QED
    BY <2>2
<1>7. ToSet(order) = {order[a] : a \in 1..Len(order)} /\ ToSet(order) \in SUBSET Services
  BY <1>4 DEF ToSet
<1>8. Selected \subseteq ToSet(order)
  <2> SUFFICES ASSUME NEW i \in Selected
               PROVE  \E a \in DOMAIN order : order[a] = i
    BY DEF ToSet
  <2>1. i \in Services /\ state[i] = 2
    BY SelectedServices DEF Search, Roots
  <2> QED
    BY <1>2, <2>1
<1>9. ToSet(order) = Reaches(Selected)
  <2>1. Closed(ToSet(order))
    BY <1>4, <1>6, <1>7
  <2>2. Reaches(Selected) \subseteq ToSet(order)
    BY <1>1, <1>7, <1>8, <2>1, SelectedServices, ReachesLeast
  <2> QED
    BY <1>5, <2>2 DEF ToSet
<1>10. \A a, b \in DOMAIN order : order[b] \in Dependencies(order[a]) => b < a
  <2> SUFFICES ASSUME NEW a \in DOMAIN order, NEW b \in DOMAIN order,
                      order[b] \in Dependencies(order[a])
               PROVE  b < a
    OBVIOUS
  <2>1. PICK c \in 1..a-1 : order[c] = order[b]
    BY <1>3
  <2>2. c \in DOMAIN order /\ c = b
    BY <1>3, <1>4, <2>1
  <2> QED
    BY <1>4, <2>1, <2>2
<1>11. ASSUME NEW i \in Reaches(Selected)
       PROVE  (\A d \in g.requires[i] : Enabled(d)) /\ i \notin Reaches(Dependencies(i))
  <2>1. PICK a \in DOMAIN order : order[a] = i
    BY <1>9 DEF ToSet
  <2> DEFINE T == {order[b] : b \in 1..a-1}
  <2>2. Closed(T)
    BY <1>4, <1>6
  <2>3. T \in SUBSET Services
    BY <1>4
  <2>4. Dependencies(i) \subseteq T
    BY <1>3, <2>1
  <2>5. i \notin T
    BY <1>3, <1>4, <2>1
  <2>6. i \in Services
    BY <1>4, <2>1
  <2> HIDE DEF T
  <2>7. Reaches(Dependencies(i)) \subseteq T
    BY <1>1, <2>2, <2>3, <2>4, <2>6, DependsOn, ReachesLeast
  <2> QED
    BY <1>3, <2>1, <2>5, <2>7
<1>12. Orderable
  BY <1>11 DEF Orderable
<1>13. IsInjective(order)
  BY <1>3 DEF IsInjective
<1> QED
  BY <1>9, <1>10, <1>12, <1>13 DEF Found

-----------------------------------------------------------------------------
(* The commands keep the invariant.                                        *)

\* As long as directives and target stay, so does what they mean.
LEMMA SameGraph ==
  ASSUME g' = g, target' = target
  PROVE  /\ Selected' = Selected /\ Marked' = Marked
         /\ \A i : Enabled(i)' = Enabled(i) /\ After(i)' = After(i)
         /\ \A i : Dependencies(i)' = Dependencies(i)
         /\ \A S : Reaches(S)' = Reaches(S)
         /\ Orderable' = Orderable
<1>1. \A i : Enabled(i)' = Enabled(i)
  BY DEF Enabled
<1>2. \A i : After(i)' = After(i)
  BY DEF After
<1>3. Marked' = Marked
  BY DEF Marked
<1>4. Selected' = Selected
  BY <1>1, <1>3 DEF Selected
<1>5. \A i : Dependencies(i)' = Dependencies(i)
  BY <1>1, <1>2 DEF Dependencies
<1>6. \A S : Reaches(S)' = Reaches(S)
  <2>1. \A S : Closed(S)' <=> Closed(S)
    BY <1>5 DEF Closed
  <2> QED
    BY <2>1 DEF Reaches
<1>7. Orderable' = Orderable
  <2>1. \A i : (Reaches(Dependencies(i)))' = Reaches(Dependencies(i))
    BY DEF Reaches, Closed, Dependencies, Enabled, After
  <2>2. (Reaches(Selected))' = Reaches(Selected)
    BY DEF Reaches, Closed, Dependencies, Enabled, After, Selected, Marked
  <2> QED
    BY <1>1, <1>3, <2>1, <2>2 DEF Orderable
<1> QED
  BY <1>1, <1>2, <1>3, <1>4, <1>5, <1>6, <1>7

\* So the search is where it says it is.
LEMMA SameSearch ==
  ASSUME g' = g, target' = target, Search(work', state', order')
  PROVE  Search(work, state, order)'
<1>1. Placed(state, order)'
  <2>1. \A a : Dependencies(order'[a]) = Dependencies(order[a])'
    BY DEF Dependencies, Enabled, After
  <2> QED
    BY <2>1 DEF Search, Placed, Enabled
<1>2. (Reaches(Selected))' = Reaches(Selected)
  BY DEF Reaches, Closed, Dependencies, Enabled, After, Selected, Marked
<1>3. Open(work, state)'
  BY <1>2 DEF Search, Open, Enabled
<1>4. Due(work, state)'
  <2>1. \A a : After(work'[a].i) = After(work[a].i)'
    BY DEF After
  <2> QED
    BY <2>1 DEF Search, Due, Enabled
<1>5. Roots(work, state)'
  BY SameGraph DEF Search, Roots
<1>6. Reached(work)'
  <2>1. \A a : Reaches(Dependencies(work'[a].i)) = Reaches(Dependencies(work[a].i))'
    BY DEF Reaches, Closed, Dependencies, Enabled, After
  <2> QED
    BY <1>2, <2>1 DEF Search, Reached, Enabled
<1> QED
  BY <1>1, <1>3, <1>4, <1>5, <1>6 DEF Search

\* And so is the order that was found.
LEMMA SameFound ==
  ASSUME g' = g, target' = target, order' = order, Found
  PROVE  Found'
<1>1. Orderable' = Orderable /\ \A i : Dependencies(i)' = Dependencies(i)
  BY SameGraph
<1>2. (Reaches(Selected))' = Reaches(Selected)
  BY DEF Reaches, Closed, Dependencies, Enabled, After, Selected, Marked
<1>3. \A a : Dependencies(order[a])' = Dependencies(order[a])
  BY DEF Dependencies, Enabled, After
<1> QED
  BY <1>1, <1>2, <1>3 DEF Found, ToSet, IsInjective

\* Initially.
LEMMA BootBegins == Init => BootInv
<1> SUFFICES ASSUME Init
             PROVE  BootInv
  OBVIOUS
<1>1. g \in Graph
  BY BootAssumption DEF Init
<1>2. TypeOK
  <2>1. work \in Seq(Entry) /\ order \in Seq(Services)
    BY DEF Init
  <2>2. state \in [Services -> 0..2] /\ life \in [Services -> {"off", "new", "on"}]
    BY DEF Init
  <2>3. told \in [Services -> BOOLEAN]
    BY DEF Init
  <2>4. stopping \in BOOLEAN /\ late \in BOOLEAN /\ k \in Nat /\ passed \subseteq Services
    BY DEF Init
  <2> QED
    BY <1>1, <2>1, <2>2, <2>3, <2>4 DEF TypeOK
<1> QED
  BY <1>2 DEF Init, BootInv, SearchInv, Quiet, Starting, Stopping

\* A command that cannot order its services.
LEMMA UnorderedType ==
  ASSUME TypeOK, Unordered
  PROVE  /\ told' \in [Services -> BOOLEAN]
         /\ pc' = (IF stopping THEN "stopped" ELSE "refused")
  BY DEF TypeOK, Unordered

\* Plan keeps the invariant.
LEMMA PlanKeeps ==
  ASSUME BootInv, Plan
  PROVE  BootInv'
<1>1. /\ pc = "plan" /\ g' = g /\ target' = target /\ passed' = {} /\ late' = FALSE
      /\ state' = [i \in Services |-> 0] /\ order' = <<>>
      /\ UNCHANGED <<stopping, k, life>>
  BY DEF Plan
<1>2. g \in Graph /\ TypeOK /\ \A i \in Services : life[i] # "new"
  BY <1>1 DEF BootInv, TypeOK, Quiet
<1>3. Orderable' = Orderable /\ Marked' = Marked
  BY <1>1, SameGraph
<1>4. /\ state' \in [Services -> 0..2] /\ order' \in Seq(Services) /\ passed' \subseteq Services
      /\ late' \in BOOLEAN
  <2>1. state' \in [Services -> 0..2]
    BY <1>1
  <2>2. order' \in Seq(Services) /\ passed' \subseteq Services
    BY <1>1
  <2>3. late' \in BOOLEAN
    BY <1>1
  <2> QED
    BY <2>1, <2>2, <2>3
<1>5. CASE g.parsed /\ N + 1 \notin Marked
  <2>1. pc' = "order" /\ work' = Item("soft", Selected) /\ told' = told
    BY <1>5 DEF Plan
  <2>2. work' \in Seq(Entry) /\ Search(work', state', order')
    <3>1. \A i \in Services : state'[i] = 0
      BY <1>1
    <3>2. work' \in Seq(Entry) /\ Search(work', state', <<>>)
      BY <1>2, <2>1, <3>1, SearchBegins
    <3> QED
      BY <1>1, <3>2
  <2>3. Search(work, state, order)'
    BY <1>1, <2>2, SameSearch
  <2>4. TypeOK'
    BY <1>1, <1>2, <1>4, <2>1, <2>2 DEF TypeOK
  <2> QED
    BY <1>1, <1>2, <1>3, <1>5, <2>1, <2>3, <2>4 DEF BootInv, SearchInv, Quiet, Starting, Stopping
<1>6. CASE ~(g.parsed /\ N + 1 \notin Marked)
  <2>1. Unordered /\ work' = work
    BY <1>6 DEF Plan
  <2>2. pc' \in {"stopped", "refused"} /\ told' \in [Services -> BOOLEAN]
    BY <1>2, <2>1, UnorderedType
  <2>3. ~Orderable
    BY <1>6 DEF Orderable
  <2>4. TypeOK'
    BY <1>1, <1>2, <1>4, <2>1, <2>2 DEF TypeOK
  <2> QED
    BY <1>1, <1>2, <1>3, <2>2, <2>3, <2>4 DEF BootInv, SearchInv, Quiet, Starting, Stopping
<1> QED
  BY <1>5, <1>6

\* Order keeps the invariant.
LEMMA OrderKeeps ==
  ASSUME BootInv, Order
  PROVE  BootInv'
<1> DEFINE i == Head(work).i
           act == Head(work).act
<1>1. /\ pc = "order" /\ work # <<>> /\ g' = g /\ target' = target
      /\ UNCHANGED <<stopping, k, passed, late, life>>
  BY DEF Order
<1>2. /\ g \in Graph /\ TypeOK /\ work \in Seq(Entry) /\ state \in [Services -> 0..2]
      /\ order \in Seq(Services) /\ Search(work, state, order) /\ g.parsed /\ N + 1 \notin Marked
      /\ \A j \in Services : life[j] # "new"
  BY <1>1 DEF BootInv, TypeOK, SearchInv, Quiet
<1>3. Orderable' = Orderable /\ Marked' = Marked /\ g'.parsed = g.parsed
  BY <1>1, SameGraph
<1>4. Head(work) = work[1] /\ Tail(work) \in Seq(Entry)
  BY <1>1, <1>2, TailAt
<1>5. ASSUME UNCHANGED <<pc, told>>, work' \in Seq(Entry), state' \in [Services -> 0..2],
             order' \in Seq(Services), Search(work', state', order')
      PROVE  BootInv'
  <2>1. Search(work, state, order)'
    BY <1>1, <1>5, SameSearch
  <2>2. TypeOK'
    BY <1>1, <1>2, <1>5 DEF TypeOK
  <2> QED
    BY <1>1, <1>2, <1>3, <1>5, <2>1, <2>2 DEF BootInv, SearchInv, Quiet, Starting, Stopping
<1>6. CASE /\ act = "leave" /\ order' = Append(order, i) /\ state' = [state EXCEPT ![i] = 2]
           /\ work' = Tail(work) /\ UNCHANGED <<pc, told>>
  <2>1. i \in Services /\ Search(work', state', order')
    BY <1>1, <1>2, <1>4, <1>6, SearchLeaves
  <2>2. state' \in [Services -> 0..2] /\ order' \in Seq(Services)
    BY <1>2, <1>6, <2>1
  <2> QED
    BY <1>4, <1>5, <1>6, <2>1, <2>2
<1>7. CASE /\ (act = "soft" /\ ~Enabled(i)) \/ (act # "leave" /\ Enabled(i) /\ state[i] = 2)
           /\ work' = Tail(work) /\ UNCHANGED <<pc, order, state, told>>
  <2>1. Search(work', state', order')
    BY <1>1, <1>2, <1>4, <1>7, SearchSkips
  <2> QED
    BY <1>2, <1>4, <1>5, <1>7, <2>1
<1>8. CASE /\ (act = "hard" /\ ~Enabled(i)) \/ (act # "leave" /\ Enabled(i) /\ state[i] = 1)
           /\ Unordered /\ work' = <<>> /\ UNCHANGED <<order, state>>
  <2>1. ~Orderable
    BY <1>1, <1>2, <1>4, <1>8, SearchFails
  <2>2. pc' \in {"stopped", "refused"} /\ told' \in [Services -> BOOLEAN]
    BY <1>2, <1>8, UnorderedType
  <2>3. TypeOK'
    BY <1>1, <1>2, <1>8, <2>2 DEF TypeOK
  <2> QED
    BY <1>1, <1>2, <1>3, <2>1, <2>2, <2>3 DEF BootInv, SearchInv, Quiet, Starting, Stopping
<1>9. CASE /\ act # "leave" /\ Enabled(i) /\ state[i] = 0 /\ state' = [state EXCEPT ![i] = 1]
           /\ work' = Item("hard", g.requires[i]) \o Item("soft", After(i))
                       \o Item("leave", {i}) \o Tail(work)
           /\ UNCHANGED <<pc, order, told>>
  <2>1. i \in Services
    BY <1>9 DEF Enabled
  <2>2. PICK m \in Nat \ {0} : Opened(work', work, i, m)
    BY <1>1, <1>2, <1>9, <2>1, Opens
  <2>3. Search(work', state', order')
    BY <1>1, <1>2, <1>4, <1>9, <2>2, SearchOpens
  <2>4. work' \in Seq(Entry)
    BY <2>2 DEF Opened
  <2>5. state' \in [Services -> 0..2]
    BY <1>2, <1>9, <2>1
  <2> QED
    BY <1>2, <1>5, <1>9, <2>3, <2>4, <2>5
<1> QED
  BY <1>6, <1>7, <1>8, <1>9 DEF Order

\* The order that was found lists services, each once.
LEMMA FoundOrder ==
  ASSUME TypeOK, Found
  PROVE  /\ DOMAIN order = 1..Len(order) /\ Len(order) \in Nat
         /\ \A a \in 1..Len(order) : order[a] \in Services
         /\ \A a, b \in 1..Len(order) : order[a] = order[b] => a = b
  BY DEF TypeOK, Found, IsInjective

\* An order is taken up from its beginning, or from its end.
LEMMA OrderedKeeps ==
  ASSUME BootInv, Ordered
  PROVE  BootInv'
<1>1. /\ pc = "order" /\ work = <<>> /\ g' = g /\ target' = target
      /\ UNCHANGED <<stopping, work, state, order, passed, late, life, told>>
      /\ IF stopping THEN pc' = "down" /\ k' = Len(order) ELSE pc' = "clear" /\ k' = 1
  BY DEF Ordered
<1>2. TypeOK /\ Found /\ \A i \in Services : life[i] # "new"
  BY <1>1, SearchEnds DEF BootInv, SearchInv, Quiet
<1>3. Found'
  BY <1>1, <1>2, SameFound
<1>4. /\ DOMAIN order = 1..Len(order) /\ Len(order) \in Nat
      /\ \A a \in 1..Len(order) : order[a] \in Services
  BY <1>2, FoundOrder
<1>5. TypeOK'
  BY <1>1, <1>2, <1>4 DEF TypeOK
<1>6. passed = {}
  BY <1>1 DEF BootInv, Starting
<1>7. SearchInv' /\ Quiet'
  BY <1>1, <1>2, <1>3 DEF SearchInv, Quiet
<1>8. CASE stopping
  BY <1>1, <1>4, <1>5, <1>7, <1>8 DEF BootInv, Starting, Stopping
<1>9. CASE ~stopping
  <2>1. pc' = "clear" /\ k' = 1
    BY <1>1, <1>9
  <2>2. passed = {order[j] : j \in 1..1-1}
    BY <1>6
  <2> QED
    BY <1>1, <1>2, <1>4, <1>5, <1>7, <2>1, <2>2 DEF BootInv, Starting, Stopping
<1> QED
  BY <1>8, <1>9

\* Starting the services keeps the invariant.
LEMMA UpKeeps ==
  ASSUME BootInv, UpClears \/ UpForks \/ BarrierPasses \/ BarrierFails \/ Started
  PROVE  BootInv'
<1> DEFINE i == order[k]
<1>1. /\ pc \in {"clear", "fork", "barrier"} /\ g' = g /\ target' = target
      /\ UNCHANGED <<stopping, work, state, order, late>>
      /\ pc' \in {"clear", "fork", "barrier", "failed", "started"}
  BY DEF UpClears, UpForks, BarrierPasses, BarrierFails, Started, plan
<1>2. TypeOK /\ Found
  BY <1>1 DEF BootInv, SearchInv
<1>3. Found'
  BY <1>1, <1>2, SameFound
<1>4. /\ Len(order) \in Nat /\ \A a \in 1..Len(order) : order[a] \in Services
      /\ \A a, b \in 1..Len(order) : order[a] = order[b] => a = b
  BY <1>2, FoundOrder
<1>5. /\ k \in 1..Len(order) + 1 /\ passed = {order[j] : j \in 1..k-1}
      /\ \A j \in k+1..Len(order) : life[order[j]] # "new"
      /\ pc = "clear" => \A j \in k..Len(order) : life[order[j]] # "new"
      /\ pc = "fork" => k <= Len(order) /\ life[order[k]] = "off" /\ ~told[order[k]]
      /\ pc = "barrier" => k <= Len(order)
  BY <1>1 DEF BootInv, Starting
<1>6. SearchInv' /\ Quiet' /\ Stopping'
  BY <1>1, <1>3 DEF SearchInv, Quiet, Stopping
<1>7. life \in [Services -> {"off", "new", "on"}] /\ told \in [Services -> BOOLEAN]
  BY <1>2 DEF TypeOK
<1>8. CASE UpClears
  <2>1. pc = "clear" /\ k \in 1..Len(order) /\ UNCHANGED <<k, passed, life>> /\ i \in Services
    BY <1>4, <1>5, <1>8 DEF UpClears
  <2>2. \/ pc' = "barrier" /\ told' = told
        \/ pc' = "fork" /\ life[i] # "on" /\ told' = [told EXCEPT ![i] = FALSE]
    BY <1>8 DEF UpClears
  <2>3. told' \in [Services -> BOOLEAN]
    BY <1>7, <2>2
  <2>4. TypeOK'
    BY <1>1, <1>2, <2>1, <2>3 DEF TypeOK
  <2>5. pc' = "fork" => life[i] = "off" /\ ~told'[i]
    BY <1>5, <1>7, <2>1, <2>2
  <2>6. Starting'
    BY <1>1, <1>5, <2>1, <2>2, <2>5 DEF Starting
  <2> QED
    BY <1>6, <2>4, <2>6 DEF BootInv
<1>a. CASE UpForks /\ pc' = "failed"
  <2>1. pc = "fork" /\ UNCHANGED <<k, passed, told, life>>
    BY <1>a DEF UpForks
  <2>2. TypeOK' /\ Starting'
    BY <1>1, <1>2, <1>5, <1>a, <2>1 DEF TypeOK, Starting
  <2> QED
    BY <1>6, <2>2 DEF BootInv
<1>9. CASE UpForks /\ pc' # "failed"
  <2>1. /\ pc = "fork" /\ pc' = "barrier" /\ life' = [life EXCEPT ![i] = "new"]
        /\ UNCHANGED <<k, passed, told>>
    BY <1>9 DEF UpForks
  <2>2. k \in 1..Len(order) /\ i \in Services
    BY <1>4, <1>5, <2>1
  <2>3. \A j \in k+1..Len(order) : life'[order[j]] # "new"
    <3> SUFFICES ASSUME NEW j \in k+1..Len(order)
                 PROVE  life'[order[j]] # "new"
      OBVIOUS
    <3>1. j \in 1..Len(order) /\ j # k
      BY <1>4, <2>2
    <3>2. order[j] # i /\ order[j] \in Services
      BY <1>4, <2>2, <3>1
    <3> QED
      BY <1>5, <1>7, <2>1, <3>2
  <2>4. life' \in [Services -> {"off", "new", "on"}]
    BY <1>7, <2>1
  <2>5. TypeOK'
    BY <1>1, <1>2, <2>1, <2>4 DEF TypeOK
  <2>6. Starting'
    BY <1>1, <1>5, <2>1, <2>2, <2>3 DEF Starting
  <2> QED
    BY <1>6, <2>5, <2>6 DEF BootInv
<1>10. CASE BarrierPasses
  <2>1. /\ pc = "barrier" /\ pc' = "clear" /\ k' = k + 1 /\ passed' = passed \union {i}
        /\ UNCHANGED <<life, told>>
    BY <1>10 DEF BarrierPasses
  <2>2. k \in 1..Len(order) /\ i \in Services /\ k \in Nat
    BY <1>4, <1>5, <2>1
  <2>3. passed' = {order[j] : j \in 1..k}
    <3>1. \A j : j \in 1..k <=> j \in 1..k-1 \/ j = k
      BY <2>2
    <3> QED
      BY <1>5, <2>1, <3>1
  <2>4. TypeOK'
    BY <1>1, <1>2, <2>1, <2>2 DEF TypeOK
  <2>5. Starting'
    <3>1. k' \in 1..Len(order) + 1 /\ k' - 1 = k
      BY <1>4, <2>1, <2>2
    <3>2. \A j \in k'+1..Len(order) : j \in k+1..Len(order)
      BY <1>4, <2>1, <2>2
    <3> QED
      BY <1>1, <1>5, <2>1, <2>3, <3>1, <3>2 DEF Starting
  <2> QED
    BY <1>6, <2>4, <2>5 DEF BootInv
<1>11. CASE BarrierFails \/ Started
  <2>1. pc' \in {"failed", "started"} /\ UNCHANGED <<k, passed, life, told>>
    BY <1>11 DEF BarrierFails, Started
  <2>2. TypeOK'
    BY <1>1, <1>2, <2>1 DEF TypeOK
  <2> QED
    BY <1>6, <2>1, <2>2 DEF BootInv, Starting
<1> QED
  BY <1>8, <1>9, <1>a, <1>10, <1>11

\* Stopping the services keeps the invariant.
LEMMA DownKeeps ==
  ASSUME BootInv, Down \/ WaitStopped \/ StopDone
  PROVE  BootInv'
<1> DEFINE i == order[k]
<1>1. /\ pc \in {"down", "wait"} /\ g' = g /\ target' = target
      /\ UNCHANGED <<stopping, work, state, order, passed, life>>
      /\ pc' \in {"down", "wait", "stopped"}
  BY DEF Down, WaitStopped, StopDone, plan
<1>2. TypeOK /\ Found /\ \A j \in Services : life[j] # "new"
  BY <1>1 DEF BootInv, SearchInv, Quiet
<1>3. Found'
  BY <1>1, <1>2, SameFound
<1>4. Len(order) \in Nat /\ \A a \in 1..Len(order) : order[a] \in Services
  BY <1>2, FoundOrder
<1>5. /\ k \in 0..Len(order) /\ (pc = "wait" => k > 0)
      /\ target = All /\ ~late => \A j \in k+1..Len(order) : life[order[j]] = "off"
  BY <1>1 DEF BootInv, Stopping
<1>6. SearchInv' /\ Quiet' /\ Starting'
  BY <1>1, <1>2, <1>3 DEF SearchInv, Quiet, Starting
<1>7. /\ life \in [Services -> {"off", "new", "on"}] /\ told \in [Services -> BOOLEAN]
      /\ late \in BOOLEAN
  BY <1>2 DEF TypeOK
<1>8. CASE Down
  <2>1. /\ pc = "down" /\ k > 0 /\ told' = [told EXCEPT ![i] = TRUE] /\ late' = late
        /\ IF target = All THEN pc' = "wait" /\ k' = k ELSE pc' = pc /\ k' = k - 1
    BY <1>8 DEF Down
  <2>2. told' \in [Services -> BOOLEAN]
    BY <1>7, <2>1
  <2>3. k' \in 0..Len(order) /\ (pc' = "wait" => k' > 0) /\ (target = All => k' = k)
    BY <1>4, <1>5, <2>1
  <2>4. TypeOK'
    BY <1>1, <1>2, <1>4, <2>1, <2>2, <2>3 DEF TypeOK
  <2>5. Stopping'
    BY <1>1, <1>5, <2>1, <2>3 DEF Stopping
  <2> QED
    BY <1>6, <2>4, <2>5 DEF BootInv
<1>9. CASE WaitStopped
  <2>1. /\ pc = "wait" /\ pc' = "down" /\ k' = k - 1 /\ late' = (late \/ life[i] = "on")
        /\ told' = told
    BY <1>9 DEF WaitStopped
  <2>2. k \in 1..Len(order) /\ i \in Services /\ k' \in 0..Len(order) /\ k' + 1 = k
    BY <1>4, <1>5, <2>1
  <2>3. late' \in BOOLEAN
    BY <2>1, <1>7
  <2>4. TypeOK'
    BY <1>1, <1>2, <1>4, <2>1, <2>2, <2>3 DEF TypeOK
  <2>5. ASSUME target = All, ~late', NEW j \in k..Len(order)
        PROVE  life[order[j]] = "off"
    <3>1. ~late /\ life[i] # "on"
      BY <2>1, <2>5
    <3>2. life[i] = "off"
      BY <1>2, <1>7, <2>2, <3>1
    <3>3. j = k \/ j \in k+1..Len(order)
      BY <2>2
    <3> QED
      BY <1>5, <2>5, <3>1, <3>2, <3>3
  <2>6. Stopping'
    BY <1>1, <2>1, <2>2, <2>5 DEF Stopping
  <2> QED
    BY <1>6, <2>4, <2>6 DEF BootInv
<1>10. CASE StopDone
  <2>1. /\ pc' = "stopped" /\ UNCHANGED <<k, late>>
        /\ told' = [j \in Services |-> told[j] \/ (target = All /\ j \in g.disabled)]
    BY <1>10 DEF StopDone
  <2>2. told' \in [Services -> BOOLEAN]
    BY <1>7, <2>1
  <2>3. TypeOK'
    BY <1>1, <1>2, <2>1, <2>2 DEF TypeOK
  <2> QED
    BY <1>6, <2>1, <2>3 DEF BootInv, Stopping
<1> QED
  BY <1>8, <1>9, <1>10

\* Other commands, edits and the services themselves keep the invariant.
LEMMA OthersKeep ==
  ASSUME BootInv,
         \/ Stop \/ Again \/ Restart \/ Edit \/ UNCHANGED vars
         \/ \E i \in Services : Publish(i) \/ End(i)
  PROVE  BootInv'
<1>1. TypeOK /\ g \in Graph
  BY DEF BootInv, TypeOK
<1>2. CASE Stop \/ Again \/ Restart
  <2>1. /\ pc \in {"started", "failed", "refused", "stopped"} /\ pc' \in {"plan", "failed"}
        /\ UNCHANGED <<g, target, work, state, order, k, passed, late, life, told>>
        /\ stopping' \in {stopping, TRUE, FALSE}
    BY <1>2 DEF Stop, Again, Restart
  <2>2. pc' = "plan" => \A i \in Services : life[i] # "new"
    BY <1>2 DEF Stop, Again, Restart, BootInv, Quiet
  <2>3. stopping' \in BOOLEAN
    BY <1>1, <2>1 DEF TypeOK
  <2>4. TypeOK'
    BY <1>1, <2>1, <2>3 DEF TypeOK
  <2> QED
    BY <2>1, <2>2, <2>4 DEF BootInv, SearchInv, Quiet, Starting, Stopping
<1>3. CASE Edit
  <2>1. pc = "started" /\ UNCHANGED <<target, pc, stopping, work, state, order, k, passed, late, life, told>>
    BY <1>3 DEF Edit, plan
  <2>2. g' \in Graph
    <3> DEFINE r == [g EXCEPT !.requires[1] = @ \union {N + 1}]
               p == [g EXCEPT !.parsed = FALSE]
    <3>1. N + 1 \in Names
      BY BootAssumption DEF Names
    <3>2. r = [g EXCEPT !.requires = [g.requires EXCEPT ![1] = g.requires[1] \union {N + 1}]]
      BY <1>1 DEF Graph
    <3>3. [g.requires EXCEPT ![1] = g.requires[1] \union {N + 1}] \in [Services -> SUBSET Names]
      BY <1>1, <3>1 DEF Graph
    <3>4. r \in Graph
      BY <1>1, <3>2, <3>3 DEF Graph
    <3>5. p \in Graph
      BY <1>1 DEF Graph
    <3> QED
      BY <1>3, <3>4, <3>5 DEF Edit
  <2>3. TypeOK'
    BY <1>1, <2>1, <2>2 DEF TypeOK
  <2> QED
    BY <2>1, <2>3 DEF BootInv, SearchInv, Quiet, Starting, Stopping
<1>4. ASSUME /\ UNCHANGED <<g, target, pc, stopping, work, state, order, k, passed, late, told>>
             /\ life' \in [Services -> {"off", "new", "on"}]
             /\ \A j \in Services : (life'[j] = "new" => life[j] = "new")
                                      /\ (life[j] = "off" => life'[j] = "off")
      PROVE  BootInv'
  <2>1. TypeOK'
    BY <1>1, <1>4 DEF TypeOK
  <2>2. SearchInv'
    <3>1. Orderable' = Orderable /\ Marked' = Marked
      BY <1>4, SameGraph
    <3>2. pc = "order" => Search(work, state, order)'
      BY <1>4, SameSearch DEF BootInv, SearchInv
    <3>3. pc \in {"clear", "fork", "barrier", "down", "wait"} => Found'
      BY <1>4, SameFound DEF BootInv, SearchInv
    <3> QED
      BY <1>4, <3>1, <3>2, <3>3 DEF BootInv, SearchInv
  <2>3. Quiet'
    BY <1>4 DEF BootInv, Quiet
  <2>4. pc \in {"clear", "fork", "barrier", "down", "wait"} =>
          Len(order) \in Nat /\ \A a \in 1..Len(order) : order[a] \in Services
    BY <1>1, FoundOrder DEF BootInv, SearchInv
  <2>5. Starting'
    <3>1. CASE pc \in {"clear", "fork", "barrier"}
      <4>1. /\ k \in 1..Len(order) + 1
            /\ \A j \in k..Len(order) : order[j] \in Services
        BY <2>4, <3>1 DEF BootInv, Starting
      <4>2. \A j \in k+1..Len(order) : order[j] \in Services
        BY <2>4, <4>1, <3>1
      <4> QED
        BY <1>4, <2>4, <3>1, <4>1, <4>2 DEF BootInv, Starting
    <3>2. CASE pc \notin {"clear", "fork", "barrier"}
      BY <1>4, <3>2 DEF BootInv, Starting
    <3> QED
      BY <3>1, <3>2
  <2>6. Stopping'
    <3>1. CASE pc \in {"down", "wait"}
      <4>1. k \in 0..Len(order)
        BY <3>1 DEF BootInv, Stopping
      <4>2. \A j \in k+1..Len(order) : order[j] \in Services
        BY <2>4, <3>1, <4>1
      <4> QED
        BY <1>4, <3>1, <4>1, <4>2 DEF BootInv, Stopping
    <3>2. CASE pc \notin {"down", "wait"}
      BY <1>4, <3>2 DEF Stopping
    <3> QED
      BY <3>1, <3>2
  <2> QED
    BY <2>1, <2>2, <2>3, <2>5, <2>6 DEF BootInv
<1>5. CASE UNCHANGED vars
  BY <1>1, <1>4, <1>5 DEF vars, TypeOK
<1>6. ASSUME NEW i \in Services, Publish(i) \/ End(i)
      PROVE  BootInv'
  <2>1. /\ UNCHANGED <<g, target, pc, stopping, work, state, order, k, passed, late, told>>
        /\ \/ life[i] = "new" /\ life' = [life EXCEPT ![i] = "on"]
           \/ life[i] = "on" /\ life' = [life EXCEPT ![i] = "off"]
    BY <1>6 DEF Publish, End, plan
  <2>2. life \in [Services -> {"off", "new", "on"}]
    BY <1>1 DEF TypeOK
  <2>3. /\ life' \in [Services -> {"off", "new", "on"}]
        /\ \A j \in Services : (life'[j] = "new" => life[j] = "new")
                                 /\ (life[j] = "off" => life'[j] = "off")
    BY <2>1, <2>2
  <2> QED
    BY <1>4, <2>1, <2>3
<1> QED
  BY <1>2, <1>3, <1>5, <1>6

\* Every step keeps the invariant.
LEMMA BootNext ==
  ASSUME BootInv, [Next]_vars
  PROVE  BootInv'
  BY PlanKeeps, OrderKeeps, OrderedKeeps, UpKeeps, DownKeeps, OthersKeep DEF Next, Command

-----------------------------------------------------------------------------
(* Theorems.                                                               *)

\* The state of the search, what the order it found is worth, and how far a
\* command has come with it form an inductive invariant.
THEOREM BootHolds == Spec => []BootInv
  BY BootBegins, BootNext, PTL DEF Spec

\* For any number of services, directives and bundles, after lists that are full
\* included: boot and shutdown find an order exactly when there is one, every
\* service in reach once, after all it depends on.
THEOREM OrderIsCorrect == Spec => []OrderCorrect
<1>1. BootInv => OrderCorrect
  BY DEF BootInv, SearchInv, Found, OrderCorrect
<1> QED
  BY <1>1, BootHolds, PTL

\* A supervisor is forked only when everything that the service depends on has
\* passed its barrier in this command.
THEOREM StartsAreBehindBarriers == Spec => StartsBehindBarriers
<1> DEFINE A == \A i \in Services : life[i] = "off" /\ life'[i] = "new" => Dependencies(i) \subseteq passed
<1>1. BootInv /\ [Next]_vars => [A]_vars
  <2> SUFFICES ASSUME BootInv, Next, NEW i \in Services, life[i] = "off", life'[i] = "new"
               PROVE  Dependencies(i) \subseteq passed
    OBVIOUS
  <2>1. TypeOK /\ g \in Graph /\ life \in [Services -> {"off", "new", "on"}]
    BY DEF BootInv, TypeOK
  <2>2. UpForks
    <3>1. life' # life
      OBVIOUS
    <3>2. \A j \in Services : ~Publish(j) /\ ~End(j)
      BY <2>1 DEF Publish, End
    <3> QED
      BY <3>1, <3>2 DEF Next, Command, Plan, Order, Ordered, UpClears, BarrierPasses, BarrierFails,
                        Started, Down, WaitStopped, StopDone, Stop, Again, Restart, Edit
  <2>3. pc = "fork" /\ life' = [life EXCEPT ![order[k]] = "new"]
    BY <2>2, life' # life DEF UpForks
  <2>4. i = order[k]
    BY <2>1, <2>3
  <2>5. Found /\ k \in 1..Len(order) /\ passed = {order[j] : j \in 1..k-1}
    BY <2>3 DEF BootInv, SearchInv, Starting
  <2>6. DOMAIN order = 1..Len(order) /\ Len(order) \in Nat
    BY <2>1, <2>5, FoundOrder
  <2>7. ASSUME NEW d \in Dependencies(i)
        PROVE  d \in passed
    <3>1. i \in Reaches(Selected)
      BY <2>4, <2>5, <2>6 DEF Found, ToSet
    <3>2. d \in Reaches(Selected)
      BY <2>1, <2>7, <3>1, SelectedServices, ReachesLeast
    <3>3. PICK b \in DOMAIN order : order[b] = d
      BY <2>5, <3>2 DEF Found, ToSet
    <3>4. b < k
      BY <2>4, <2>5, <2>6, <2>7, <3>3 DEF Found
    <3>5. b \in 1..k-1
      BY <2>5, <2>6, <3>4
    <3> QED
      BY <2>5, <3>3, <3>5
  <2> QED
    BY <2>7
<1>2. []BootInv /\ [][Next]_vars => StartsBehindBarriers
  BY <1>1, PTL DEF StartsBehindBarriers
<1> QED
  BY <1>2, BootHolds, PTL DEF Spec

\* In an ordered shutdown a service is told to go only when no service that
\* depends on it is left, unless a wait gave up.
THEOREM DependentsGoFirst == Spec => DependentsFirst
<1> DEFINE A == \A d \in Services :
                  pc = "down" /\ target = All /\ ~told[d] /\ told'[d] /\ Enabled(d) /\ ~late
                    => \A i \in Services : d \in Dependencies(i) /\ Enabled(i) => life[i] = "off"
<1>1. BootInv /\ [Next]_vars => [A]_vars
  <2> SUFFICES ASSUME BootInv, Next, NEW d \in Services, pc = "down", target = All, ~told[d],
                      told'[d], Enabled(d), ~late, NEW i \in Services, d \in Dependencies(i), Enabled(i)
               PROVE  life[i] = "off"
    OBVIOUS
  <2>1. TypeOK /\ g \in Graph /\ told \in [Services -> BOOLEAN]
    BY DEF BootInv, TypeOK
  <2>2. Down
    <3>1. Down \/ StopDone
      BY DEF Next, Command, Plan, Order, Ordered, UpClears, UpForks, BarrierPasses, BarrierFails,
             Started, WaitStopped, Stop, Again, Restart, Edit, Publish, End
    <3>2. StopDone => FALSE
      BY DEF StopDone, Enabled
    <3> QED
      BY <3>1, <3>2
  <2>3. d = order[k] /\ k > 0
    BY <2>1, <2>2 DEF Down
  <2>4. /\ Found /\ k \in 0..Len(order)
        /\ \A j \in k+1..Len(order) : life[order[j]] = "off"
    BY DEF BootInv, SearchInv, Stopping
  <2>5. DOMAIN order = 1..Len(order) /\ Len(order) \in Nat
    BY <2>1, <2>4, FoundOrder
  <2>6. i \in Selected
    BY DEF Selected, Marked
  <2>7. PICK a \in DOMAIN order : order[a] = i
    BY <2>1, <2>4, <2>6, SelectedServices, ReachesLeast DEF Found, ToSet
  <2>8. k < a
    BY <2>3, <2>4, <2>5, <2>7 DEF Found
  <2>9. a \in k+1..Len(order)
    BY <2>4, <2>5, <2>8
  <2> QED
    BY <2>4, <2>7, <2>9
<1>2. []BootInv /\ [][Next]_vars => DependentsFirst
  BY <1>1, PTL DEF DependentsFirst
<1> QED
  BY <1>2, BootHolds, PTL DEF Spec

\* A step of one service that SvLife allows.
LEMMA AllowedSteps ==
  ASSUME NEW i,
         \/ life'[i] = life[i] /\ told'[i] = told[i]
         \/ life[i] = "off" /\ told'[i] = FALSE /\ life'[i] = life[i]
         \/ life[i] = "off" /\ ~told[i] /\ life'[i] = "new" /\ told'[i] = told[i]
         \/ life[i] = "new" /\ life'[i] = "on" /\ told'[i] = told[i]
         \/ life[i] # "new" /\ told'[i] = TRUE /\ life'[i] = life[i]
         \/ life[i] # "off" /\ life'[i] = "off" /\ told'[i] = told[i]
  PROVE  Life(i)!Next \/ UNCHANGED <<life[i], told[i]>>
  BY DEF Life!Next, Life!Clear, Life!Start, Life!Publish, Life!Tell, Life!End

\* The commands use every service as SvLife allows: none is told to go and no
\* supervisor is forked while there is one that is not yet visible.
THEOREM ServicesAreUsed == Spec => UsesSvLife
<1> DEFINE A == \A i \in Services : Life(i)!Next \/ UNCHANGED <<life[i], told[i]>>
<1>1. ASSUME BootInv, Next
      PROVE  A
  <2> SUFFICES ASSUME NEW i \in Services
               PROVE  Life(i)!Next \/ UNCHANGED <<life[i], told[i]>>
    OBVIOUS
  <2>1. TypeOK /\ life \in [Services -> {"off", "new", "on"}] /\ told \in [Services -> BOOLEAN]
    BY <1>1 DEF BootInv, TypeOK
  <2>2. CASE UNCHANGED <<life, told>>
    BY <2>2, AllowedSteps
  <2>3. ASSUME pc \in {"plan", "order"}, Unordered, UNCHANGED life
        PROVE  Life(i)!Next \/ UNCHANGED <<life[i], told[i]>>
    <3>1. life[i] # "new"
      BY <1>1, <2>3 DEF BootInv, Quiet
    <3>2. told'[i] = told[i] \/ told'[i] = TRUE
      BY <2>1, <2>3 DEF Unordered
    <3> QED
      BY <2>3, <3>1, <3>2, AllowedSteps
  <2>4. CASE Plan \/ Order
    <3>1. pc \in {"plan", "order"} /\ UNCHANGED life /\ (Unordered \/ UNCHANGED told)
      BY <2>4 DEF Plan, Order
    <3> QED
      BY <2>2, <2>3, <3>1
  <2>5. CASE UpClears
    <3>1. /\ pc = "clear" /\ k <= Len(order) /\ life' = life
          /\ told' = told \/ (life[order[k]] # "on" /\ told' = [told EXCEPT ![order[k]] = FALSE])
      BY <2>5 DEF UpClears
    <3>2. k \in k..Len(order) /\ order[k] \in Services
      <4>1. Found /\ k \in 1..Len(order) + 1
        BY <1>1, <3>1 DEF BootInv, SearchInv, Starting
      <4>2. Len(order) \in Nat /\ \A a \in 1..Len(order) : order[a] \in Services
        BY <2>1, <4>1, FoundOrder
      <4> QED
        BY <3>1, <4>1, <4>2
    <3>3. life[order[k]] # "new"
      BY <1>1, <3>1, <3>2 DEF BootInv, Starting
    <3>4. life'[i] = life[i] /\ (told'[i] = told[i] \/ (life[i] = "off" /\ told'[i] = FALSE))
      BY <2>1, <3>1, <3>2, <3>3
    <3> QED
      BY <3>4, AllowedSteps
  <2>6. CASE UpForks
    <3>1. /\ pc = "fork" /\ told' = told
          /\ life' = life \/ life' = [life EXCEPT ![order[k]] = "new"]
      BY <2>6 DEF UpForks
    <3>2. life[order[k]] = "off" /\ ~told[order[k]]
      BY <1>1, <3>1 DEF BootInv, Starting
    <3>3. \/ life'[i] = life[i] /\ told'[i] = told[i]
          \/ life[i] = "off" /\ ~told[i] /\ life'[i] = "new" /\ told'[i] = told[i]
      BY <2>1, <3>1, <3>2
    <3> QED
      BY <3>3, AllowedSteps
  <2>7. CASE Down \/ StopDone
    <3>1. pc = "down" /\ life' = life
      BY <2>7 DEF Down, StopDone
    <3>2. life[i] # "new"
      BY <1>1, <3>1 DEF BootInv, Quiet
    <3>3. told'[i] = told[i] \/ told'[i] = TRUE
      <4>1. CASE Down
        BY <2>1, <4>1 DEF Down
      <4>2. CASE StopDone
        BY <2>1, <4>2 DEF StopDone
      <4> QED
        BY <2>7, <4>1, <4>2
    <3> QED
      BY <3>1, <3>2, <3>3, AllowedSteps
  <2>8. ASSUME NEW j \in Services, Publish(j) \/ End(j)
        PROVE  Life(i)!Next \/ UNCHANGED <<life[i], told[i]>>
    <3>1. /\ told' = told
          /\ \/ life[j] = "new" /\ life' = [life EXCEPT ![j] = "on"]
             \/ life[j] = "on" /\ life' = [life EXCEPT ![j] = "off"]
      BY <2>8 DEF Publish, End
    <3>2. /\ told'[i] = told[i]
          /\ \/ life'[i] = life[i]
             \/ life[i] = "new" /\ life'[i] = "on"
             \/ life[i] # "off" /\ life'[i] = "off"
      BY <2>1, <3>1
    <3> QED
      BY <3>2, AllowedSteps
  <2>9. CASE \/ Ordered \/ BarrierPasses \/ BarrierFails \/ Started \/ WaitStopped
             \/ Stop \/ Again \/ Restart \/ Edit
    BY <2>2, <2>9 DEF Ordered, BarrierPasses, BarrierFails, Started, WaitStopped, Stop, Again, Restart,
                      Edit
  <2> QED
    BY <1>1, <2>4, <2>5, <2>6, <2>7, <2>8, <2>9 DEF Next, Command
<1>2. BootInv /\ [Next]_vars => [A]_vars
  BY <1>1
<1>3. []BootInv /\ [][Next]_vars => UsesSvLife
  BY <1>2, PTL DEF UsesSvLife
<1> QED
  BY <1>3, BootHolds, PTL DEF Spec

=============================================================================
