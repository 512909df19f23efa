------------------------------ MODULE MCSvBoot ------------------------------
(* SvBoot for TLC: three services, every choice of up to two dependencies, *)
(* every cycle through the three, a full after list, a bad script.         *)
EXTENDS SvBoot

Targets(edges, kind) == [i \in 1..3 |-> {e[3] : e \in {f \in edges : f[1] = kind /\ f[2] = i}}]
GraphOf(edges, off, ok) ==
  [requires |-> Targets(edges, "requires"), after |-> Targets(edges, "after"),
   before |-> Targets(edges, "before"), disabled |-> off, parsed |-> ok]

Kinds == {"requires", "after", "before"}
AllEdges == Kinds \X (1..3) \X (1..4)
SmallGraphs ==
  {GraphOf({}, {}, ok) : ok \in BOOLEAN}
  \union {GraphOf({a, b}, off, TRUE) : a \in AllEdges, b \in AllEdges, off \in {{}, {2}}}
  \union {GraphOf({<<a, 1, 2>>, <<b, 2, 3>>, <<c, 3, 1>>}, off, TRUE) :
             a \in Kinds, b \in Kinds, c \in Kinds, off \in {{}, {2}}}
  \union {GraphOf({<<"after", 3, a>>, <<"after", 3, 4>>, <<"before", 2, 3>>}, {}, TRUE) :
             a \in {1, 2}}

\* Bundle 5 holds two services, bundle 7 holds itself through bundle 8.
SomeBundles == [b \in {5, 7, 8} |-> CASE b = 5 -> {2, 3} [] b = 7 -> {1, 8} [] b = 8 -> {7}]
Gates == <<"ready", "oneshot", "none">>
=============================================================================
