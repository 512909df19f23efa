------------------------------- MODULE SvBoot -------------------------------
(***************************************************************************)
(* Starting and stopping several services of `sv' (sv.c): `sv boot' and    *)
(* `sv shutdown' for all enabled services, `sv up', `down' and `restart'   *)
(* for a bundle.  A command collects the services, orders them depth first *)
(* along requires, after and before, and brings them up one by one behind  *)
(* their start barriers, or down in reverse.  Each service behaves as      *)
(* SvLife says; its down marker is told[i].                                *)
(*                                                                         *)
(* Services are numbered in the order of their names; N + 1 is a name      *)
(* without a service.  The operator stops services once the supervisors    *)
(* that were forked are visible.                                           *)
(***************************************************************************)
EXTENDS Naturals, Sequences, FiniteSets, SequencesExt

CONSTANTS
  N,
  Bundles,    \* [name -> set of members], names above N + 1
  Gate,       \* [1..N -> {"none", "ready", "oneshot"}]: the start barrier
  DepsMax,    \* BSV_DEPS_MAX
  Graphs      \* the dependency directives to try

Services == 1..N
Names == 1..N+1
All == 0
Graph == [requires : [Services -> SUBSET Names], after : [Services -> SUBSET Names],
          before : [Services -> SUBSET Names], disabled : SUBSET Services, parsed : BOOLEAN]

ASSUME BootAssumption ==
  /\ N \in Nat /\ DepsMax \in Nat /\ Gate \in [Services -> {"none", "ready", "oneshot"}]
  /\ Graphs \subseteq Graph /\ DOMAIN Bundles \intersect (0..N+1) = {}
  /\ \A b \in DOMAIN Bundles : Bundles[b] \subseteq Names \union DOMAIN Bundles

VARIABLES
  g,          \* the directives found in the run scripts
  target,     \* All, or the bundle of this command
  pc,
  stopping,   \* the command stops services
  work, state, order,   \* the stack and the marks of the search, and its result
  k,          \* the position in order
  passed,     \* history: services whose barrier this command has passed
  late,       \* history: a wait for a service to stop gave up
  life, told

plan == <<stopping, work, state, order>>
vars == <<g, target, pc, stopping, work, state, order, k, passed, late, life, told>>

-----------------------------------------------------------------------------
(* Ordering.                                                               *)

Ascending(S) == CHOOSE s \in [1..Cardinality(S) -> S] :
                  ToSet(s) = S /\ \A a, b \in DOMAIN s : a < b => s[a] < s[b]
Enabled(i) == i \in Services \ g.disabled

\* bsv_resolve_before_edges: S before T puts S into T's after list, as long as
\* the list has room.
After(t) ==
  LET first == {i \in Services : t \in g.before[i]} \ g.after[t]
      Room(i) == Cardinality(g.after[t]) + Cardinality({j \in first : j < i}) < DepsMax
  IN g.after[t] \union {i \in first : Room(i)}

\* bsv_mark_target_rec: the services of a bundle and of the bundles in it, and
\* N + 1 for a bundle that holds itself or a name that is not there.
Members[name \in Names \union DOMAIN Bundles, stack \in SUBSET DOMAIN Bundles] ==
  CASE name \in stack -> {N + 1}
    [] name \in DOMAIN Bundles \ stack ->
         UNION {Members[m, stack \union {name}] : m \in Bundles[name]}
    [] OTHER -> {name}

Marked == IF target = All THEN Services ELSE Members[target, {}]
Selected == {i \in Services : Enabled(i) /\ i \in Marked}

Item(act, S) == LET seq == Ascending(S) IN [n \in DOMAIN seq |-> [act |-> act, i |-> seq[n]]]

-----------------------------------------------------------------------------
(* The commands.                                                           *)

Init ==
  /\ g \in Graphs /\ target \in {All} \union DOMAIN Bundles
  /\ pc = "plan" /\ stopping = FALSE /\ work = <<>> /\ state = [i \in Services |-> 0]
  /\ order = <<>> /\ k = 0 /\ passed = {} /\ late = FALSE
  /\ life = [i \in Services |-> "off"] /\ told = [i \in Services |-> FALSE]

\* Mutant of Unordered: shutdown gives up as boot does.
UnorderedGivesUp == pc' = (IF stopping THEN "stopped" ELSE "refused") /\ UNCHANGED told

\* Shutdown of services that cannot be ordered tells all of them at once.
Unordered ==
  /\ pc' = IF stopping THEN "stopped" ELSE "refused"
  /\ told' = [i \in Services |-> told[i] \/ (stopping /\ target = All /\ g.parsed)]

\* bsv_collect_services and the targets: a script that cannot be parsed or a
\* bad bundle ends the command.
Plan ==
  /\ pc = "plan" /\ passed' = {} /\ late' = FALSE
  /\ state' = [i \in Services |-> 0] /\ order' = <<>>
  /\ IF g.parsed /\ N + 1 \notin Marked
     THEN pc' = "order" /\ work' = Item("soft", Selected) /\ UNCHANGED told
     ELSE Unordered /\ UNCHANGED work
  /\ UNCHANGED <<g, target, stopping, k, life>>

\* Mutant of Order: a service on the stack counts as ordered.
OrderNoCycle ==
  /\ pc = "order" /\ work # <<>>
  /\ LET i == Head(work).i IN
     IF Head(work).act = "leave" \/ ~Enabled(i) \/ state[i] # 0
     THEN /\ work' = Tail(work) /\ state' = IF Enabled(i) THEN [state EXCEPT ![i] = 2] ELSE state
          /\ order' = IF Head(work).act = "leave" THEN Append(order, i) ELSE order
     ELSE /\ state' = [state EXCEPT ![i] = 1] /\ UNCHANGED order
          /\ work' = Item("hard", g.requires[i]) \o Item("soft", After(i))
                      \o Item("leave", {i}) \o Tail(work)
  /\ UNCHANGED <<g, target, pc, stopping, k, passed, late, life, told>>

\* bsv_visit_ordered_service, one visit at a time: state is 1 for a service on
\* the stack and 2 for one that is ordered.
Order ==
  /\ pc = "order" /\ work # <<>>
  /\ LET i == Head(work).i
         act == Head(work).act
     IN \/ /\ act = "leave" /\ order' = Append(order, i) /\ state' = [state EXCEPT ![i] = 2]
           /\ work' = Tail(work) /\ UNCHANGED <<pc, told>>
        \/ /\ (act = "soft" /\ ~Enabled(i)) \/ (act # "leave" /\ Enabled(i) /\ state[i] = 2)
           /\ work' = Tail(work) /\ UNCHANGED <<pc, order, state, told>>
        \/ /\ (act = "hard" /\ ~Enabled(i)) \/ (act # "leave" /\ Enabled(i) /\ state[i] = 1)
           /\ Unordered /\ work' = <<>> /\ UNCHANGED <<order, state>>
        \/ /\ act # "leave" /\ Enabled(i) /\ state[i] = 0 /\ state' = [state EXCEPT ![i] = 1]
           /\ work' = Item("hard", g.requires[i]) \o Item("soft", After(i))
                       \o Item("leave", {i}) \o Tail(work)
           /\ UNCHANGED <<pc, order, told>>
  /\ UNCHANGED <<g, target, stopping, k, passed, late, life>>

Ordered ==
  /\ pc = "order" /\ work = <<>>
  /\ IF stopping THEN pc' = "down" /\ k' = Len(order) ELSE pc' = "clear" /\ k' = 1
  /\ UNCHANGED <<g, target, stopping, work, state, order, passed, late, life, told>>

\* Mutant of UpClears: a supervisor is forked next to the one that is there.
UpClearsBlind ==
  /\ pc = "clear" /\ k <= Len(order) /\ pc' = "fork"
  /\ told' = [told EXCEPT ![order[k]] = FALSE]
  /\ UNCHANGED <<g, target, plan, k, passed, late, life>>

\* A oneshot without a supervisor that nobody took down may have completed in
\* this command or an earlier one; its status file is not modelled.
MayBeDone(i) == Gate[i] = "oneshot" /\ life[i] = "off" /\ ~told[i]

\* bsv_up of the next service: "already up", or the marker goes ...
UpClears ==
  /\ pc = "clear" /\ k <= Len(order)
  /\ \/ /\ life[order[k]] = "on" \/ MayBeDone(order[k])
        /\ pc' = "barrier" /\ UNCHANGED told
     \/ /\ life[order[k]] # "on"
        /\ pc' = "fork" /\ told' = [told EXCEPT ![order[k]] = FALSE]
  /\ UNCHANGED <<g, target, plan, k, passed, late, life>>

\* ... and a supervisor is forked; a fork that fails ends the command.
UpForks ==
  /\ pc = "fork"
  /\ \/ pc' = "barrier" /\ life' = [life EXCEPT ![order[k]] = "new"]
     \/ pc' = "failed" /\ UNCHANGED life
  /\ UNCHANGED <<g, target, plan, k, passed, late, told>>

\* Mutant of BarrierPasses: the next service does not wait.
BarrierIgnored ==
  /\ pc = "barrier" /\ pc' = "clear" /\ k' = k + 1
  /\ UNCHANGED <<g, target, plan, passed, late, life, told>>

\* bsv_wait_start_barrier: a oneshot has completed, readiness was reported.
BarrierPasses ==
  /\ pc = "barrier" /\ (Gate[order[k]] # "none" => life[order[k]] # "new")
  /\ pc' = "clear" /\ k' = k + 1 /\ passed' = passed \union {order[k]}
  /\ UNCHANGED <<g, target, plan, late, life, told>>

BarrierFails ==
  /\ pc = "barrier" /\ Gate[order[k]] # "none" /\ pc' = "failed"
  /\ UNCHANGED <<g, target, plan, k, passed, late, life, told>>

Started == /\ pc = "clear" /\ k > Len(order) /\ pc' = "started"
           /\ UNCHANGED <<g, target, plan, k, passed, late, life, told>>

\* `sv shutdown', `sv down' or the first half of `sv restart', also after a
\* start that failed halfway.
Stop ==
  /\ pc \in {"started", "failed", "refused"} /\ \A i \in Services : life[i] # "new"
  /\ pc' = "plan" /\ stopping' = TRUE
  /\ UNCHANGED <<g, target, work, state, order, k, passed, late, life, told>>

\* The same command once more, with services that are up.
Again ==
  /\ pc \in {"started", "failed"} /\ ~stopping /\ \A i \in Services : life[i] # "new"
  /\ pc' = "plan"
  /\ UNCHANGED <<g, target, stopping, work, state, order, k, passed, late, life, told>>

\* bsv_down of the next service in reverse; boot's shutdown waits for it.
Down ==
  /\ pc = "down" /\ k > 0
  /\ told' = [told EXCEPT ![order[k]] = TRUE]
  /\ IF target = All THEN pc' = "wait" /\ UNCHANGED k ELSE pc' = pc /\ k' = k - 1
  /\ UNCHANGED <<g, target, plan, passed, late, life>>

\* Mutant of WaitStopped: TERM is sent and the next service follows at once.
WaitNothing == /\ pc = "wait" /\ pc' = "down" /\ k' = k - 1
               /\ UNCHANGED <<g, target, plan, passed, late, life, told>>

\* bsv_wait_stopped: the supervisor is gone, or 5 s have passed.
WaitStopped ==
  /\ pc = "wait" /\ pc' = "down" /\ k' = k - 1 /\ late' = (late \/ life[order[k]] = "on")
  /\ UNCHANGED <<g, target, plan, passed, life, told>>

\* Then the disabled services are told.
StopDone ==
  /\ pc = "down" /\ k = 0 /\ pc' = "stopped"
  /\ told' = [i \in Services |-> told[i] \/ (target = All /\ i \in g.disabled)]
  /\ UNCHANGED <<g, target, plan, k, passed, late, life>>

\* bsv_restart_target of a bundle: all of it has to be gone, then up again.
Restart ==
  /\ pc = "stopped" /\ target # All
  /\ IF \E i \in ToSet(order) : life[i] = "on" THEN pc' = "failed" /\ UNCHANGED stopping
     ELSE pc' = "plan" /\ stopping' = FALSE
  /\ UNCHANGED <<g, target, work, state, order, k, passed, late, life, told>>

\* The run scripts are edited while the services run: a requirement that is not
\* there, or a directive that cannot be parsed.
Edit ==
  /\ pc = "started"
  /\ g' \in {[g EXCEPT !.requires[1] = @ \union {N + 1}], [g EXCEPT !.parsed = FALSE]}
  /\ UNCHANGED <<target, pc, plan, k, passed, late, life, told>>

Command == \/ Plan \/ Order \/ Ordered \/ UpClears \/ UpForks \/ BarrierPasses \/ BarrierFails \/ Started
           \/ Down \/ WaitStopped \/ StopDone

\* What the services do on their own, as in SvLife.
Publish(i) == /\ life[i] = "new" /\ life' = [life EXCEPT ![i] = "on"]
              /\ UNCHANGED <<g, target, pc, plan, k, passed, late, told>>
End(i) == /\ life[i] = "on" /\ life' = [life EXCEPT ![i] = "off"]
          /\ UNCHANGED <<g, target, pc, plan, k, passed, late, told>>

Next == Command \/ Stop \/ Again \/ Restart \/ Edit \/ \E i \in Services : Publish(i) \/ End(i)

Spec == /\ Init /\ [][Next]_vars /\ WF_vars(Command)
        /\ \A i \in Services : WF_vars(Publish(i)) /\ WF_vars(told[i] /\ End(i))

-----------------------------------------------------------------------------
(* Properties.                                                             *)

Dependencies(i) == {d \in g.requires[i] \union After(i) : Enabled(d)}

\* S and all that it depends on: the least set that is closed.
Closed(S) == \A i \in S : Dependencies(i) \subseteq S
Reaches(S) == {i \in Services : \A T \in SUBSET Services : S \subseteq T /\ Closed(T) => i \in T}

\* The reference: no service in reach requires a missing or disabled service
\* or depends on itself.
Orderable == /\ g.parsed /\ N + 1 \notin Marked
             /\ \A i \in Reaches(Selected) :
                  (\A d \in g.requires[i] : Enabled(d)) /\ i \notin Reaches(Dependencies(i))

\* The depth-first search finds an order exactly when there is one: every
\* service in reach once, after all it depends on.
OrderCorrect ==
  /\ pc = "refused" => ~Orderable
  /\ pc \in {"clear", "down"} =>
       /\ Orderable /\ ToSet(order) = Reaches(Selected) /\ IsInjective(order)
       /\ \A a, b \in DOMAIN order : order[b] \in Dependencies(order[a]) => b < a

\* A service is started only when everything it depends on has passed its
\* barrier: a dependency that failed holds up all that depend on it.
StartsBehindBarriers ==
  [][\A i \in Services : life[i] = "off" /\ life'[i] = "new" => Dependencies(i) \subseteq passed]_vars

\* In an ordered shutdown a service is told to go only when no service that
\* depends on it is left, unless a wait gave up.
DependentsFirst ==
  [][\A d \in Services :
       pc = "down" /\ target = All /\ ~told[d] /\ told'[d] /\ Enabled(d) /\ ~late
       => \A i \in Services : d \in Dependencies(i) /\ Enabled(i) => life[i] = "off"]_vars

\* After `sv shutdown' no supervisor stays, also when the services can no
\* longer be ordered; only a script that cannot be parsed prevents it.
ShutdownStops == (pc = "stopped" /\ target = All /\ g.parsed)
                   ~> \A i \in Services : life[i] = "off"

\* The commands use every service as SvLife allows.
Life(i) == INSTANCE SvLife WITH life <- life[i], told <- told[i]
UsesSvLife == [][\A i \in Services : Life(i)!Next \/ UNCHANGED <<life[i], told[i]>>]_vars
=============================================================================
