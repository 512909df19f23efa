-------------------------------- MODULE MCSv --------------------------------
(* Sv for TLC: run scripts that between them use every directive.          *)
EXTENDS Sv

Directives(m, limited, oneshot, ready, valid) ==
  [mode |-> m, limited |-> limited, max |-> 1, oneshot |-> oneshot, ready |-> ready,
   valid |-> valid]

AllPolicies ==
  { Directives("always", FALSE, FALSE, "none", TRUE),
    Directives("on-failure", TRUE, FALSE, "probe", TRUE),
    Directives("never", FALSE, FALSE, "notify", TRUE),
    Directives("always", FALSE, TRUE, "none", TRUE),
    Directives("always", FALSE, FALSE, "none", FALSE) }
=============================================================================
