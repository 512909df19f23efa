------------------------------- MODULE SvLife -------------------------------
(***************************************************************************)
(* What one service promises to the commands that start and stop several   *)
(* of them: it has no supervisor ("off"), one that has been forked and is  *)
(* not yet visible in super-pid ("new"), or one that is ("on"); and it has *)
(* been told to go down or not.  Sv implements this, and SvBoot relies on  *)
(* it for every service.                                                   *)
(***************************************************************************)
VARIABLES life, told
vars == <<life, told>>

Init == life = "off" /\ told = FALSE

\* bsv_up removes the marker, then forks.
Clear == life = "off" /\ told' = FALSE /\ UNCHANGED life
Start == life = "off" /\ ~told /\ life' = "new" /\ UNCHANGED told

\* The supervisor writes its super-pid.
Publish == life = "new" /\ life' = "on" /\ UNCHANGED told

\* bsv_down, once the supervisor is visible.
Tell == life # "new" /\ told' = TRUE /\ UNCHANGED life

\* The supervisor ends: told to, by its restart policy or by a fault.
End == life # "off" /\ life' = "off" /\ UNCHANGED told

Next == Clear \/ Start \/ Publish \/ Tell \/ End

\* What a step may do, and what has to happen: a supervisor becomes visible or
\* ends, and one that has been told ends.
Safety == Init /\ [][Next]_vars
Spec == Safety /\ WF_vars(Publish \/ (life = "new" /\ End)) /\ WF_vars(told /\ life = "on" /\ End)
=============================================================================
