--------------------------- MODULE PtyStartProofs ---------------------------
(***************************************************************************)
(* For any number of creators and services: a service keeps its name while *)
(* it needs it, leaves nothing behind, and serves only a creator that got  *)
(* success.                                                                *)
(***************************************************************************)
EXTENDS PtyStart, TLAPS

\* What ties one attempt's progress to the name, its socket and its processes.
AttemptInv(a) ==
  /\ creator[a] = "idle" => service[a] = "none"
  /\ service[a] \in {"none", "mkdir"} => ~owned[a]
  /\ service[a] \in {"bind"} \cup Bound => owned[a]
  /\ owned[a] /\ service[a] \notin {"tell", "exited", "killed"} => dir = a
  /\ dir = a => owned[a] /\ service[a] \notin {"tell", "exited"}
  /\ service[a] \in Bound => sock[a]
  /\ sock[a] => owned[a] /\ service[a] \notin {"rmdir", "tell", "exited"}
  /\ child[a] => service[a] \in {"send", "waitack", "serving", "reap", "killed"}
  /\ ready[a] => ack[a]
  /\ ack[a] => creator[a] = "ok"

IInv == TypeOK /\ \A a \in Attempts : AttemptInv(a)

USE DEF CreatorStates, ServiceStates, Bound

\* The start begins in the invariant.
LEMMA InitInv == Init => IInv
  BY StartAssumption DEF Init, IInv, TypeOK, AttemptInv

\* A step of one creator.
LEMMA CreatorInv ==
  ASSUME IInv, NEW a \in Attempts, Spawn(a) \/ Creator(a) \/ CreatorDies(a)
  PROVE  IInv'
<1> USE DEF IInv, TypeOK, AttemptInv, CreatorAt, ServiceEnd
<1>1. CASE Spawn(a)
  BY <1>1 DEF Spawn
<1>2. CASE ReceiveReady(a)
  BY <1>2 DEF ReceiveReady
<1>3. CASE StartFails(a)
  BY <1>3 DEF StartFails
<1>4. CASE SendAck(a)
  BY <1>4 DEF SendAck
<1>5. CASE SendAckFails(a)
  BY <1>5 DEF SendAckFails
<1>6. CASE ReturnFailure(a)
  BY <1>6 DEF ReturnFailure
<1>7. CASE CreatorDies(a)
  BY <1>7 DEF CreatorDies
<1> QED
  BY <1>1, <1>2, <1>3, <1>4, <1>5, <1>6, <1>7 DEF Creator

\* A step of one service.
LEMMA ServiceInv ==
  ASSUME IInv, NEW a \in Attempts,
         Service(a) \/ LoopEnds(a) \/ ServiceDies(a) \/ RemoveStale(a)
  PROVE  IInv'
<1> USE StartAssumption DEF IInv, TypeOK, AttemptInv, ServiceAt, CreatorEnd
<1>1. CASE MakeDir(a)
  BY <1>1 DEF MakeDir
<1>2. CASE MkdirFails(a)
  BY <1>2 DEF MkdirFails
<1>3. CASE SetupFails(a)
  BY <1>3 DEF SetupFails
<1>4. CASE Bind(a)
  BY <1>4 DEF Bind
<1>5. CASE SpawnPty(a)
  BY <1>5 DEF SpawnPty
<1>6. CASE SpawnFails(a)
  BY <1>6 DEF SpawnFails
<1>7. CASE SendReady(a)
  BY <1>7 DEF SendReady
<1>8. CASE SendReadyFails(a)
  BY <1>8 DEF SendReadyFails
<1>9. CASE AcceptAck(a)
  BY <1>9 DEF AcceptAck
<1>10. CASE Cancel(a)
  BY <1>10 DEF Cancel
<1>11. CASE LoopEnds(a)
  BY <1>11 DEF LoopEnds
<1>12. CASE ReapAll(a)
  BY <1>12 DEF ReapAll
<1>13. CASE UnlinkSocket(a)
  BY <1>13 DEF UnlinkSocket
<1>14. CASE RemoveDir(a)
  BY <1>14 DEF RemoveDir
<1>15. CASE Tell(a)
  BY <1>15 DEF Tell
<1>16. CASE ServiceDies(a)
  BY <1>16 DEF ServiceDies
<1>17. CASE RemoveStale(a)
  BY <1>17 DEF RemoveStale
<1> QED
  BY <1>1, <1>2, <1>3, <1>4, <1>5, <1>6, <1>7, <1>8, <1>9, <1>10, <1>11, <1>12, <1>13,
     <1>14, <1>15, <1>16, <1>17 DEF Service

\* Every reachable state satisfies the inductive invariant.
THEOREM Invariance == Spec => []IInv
<1>1. ASSUME IInv, [Next]_vars PROVE IInv'
  <2>1. CASE Finished \/ UNCHANGED vars
    BY <1>1, <2>1 DEF Finished, vars, IInv, TypeOK, AttemptInv
  <2> QED
    BY <1>1, <2>1, CreatorInv, ServiceInv DEF Next
<1> QED
  BY InitInv, <1>1, PTL DEF Spec

\* Type correctness of the handshake between pb_start and pb_serve.
THEOREM TypeCorrect == Spec => []TypeOK
<1>1. IInv => TypeOK
  BY DEF IInv
<1> QED
  BY Invariance, <1>1, PTL

\* However many creators race for a name, whoever won mkdir keeps directory and
\* socket until its own cleanup in pb_serve.
THEOREM NameIsHeld == Spec => []NameHeld
<1>1. IInv => NameHeld
  BY DEF IInv, AttemptInv, NameHeld
<1> QED
  BY Invariance, <1>1, PTL

\* Every path through pb_serve to its return leaves no process, socket or
\* directory.
THEOREM CleanExit == Spec => []NothingLeft
<1>1. IInv => NothingLeft
  BY DEF IInv, AttemptInv, NothingLeft
<1> QED
  BY Invariance, <1>1, PTL

\* A service enters its loop only after the creator's pb_start succeeded.
THEOREM AcknowledgedOnly == Spec => []ServedIsAcknowledged
<1>1. IInv => ServedIsAcknowledged
  BY DEF IInv, AttemptInv, ServedIsAcknowledged
<1> QED
  BY Invariance, <1>1, PTL

\* The three together, the property that the run of MCPtyStart checks.
THEOREM SessionIsSafe == Spec => []SessionSafe
<1>1. NameHeld /\ NothingLeft /\ ServedIsAcknowledged => SessionSafe
  BY DEF SessionSafe
<1> QED
  BY NameIsHeld, CleanExit, AcknowledgedOnly, <1>1, PTL

=============================================================================
