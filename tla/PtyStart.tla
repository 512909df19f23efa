------------------------------ MODULE PtyStart ------------------------------
(***************************************************************************)
(* Starting a session: pb_start in the creator (client.c) and the startup  *)
(* and cleanup of pb_serve in the service it spawns (server.c).  Several   *)
(* creators may try the same session name at once; creators and services   *)
(* may time out, be interrupted or be killed between any two steps.        *)
(*                                                                         *)
(* The two are joined by a socket pair.  The service sends one `ready'     *)
(* packet, the creator answers with "G", and only then does the service    *)
(* serve; everything else cancels the session.                             *)
(***************************************************************************)
EXTENDS Naturals

CONSTANTS Attempts,  \* the calls of pb_start for one name; each spawns a service
          NoDir,
          Events     \* bound: which of the optional events happen

EventKinds == {"setup", "spawn", "timeout", "crash", "kill", "signal", "stop", "operator"}
ASSUME StartAssumption == NoDir \notin Attempts /\ Events \subseteq EventKinds

VARIABLES
  creator,   \* per attempt: where pb_start is
  service,   \* per attempt: where pb_serve is
  msg,       \* the first unread packet from the service to the creator
  ack,       \* "G" is on its way to the service
  ready,     \* s.ready: the service has accepted the acknowledgement
  owned,     \* directory_identity is set: mkdir succeeded
  dir,       \* the attempt whose mkdir made ROOT/ID, or NoDir
  sock,      \* control.sock exists in the directory that attempt made
  child      \* a process started by spawn_pty, or a descendant, exists

vars == <<creator, service, msg, ack, ready, owned, dir, sock, child>>

CreatorStates == {"idle", "wait", "got", "closing", "ok", "failed", "dead"}
ServiceStates == {"none", "mkdir", "bind", "spawn", "send", "waitack", "serving",
                  "reap", "unlink", "rmdir", "tell", "exited", "killed"}

\* Each side keeps its end of the pair open exactly in these states; the
\* service closes it when it starts to serve.
CreatorEnd(a) == creator[a] \in {"wait", "got"}
ServiceEnd(a) == service[a] \notin {"none", "exited", "killed"} /\ ~ready[a]

Init ==
  /\ creator = [a \in Attempts |-> "idle"] /\ service = [a \in Attempts |-> "none"]
  /\ msg = [a \in Attempts |-> "none"] /\ ack = [a \in Attempts |-> FALSE]
  /\ ready = [a \in Attempts |-> FALSE] /\ owned = [a \in Attempts |-> FALSE]
  /\ dir = NoDir /\ sock = [a \in Attempts |-> FALSE]
  /\ child = [a \in Attempts |-> FALSE]

-----------------------------------------------------------------------------
(* The creator.                                                            *)

CreatorAt(a, from, to) ==
  /\ creator[a] = from
  /\ creator' = [creator EXCEPT ![a] = to]

\* posix_spawn, and the creator waits for the ready packet.
Spawn(a) ==
  /\ CreatorAt(a, "idle", "wait")
  /\ service' = [service EXCEPT ![a] = "mkdir"]
  /\ UNCHANGED <<msg, ack, ready, owned, dir, sock, child>>

ReceiveReady(a) ==
  /\ CreatorAt(a, "wait", "got") /\ msg[a] = "ready"
  /\ msg' = [msg EXCEPT ![a] = "none"]
  /\ UNCHANGED <<service, ack, ready, owned, dir, sock, child>>

\* The service reports an error, or closes its end without a packet (ECHILD),
\* or 3 s pass: close the socket, then wait for the service.
StartFails(a) ==
  /\ CreatorAt(a, "wait", "closing")
  /\ \/ msg[a] = "failure"
     \/ msg[a] = "none" /\ (~ServiceEnd(a) \/ "timeout" \in Events)
  /\ UNCHANGED <<service, msg, ack, ready, owned, dir, sock, child>>

\* send("G") succeeds as long as the service has its end open: pb_start
\* returns 0.
SendAck(a) ==
  /\ ServiceEnd(a) /\ CreatorAt(a, "got", "ok")
  /\ ack' = [ack EXCEPT ![a] = TRUE]
  /\ UNCHANGED <<service, msg, ready, owned, dir, sock, child>>

SendAckFails(a) ==
  /\ ~ServiceEnd(a) /\ CreatorAt(a, "got", "closing")
  /\ UNCHANGED <<service, msg, ack, ready, owned, dir, sock, child>>

\* The pidfd of the service becomes readable, or 5 s pass.
ReturnFailure(a) ==
  /\ service[a] \in {"exited", "killed"} \/ "timeout" \in Events
  /\ CreatorAt(a, "closing", "failed")
  /\ UNCHANGED <<service, msg, ack, ready, owned, dir, sock, child>>

\* The creating shell is killed inside pb_start.
CreatorDies(a) ==
  /\ "crash" \in Events /\ creator[a] \in {"wait", "got", "closing"}
  /\ creator' = [creator EXCEPT ![a] = "dead"]
  /\ UNCHANGED <<service, msg, ack, ready, owned, dir, sock, child>>

Creator(a) == \/ ReceiveReady(a) \/ StartFails(a) \/ SendAck(a) \/ SendAckFails(a)
              \/ ReturnFailure(a)

-----------------------------------------------------------------------------
(* The service, up to the loop.                                            *)

ServiceAt(a, from, to) ==
  /\ service[a] = from
  /\ service' = [service EXCEPT ![a] = to]

\* mkdir decides who owns the name.
MakeDir(a) ==
  /\ ServiceAt(a, "mkdir", "bind") /\ dir = NoDir
  /\ dir' = a
  /\ owned' = [owned EXCEPT ![a] = TRUE]
  /\ UNCHANGED <<creator, msg, ack, ready, sock, child>>

\* The name or the root is refused, or mkdir fails with EEXIST: straight to
\* the cleanup, with no directory identity.
MkdirFails(a) ==
  /\ dir # NoDir \/ "setup" \in Events
  /\ ServiceAt(a, "mkdir", "reap")
  /\ UNCHANGED <<creator, msg, ack, ready, owned, dir, sock, child>>

\* A call after mkdir fails, up to bind.
SetupFails(a) ==
  /\ "setup" \in Events /\ ServiceAt(a, "bind", "reap")
  /\ UNCHANGED <<creator, msg, ack, ready, owned, dir, sock, child>>

Bind(a) ==
  /\ ServiceAt(a, "bind", "spawn")
  /\ sock' = [sock EXCEPT ![a] = TRUE]
  /\ UNCHANGED <<creator, msg, ack, ready, owned, dir, child>>

SpawnPty(a) ==
  /\ ServiceAt(a, "spawn", "send")
  /\ child' = [child EXCEPT ![a] = TRUE]
  /\ UNCHANGED <<creator, msg, ack, ready, owned, dir, sock>>

\* listen or spawn_pty fails, before the fork or with a child that did not
\* reach execvp.
SpawnFails(a) ==
  /\ "spawn" \in Events /\ ServiceAt(a, "spawn", "reap")
  /\ \E forked \in BOOLEAN : child' = [child EXCEPT ![a] = forked]
  /\ UNCHANGED <<creator, msg, ack, ready, owned, dir, sock>>

SendReady(a) ==
  /\ CreatorEnd(a) /\ ServiceAt(a, "send", "waitack")
  /\ msg' = [msg EXCEPT ![a] = "ready"]
  /\ UNCHANGED <<creator, ack, ready, owned, dir, sock, child>>

\* Mutant: a send that fails is tried again.
SendReadyRetries(a) ==
  /\ ~CreatorEnd(a) /\ ServiceAt(a, "send", "send")
  /\ UNCHANGED <<creator, msg, ack, ready, owned, dir, sock, child>>

SendReadyFails(a) ==
  /\ ~CreatorEnd(a) /\ ServiceAt(a, "send", "reap")
  /\ UNCHANGED <<creator, msg, ack, ready, owned, dir, sock, child>>

\* Mutant: end of file passes for the acknowledgement.
AcceptAckOrEof(a) ==
  /\ ack[a] \/ ~CreatorEnd(a)
  /\ ServiceAt(a, "waitack", "serving")
  /\ ready' = [ready EXCEPT ![a] = TRUE]
  /\ UNCHANGED <<creator, msg, ack, owned, dir, sock, child>>

AcceptAck(a) ==
  /\ ack[a] /\ ServiceAt(a, "waitack", "serving")
  /\ ready' = [ready EXCEPT ![a] = TRUE]
  /\ UNCHANGED <<creator, msg, ack, owned, dir, sock, child>>

\* ECANCELED: end of file, 3 s without an answer, or a signal during the wait.
Cancel(a) ==
  /\ ServiceAt(a, "waitack", "reap")
  /\ ~ack[a] /\ (~CreatorEnd(a) \/ {"timeout", "signal"} \cap Events # {})
  /\ UNCHANGED <<creator, msg, ack, ready, owned, dir, sock, child>>

\* The loop of PtyBroker ends.
LoopEnds(a) ==
  /\ "stop" \in Events /\ ServiceAt(a, "serving", "reap")
  /\ UNCHANGED <<creator, msg, ack, ready, owned, dir, sock, child>>

-----------------------------------------------------------------------------
(* The service's cleanup, on every path.                                   *)

ReapAll(a) ==
  /\ ServiceAt(a, "reap", "unlink")
  /\ child' = [child EXCEPT ![a] = FALSE]
  /\ UNCHANGED <<creator, msg, ack, ready, owned, dir, sock>>

\* The socket is found through dirfd and compared with the one it bound.
UnlinkSocket(a) ==
  /\ ServiceAt(a, "unlink", "rmdir")
  /\ sock' = [sock EXCEPT ![a] = FALSE]
  /\ UNCHANGED <<creator, msg, ack, ready, owned, dir, child>>

\* Mutant: whatever has the name is removed.
RemoveAnyDir(a) ==
  /\ ServiceAt(a, "rmdir", "tell")
  /\ dir' = IF dir # NoDir /\ ~sock[dir] THEN NoDir ELSE dir
  /\ UNCHANGED <<creator, msg, ack, ready, owned, sock, child>>

\* lstat and rmdir: only a directory with the identity mkdir gave, and empty.
RemoveDir(a) ==
  /\ ServiceAt(a, "rmdir", "tell")
  /\ dir' = IF owned[a] /\ dir = a /\ ~sock[a] THEN NoDir ELSE dir
  /\ UNCHANGED <<creator, msg, ack, ready, owned, sock, child>>

\* A service that never became ready reports the failure, then exits.
Tell(a) ==
  /\ ServiceAt(a, "tell", "exited")
  /\ msg' = IF ~ready[a] /\ CreatorEnd(a) /\ msg[a] = "none"
            THEN [msg EXCEPT ![a] = "failure"] ELSE msg
  /\ UNCHANGED <<creator, ack, ready, owned, dir, sock, child>>

Service(a) ==
  \/ MakeDir(a) \/ MkdirFails(a) \/ SetupFails(a) \/ Bind(a) \/ SpawnPty(a) \/ SpawnFails(a)
  \/ SendReady(a) \/ SendReadyFails(a) \/ AcceptAck(a) \/ Cancel(a)
  \/ ReapAll(a) \/ UnlinkSocket(a) \/ RemoveDir(a) \/ Tell(a)

\* SIGKILL to the service: nothing is cleaned up.
ServiceDies(a) ==
  /\ "kill" \in Events /\ service[a] \notin {"none", "exited", "killed"}
  /\ service' = [service EXCEPT ![a] = "killed"]
  /\ UNCHANGED <<creator, msg, ack, ready, owned, dir, sock, child>>

\* The user removes what a killed service left behind.
RemoveStale(a) ==
  /\ "operator" \in Events /\ dir = a /\ service[a] = "killed"
  /\ dir' = NoDir /\ sock' = [sock EXCEPT ![a] = FALSE]
  /\ UNCHANGED <<creator, service, msg, ack, ready, owned, child>>

\* Nothing is left to do: every call has returned and no service is at work.
Finished ==
  /\ \A a \in Attempts : creator[a] \in {"ok", "failed", "dead"}
  /\ \A a \in Attempts : service[a] \in {"serving", "exited", "killed"}
  /\ UNCHANGED vars

Next ==
  \/ \E a \in Attempts : \/ Spawn(a) \/ Creator(a) \/ CreatorDies(a)
                         \/ Service(a) \/ LoopEnds(a) \/ ServiceDies(a) \/ RemoveStale(a)
  \/ Finished

Spec == Init /\ [][Next]_vars

\* Both processes run and their deadlines pass; nobody has to stop a session.
FairSpec == Spec /\ \A a \in Attempts : WF_vars(Creator(a)) /\ WF_vars(Service(a))

-----------------------------------------------------------------------------
TypeOK ==
  /\ creator \in [Attempts -> CreatorStates] /\ service \in [Attempts -> ServiceStates]
  /\ msg \in [Attempts -> {"none", "ready", "failure"}]
  /\ ack \in [Attempts -> BOOLEAN] /\ ready \in [Attempts -> BOOLEAN]
  /\ owned \in [Attempts -> BOOLEAN] /\ sock \in [Attempts -> BOOLEAN]
  /\ child \in [Attempts -> BOOLEAN]
  /\ dir \in Attempts \cup {NoDir}

\* A service has its name from mkdir to its own rmdir: neither a loser of the
\* race for the name nor the cleanup of an earlier session takes the directory
\* or the socket away under it.
Bound == {"spawn", "send", "waitack", "serving"}
NameHeld ==
  \A a \in Attempts :
    /\ owned[a] /\ service[a] \notin {"tell", "exited", "killed"} => dir = a
    /\ service[a] \in Bound => owned[a] /\ sock[a]

\* A service that has exited, by whatever path, left no process, no socket and
\* no directory.
NothingLeft ==
  \A a \in Attempts : service[a] = "exited" => ~child[a] /\ ~sock[a] /\ dir # a

\* No session runs whose creator was told that it failed, and none whose
\* creator never acknowledged it.
ServedIsAcknowledged ==
  \A a \in Attempts : ready[a] => ack[a] /\ creator[a] = "ok"

\* The three together: what a name, its directory and its socket go through in
\* any race of creators and services, failing calls and kills.
SessionSafe == NameHeld /\ NothingLeft /\ ServedIsAcknowledged

\* pb_start returns 0 only for a session that the service takes up (or that was
\* killed from outside).
SuccessMeansStarted ==
  \A a \in Attempts : creator[a] = "ok" =>
    ready[a] \/ service[a] \in {"waitack", "killed"}

\* pb_start returns, and its service ends up serving or gone.
StartSettles ==
  \A a \in Attempts :
    creator[a] = "wait" ~> /\ creator[a] \in {"ok", "failed", "dead"}
                           /\ service[a] \in {"serving", "exited", "killed"}

\* A creator that is killed or gives up before its acknowledgement leaves no
\* session.
LostCreatorCancels ==
  \A a \in Attempts :
    creator[a] \in {"dead", "failed"} ~> service[a] \in {"exited", "killed"}

=============================================================================
