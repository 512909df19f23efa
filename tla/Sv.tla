--------------------------------- MODULE Sv ---------------------------------
(***************************************************************************)
(* One service of `sv' (sv.c).  There is no control socket: the commands   *)
(* of an operator, the supervisors that `up' forks and the instances of    *)
(* the service meet in the files of RUNDIR/NAME and in signals.  A step of *)
(* the model is one operation on a file, one fork, wait or signal.         *)
(*                                                                         *)
(* The operator runs one command at a time and does not wait for what a    *)
(* command has set in motion; with Settling, a command begins only when    *)
(* every forked supervisor has written its super-pid.                      *)
(***************************************************************************)
EXTENDS Naturals, FiniteSets

CONSTANTS
  Pids, NoPid,
  Policies,   \* the directives a run script may have, see PolicyType
  Commands,   \* bound: the commands the operator uses
  Settling,
  MaxFaults   \* bound: failed launches, failed logs, signals to a supervisor

PolicyType == [mode : {"always", "on-failure", "never"}, limited : BOOLEAN, max : Nat,
               oneshot : BOOLEAN, ready : {"none", "probe", "notify"}, valid : BOOLEAN]

ASSUME SvAssumption ==
  /\ NoPid \notin Pids /\ Policies \subseteq PolicyType /\ Settling \in BOOLEAN
  /\ Commands \subseteq {"up", "start", "down", "restart", "signal"} /\ MaxFaults \in Nat

VARIABLES
  policy,     \* the directives of the run script
  down, want, superPid, pidFile, status,   \* the state files
  writer,     \* history: the supervisor that wrote status, NoPid for a command
  op,         \* the command under way
  sup,        \* per pid: the supervisor process
  svc,        \* per pid: the instance of the service
  late,       \* history: instances forked since the down marker was made
  faults

files == <<down, want, superPid, pidFile, status, writer>>
vars == <<policy, files, op, sup, svc, late, faults>>

UpSteps == {"check", "oneshot", "undown", "want", "stale", "status", "fork"}
OpSteps == UpSteps \union {"idle", "barrier", "mark", "unwant", "term", "wait"}
SupSteps == {"none", "enter", "publish", "loop", "fork", "pidfile", "check", "probe", "watch",
             "stopping", "reaped", "finish", "sleep", "exit", "leave"}
Terminal == {"down", "oneshot-ok", "oneshot-failed", "restart-limit", "policy-error",
             "log-failed"}
Statuses == Terminal \union {"none", "starting", "failed", "running", "ready", "reloading",
                             "stopping", "readiness-failed", "exited"}

NoSup == [pc |-> "none", child |-> NoPid, stop |-> FALSE, count |-> 0, notify |-> "shut",
          st |-> "ok"]
Idle == [pc |-> "idle", cmd |-> "none", result |-> "none", mine |-> NoPid, seen |-> NoPid]

Supervisors == {p \in Pids : sup[p].pc # "none"}
Running == {p \in Pids : svc[p] = "running"}
Alive(p) == p \in Supervisors \/ svc[p] # "none"

\* The pid of the next fork.  A pid is not used again while a file, the
\* command or the history still names it.
Free == {p \in Pids : ~Alive(p)} \ {superPid, pidFile, writer, op.mine}
FreshPid == CHOOSE p \in Free : TRUE

\* bsv_super_running: kill(pid, 0) on the pid in the super-pid file.
SuperRunning == superPid # NoPid /\ Alive(superPid)

Init ==
  /\ policy \in Policies
  /\ down = FALSE /\ want = "none" /\ superPid = NoPid /\ pidFile = NoPid
  /\ status = "none" /\ writer = NoPid /\ op = Idle
  /\ sup = [p \in Pids |-> NoSup] /\ svc = [p \in Pids |-> "none"]
  /\ late = 0 /\ faults = 0

Fault == faults < MaxFaults /\ faults' = faults + 1

-----------------------------------------------------------------------------
(* The commands.                                                           *)

Settled == \A p \in Pids : sup[p].pc \notin {"enter", "publish"}

Begin(c) ==
  /\ op.pc = "idle" /\ c \in Commands \ {"signal"} /\ (Settling => Settled)
  /\ op' = [Idle EXCEPT !.pc = IF c \in {"down", "restart"} THEN "mark" ELSE "check",
                        !.cmd = c]
  /\ UNCHANGED <<policy, files, sup, svc, late, faults>>

OpAt(from, to) == op.pc = from /\ op' = [op EXCEPT !.pc = to]

\* bsv_up returns; bsv_up_target of a bundle and `sv boot' go on to the start
\* barrier (the command "start").
OpUp(from, result, pid) ==
  /\ op.pc = from
  /\ op' = [op EXCEPT !.pc = IF op.cmd = "start" THEN "barrier" ELSE "idle",
                      !.result = result, !.mine = pid]

UpCheck ==
  /\ IF SuperRunning THEN OpUp("check", "already", NoPid)
     ELSE OpAt("check", IF policy.oneshot THEN "oneshot" ELSE "undown")
  /\ UNCHANGED <<policy, files, sup, svc, late, faults>>

\* A oneshot that has completed is up, unless the last command was `down'.
UpOneshot ==
  /\ IF status = "oneshot-ok" /\ want # "down" THEN OpUp("oneshot", "already", NoPid)
     ELSE OpAt("oneshot", "undown")
  /\ UNCHANGED <<policy, files, sup, svc, late, faults>>

UpUndown ==
  /\ OpAt("undown", "want") /\ down' = FALSE /\ late' = 0
  /\ UNCHANGED <<policy, want, superPid, pidFile, status, writer, sup, svc, faults>>

UpWant ==
  /\ OpAt("want", "stale") /\ want' = "up"
  /\ UNCHANGED <<policy, down, superPid, pidFile, status, writer, sup, svc, late, faults>>

\* bsv_stale_pid_cleanup: the files of a supervisor that was killed, unless
\* its instance is still there.
UpStale ==
  /\ OpAt("stale", "status")
  /\ IF pidFile # NoPid /\ ~Alive(pidFile)
     THEN pidFile' = NoPid /\ superPid' = NoPid /\ status' = "none" /\ writer' = NoPid
     ELSE UNCHANGED <<pidFile, superPid, status, writer>>
  /\ UNCHANGED <<policy, down, want, sup, svc, late, faults>>

\* Mutant of UpStatus: the new attempt is not published before the barrier.
UpStatusUnpublished ==
  /\ OpAt("status", "fork") /\ UNCHANGED <<policy, files, sup, svc, late, faults>>

UpStatus ==
  /\ OpAt("status", "fork") /\ status' = "starting" /\ writer' = NoPid
  /\ UNCHANGED <<policy, down, want, superPid, pidFile, sup, svc, late, faults>>

UpFork ==
  /\ Free # {} /\ OpUp("fork", "up", FreshPid)
  /\ sup' = [sup EXCEPT ![FreshPid] = [NoSup EXCEPT !.pc = "enter"]]
  /\ UNCHANGED <<policy, files, svc, late, faults>>

UpForkFails ==
  /\ Fault /\ op.pc = "fork" /\ op' = [op EXCEPT !.pc = "idle", !.result = "failed"]
  /\ UNCHANGED <<policy, files, sup, svc, late>>

\* bsv_wait_start_barrier with bsv_wait_oneshot_ok: what the status file makes
\* of the wait.  A service without readiness passes at once.
BarrierPasses == IF policy.oneshot THEN status = "oneshot-ok"
                 ELSE policy.ready = "none" \/ status = "ready"
BarrierFails == IF policy.oneshot THEN status = "oneshot-failed"
                ELSE policy.ready # "none" /\ status \in {"readiness-failed", "exited", "down"}

Barrier ==
  /\ op.pc = "barrier"
  /\ \/ /\ BarrierPasses \/ BarrierFails
        /\ op' = [op EXCEPT !.pc = "idle", !.seen = writer,
                            !.result = IF BarrierPasses THEN "passed" ELSE "refused"]
     \/ ~BarrierPasses /\ ~BarrierFails /\ op' = [op EXCEPT !.pc = "idle", !.result = "timeout"]
  /\ UNCHANGED <<policy, files, sup, svc, late, faults>>

DownMark ==
  /\ OpAt("mark", "unwant") /\ down' = TRUE
  /\ UNCHANGED <<policy, want, superPid, pidFile, status, writer, sup, svc, late, faults>>

DownWant ==
  /\ OpAt("unwant", "term") /\ want' = "down"
  /\ UNCHANGED <<policy, down, superPid, pidFile, status, writer, sup, svc, late, faults>>

\* SIGTERM reaches an instance: it exits on it now, later or never.
Signalled(p, reactions) ==
  IF p \in Running THEN \E r \in reactions : svc' = [svc EXCEPT ![p] = r]
                   ELSE UNCHANGED svc

\* `down' signals the instance, never the supervisor.
DownTerm ==
  /\ op.pc = "term"
  /\ op' = IF op.cmd = "restart" THEN [op EXCEPT !.pc = "wait"]
           ELSE [op EXCEPT !.pc = "idle", !.result = "down"]
  /\ Signalled(pidFile, {"running", "ok", "fail"})
  /\ UNCHANGED <<policy, files, sup, late, faults>>

\* Mutant of RestartWait: `restart' sleeps a fixed second and goes on.
RestartSleeps ==
  /\ OpAt("wait", "check") /\ UNCHANGED <<policy, files, sup, svc, late, faults>>

\* bsv_restart_target: bsv_wait_stopped, then up, or "stop timed out".
RestartWait ==
  /\ IF SuperRunning
     THEN op.pc = "wait" /\ op' = [op EXCEPT !.pc = "idle", !.result = "timeout"]
     ELSE OpAt("wait", "check")
  /\ UNCHANGED <<policy, files, sup, svc, late, faults>>

\* bsv_signal_service with a signal that ends the instance.
SignalService ==
  /\ op.pc = "idle" /\ "signal" \in Commands /\ pidFile \in Running
  /\ Signalled(pidFile, {"fail"})
  /\ UNCHANGED <<policy, files, op, sup, late, faults>>

CommandStep == \/ UpCheck \/ UpOneshot \/ UpUndown \/ UpWant \/ UpStale \/ UpStatus \/ UpFork
               \/ UpForkFails \/ Barrier \/ DownMark \/ DownWant \/ DownTerm \/ RestartWait

-----------------------------------------------------------------------------
(* bsv_supervise.                                                          *)

SupAt(p, from, to) == sup[p].pc = from /\ sup' = [sup EXCEPT ![p].pc = to]
SetStatus(p, s) == status' = s /\ writer' = p

\* The supervisor removes a down marker before it can be seen.
Enter(p) ==
  /\ SupAt(p, "enter", "publish") /\ down' = FALSE /\ late' = 0
  /\ UNCHANGED <<policy, want, superPid, pidFile, status, writer, op, svc, faults>>

\* Mutant of Publish: no super-pid file.
PublishNothing(p) ==
  /\ SupAt(p, "publish", "loop") /\ UNCHANGED <<policy, files, op, svc, late, faults>>

Publish(p) ==
  /\ SupAt(p, "publish", "loop") /\ superPid' = p
  /\ UNCHANGED <<policy, down, want, pidFile, status, writer, op, svc, late, faults>>

\* The head of the loop: stop, a bad directive, or a new attempt.
LoopStops(p) ==
  /\ sup[p].stop /\ SupAt(p, "loop", "exit")
  /\ UNCHANGED <<policy, files, op, svc, late, faults>>

\* Mutant of Launch: the marker is removed for every attempt.
LaunchUnmarks(p) ==
  /\ ~sup[p].stop /\ SupAt(p, "loop", "fork") /\ SetStatus(p, "starting") /\ down' = FALSE
  /\ UNCHANGED <<policy, want, superPid, pidFile, op, svc, late, faults>>

Launch(p) ==
  /\ ~sup[p].stop
  /\ IF policy.valid THEN SupAt(p, "loop", "fork") /\ SetStatus(p, "starting")
     ELSE SupAt(p, "loop", "exit") /\ SetStatus(p, "policy-error")
  /\ UNCHANGED <<policy, down, want, superPid, pidFile, op, svc, late, faults>>

\* The readiness directive cannot be read, the notify socket cannot be bound,
\* or the log cannot be opened or fork fails: back off and try again without a
\* look at the down marker.
LaunchFails(p) ==
  /\ Fault
  /\ \/ /\ ~sup[p].stop /\ policy.valid /\ SupAt(p, "loop", "sleep")
        /\ \E s \in {"exited", "readiness-failed"} : SetStatus(p, s)
     \/ SupAt(p, "fork", "sleep") /\ SetStatus(p, "failed")
  /\ UNCHANGED <<policy, down, want, superPid, pidFile, op, svc, late>>

Fork(p) ==
  /\ sup[p].pc = "fork" /\ Free # {}
  /\ sup' = [sup EXCEPT ![p].pc = "pidfile", ![p].child = FreshPid]
  /\ svc' = [svc EXCEPT ![FreshPid] = "running"]
  /\ late' = IF down THEN late + 1 ELSE late
  /\ UNCHANGED <<policy, files, op, faults>>

WritePid(p) ==
  /\ SupAt(p, "pidfile", "check") /\ pidFile' = sup[p].child
  /\ UNCHANGED <<policy, down, want, superPid, status, writer, op, svc, late, faults>>

\* waitpid sees that the instance has exited, in the loop, just after the fork
\* or in bsv_stop_child.
Reap(p) ==
  LET c == sup[p].child IN
  /\ sup[p].pc \in {"check", "watch", "stopping"} /\ svc[c] \in {"ok", "fail"}
  /\ sup' = [sup EXCEPT ![p].pc = "reaped", ![p].child = NoPid, ![p].st = svc[c],
                        ![p].notify = "shut"]
  /\ svc' = [svc EXCEPT ![c] = "none"]
  /\ UNCHANGED <<policy, files, op, late, faults>>

Started(p) ==
  /\ sup[p].pc = "check" /\ svc[sup[p].child] = "running"
  /\ sup' = [sup EXCEPT ![p].pc = IF ~policy.oneshot /\ policy.ready = "probe"
                                  THEN "probe" ELSE "watch",
                        ![p].notify = IF ~policy.oneshot /\ policy.ready = "notify"
                                      THEN "open" ELSE "shut"]
  /\ SetStatus(p, "running")
  /\ UNCHANGED <<policy, down, want, superPid, pidFile, op, svc, late, faults>>

\* bsv_run_readiness_probe: the probe exits or is killed at its deadline, and
\* neither stop, down nor the instance is looked at before.
Probe(p) ==
  /\ SupAt(p, "probe", "watch")
  /\ \E s \in {"ready", "readiness-failed"} : SetStatus(p, s)
  /\ UNCHANGED <<policy, down, want, superPid, pidFile, op, svc, late, faults>>

\* bsv_notify_drain: READY=1, RELOADING=1 and STOPPING=1; a service that has
\* not sent READY=1 by the deadline has failed for good.
Notify(p) ==
  /\ sup[p].pc = "watch" /\ ~sup[p].stop
  /\ \/ /\ sup[p].notify # "shut"
        /\ \E s \in {"ready", "reloading", "stopping"} :
             /\ SetStatus(p, s)
             /\ sup' = [sup EXCEPT ![p].notify = IF s = "ready" THEN s ELSE @]
     \/ /\ sup[p].notify = "open" /\ SetStatus(p, "readiness-failed")
        /\ sup' = [sup EXCEPT ![p].notify = "shut"]
  /\ UNCHANGED <<policy, down, want, superPid, pidFile, op, svc, late, faults>>

\* Mutant of StopChild: the marker is not looked at while the instance runs.
StopChildBlind(p) ==
  /\ sup[p].stop /\ SupAt(p, "watch", "stopping")
  /\ UNCHANGED <<policy, files, op, svc, late, faults>>

\* bsv_stop_child: TERM, then KILL once two seconds have passed.
StopChild(p) ==
  /\ sup[p].stop \/ (down /\ sup[p].child \in Running)
  /\ SupAt(p, "watch", "stopping")
  /\ Signalled(sup[p].child, {"running", "ok", "fail"})
  /\ UNCHANGED <<policy, files, op, late, faults>>

KillChild(p) ==
  /\ sup[p].pc = "stopping" /\ sup[p].child \in Running
  /\ Signalled(sup[p].child, {"fail"})
  /\ UNCHANGED <<policy, files, op, sup, late, faults>>

Reaped(p) ==
  /\ SupAt(p, "reaped", "finish") /\ pidFile' = NoPid /\ SetStatus(p, "exited")
  /\ UNCHANGED <<policy, down, want, superPid, op, svc, late, faults>>

\* bsv_restart_prepare: whether this exit asks for another instance, and the
\* restarts counted in the window (expired: a new window begins).
ShouldRestart(p) == \/ policy.mode = "always"
                    \/ policy.mode = "on-failure" /\ sup[p].st = "fail"
Counted(p, expired) == IF expired THEN 0 ELSE sup[p].count

\* Mutant of Finish: the down marker is not looked at after an exit.
FinishBlind(p) ==
  /\ \/ ~sup[p].stop /\ ShouldRestart(p) /\ SupAt(p, "finish", "sleep") /\ UNCHANGED files
     \/ /\ ~ShouldRestart(p) \/ sup[p].stop
        /\ SupAt(p, "finish", "exit") /\ SetStatus(p, "down")
        /\ UNCHANGED <<down, want, superPid, pidFile>>
  /\ UNCHANGED <<policy, op, svc, late, faults>>

\* The finish hook has run: decide what follows.
Finish(p) ==
  \/ /\ policy.oneshot /\ SupAt(p, "finish", "exit")
     /\ SetStatus(p, IF sup[p].st = "ok" THEN "oneshot-ok" ELSE "oneshot-failed")
     /\ UNCHANGED <<policy, down, want, superPid, pidFile, op, svc, late, faults>>
  \/ /\ ~policy.oneshot /\ (down \/ sup[p].stop)
     /\ SupAt(p, "finish", "exit") /\ SetStatus(p, "down")
     /\ UNCHANGED <<policy, down, want, superPid, pidFile, op, svc, late, faults>>
  \/ /\ ~policy.oneshot /\ ~down /\ ~sup[p].stop /\ ~ShouldRestart(p)
     /\ SupAt(p, "finish", "exit")
     /\ UNCHANGED <<policy, files, op, svc, late, faults>>
  \/ /\ ~policy.oneshot /\ ~down /\ ~sup[p].stop /\ ShouldRestart(p)
     /\ \E expired \in BOOLEAN :
          IF policy.limited /\ Counted(p, expired) >= policy.max
          THEN SupAt(p, "finish", "exit") /\ SetStatus(p, "restart-limit")
          ELSE /\ sup[p].pc = "finish"
               /\ sup' = [sup EXCEPT ![p].pc = "sleep",
                    ![p].count = IF policy.limited THEN Counted(p, expired) + 1 ELSE @]
               /\ UNCHANGED <<status, writer>>
     /\ UNCHANGED <<policy, down, want, superPid, pidFile, op, svc, late, faults>>

\* A write to the log has failed while the instance ran.
LogFailed(p) ==
  /\ Fault /\ SupAt(p, "finish", "exit") /\ SetStatus(p, "log-failed")
  /\ UNCHANGED <<policy, down, want, superPid, pidFile, op, svc, late>>

\* The backoff is over, or a signal ends it.
Wake(p) == SupAt(p, "sleep", "loop") /\ UNCHANGED <<policy, files, op, svc, late, faults>>

\* Both pid files go, whoever wrote them.
Exit(p) ==
  /\ SupAt(p, "exit", "leave") /\ pidFile' = NoPid
  /\ UNCHANGED <<policy, down, want, superPid, status, writer, op, svc, late, faults>>

Leave(p) ==
  /\ sup[p].pc = "leave" /\ sup' = [sup EXCEPT ![p] = NoSup] /\ superPid' = NoPid
  /\ UNCHANGED <<policy, down, want, pidFile, status, writer, op, svc, late, faults>>

SupStep(p) == \/ Enter(p) \/ Publish(p) \/ LoopStops(p) \/ Launch(p) \/ LaunchFails(p)
              \/ Fork(p) \/ WritePid(p) \/ Reap(p) \/ Started(p) \/ Probe(p) \/ Notify(p)
              \/ StopChild(p) \/ KillChild(p) \/ Reaped(p) \/ Finish(p) \/ LogFailed(p)
              \/ Wake(p) \/ Exit(p) \/ Leave(p)

-----------------------------------------------------------------------------
(* What happens to the processes.                                          *)

Supervised(q) == \E p \in Supervisors : sup[p].child = q

\* An instance exits by itself; without a supervisor nobody keeps its status.
ServiceExits(q) ==
  /\ q \in Running
  /\ \E st \in IF Supervised(q) THEN {"ok", "fail"} ELSE {"none"} : svc' = [svc EXCEPT ![q] = st]
  /\ UNCHANGED <<policy, files, op, sup, late, faults>>

\* bsv_on_term.
SupTermed(p) ==
  /\ Fault /\ p \in Supervisors /\ sup' = [sup EXCEPT ![p].stop = TRUE]
  /\ UNCHANGED <<policy, files, op, svc, late>>

\* SIGKILL: the files stay, and so does the instance.
SupKilled(p) ==
  /\ Fault /\ p \in Supervisors /\ sup' = [sup EXCEPT ![p] = NoSup]
  /\ svc' = IF sup[p].child = NoPid \/ svc[sup[p].child] = "running" THEN svc
            ELSE [svc EXCEPT ![sup[p].child] = "none"]
  /\ UNCHANGED <<policy, files, op, late>>

Next ==
  \/ \E c \in Commands : Begin(c)
  \/ CommandStep \/ SignalService
  \/ \E p \in Pids : SupStep(p) \/ ServiceExits(p) \/ SupTermed(p) \/ SupKilled(p)

Spec == Init /\ [][Next]_vars

\* Every step but the messages of the service, the faults and the operator's
\* decisions is taken: commands and supervisors run, finish hooks and probes
\* end, sleeps are over.
SupProgress(p) == \/ Enter(p) \/ Publish(p) \/ LoopStops(p) \/ Launch(p) \/ Fork(p)
                  \/ WritePid(p) \/ Reap(p) \/ Started(p) \/ Probe(p) \/ StopChild(p)
                  \/ KillChild(p) \/ Reaped(p) \/ Finish(p) \/ Wake(p) \/ Exit(p) \/ Leave(p)

FairSpec == Spec /\ WF_vars(CommandStep) /\ \A p \in Pids : WF_vars(SupProgress(p))

-----------------------------------------------------------------------------
(* Properties.                                                             *)

SupType == [pc : SupSteps, child : Pids \union {NoPid}, stop : BOOLEAN, count : Nat,
            notify : {"shut", "open", "ready"}, st : {"ok", "fail"}]
OpType == [pc : OpSteps, cmd : {"none", "up", "start", "down", "restart"},
           result : {"none", "already", "up", "failed", "passed", "refused", "timeout", "down"},
           mine : Pids \union {NoPid}, seen : Pids \union {NoPid}]

\* The files hold what some step writes to them and a supervisor with a child
\* has one that is not reaped.
TypeOK ==
  /\ policy \in Policies /\ down \in BOOLEAN /\ want \in {"none", "up", "down"}
  /\ {superPid, pidFile, writer} \subseteq Pids \union {NoPid} /\ status \in Statuses
  /\ op \in OpType /\ sup \in [Pids -> SupType]
  /\ svc \in [Pids -> {"none", "running", "ok", "fail"}]
  /\ late \in Nat /\ faults \in 0..MaxFaults

\* bsv_super_running keeps a second supervisor of the service from being
\* started, also after the first was killed and left its files.
OneSupervisor == Cardinality(Supervisors) <= 1

\* Restart waits for the previous supervisor and its finish hook: when the
\* `up' half of a restart runs, no supervisor of the service is left.
RestartWaits == op.cmd = "restart" /\ op.pc \in UpSteps => Supervisors = {}

\* A `down' that has returned is not lost: every supervisor there is can still
\* see the marker, and bsv_wait_stopped can see the supervisor.
DownNotLost ==
  op.cmd = "down" /\ op.pc = "idle" => \A p \in Supervisors : down /\ superPid = p

\* The start barrier of a command that forked a supervisor is decided by what
\* that supervisor wrote, never by the status a previous instance left.
BarrierFresh ==
  /\ op.mine # NoPid /\ op.result \in {"passed", "refused"}
  /\ policy.oneshot \/ policy.ready # "none"
  => op.seen = op.mine

\* A final status is only published when no instance is under supervision.
FinalStatusTrue == status \in Terminal => \A q \in Running : ~Supervised(q)

\* What the status file tells a barrier and a reader is never about another
\* instance than they think.
StatusHonest == BarrierFresh /\ FinalStatusTrue

\* A down marker made while the supervisor backs off costs at most one more
\* instance.
LateStarts == late <= 1

\* The life of the service as SvLife describes it.
Life == CASE Supervisors = {} -> "off"
          [] Cardinality(Supervisors) > 1 -> "twice"
          [] superPid \in Supervisors -> "on"
          [] OTHER -> "new"
Abstract == INSTANCE SvLife WITH life <- Life, told <- down

\* The files, the commands and the supervisors implement SvLife: a supervisor
\* is forked only where there is none, becomes visible before it can be told
\* to go, is told for good and then ends.
Implements == Abstract!Spec

\* After `down', and unless another command follows, the supervisor goes.
DownStops == (op.cmd = "down" /\ op.pc = "idle")
               ~> (Supervisors = {} \/ op.cmd # "down" \/ op.pc # "idle")
=============================================================================
