------------------------------ MODULE SvProofs ------------------------------
(***************************************************************************)
(* For any number of pids, faults and any run script: an operator whose    *)
(* commands wait for forked supervisors to become visible (Settling) never *)
(* has two supervisors of one service, loses no `down', and reads no       *)
(* status of another instance; and Sv implements the steps of SvLife.      *)
(***************************************************************************)
EXTENDS Sv, FiniteSetTheorems, TLAPS

Young == {"enter", "publish"}
WithChild == {"pidfile", "check", "probe", "watch", "stopping"}
Busy == WithChild \union {"fork", "reaped", "finish"}
Ending == WithChild \union {"reaped", "finish", "exit", "leave"}

\* There is one supervisor at most, and once it is past its first steps the
\* super-pid file names it.
One == \A p, q \in Supervisors : p = q
Visible == \A p \in Supervisors : sup[p].pc \notin Young => superPid = p
Unseen == \A p \in Supervisors : sup[p].pc \in Young => superPid # p /\ ~down

\* What a command may rely on while it runs; after `down' it goes on.
Calm == op.pc \notin {"idle", "barrier"} \/ op.cmd = "down" => Settled
Clear == op.pc \in UpSteps \ {"check"} => Supervisors = {}
Marked == op.cmd = "down" => op.pc \in {"mark", "unwant", "term", "idle"} /\ (op.pc # "mark" => down)
Unmarked == op.pc \in {"want", "stale", "status", "fork"} => ~down

\* An instance that was forked under the marker is the last one.
Late == /\ late \in {0, 1}
        /\ late = 1 => down /\ \A p \in Supervisors : sup[p].pc \in Ending

\* Where a supervisor has a child, and that no final status is there while it
\* is at work.
Child == \A p \in Pids : sup[p].child # NoPid => sup[p].pc \in WithChild
Working == \A p \in Pids : sup[p].pc \in Busy => status \notin Terminal

\* Who wrote the status that the start barrier reads.
Published == op.pc = "fork" => status = "starting" /\ writer = NoPid
Polled == op.pc = "barrier" /\ op.mine # NoPid =>
            /\ Supervisors \subseteq {op.mine}
            /\ writer = op.mine \/ (writer = NoPid /\ status = "starting")

Inv == /\ One /\ Visible /\ Unseen /\ Calm /\ Clear /\ RestartWaits /\ Marked /\ Unmarked
       /\ Late /\ Child /\ Working /\ Published /\ Polled /\ BarrierFresh
IInv == TypeOK /\ Inv

-----------------------------------------------------------------------------
(* Types.                                                                  *)

\* A fresh pid is free.
LEMMA FreshPidFree == Free # {} => FreshPid \in Free /\ FreshPid \in Pids
  BY DEF Free, FreshPid

USE DEF OpSteps, UpSteps, SupSteps, Statuses, Terminal

Results == {"none", "already", "up", "failed", "passed", "refused", "timeout", "down"}

\* A command that goes on has its type.
LEMMA OpMoves ==
  ASSUME op \in OpType, NEW to \in OpSteps
  PROVE  [op EXCEPT !.pc = to] \in OpType
  BY DEF OpType

\* So has one that returns.
LEMMA OpReturns ==
  ASSUME op \in OpType, NEW to \in OpSteps, NEW r \in Results, NEW m \in Pids \union {NoPid}
  PROVE  [op EXCEPT !.pc = to, !.result = r, !.mine = m] \in OpType
  BY DEF OpType, Results

\* A supervisor that has forked has its type.
LEMMA SupForks ==
  ASSUME NEW s \in SupType, NEW c \in Pids \union {NoPid}
  PROVE  [s EXCEPT !.pc = "pidfile", !.child = c] \in SupType
  BY DEF SupType

\* So has one that has reaped.
LEMMA SupReaps ==
  ASSUME NEW s \in SupType, NEW a \in {"ok", "fail"}
  PROVE  [s EXCEPT !.pc = "reaped", !.child = NoPid, !.st = a, !.notify = "shut"] \in SupType
  BY DEF SupType

\* So has one whose service has started.
LEMMA SupStarts ==
  ASSUME NEW s \in SupType, NEW a \in {"probe", "watch"}, NEW n \in {"open", "shut"}
  PROVE  [s EXCEPT !.pc = a, !.notify = n] \in SupType
  BY DEF SupType

\* The supervisor starts with all types.
LEMMA TypeInit == Init => TypeOK
<1> SUFFICES ASSUME Init PROVE TypeOK
  OBVIOUS
<1>1. op \in OpType
  BY DEF Init, Idle, OpType
<1>2. sup \in [Pids -> SupType]
  <2>1. NoSup \in SupType
    BY DEF NoSup, SupType
  <2> QED
    BY <2>1 DEF Init
<1>3. svc \in [Pids -> {"none", "running", "ok", "fail"}]
  BY DEF Init
<1>4. {superPid, pidFile, writer} \subseteq Pids \union {NoPid} /\ policy \in Policies
  BY DEF Init
<1>5. down \in BOOLEAN
  BY DEF Init
<1>6. want \in {"none", "up", "down"} /\ status \in Statuses
  BY DEF Init
<1>7. late \in Nat /\ faults \in 0..MaxFaults
  BY SvAssumption DEF Init
<1> QED
  BY <1>1, <1>2, <1>3, <1>4, <1>5, <1>6, <1>7 DEF TypeOK

\* The steps of a command keep the types.
LEMMA TypeCommand ==
  ASSUME TypeOK, CommandStep \/ SignalService \/ \E c \in Commands : Begin(c)
  PROVE  TypeOK'
<1> USE SvAssumption DEF TypeOK, OpType, OpAt, OpUp
<1>1. ASSUME NEW c \in Commands, Begin(c) PROVE TypeOK'
  BY <1>1 DEF Begin, Idle, files
<1>2. CASE UpCheck
  <2>1. op' \in OpType
    <3> HIDE DEF OpType, TypeOK
    <3>1. op \in OpType
      BY DEF TypeOK
    <3>2. CASE SuperRunning
      <4> DEFINE to == IF op.cmd = "start" THEN "barrier" ELSE "idle"
      <4>1. op' = [op EXCEPT !.pc = to, !.result = "already", !.mine = NoPid]
        BY <1>2, <3>2 DEF UpCheck
      <4>2. to \in OpSteps /\ "already" \in Results
        BY DEF Results
      <4> HIDE DEF to
      <4> QED
        BY <3>1, <4>1, <4>2, OpReturns
    <3>3. CASE ~(SuperRunning)
      BY <1>2, <3>1, <3>3, OpMoves DEF UpCheck
    <3> QED
      BY <3>2, <3>3
  <2> QED
    BY <1>2, <2>1 DEF UpCheck, files
<1>3. CASE UpOneshot
  <2>1. op' \in OpType
    <3> HIDE DEF OpType, TypeOK
    <3>1. op \in OpType
      BY DEF TypeOK
    <3>2. CASE status = "oneshot-ok" /\ want # "down"
      <4> DEFINE to == IF op.cmd = "start" THEN "barrier" ELSE "idle"
      <4>1. op' = [op EXCEPT !.pc = to, !.result = "already", !.mine = NoPid]
        BY <1>3, <3>2 DEF UpOneshot
      <4>2. to \in OpSteps /\ "already" \in Results
        BY DEF Results
      <4> HIDE DEF to
      <4> QED
        BY <3>1, <4>1, <4>2, OpReturns
    <3>3. CASE ~(status = "oneshot-ok" /\ want # "down")
      BY <1>3, <3>1, <3>3, OpMoves DEF UpOneshot
    <3> QED
      BY <3>2, <3>3
  <2> QED
    BY <1>3, <2>1 DEF UpOneshot, files
<1>4. CASE UpUndown
  BY <1>4 DEF UpUndown
<1>5. CASE UpWant
  BY <1>5 DEF UpWant
<1>6. CASE UpStale
  BY <1>6 DEF UpStale
<1>7. CASE UpStatus
  BY <1>7 DEF UpStatus
<1>8. CASE UpFork
  BY <1>8, FreshPidFree DEF UpFork, NoSup, SupType, files
<1>9. CASE UpForkFails
  <2>1. op' \in OpType
    BY <1>9 DEF UpForkFails
  <2> QED
    BY <1>9, <2>1 DEF UpForkFails, files, Fault
<1>10. CASE Barrier
  <2>1. op' \in OpType
    BY <1>10 DEF Barrier
  <2> QED
    BY <1>10, <2>1 DEF Barrier, files
<1>11. CASE DownMark
  BY <1>11 DEF DownMark
<1>12. CASE DownWant
  BY <1>12 DEF DownWant
<1>13. CASE DownTerm
  BY <1>13 DEF DownTerm, Signalled, Running, files
<1>14. CASE RestartWait
  <2>1. op' \in OpType
    BY <1>14 DEF RestartWait
  <2> QED
    BY <1>14, <2>1 DEF RestartWait, files
<1>15. CASE SignalService
  BY <1>15 DEF SignalService, Signalled, Running, files
<1> QED
  BY <1>1, <1>2, <1>3, <1>4, <1>5, <1>6, <1>7, <1>8, <1>9, <1>10, <1>11, <1>12, <1>13, <1>14, <1>15
  DEF CommandStep

\* The steps of a supervisor and its service keep the types.
LEMMA TypeSupervisor ==
  ASSUME TypeOK, NEW p \in Pids, SupStep(p) \/ ServiceExits(p) \/ SupTermed(p) \/ SupKilled(p)
  PROVE  TypeOK'
<1> USE SvAssumption DEF TypeOK, SupType, SupAt, SetStatus, files
<1>1. CASE Enter(p)
  <2>1. sup' \in [Pids -> SupType]
    BY <1>1 DEF Enter
  <2> QED
    BY <1>1, <2>1 DEF Enter
<1>2. CASE Publish(p)
  BY <1>2 DEF Publish
<1>3. CASE LoopStops(p)
  BY <1>3 DEF LoopStops
<1>4. CASE Launch(p)
  BY <1>4 DEF Launch
<1>5. CASE LaunchFails(p)
  BY <1>5 DEF LaunchFails, Fault
<1>6. CASE Fork(p)
  <2>1. sup' \in [Pids -> SupType]
    <3> HIDE DEF SupType
    <3>1. sup \in [Pids -> SupType] /\ sup[p] \in SupType /\ FreshPid \in Pids
      BY <1>6, FreshPidFree DEF Fork
    <3>2. [sup[p] EXCEPT !.pc = "pidfile", !.child = FreshPid] \in SupType
      BY <3>1, SupForks
    <3> QED
      BY <1>6, <3>1, <3>2, FreshPidFree DEF Fork
  <2> QED
    BY <1>6, <2>1, FreshPidFree DEF Fork
<1>7. CASE WritePid(p)
  BY <1>7 DEF WritePid
<1>8. CASE Reap(p)
  <2>1. sup' \in [Pids -> SupType]
    <3> HIDE DEF SupType
    <3>1. sup \in [Pids -> SupType] /\ sup[p] \in SupType /\ svc[sup[p].child] \in {"ok", "fail"}
      BY <1>8 DEF Reap
    <3>2. [sup[p] EXCEPT !.pc = "reaped", !.child = NoPid, !.st = svc[sup[p].child], !.notify = "shut"] \in SupType
      BY <3>1, SupReaps
    <3> QED
      BY <1>8, <3>1, <3>2 DEF Reap
  <2> QED
    BY <1>8, <2>1 DEF Reap
<1>9. CASE Started(p)
  <2>1. sup' \in [Pids -> SupType]
    <3> HIDE DEF SupType
    <3>1. sup \in [Pids -> SupType] /\ sup[p] \in SupType
      OBVIOUS
    <3>2. PICK a \in {"probe", "watch"}, n \in {"open", "shut"} :
            sup' = [sup EXCEPT ![p].pc = a, ![p].notify = n]
      BY <1>9 DEF Started
    <3>3. [sup[p] EXCEPT !.pc = a, !.notify = n] \in SupType
      BY <3>1, SupStarts
    <3> QED
      BY <3>1, <3>2, <3>3
  <2> QED
    BY <1>9, <2>1 DEF Started
<1>10. CASE Probe(p)
  BY <1>10 DEF Probe
<1>11. CASE Notify(p)
  BY <1>11 DEF Notify
<1>12. CASE StopChild(p)
  BY <1>12 DEF StopChild, Signalled, Running
<1>13. CASE KillChild(p)
  BY <1>13 DEF KillChild, Signalled, Running
<1>14. CASE Reaped(p)
  BY <1>14 DEF Reaped
<1>15. CASE Finish(p)
  BY <1>15 DEF Finish, Counted
<1>16. CASE LogFailed(p)
  BY <1>16 DEF LogFailed, Fault
<1>17. CASE Wake(p)
  BY <1>17 DEF Wake
<1>18. CASE Exit(p)
  BY <1>18 DEF Exit
<1>19. CASE Leave(p)
  BY <1>19 DEF Leave, NoSup
<1>20. CASE ServiceExits(p)
  BY <1>20 DEF ServiceExits, Running
<1>21. CASE SupTermed(p)
  <2>1. sup' \in [Pids -> SupType]
    <3>1. sup \in [Pids -> SupType]
      BY <1>21 DEF SupTermed
    <3>2. [sup[p] EXCEPT !.stop = TRUE] \in SupType
      BY <3>1
    <3> HIDE DEF SupType
    <3> QED
      BY <1>21, <3>1, <3>2 DEF SupTermed
  <2> QED
    BY <1>21, <2>1 DEF SupTermed, Fault
<1>22. CASE SupKilled(p)
  BY <1>22 DEF SupKilled, Fault, NoSup
<1> QED
  BY <1>1, <1>2, <1>3, <1>4, <1>5, <1>6, <1>7, <1>8, <1>9, <1>10, <1>11, <1>12, <1>13, <1>14,
     <1>15, <1>16, <1>17, <1>18, <1>19, <1>20, <1>21, <1>22 DEF SupStep

-----------------------------------------------------------------------------
(* The invariant.                                                          *)

\* The supervisor starts in the invariant.
LEMMA InvInit == Init => Inv
  BY DEF Init, Inv, One, Visible, Unseen, Calm, Clear, RestartWaits, Marked, Unmarked, Late, Child,
         Working, Published, Polled, BarrierFresh, Supervisors, Settled, NoSup, Idle

\* What the fields of op are after a step.
LEMMA Begins ==
  ASSUME NEW c, Begin(c)
  PROVE  /\ op'.pc = (IF c \in {"down", "restart"} THEN "mark" ELSE "check") /\ op'.cmd = c
         /\ op'.mine = NoPid
  BY DEF Begin, Idle

\* What a command keeps when it goes on.
LEMMA Moves ==
  ASSUME op \in OpType, NEW from, NEW to, OpAt(from, to)
  PROVE  /\ op.pc = from /\ op'.pc = to /\ op'.cmd = op.cmd
         /\ op'.mine = op.mine /\ op'.result = op.result /\ op'.seen = op.seen
  BY DEF OpAt, OpType

\* What it keeps when it returns from `up'.
LEMMA Returns ==
  ASSUME op \in OpType, NEW from, NEW result, NEW pid, OpUp(from, result, pid)
  PROVE  /\ op.pc = from /\ op'.pc \in {"idle", "barrier"} /\ op'.cmd = op.cmd
         /\ op'.mine = pid /\ op'.result = result
  BY DEF OpUp, OpType

\* What the barrier decides, and from what it has seen.
LEMMA Decides ==
  ASSUME op \in OpType, Barrier
  PROVE  /\ op.pc = "barrier" /\ op'.pc = "idle" /\ op'.cmd = op.cmd /\ op'.mine = op.mine
         /\ \/ (BarrierPasses \/ BarrierFails) /\ op'.seen = writer
            \/ op'.result = "timeout"
  BY DEF Barrier, OpType

\* The steps of a command keep the invariant.
LEMMA InvCommand ==
  ASSUME Settling, IInv, TypeOK',
         CommandStep \/ SignalService \/ \E c \in Commands : Begin(c)
  PROVE  Inv'
<1> USE SvAssumption DEF IInv, TypeOK, OpType, OpAt, OpUp, files, Inv, One, Visible, Unseen, Calm, Clear,
        RestartWaits, Marked, Unmarked, Late, Child, Working, Published, Polled, BarrierFresh,
        Supervisors, Settled
<1>1. ASSUME NEW c \in Commands, Begin(c) PROVE Inv'
  <2>1. /\ op'.pc = (IF c \in {"down", "restart"} THEN "mark" ELSE "check") /\ op'.cmd = c
        /\ op'.mine = NoPid
    BY <1>1, Begins
  <2>2. UNCHANGED <<down, want, superPid, status, writer, sup, late>> /\ Settled
    BY <1>1 DEF Begin
  <2> QED
    BY <2>1, <2>2
<1>2. CASE UpCheck
  <2>1. UNCHANGED <<policy, down, want, superPid, status, writer, sup, late>>
    BY <1>2 DEF UpCheck
  <2>2. CASE SuperRunning
    <3>1. /\ op.pc = "check" /\ op'.pc \in {"idle", "barrier"} /\ op'.cmd = op.cmd
          /\ op'.mine = NoPid
      <4> HIDE DEF OpUp, OpType, Inv
      <4>1. op \in OpType /\ OpUp("check", "already", NoPid)
        BY <1>2, <2>2 DEF UpCheck
      <4> QED
        BY <4>1, Returns
    <3> QED
      BY <2>1, <3>1
  <2>3. CASE ~(SuperRunning)
    <3>1. /\ op.pc = "check" /\ op'.pc \in {"oneshot", "undown"} /\ op'.cmd = op.cmd
          /\ op'.mine = op.mine /\ op'.result = op.result /\ op'.seen = op.seen
      BY <1>2, <2>3 DEF UpCheck
    <3>2. Supervisors = {}
      BY <2>3, <3>1 DEF SuperRunning, Alive, Young
    <3> QED
      BY <2>1, <3>1, <3>2
  <2> QED
    BY <2>2, <2>3
<1>3. CASE UpOneshot
  <2>1. UNCHANGED <<policy, down, want, superPid, status, writer, sup, late>>
    BY <1>3 DEF UpOneshot
  <2>2. CASE status = "oneshot-ok" /\ want # "down"
    <3>1. /\ op.pc = "oneshot" /\ op'.pc \in {"idle", "barrier"} /\ op'.cmd = op.cmd
          /\ op'.mine = NoPid
      <4> HIDE DEF OpUp, OpType, Inv
      <4>1. op \in OpType /\ OpUp("oneshot", "already", NoPid)
        BY <1>3, <2>2 DEF UpOneshot
      <4> QED
        BY <4>1, Returns
    <3> QED
      BY <2>1, <3>1
  <2>3. CASE ~(status = "oneshot-ok" /\ want # "down")
    <3>1. /\ op.pc = "oneshot" /\ op'.pc = "undown" /\ op'.cmd = op.cmd
          /\ op'.mine = op.mine /\ op'.result = op.result /\ op'.seen = op.seen
      BY <1>3, <2>3 DEF UpOneshot
    <3> QED
      BY <2>1, <3>1
  <2> QED
    BY <2>2, <2>3
<1>4. CASE UpUndown
  <2>1. /\ op.pc = "undown" /\ op'.pc = "want" /\ op'.cmd = op.cmd
        /\ op'.mine = op.mine /\ op'.result = op.result /\ op'.seen = op.seen
    BY <1>4 DEF UpUndown
  <2>2. op.cmd # "down"
    BY <2>1
  <2> QED
    BY <1>4, <2>1, <2>2 DEF UpUndown
<1>5. CASE UpWant
  BY <1>5 DEF UpWant
<1>6. CASE UpStale
  BY <1>6 DEF UpStale
<1>7. CASE UpStatus
  BY <1>7 DEF UpStatus
<1>8. CASE UpFork
  <2>1. FreshPid \in Pids /\ FreshPid # superPid
    BY <1>8, FreshPidFree DEF UpFork, Free
  <2>2. /\ op.pc = "fork" /\ op'.pc \in {"idle", "barrier"} /\ op'.cmd = op.cmd
        /\ op'.mine = FreshPid /\ op'.result = "up"
    BY <1>8 DEF UpFork
  <2>3. /\ \A q \in Pids : sup[q].pc = "none"
        /\ \A q \in Pids : sup'[q] = IF q = FreshPid THEN [NoSup EXCEPT !.pc = "enter"] ELSE sup[q]
    BY <1>8, <2>2 DEF UpFork
  <2>4. sup'[FreshPid].pc = "enter" /\ sup'[FreshPid].child = NoPid
    BY <2>1, <2>3 DEF NoSup
  <2>5. Supervisors' = {FreshPid}
    BY <2>1, <2>3, <2>4
  <2> QED
    BY <1>8, <2>1, <2>2, <2>3, <2>4, <2>5 DEF UpFork, Young, WithChild, Busy
<1>9. CASE UpForkFails
  BY <1>9 DEF UpForkFails
<1>10. CASE Barrier
  <2>1. /\ UNCHANGED <<policy, down, want, superPid, status, writer, sup, late>>
        /\ op.pc = "barrier" /\ op'.pc = "idle" /\ op'.cmd = op.cmd /\ op'.mine = op.mine
        /\ \/ (BarrierPasses \/ BarrierFails) /\ op'.seen = writer
           \/ op'.result = "timeout"
    <3>1. op \in OpType
      OBVIOUS
    <3> HIDE DEF OpType, Inv
    <3> QED
      BY <1>10, <3>1, Decides DEF Barrier
  <2>2. BarrierFresh'
    BY <2>1 DEF BarrierPasses, BarrierFails
  <2> QED
    BY <2>1, <2>2
<1>11. CASE DownMark
  <2>1. /\ op.pc = "mark" /\ op'.pc = "unwant" /\ op'.cmd = op.cmd
        /\ op'.mine = op.mine /\ op'.result = op.result /\ op'.seen = op.seen
    BY <1>11, Moves DEF DownMark
  <2>2. Unseen'
    BY <1>11, <2>1 DEF DownMark, Young
  <2> QED
    BY <1>11, <2>1, <2>2 DEF DownMark
<1>12. CASE DownWant
  BY <1>12 DEF DownWant
<1>13. CASE DownTerm
  BY <1>13 DEF DownTerm
<1>14. CASE RestartWait
  <2>1. /\ UNCHANGED <<policy, down, want, superPid, status, writer, sup, late>>
        /\ op.pc = "wait" /\ op'.cmd = op.cmd /\ op'.mine = op.mine /\ op'.seen = op.seen
        /\ \/ op'.pc = "idle" /\ op'.result = "timeout"
           \/ ~SuperRunning /\ op'.pc = "check" /\ op'.result = op.result
    <3> HIDE DEF Inv
    <3>1. CASE SuperRunning
      BY <1>14, <3>1 DEF RestartWait
    <3>2. CASE ~SuperRunning
      BY <1>14, <3>2, Moves DEF RestartWait
    <3> QED
      BY <3>1, <3>2
  <2>2. ~SuperRunning => Supervisors = {}
    BY <2>1 DEF SuperRunning, Alive, Young
  <2> QED
    BY <2>1, <2>2
<1>15. CASE SignalService
  BY <1>15 DEF SignalService
<1> QED
  BY <1>1, <1>2, <1>3, <1>4, <1>5, <1>6, <1>7, <1>8, <1>9, <1>10, <1>11, <1>12, <1>13, <1>14, <1>15
  DEF CommandStep

\* The steps of a supervisor and its service keep the invariant.
LEMMA InvSupervisor ==
  ASSUME Settling, IInv, TypeOK', NEW p \in Pids,
         SupStep(p) \/ ServiceExits(p) \/ SupTermed(p) \/ SupKilled(p)
  PROVE  Inv'
<1> USE SvAssumption DEF IInv, TypeOK, SupType, SupAt, SetStatus, files, Inv, One, Visible, Unseen, Calm, Clear,
        RestartWaits, Marked, Unmarked, Late, Child, Working, Published, Polled, BarrierFresh,
        Supervisors, Settled, Young, WithChild, Busy, Ending
<1>1. CASE Enter(p)
  BY <1>1 DEF Enter
<1>2. CASE Publish(p)
  BY <1>2 DEF Publish
<1>3. CASE LoopStops(p)
  BY <1>3 DEF LoopStops
<1>4. CASE Launch(p)
  BY <1>4 DEF Launch
<1>5. CASE LaunchFails(p)
  BY <1>5 DEF LaunchFails
<1>6. CASE Fork(p)
  BY <1>6 DEF Fork
<1>7. CASE WritePid(p)
  BY <1>7 DEF WritePid
<1>8. CASE Reap(p)
  <2>1. /\ UNCHANGED <<policy, down, want, superPid, status, writer, op, late>>
        /\ sup[p].pc \in {"check", "watch", "stopping"}
        /\ sup'[p].pc = "reaped" /\ sup'[p].child = NoPid
        /\ \A q \in Pids \ {p} : sup'[q] = sup[q]
    BY <1>8 DEF Reap
  <2> QED
    BY <2>1
<1>9. CASE Started(p)
  BY <1>9 DEF Started
<1>10. CASE Probe(p)
  BY <1>10 DEF Probe
<1>11. CASE Notify(p)
  BY <1>11 DEF Notify
<1>12. CASE StopChild(p)
  BY <1>12 DEF StopChild
<1>13. CASE KillChild(p)
  BY <1>13 DEF KillChild
<1>14. CASE Reaped(p)
  BY <1>14 DEF Reaped
<1>15. CASE Finish(p)
  BY <1>15 DEF Finish
<1>16. CASE LogFailed(p)
  BY <1>16 DEF LogFailed
<1>17. CASE Wake(p)
  BY <1>17 DEF Wake
<1>18. CASE Exit(p)
  BY <1>18 DEF Exit
<1>19. CASE Leave(p)
  <2>1. /\ UNCHANGED <<policy, down, want, status, writer, op, late>>
        /\ sup[p].pc # "none" /\ sup'[p].pc = "none" /\ sup'[p].child = NoPid
        /\ \A q \in Pids \ {p} : sup'[q] = sup[q]
    BY <1>19 DEF Leave, NoSup
  <2>2. Supervisors' = {}
    BY <2>1
  <2> QED
    BY <2>1, <2>2
<1>20. CASE ServiceExits(p)
  BY <1>20 DEF ServiceExits
<1>21. CASE SupTermed(p)
  BY <1>21 DEF SupTermed
<1>22. CASE SupKilled(p)
  <2>1. /\ UNCHANGED <<policy, down, want, superPid, status, writer, op, late>>
        /\ sup[p].pc # "none" /\ sup'[p].pc = "none" /\ sup'[p].child = NoPid
        /\ \A q \in Pids \ {p} : sup'[q] = sup[q]
    BY <1>22 DEF SupKilled, NoSup
  <2>2. Supervisors' = {}
    BY <2>1
  <2> QED
    BY <2>1, <2>2
<1> QED
  BY <1>1, <1>2, <1>3, <1>4, <1>5, <1>6, <1>7, <1>8, <1>9, <1>10, <1>11, <1>12, <1>13, <1>14, <1>15, <1>16, <1>17, <1>18, <1>19, <1>20, <1>21, <1>22
  DEF SupStep

-----------------------------------------------------------------------------
(* Theorems.                                                               *)

\* Every step keeps the invariant.
LEMMA NextInv == ASSUME Settling, IInv, [Next]_vars PROVE IInv'
<1>1. CASE UNCHANGED vars
  BY <1>1 DEF vars, files, IInv, TypeOK, Inv, One, Visible, Unseen, Calm, Clear, RestartWaits, Marked,
              Unmarked, Late, Child, Working, Published, Polled, BarrierFresh, Supervisors, Settled
<1>2. CASE CommandStep \/ SignalService \/ \E c \in Commands : Begin(c)
  BY <1>2, TypeCommand, InvCommand DEF IInv
<1>3. ASSUME NEW p \in Pids, SupStep(p) \/ ServiceExits(p) \/ SupTermed(p) \/ SupKilled(p)
      PROVE  IInv'
  BY <1>3, TypeSupervisor, InvSupervisor DEF IInv
<1> QED
  BY <1>1, <1>2, <1>3 DEF Next

\* The invariant that the results below rest on.
THEOREM Invariance == ASSUME Settling PROVE Spec => []IInv
<1>1. Init => IInv
  BY TypeInit, InvInit DEF IInv
<1>2. IInv /\ [Next]_vars => IInv'
  BY NextInv
<1> QED
  BY <1>1, <1>2, PTL DEF Spec

\* The files and processes of sv keep their types, with or without Settling.
THEOREM TypeCorrect == Spec => []TypeOK
<1>1. TypeOK /\ [Next]_vars => TypeOK'
  <2>1. ASSUME TypeOK, UNCHANGED vars PROVE TypeOK'
    BY <2>1 DEF vars, files, TypeOK
  <2> QED
    BY <2>1, TypeCommand, TypeSupervisor DEF Next
<1> QED
  BY TypeInit, <1>1, PTL DEF Spec

\* bsv_up never forks a supervisor next to another one, however many pids there
\* are and however often supervisors are killed.
THEOREM OneSupervisorHolds == ASSUME Settling PROVE Spec => []OneSupervisor
<1>1. IInv => OneSupervisor
  <2> SUFFICES ASSUME IInv PROVE Cardinality(Supervisors) <= 1
    BY DEF OneSupervisor
  <2>1. CASE Supervisors = {}
    BY <2>1, FS_EmptySet
  <2>2. ASSUME NEW p \in Supervisors PROVE Cardinality(Supervisors) = 1
    <3>1. Supervisors = {p}
      BY <2>2 DEF IInv, Inv, One
    <3> QED
      BY <3>1, FS_Singleton
  <2> QED
    BY <2>1, <2>2
<1> QED
  BY Invariance, <1>1, PTL

\* The `up' half of bsv_restart_target runs only when the previous supervisor
\* and its finish hook are gone.
THEOREM RestartWaitsHolds == ASSUME Settling PROVE Spec => []RestartWaits
<1>1. IInv => RestartWaits
  BY DEF IInv, Inv
<1> QED
  BY Invariance, <1>1, PTL

\* Every supervisor that is there when bsv_down has returned still sees the
\* marker.
THEOREM DownIsNotLost == ASSUME Settling PROVE Spec => []DownNotLost
<1>1. IInv => DownNotLost
  BY DEF IInv, Inv, DownNotLost, Marked, Calm, Settled, Visible, Young, Supervisors
<1> QED
  BY Invariance, <1>1, PTL

\* A start barrier is decided by the supervisor that its own command forked,
\* and a final status is published only when the instance is gone.
THEOREM StatusIsHonest == ASSUME Settling PROVE Spec => []StatusHonest
<1>1. IInv => StatusHonest
  <2> SUFFICES ASSUME IInv PROVE StatusHonest
    OBVIOUS
  <2>1. BarrierFresh
    BY DEF IInv, Inv
  <2>2. FinalStatusTrue
    BY SvAssumption DEF IInv, Inv, Child, Working, FinalStatusTrue, Supervised, Supervisors,
                        Running, WithChild, Busy
  <2> QED
    BY <2>1, <2>2 DEF StatusHonest
<1> QED
  BY Invariance, <1>1, PTL

\* A down marker costs at most one more instance, whatever the restart policy
\* and the backoff.
THEOREM LateStartsHolds == ASSUME Settling PROVE Spec => []LateStarts
<1>1. IInv => LateStarts
  BY DEF IInv, Inv, Late, LateStarts
<1> QED
  BY Invariance, <1>1, PTL

-----------------------------------------------------------------------------
(* Sv implements SvLife.                                                   *)

\* The life of the service, read off the supervisors.
LEMMA LifeIs ==
  ASSUME IInv
  PROVE  Life = IF Supervisors = {} THEN "off"
                ELSE IF superPid \in Supervisors THEN "on" ELSE "new"
<1>1. CASE Supervisors = {}
  <2>1. ~(Cardinality(Supervisors) > 1) /\ superPid \notin Supervisors
    BY <1>1, FS_EmptySet
  <2> QED
    BY <1>1, <2>1 DEF Life
<1>2. ASSUME NEW p \in Supervisors
      PROVE  Life = IF superPid \in Supervisors THEN "on" ELSE "new"
  <2>1. Supervisors = {p}
    BY <1>2 DEF IInv, Inv, One
  <2>2. Cardinality(Supervisors) = 1
    BY <2>1, FS_Singleton
  <2>3. Supervisors # {} /\ ~(Cardinality(Supervisors) > 1)
    BY <2>1, <2>2
  <2> QED
    BY <2>3 DEF Life
<1> QED
  BY <1>1, <1>2

\* A step that leaves the supervisors, super-pid and the marker alone.
LEMMA Stutters ==
  ASSUME Supervisors' = Supervisors, UNCHANGED <<superPid, down>>
  PROVE  UNCHANGED <<Life, down>>
  BY DEF Life

\* The steps of a command are steps of the abstract service, or none.
LEMMA CommandLife ==
  ASSUME Settling, IInv, IInv',
         CommandStep \/ SignalService \/ \E c \in Commands : Begin(c)
  PROVE  Abstract!Next \/ UNCHANGED <<Life, down>>
<1>1. CASE UpUndown
  <2>1. Supervisors = {} /\ Supervisors' = {} /\ down' = FALSE
    BY <1>1 DEF UpUndown, OpAt, IInv, Inv, Clear, Supervisors
  <2>2. Abstract!Clear
    BY <2>1, LifeIs DEF Abstract!Clear, Life
  <2> QED
    BY <2>2 DEF Abstract!Next
<1>2. CASE UpStale
  <2>1. Supervisors = {} /\ Supervisors' = {} /\ down' = down
    BY <1>2 DEF UpStale, OpAt, IInv, Inv, Clear, Supervisors
  <2> QED
    BY <2>1 DEF Life
<1>3. CASE UpFork
  <2>1. FreshPid \in Pids /\ FreshPid # superPid
    BY <1>3, FreshPidFree DEF UpFork, Free
  <2>2. Supervisors = {} /\ ~down
    BY <1>3 DEF UpFork, OpUp, IInv, Inv, Clear, Unmarked
  <2>3. FreshPid \in Supervisors'
    BY <1>3, <2>1 DEF UpFork, Supervisors, NoSup, IInv, TypeOK
  <2>4. Supervisors' = {FreshPid} /\ superPid' = superPid /\ down' = down
    BY <1>3, <2>3 DEF UpFork, files, IInv, Inv, One
  <2>5. Life = "off" /\ Life' = "new"
    BY <2>1, <2>2, <2>4, LifeIs, FS_Singleton DEF Life
  <2> QED
    BY <2>2, <2>4, <2>5 DEF Abstract!Next, Abstract!Start
<1>4. CASE DownMark
  <2>1. UNCHANGED <<sup, superPid>> /\ down' = TRUE /\ Settled
    BY <1>4 DEF DownMark, OpAt, IInv, Inv, Calm
  <2>2. \A p \in Supervisors : superPid = p
    BY <2>1 DEF Settled, IInv, Inv, Visible, Supervisors, Young
  <2>3. Life # "new" /\ Life' = Life
    BY <2>1, <2>2, LifeIs DEF Life, Supervisors
  <2> QED
    BY <2>1, <2>3 DEF Abstract!Next, Abstract!Tell
<1>5. CASE ~UpUndown /\ ~UpStale /\ ~UpFork /\ ~DownMark
  <2>1. UNCHANGED <<sup, superPid, down>>
    BY <1>5 DEF CommandStep, SignalService, Begin, UpCheck, UpOneshot, UpWant, UpStatus,
                UpForkFails, Barrier, DownWant, DownTerm, RestartWait, files
  <2> QED
    BY <2>1, Stutters DEF Supervisors
<1> QED
  BY <1>1, <1>2, <1>3, <1>4, <1>5

\* So are those of a supervisor and its service.
LEMMA SupervisorLife ==
  ASSUME Settling, IInv, IInv', NEW p \in Pids,
         SupStep(p) \/ ServiceExits(p) \/ SupTermed(p) \/ SupKilled(p)
  PROVE  Abstract!Next \/ UNCHANGED <<Life, down>>
<1> USE DEF SupAt, SetStatus, files, SupType
<1>1. sup \in [Pids -> SupType]
  BY DEF IInv, TypeOK
<1>2. CASE Enter(p)
  <2>1. p \in Supervisors /\ ~down
    BY <1>1, <1>2 DEF Enter, IInv, Inv, Unseen, Supervisors, Young
  <2>2. Supervisors' = Supervisors /\ superPid' = superPid /\ down' = FALSE
    BY <1>1, <1>2 DEF Enter, Supervisors
  <2>3. down \in BOOLEAN
    BY DEF IInv, TypeOK
  <2> QED
    BY <2>1, <2>2, <2>3, Stutters
<1>3. CASE Publish(p)
  <2>1. p \in Supervisors /\ superPid # p
    BY <1>1, <1>3 DEF Publish, IInv, Inv, Unseen, Supervisors, Young
  <2>2. Supervisors' = Supervisors /\ superPid' = p /\ down' = down
    BY <1>1, <1>3 DEF Publish, Supervisors
  <2>3. superPid \notin Supervisors
    BY <2>1 DEF IInv, Inv, One
  <2>4. Life = "new" /\ Life' = "on"
    <3>1. Life = "new"
      BY <2>1, <2>3, LifeIs
    <3>2. Supervisors' = {p}
      BY <2>1, <2>2 DEF IInv, Inv, One
    <3>3. Supervisors' # {} /\ ~(Cardinality(Supervisors') > 1) /\ superPid' \in Supervisors'
      BY <2>2, <3>2, FS_Singleton
    <3>4. Life' = "on"
      BY <3>3 DEF Life
    <3> QED
      BY <3>1, <3>4
  <2> QED
    BY <2>2, <2>4 DEF Abstract!Next, Abstract!Publish
<1>4. CASE Leave(p) \/ SupKilled(p)
  <2>1. p \in Supervisors /\ sup'[p].pc = "none" /\ down' = down
        /\ \A q \in Pids \ {p} : sup'[q] = sup[q]
    BY <1>1, <1>4 DEF Leave, SupKilled, NoSup, Supervisors
  <2>2. Supervisors' = {}
    BY <2>1 DEF Supervisors, IInv, Inv, One
  <2>3. Life # "off"
    BY <2>1, LifeIs
  <2>4. ~(Cardinality(Supervisors') > 1) /\ superPid' \notin Supervisors'
    BY <2>2, FS_EmptySet
  <2>5. Life' = "off"
    BY <2>2, <2>4 DEF Life
  <2> QED
    BY <2>1, <2>3, <2>5 DEF Abstract!Next, Abstract!End
<1>5. CASE ~Enter(p) /\ ~Publish(p) /\ ~Leave(p) /\ ~SupKilled(p)
  <2>1. UNCHANGED <<superPid, down>>
    BY <1>5 DEF SupStep, LoopStops, Launch, LaunchFails, Fork, WritePid, Reap, Started, Probe,
                Notify, StopChild, KillChild, Reaped, Finish, LogFailed, Wake, Exit,
                ServiceExits, SupTermed
  <2>2. Supervisors' = Supervisors
    BY <1>1, <1>5 DEF Supervisors, SupStep, LoopStops, Launch, LaunchFails, Fork, WritePid, Reap,
                Started, Probe, Notify, StopChild, KillChild, Reaped, Finish, LogFailed, Wake,
                Exit, ServiceExits, SupTermed
  <2> QED
    BY <2>1, <2>2, Stutters
<1> QED
  BY <1>2, <1>3, <1>4, <1>5

\* Every step of the files, the commands and the supervisors is a step of
\* SvLife or leaves it alone: the safety half of Implements.
THEOREM RefinesSvLife == ASSUME Settling PROVE Spec => Abstract!Safety
<1>1. Init => Abstract!Init
  <2> SUFFICES ASSUME Init PROVE Life = "off" /\ down = FALSE
    BY DEF Abstract!Init
  <2>1. Supervisors = {}
    BY DEF Init, Supervisors, NoSup
  <2>2. ~(Cardinality(Supervisors) > 1) /\ superPid \notin Supervisors
    BY <2>1, FS_EmptySet
  <2> QED
    BY <2>1, <2>2 DEF Life, Init
<1>2. IInv /\ IInv' /\ [Next]_vars => [Abstract!Next]_<<Life, down>>
  <2> SUFFICES ASSUME IInv, IInv', [Next]_vars
               PROVE  Abstract!Next \/ UNCHANGED <<Life, down>>
    OBVIOUS
  <2>1. CASE UNCHANGED vars
    BY <2>1, Stutters DEF vars, files, Supervisors
  <2> QED
    BY <2>1, CommandLife, SupervisorLife DEF Next
<1> QED
  BY Invariance, <1>1, <1>2, PTL DEF Spec, Abstract!Safety, Abstract!vars

=============================================================================
