-------------------------- MODULE ForkServerProofs --------------------------
(* Proofs about ForkServer, for any number of runs and of loop iterations.  *)
EXTENDS ForkServer, TLAPS

\* afl-fuzz is not between its request and the answer: nothing is in the pipes.
Quiet == {"hello_disarm", "idle", "unwind", "req", "forget", "disarm", "report", "done", "halt",
          "fatal"}

\* What the two pipes hold, by the labels of the two processes that share them;
\* a dead fork server leaves them as they were.
PipeOK ==
    /\ ppc = "hello" =>
          /\ ctl = <<>>
          /\ \/ fpc \in {"hello", "dead"} /\ st = <<>>
             \/ fpc \in {"read", "dead"} /\ st = <<"hello">>
    /\ ppc \in Quiet => fpc \in {"read", "dead"} /\ st = <<>> /\ (fpc = "read" => ctl = <<>>)
    /\ ppc = "getpid" =>
          \/ fpc \in {"read", "dead"} /\ ctl = <<prev_timed_out>> /\ st = <<>>
          \/ fpc \in {"reap", "spawn", "putpid", "dead"} /\ ctl = <<>> /\ st = <<>>
          \/ fpc \in {"wait", "putstatus", "dead"} /\ ctl = <<>> /\ st = <<pid>>
          \/ fpc \in {"read", "dead"} /\ ctl = <<>> /\ st = <<pid, fstatus>>
    /\ ppc \in {"arm", "wait"} =>
          /\ ctl = <<>>
          /\ \/ fpc \in {"wait", "putstatus", "dead"} /\ st = <<>>
             \/ fpc \in {"read", "dead"} /\ st = <<fstatus>>
    /\ ctl \in {<<>>, <<TRUE>>, <<FALSE>>}

\* Only Ctrl-C, the timeout of the hello and the exit of afl-fuzz end the fork
\* server, and the first and the last answer no further call.
DeathOK ==
    /\ stop_soon => fpc = "dead"
    /\ ppc = "unwind" => stop_soon
    /\ fpc = "dead" /\ ~stop_soon =>
          \/ Gone
          \/ ppc \in {"hello", "hello_disarm", "idle"} /\ run = 0
          \/ ppc = "req" /\ run = 1

\* Which process the timer can hit: the armed timer finds the pid of this run,
\* or none.
TimerOK ==
    /\ timer /\ ~stop_soon =>
          Gone \/ ppc \in {"hello", "hello_disarm", "wait", "forget", "disarm"}
    /\ timer => ppc \notin {"report", "done"}
    /\ ppc \in {"hello", "hello_disarm"} =>
          run = 0 /\ pid = 0 /\ child_pid = -1 /\ cstate = "gone"
    /\ ppc \in {"arm", "wait", "forget"} => child_pid = pid
    /\ ppc = "disarm" => child_pid \in {0, pid}
    /\ ppc \in {"arm", "wait", "forget", "disarm"} \/ (ppc = "getpid" /\ st # <<>>) => pid > 0

\* The fork server has not forked or resumed the target for the call under way.
NotForked == ppc = "req" \/ fpc \in {"reap", "spawn"} \/ (fpc = "read" /\ ctl # <<>>)

\* The process the fork server believes in is the one there is.
ChildOK ==
    /\ pid <= run /\ outcome.run <= run
    /\ NotForked => pid < run /\ outcome.run < run
    /\ cstate # "gone" => pid > 0
    /\ cstate \in {"body", "stopped"} => cycle_cnt > 0
    /\ cstate \in Active =>
          /\ crun <= run /\ outcome.run < run
          /\ fpc \in {"putpid", "wait", "dead"}
          /\ \/ ppc \in {"getpid", "arm", "wait"} /\ crun = run
             \/ stop_soon /\ ppc \in {"unwind", "halt"}
             \/ stop_soon /\ ppc = "req" /\ crun < run
          /\ stop_soon => stop_pid # pid
    /\ fpc = "hello" => cstate = "gone" /\ ~child_stopped
    /\ fpc \in {"read", "reap", "putstatus"} =>
          IF child_stopped THEN cstate \in {"stopped", "zombie"} ELSE cstate = "gone"
    /\ fpc = "spawn" => IF child_stopped THEN cstate = "stopped" ELSE cstate = "gone"
    /\ fpc \in {"putpid", "wait"} => ~child_stopped /\ cstate # "gone"

\* A stopped target that the timeout killed too late for the status of its run is
\* remembered: by child_timed_out, prev_timed_out, the request, then was_killed.
LateKillOK ==
    /\ ppc = "done" => prev_timed_out = child_timed_out
    /\ child_stopped /\ cstate = "zombie" =>
          /\ fpc \in {"read", "putstatus"} =>
                IF ppc \in {"done", "idle", "unwind", "req", "halt"} \/ ctl # <<>>
                THEN prev_timed_out ELSE child_timed_out
          /\ fpc = "reap" => was_killed

\* The status s tells how the execution of this call ended; a kill is afl-fuzz's.
Told(s) ==
    /\ outcome.run = run
    /\ s \in Deaths \cup {"stopped", "sigkill"}
    /\ s = outcome.kind \/ (s = "sigkill" /\ outcome.kind = "stopped")
    /\ s = "sigkill" => child_timed_out \/ stop_soon

\* The fork server has collected the status of this run.
Collected ==
    \/ fpc = "putstatus" \/ ppc \in {"forget", "disarm", "report", "done"}
    \/ ppc = "getpid" /\ st = <<pid, fstatus>>
    \/ ppc \in {"arm", "wait"} /\ st = <<fstatus>>

\* The status on its way to afl-fuzz is that of the execution of this call.
StatusOK ==
    /\ fpc \in {"putpid", "wait"} /\ cstate = "zombie" => Told(cexit)
    /\ fpc \in {"putpid", "wait"} /\ cstate = "stopped" =>
          outcome.run = run /\ outcome.kind = "stopped"
    /\ Collected => Told(fstatus) /\ cstate \notin Active
    /\ ppc \in {"forget", "disarm", "report", "done"} => status = fstatus
    /\ ppc # "done" => fault = "none"
    /\ ppc = "done" => fault # "none" /\ (~stop_soon => fault = Verdict)

\* The trace was written during this run, by the phases the target's state allows.
TraceOK ==
    ~stop_soon =>
        /\ \A w \in trace_bits : w.run = run
        /\ NotForked => trace_bits = {}
        /\ is_persistent =>
              /\ cstate \in {"init", "setup"} => Phases(trace_bits) \subseteq {"init"}
              /\ cstate \in {"body", "post", "stopped"} => Phases(trace_bits) \subseteq {"body"}
              /\ cstate \in {"zombie", "gone"} => OnePhase(trace_bits)

IInv == /\ TypeOK /\ PipeOK /\ DeathOK /\ TimerOK /\ ChildOK /\ LateKillOK
        /\ StatusOK /\ TraceOK

-----------------------------------------------------------------------------
(* The inductive invariant.                                                 *)

\* What the pipe operations do to the contents that occur.
LEMMA PipeFacts ==
    ASSUME NEW a, NEW b
    PROVE  /\ Append(<<>>, a) = <<a>> /\ Append(<<a>>, b) = <<a, b>>
           /\ Head(<<a>>) = a /\ Tail(<<a>>) = <<>>
           /\ Head(<<a, b>>) = a /\ Tail(<<a, b>>) = <<b>>
           /\ Len(<<>>) = 0 /\ Len(<<a>>) = 1 /\ Len(<<a, b>>) = 2
           /\ <<a>> # <<>> /\ <<a, b>> # <<>> /\ <<a, b>> # <<a>> /\ <<a, b>> # <<b>>
<1>1. Append(<<a>>, b) = <<a, b>>
    <2>1. Append(<<a>>, b) = [i \in 1 .. 2 |-> IF i = 2 THEN b ELSE a]
        <3>1. <<a>> \in Seq({a, b})
            OBVIOUS
        <3> QED BY <3>1
    <2>2. <<a, b>> = [i \in 1 .. 2 |-> IF i = 2 THEN b ELSE a]
        OBVIOUS
    <2> QED BY <2>1, <2>2
<1>2. Append(<<>>, a) = <<a>> /\ Head(<<a>>) = a /\ Head(<<a, b>>) = a
    OBVIOUS
<1>3. Tail(<<a>>) = <<>> /\ Tail(<<a, b>>) = <<b>>
    OBVIOUS
<1>4. Len(<<>>) = 0 /\ Len(<<a>>) = 1 /\ Len(<<a, b>>) = 2
    OBVIOUS
<1>5. <<a>> # <<>> /\ <<a, b>> # <<>> /\ <<a, b>> # <<a>> /\ <<a, b>> # <<b>>
    OBVIOUS
<1> QED BY <1>1, <1>2, <1>3, <1>4, <1>5

\* SIGKILL takes effect: the execution of the call ends, if it had not ended.
Killed ==
    /\ cstate \notin {"gone", "zombie"} /\ cstate' = "zombie" /\ cexit' = "sigkill"
    /\ UNCHANGED <<pid, crun, cycle_cnt>>
    /\ \/ cstate \in Active /\ outcome' = [run |-> crun, kind |-> "sigkill"]
       \/ cstate \notin Active /\ outcome' = outcome

\* A kill takes effect on the process of that pid, or is lost.
LEMMA KillFacts ==
    ASSUME NEW p, Kill(p) \/ UNCHANGED childVars
    PROVE  UNCHANGED childVars \/ (p = pid /\ Killed)
BY DEF Kill, Ends, childVars, Killed

\* What the timeout does.
LEMMA AlarmFacts ==
    ASSUME Alarm
    PROVE  /\ timer /\ ~Gone /\ timer' = FALSE
           /\ UNCHANGED <<ppc, child_pid, prev_timed_out, stop_soon, stop_pid, status, fault, run,
                          unheeding, ctl, st, was_killed, child_stopped, fstatus, mapVars, is_persistent>>
           /\ \/ child_timed_out' = TRUE /\ UNCHANGED fpc /\ child_pid = pid /\ Killed
              \/ /\ child_timed_out' = TRUE \/ UNCHANGED child_timed_out
                 /\ UNCHANGED fpc \/ (fpc' = "dead" /\ child_pid = -1)
                 /\ UNCHANGED childVars
BY KillFacts DEF Alarm, TimeoutKills, ServerStarting

\* What Ctrl-C does.
LEMMA StopFacts ==
    ASSUME StopSignal
    PROVE  /\ stop_soon' = TRUE /\ ~stop_soon /\ stop_pid' = child_pid /\ fpc' = "dead" /\ ~Gone
           /\ UNCHANGED <<ppc, child_pid, child_timed_out, prev_timed_out, timer, status, fault,
                          run, unheeding, ctl, st, was_killed, child_stopped, fstatus, mapVars,
                          is_persistent>>
           /\ UNCHANGED childVars \/ (child_pid = pid /\ Killed)
BY KillFacts DEF StopSignal, StopKills

\* run_target reads the pid of the process that serves this call, and leaves the
\* status, if it is there already.
LEMMA GetPidFacts ==
    ASSUME PipeOK, GetPid
    PROVE  /\ child_pid' = pid /\ ctl = <<>>
           /\ \/ fpc \in {"wait", "putstatus", "dead"} /\ st = <<pid>> /\ st' = <<>>
              \/ fpc \in {"read", "dead"} /\ st = <<pid, fstatus>> /\ st' = <<fstatus>>
<1>1. child_pid' = Head(st) /\ st' = Tail(st) /\ st # <<>> /\ ppc = "getpid"
    BY DEF GetPid, Parent
<1>2. /\ ctl = <<>>
      /\ \/ fpc \in {"wait", "putstatus", "dead"} /\ st = <<pid>>
         \/ fpc \in {"read", "dead"} /\ st = <<pid, fstatus>>
    BY <1>1 DEF PipeOK
<1>3. CASE st = <<pid>>
    BY <1>1, <1>2, <1>3, PipeFacts
<1>4. CASE st = <<pid, fstatus>>
    BY <1>1, <1>2, <1>4, PipeFacts
<1> QED BY <1>2, <1>3, <1>4

\* The status it reads is the one the fork server collected last.
LEMMA GetStatusFacts ==
    ASSUME PipeOK, GetStatus
    PROVE  /\ fpc \in {"read", "dead"} /\ ctl = <<>>
           /\ st = <<fstatus>> /\ st' = <<>> /\ status' = fstatus
<1>1. status' = Head(st) /\ st' = Tail(st) /\ st # <<>> /\ ppc = "wait"
    BY DEF GetStatus, Parent
<1>2. fpc \in {"read", "dead"} /\ ctl = <<>> /\ st = <<fstatus>>
    BY <1>1 DEF PipeOK
<1> QED BY <1>1, <1>2, PipeFacts

\* The fork server adds the status to an empty pipe, or after the pid.
LEMMA PutStatusFacts ==
    ASSUME TypeOK, PipeOK, PutStatus
    PROVE  /\ ctl = <<>>
           /\ \/ ppc = "getpid" /\ st = <<pid>> /\ st' = <<pid, fstatus>>
              \/ ppc \in {"arm", "wait"} /\ st = <<>> /\ st' = <<fstatus>>
<1>1. st' = Append(st, fstatus) /\ fpc = "putstatus" /\ ~Gone
    BY DEF PutStatus, Server
<1>2. /\ ctl = <<>>
      /\ \/ ppc = "getpid" /\ st = <<pid>>
         \/ ppc \in {"arm", "wait"} /\ st = <<>>
    BY <1>1 DEF TypeOK, PipeOK, Quiet, Gone
<1> QED BY <1>1, <1>2, PipeFacts

\* Every step preserves the types; the pipes are never written out of turn.
LEMMA NextTypeOK == IInv /\ [Next]_vars => TypeOK'
<1> SUFFICES ASSUME TypeOK, PipeOK, TimerOK, ChildOK, [Next]_vars
             PROVE  TypeOK'
    BY DEF IInv
<1> USE ForkServerAssumption DEF TypeOK, PipeOK, TimerOK, ChildOK, Kinds, Deaths, Active,
    Quiet, NotForked,
        parentVars, serverVars, childVars, mapVars
<1>1. CASE PipeFailure
    BY <1>1 DEF PipeFailure, PipeFails, Parent
<1>2. CASE ReadHello
    BY <1>2, PipeFacts DEF ReadHello, Parent
<1>3. CASE DisarmHello
    <2>1. ({child_timed_out, prev_timed_out, stop_soon, timer, was_killed, child_stopped}
             \subseteq BOOLEAN)'
        BY <1>3 DEF DisarmHello, Parent
    <2> QED BY <1>3, <2>1 DEF DisarmHello, Parent
<1>4. CASE StartRun
    <2>1. ({child_timed_out, prev_timed_out, stop_soon, timer, was_killed, child_stopped}
             \subseteq BOOLEAN)'
        BY <1>4 DEF StartRun, Parent, NextCalls, Unheeding
    <2> QED BY <1>4, <2>1 DEF StartRun, Parent, NextCalls, Unheeding
<1>5. CASE Quit
    <2>1. ppc' = "halt" /\ UNCHANGED <<serverVars, childVars, mapVars, ctl, st, is_persistent>>
        BY <1>5 DEF Quit, Parent
    <2>2. UNCHANGED <<child_pid, child_timed_out, prev_timed_out, stop_soon, stop_pid, timer,
                      status, fault, run, unheeding>>
        BY <1>5 DEF Quit
    <2> QED BY <2>1, <2>2
<1>6. CASE Request
    BY <1>6, PipeFacts DEF Request, Parent, Requested
<1>7. CASE GetPid
    BY <1>7, PipeFacts DEF GetPid, Parent
<1>8. CASE Arm
    BY <1>8 DEF Arm, Parent
<1>9. CASE GetStatus
    BY <1>9, PipeFacts DEF GetStatus, Parent
<1>10. CASE ForgetPid
    BY <1>10 DEF ForgetPid, Parent
<1>11. CASE Disarm
    <2>1. ({child_timed_out, prev_timed_out, stop_soon, timer, was_killed, child_stopped}
             \subseteq BOOLEAN)'
        BY <1>11 DEF Disarm, Parent
    <2> QED BY <1>11, <2>1 DEF Disarm, Parent
<1>12. CASE Report
    BY <1>12 DEF Report, Parent, Verdict
<1>13. CASE Return
    BY <1>13 DEF Return, Parent, Returned
<1>14. CASE Alarm
    <2>1. ({child_timed_out, prev_timed_out, stop_soon, timer, was_killed, child_stopped}
             \subseteq BOOLEAN)'
        BY <1>14, AlarmFacts
    <2>2. /\ outcome' \in {outcome, [run |-> crun, kind |-> "sigkill"]}
          /\ cstate' \in {cstate, "zombie"} /\ cexit' \in {cexit, "sigkill"}
          /\ fpc' \in {fpc, "dead"} /\ stop_pid' \in {stop_pid, child_pid}
          /\ UNCHANGED <<ppc, child_pid, status, fault, run, unheeding, ctl, st, fstatus, pid, crun,
                         cycle_cnt, is_persistent>>
        BY <1>14, AlarmFacts DEF Killed
    <2>3. outcome' \in [run : 0 .. MaxRuns, kind : Kinds]
        BY <2>2
    <2> QED BY <2>1, <2>2, <2>3
<1>15. CASE StopSignal
    <2>1. ({child_timed_out, prev_timed_out, stop_soon, timer, was_killed, child_stopped}
             \subseteq BOOLEAN)'
        BY <1>15, StopFacts
    <2>2. /\ outcome' \in {outcome, [run |-> crun, kind |-> "sigkill"]}
          /\ cstate' \in {cstate, "zombie"} /\ cexit' \in {cexit, "sigkill"}
          /\ fpc' \in {fpc, "dead"} /\ stop_pid' \in {stop_pid, child_pid}
          /\ UNCHANGED <<ppc, child_pid, status, fault, run, unheeding, ctl, st, fstatus, pid, crun,
                         cycle_cnt, is_persistent>>
        BY <1>15, StopFacts DEF Killed
    <2>3. outcome' \in [run : 0 .. MaxRuns, kind : Kinds]
        BY <2>2
    <2> QED BY <2>1, <2>2, <2>3
<1>16. CASE SayHello
    BY <1>16, PipeFacts DEF SayHello, Server
<1>17. CASE ReadRequest
    BY <1>17, PipeFacts DEF ReadRequest, Server
<1>18. CASE ReapKilled
    <2>1. ({child_timed_out, prev_timed_out, stop_soon, timer, was_killed, child_stopped}
             \subseteq BOOLEAN)'
        BY <1>18 DEF ReapKilled, Server
    <2>2. cstate' \in {cstate, "gone"} /\ fpc' = "spawn"
        BY <1>18 DEF ReapKilled, Server
    <2>3. UNCHANGED <<parentVars, fstatus, ctl, st, is_persistent, pid, cexit, crun, cycle_cnt, outcome>>
        BY <1>18 DEF ReapKilled, Server
    <2> QED BY <2>1, <2>2, <2>3
<1>19. CASE Fork
    BY <1>19 DEF Fork, Server
<1>20. CASE Continue
    <2>1. ({child_timed_out, prev_timed_out, stop_soon, timer, was_killed, child_stopped}
             \subseteq BOOLEAN)'
        BY <1>20 DEF Continue, Server
    <2> QED BY <1>20, <2>1 DEF Continue, Server
<1>21. CASE PutPid
    BY <1>21, PipeFacts DEF PutPid, Server
<1>22. CASE WaitChild
    <2>1. ({child_timed_out, prev_timed_out, stop_soon, timer, was_killed, child_stopped}
             \subseteq BOOLEAN)'
        BY <1>22 DEF WaitChild, Server, StopNoticed
    <2> QED BY <1>22, <2>1 DEF WaitChild, Server, StopNoticed
<1>23. CASE PutStatus
    <2>1. st' \in {<<pid, fstatus>>, <<fstatus>>} /\ ctl' = <<>> /\ fpc' = "read"
        BY <1>23, PutStatusFacts DEF PutStatus, Server
    <2>2. Len(st') <= 2
        <3>1. CASE st' = <<pid, fstatus>>
            BY <3>1, PipeFacts
        <3>2. CASE st' = <<fstatus>>
            BY <3>2, PipeFacts
        <3> QED BY <2>1, <3>1, <3>2
    <2>3. UNCHANGED <<parentVars, childVars, was_killed, child_stopped, fstatus, is_persistent>>
        BY <1>23 DEF PutStatus, Server
    <2> QED BY <2>1, <2>2, <2>3
<1>24. CASE ServerExits
    BY <1>24 DEF ServerExits, Server
<1>25. CASE ChildStarts
    BY <1>25 DEF ChildStarts, Child, Touch
<1>26. CASE LoopAgain
    <2>1. cycle_cnt' \in 0 .. LoopCount
        BY <1>26 DEF LoopAgain
    <2>2. outcome' \in {outcome, [run |-> crun, kind |-> "stopped"]}
        BY <1>26 DEF LoopAgain, Ends
    <2>3. outcome' \in [run : 0 .. MaxRuns, kind : Kinds]
        BY <2>2
    <2>4. Child /\ UNCHANGED cexit /\ cstate' \in {"stopped", "post"}
        BY <1>26 DEF LoopAgain
    <2> QED BY <2>1, <2>3, <2>4 DEF Child
<1>27. CASE ChildLeaves
    BY <1>27 DEF ChildLeaves, Child, Touch, Ends
<1>28. CASE ChildDies
    BY <1>28 DEF ChildDies, Child, Touch, Ends
<1>29. CASE Exited
    BY <1>29 DEF Exited, vars
<1>30. CASE UNCHANGED vars
    BY <1>30 DEF vars
<1>31. CASE FirstPass
    BY <1>31 DEF FirstPass, Child, FirstPassTrace
<1> QED BY <1>1, <1>2, <1>3, <1>4, <1>5, <1>6, <1>7, <1>8, <1>9, <1>10, <1>11, <1>12, <1>13,
    <1>14, <1>15, <1>16, <1>17, <1>18, <1>19, <1>20, <1>21, <1>22, <1>23, <1>24, <1>25,
    <1>26, <1>27, <1>28, <1>29, <1>30, <1>31
        DEF Next, RunTarget, ServerStep, ChildStep

\* Every step keeps afl-fuzz and the fork server in step with each other.
LEMMA NextPipeOK == IInv /\ [Next]_vars => PipeOK'
<1> SUFFICES ASSUME TypeOK, PipeOK, DeathOK, TimerOK, ChildOK, [Next]_vars
             PROVE  PipeOK'
    BY DEF IInv
<1> USE ForkServerAssumption DEF TypeOK, PipeOK, DeathOK, TimerOK, ChildOK, Quiet, Gone,
        parentVars, serverVars, childVars, mapVars
<1>1. CASE PipeFailure
    BY <1>1 DEF PipeFailure, PipeFails, Parent
<1>2. CASE ReadHello
    BY <1>2, PipeFacts DEF ReadHello, Parent
<1>3. CASE DisarmHello
    BY <1>3 DEF DisarmHello, Parent
<1>4. CASE StartRun
    BY <1>4 DEF StartRun, Parent, NextCalls, Unheeding
<1>5. CASE Quit
    BY <1>5 DEF Quit, Parent
<1>6. CASE Request
    BY <1>6, PipeFacts DEF Request, Parent, Requested
<1>7. CASE GetPid
    BY <1>7, GetPidFacts, PipeFacts DEF GetPid, Parent
<1>8. CASE Arm
    BY <1>8 DEF Arm, Parent
<1>9. CASE GetStatus
    BY <1>9, GetStatusFacts, PipeFacts DEF GetStatus, Parent
<1>10. CASE ForgetPid
    BY <1>10 DEF ForgetPid, Parent
<1>11. CASE Disarm
    BY <1>11 DEF Disarm, Parent
<1>12. CASE Report
    BY <1>12 DEF Report, Parent, Verdict
<1>13. CASE Return
    BY <1>13 DEF Return, Parent, Returned
<1>14. CASE Alarm
    BY <1>14 DEF Alarm, TimeoutKills, Kill, Ends, ServerStarting
<1>15. CASE StopSignal
    BY <1>15 DEF StopSignal, StopKills, Kill, Ends
<1>16. CASE SayHello
    BY <1>16, PipeFacts DEF SayHello, Server
<1>17. CASE ReadRequest
    BY <1>17, PipeFacts DEF ReadRequest, Server
<1>18. CASE ReapKilled
    BY <1>18 DEF ReapKilled, Server, WriteOff
<1>19. CASE Fork
    BY <1>19 DEF Fork, Server
<1>20. CASE Continue
    BY <1>20 DEF Continue, Server
<1>21. CASE PutPid
    BY <1>21, PipeFacts DEF PutPid, Server
<1>22. CASE WaitChild
    BY <1>22 DEF WaitChild, Server, StopNoticed
<1>23. CASE PutStatus
    BY <1>23, PutStatusFacts, PipeFacts DEF PutStatus, Server
<1>24. CASE ServerExits
    BY <1>24 DEF ServerExits, Server
<1>25. CASE ChildStarts
    BY <1>25 DEF ChildStarts, Child, Touch
<1>26. CASE LoopAgain
    BY <1>26 DEF LoopAgain, Child, Touch, Ends
<1>27. CASE ChildLeaves
    BY <1>27 DEF ChildLeaves, Child, Touch, Ends
<1>28. CASE ChildDies
    BY <1>28 DEF ChildDies, Child, Touch, Ends
<1>29. CASE Exited
    BY <1>29 DEF Exited, vars
<1>30. CASE UNCHANGED vars
    BY <1>30 DEF vars
<1>31. CASE FirstPass
    BY <1>31 DEF FirstPass, Child, FirstPassTrace
<1> QED BY <1>1, <1>2, <1>3, <1>4, <1>5, <1>6, <1>7, <1>8, <1>9, <1>10, <1>11, <1>12, <1>13,
    <1>14, <1>15, <1>16, <1>17, <1>18, <1>19, <1>20, <1>21, <1>22, <1>23, <1>24, <1>25,
    <1>26, <1>27, <1>28, <1>29, <1>30, <1>31
        DEF Next, RunTarget, ServerStep, ChildStep

\* The fork server dies only of Ctrl-C, of its hello, or after afl-fuzz.
LEMMA NextDeathOK == IInv /\ [Next]_vars => DeathOK'
<1> SUFFICES ASSUME TypeOK, PipeOK, DeathOK, TimerOK, [Next]_vars
             PROVE  DeathOK'
    BY DEF IInv
<1> USE ForkServerAssumption DEF TypeOK, PipeOK, DeathOK, TimerOK, Quiet, Gone,
        parentVars, serverVars, childVars, mapVars
<1>1. CASE PipeFailure
    BY <1>1 DEF PipeFailure, PipeFails, Parent
<1>2. CASE ReadHello
    BY <1>2 DEF ReadHello, Parent
<1>3. CASE DisarmHello
    BY <1>3 DEF DisarmHello, Parent
<1>4. CASE StartRun
    BY <1>4 DEF StartRun, Parent, NextCalls, Unheeding
<1>5. CASE Quit
    BY <1>5 DEF Quit, Parent
<1>6. CASE Request
    BY <1>6 DEF Request, Parent, Requested
<1>7. CASE GetPid
    BY <1>7 DEF GetPid, Parent
<1>8. CASE Arm
    BY <1>8 DEF Arm, Parent
<1>9. CASE GetStatus
    BY <1>9 DEF GetStatus, Parent
<1>10. CASE ForgetPid
    BY <1>10 DEF ForgetPid, Parent
<1>11. CASE Disarm
    BY <1>11 DEF Disarm, Parent
<1>12. CASE Report
    BY <1>12 DEF Report, Parent, Verdict
<1>13. CASE Return
    BY <1>13 DEF Return, Parent, Returned
<1>14. CASE Alarm
    BY <1>14 DEF Alarm, TimeoutKills, Kill, Ends, ServerStarting
<1>15. CASE StopSignal
    BY <1>15 DEF StopSignal, StopKills, Kill, Ends
<1>16. CASE SayHello
    BY <1>16 DEF SayHello, Server
<1>17. CASE ReadRequest
    BY <1>17 DEF ReadRequest, Server
<1>18. CASE ReapKilled
    BY <1>18 DEF ReapKilled, Server, WriteOff
<1>19. CASE Fork
    BY <1>19 DEF Fork, Server
<1>20. CASE Continue
    BY <1>20 DEF Continue, Server
<1>21. CASE PutPid
    BY <1>21 DEF PutPid, Server
<1>22. CASE WaitChild
    BY <1>22 DEF WaitChild, Server, StopNoticed
<1>23. CASE PutStatus
    BY <1>23 DEF PutStatus, Server
<1>24. CASE ServerExits
    BY <1>24 DEF ServerExits, Server
<1>25. CASE ChildStarts
    BY <1>25 DEF ChildStarts, Child, Touch
<1>26. CASE LoopAgain
    BY <1>26 DEF LoopAgain, Child, Touch, Ends
<1>27. CASE ChildLeaves
    BY <1>27 DEF ChildLeaves, Child, Touch, Ends
<1>28. CASE ChildDies
    BY <1>28 DEF ChildDies, Child, Touch, Ends
<1>29. CASE Exited
    BY <1>29 DEF Exited, vars
<1>30. CASE UNCHANGED vars
    BY <1>30 DEF vars
<1>31. CASE FirstPass
    BY <1>31 DEF FirstPass, Child, FirstPassTrace
<1> QED BY <1>1, <1>2, <1>3, <1>4, <1>5, <1>6, <1>7, <1>8, <1>9, <1>10, <1>11, <1>12, <1>13,
    <1>14, <1>15, <1>16, <1>17, <1>18, <1>19, <1>20, <1>21, <1>22, <1>23, <1>24, <1>25,
    <1>26, <1>27, <1>28, <1>29, <1>30, <1>31
        DEF Next, RunTarget, ServerStep, ChildStep

\* The timer is armed only where child_pid is the process of this run.
LEMMA NextTimerOK == IInv /\ [Next]_vars => TimerOK'
<1> SUFFICES ASSUME TypeOK, PipeOK, DeathOK, TimerOK, ChildOK, [Next]_vars
             PROVE  TimerOK'
    BY DEF IInv
<1> USE ForkServerAssumption DEF TypeOK, PipeOK, DeathOK, TimerOK, ChildOK, Quiet, Gone,
    Active,
        parentVars, serverVars, childVars, mapVars
<1>1. CASE PipeFailure
    BY <1>1 DEF PipeFailure, PipeFails, Parent
<1>2. CASE ReadHello
    BY <1>2, PipeFacts DEF ReadHello, Parent
<1>3. CASE DisarmHello
    BY <1>3 DEF DisarmHello, Parent
<1>4. CASE StartRun
    BY <1>4 DEF StartRun, Parent, NextCalls, Unheeding
<1>5. CASE Quit
    BY <1>5 DEF Quit, Parent
<1>6. CASE Request
    BY <1>6, PipeFacts DEF Request, Parent, Requested
<1>7. CASE GetPid
    BY <1>7, GetPidFacts, PipeFacts DEF GetPid, Parent
<1>8. CASE Arm
    BY <1>8 DEF Arm, Parent
<1>9. CASE GetStatus
    BY <1>9, GetStatusFacts, PipeFacts DEF GetStatus, Parent
<1>10. CASE ForgetPid
    BY <1>10 DEF ForgetPid, Parent
<1>11. CASE Disarm
    BY <1>11 DEF Disarm, Parent
<1>12. CASE Report
    BY <1>12 DEF Report, Parent, Verdict
<1>13. CASE Return
    BY <1>13 DEF Return, Parent, Returned
<1>14. CASE Alarm
    BY <1>14 DEF Alarm, TimeoutKills, Kill, Ends, ServerStarting
<1>15. CASE StopSignal
    BY <1>15 DEF StopSignal, StopKills, Kill, Ends
<1>16. CASE SayHello
    BY <1>16, PipeFacts DEF SayHello, Server
<1>17. CASE ReadRequest
    BY <1>17, PipeFacts DEF ReadRequest, Server
<1>18. CASE ReapKilled
    BY <1>18 DEF ReapKilled, Server, WriteOff
<1>19. CASE Fork
    BY <1>19 DEF Fork, Server
<1>20. CASE Continue
    BY <1>20 DEF Continue, Server
<1>21. CASE PutPid
    BY <1>21, PipeFacts DEF PutPid, Server
<1>22. CASE WaitChild
    BY <1>22 DEF WaitChild, Server, StopNoticed
<1>23. CASE PutStatus
    BY <1>23, PutStatusFacts, PipeFacts DEF PutStatus, Server
<1>24. CASE ServerExits
    BY <1>24 DEF ServerExits, Server
<1>25. CASE ChildStarts
    BY <1>25 DEF ChildStarts, Child, Touch
<1>26. CASE LoopAgain
    BY <1>26 DEF LoopAgain, Child, Touch, Ends
<1>27. CASE ChildLeaves
    BY <1>27 DEF ChildLeaves, Child, Touch, Ends
<1>28. CASE ChildDies
    BY <1>28 DEF ChildDies, Child, Touch, Ends
<1>29. CASE Exited
    BY <1>29 DEF Exited, vars
<1>30. CASE UNCHANGED vars
    BY <1>30 DEF vars
<1>31. CASE FirstPass
    BY <1>31 DEF FirstPass, Child, FirstPassTrace
<1> QED BY <1>1, <1>2, <1>3, <1>4, <1>5, <1>6, <1>7, <1>8, <1>9, <1>10, <1>11, <1>12, <1>13,
    <1>14, <1>15, <1>16, <1>17, <1>18, <1>19, <1>20, <1>21, <1>22, <1>23, <1>24, <1>25,
    <1>26, <1>27, <1>28, <1>29, <1>30, <1>31
        DEF Next, RunTarget, ServerStep, ChildStep

\* The fork server knows the state of the process it manages.
LEMMA NextChildOK == IInv /\ [Next]_vars => ChildOK'
<1> SUFFICES ASSUME TypeOK, PipeOK, DeathOK, TimerOK, ChildOK, LateKillOK, StatusOK, [Next]_vars
             PROVE  ChildOK'
    BY DEF IInv
<1> USE ForkServerAssumption DEF TypeOK, PipeOK, DeathOK, TimerOK, ChildOK, LateKillOK,
    StatusOK, Quiet, Gone, Active, NotForked,
        parentVars, serverVars, childVars, mapVars
<1>1. CASE PipeFailure
    BY <1>1 DEF PipeFailure, PipeFails, Parent
<1>2. CASE ReadHello
    BY <1>2 DEF ReadHello, Parent
<1>3. CASE DisarmHello
    BY <1>3 DEF DisarmHello, Parent
<1>4. CASE StartRun
    BY <1>4 DEF StartRun, Parent, NextCalls, Unheeding
<1>5. CASE Quit
    <2>1. /\ ppc' = "halt" /\ ppc \in {"idle", "unwind"}
          /\ UNCHANGED <<run, child_pid, child_timed_out, prev_timed_out, stop_soon, stop_pid, timer>>
        BY <1>5 DEF Quit, Parent
    <2>2. UNCHANGED <<serverVars, childVars, ctl, st>>
        BY <1>5 DEF Quit, Parent
    <2> QED BY <2>1, <2>2
<1>6. CASE Request
    BY <1>6 DEF Request, Parent, Requested
<1>7. CASE GetPid
    BY <1>7 DEF GetPid, Parent
<1>8. CASE Arm
    BY <1>8 DEF Arm, Parent
<1>9. CASE GetStatus
    <2>1. cstate \notin Active
        BY <1>9, GetStatusFacts DEF GetStatus, Parent, StatusOK, Collected
    <2> QED BY <1>9, <2>1, GetStatusFacts DEF GetStatus, Parent
<1>10. CASE ForgetPid
    BY <1>10 DEF ForgetPid, Parent
<1>11. CASE Disarm
    BY <1>11 DEF Disarm, Parent
<1>12. CASE Report
    BY <1>12 DEF Report, Parent, Verdict
<1>13. CASE Return
    BY <1>13 DEF Return, Parent, Returned
<1>14. CASE Alarm
    <2>1. CASE child_pid > 0
        BY <1>14, <2>1, SMTT(30) DEF Alarm, TimeoutKills, Kill, Ends, ServerStarting
    <2>2. CASE child_pid <= 0
        BY <1>14, <2>2, SMTT(30) DEF Alarm, TimeoutKills, Kill, Ends, ServerStarting
    <2> QED BY <2>1, <2>2
<1>15. CASE StopSignal
    <2>1. UNCHANGED childVars \/ (child_pid = pid /\ Killed)
        BY <1>15, StopFacts
    <2>2. /\ stop_soon' = TRUE /\ ~stop_soon /\ stop_pid' = child_pid /\ fpc' = "dead"
          /\ UNCHANGED <<ppc, run, ctl, st, child_stopped>>
        BY <1>15, StopFacts
    <2>3. CASE UNCHANGED childVars
        <3>1. cstate \in Active => child_pid # pid
            BY <1>15, <2>3 DEF StopSignal, StopKills, Kill, Ends
        <3> QED BY <2>2, <2>3, <3>1
    <2>4. CASE child_pid = pid /\ Killed
        BY <2>2, <2>4 DEF Killed
    <2> QED BY <2>1, <2>3, <2>4
<1>16. CASE SayHello
    BY <1>16 DEF SayHello, Server
<1>17. CASE ReadRequest
    BY <1>17 DEF ReadRequest, Server
<1>18. CASE ReapKilled
    BY <1>18 DEF ReapKilled, Server, WriteOff
<1>19. CASE Fork
    BY <1>19 DEF Fork, Server
<1>20. CASE Continue
    BY <1>20 DEF Continue, Server
<1>21. CASE PutPid
    BY <1>21 DEF PutPid, Server
<1>22. CASE WaitChild
    BY <1>22 DEF WaitChild, Server, StopNoticed
<1>23. CASE PutStatus
    BY <1>23 DEF PutStatus, Server
<1>24. CASE ServerExits
    BY <1>24 DEF ServerExits, Server
<1>25. CASE ChildStarts
    BY <1>25 DEF ChildStarts, Child, Touch
<1>26. CASE LoopAgain
    BY <1>26 DEF LoopAgain, Child, Touch, Ends
<1>27. CASE ChildLeaves
    BY <1>27 DEF ChildLeaves, Child, Touch, Ends
<1>28. CASE ChildDies
    BY <1>28 DEF ChildDies, Child, Touch, Ends
<1>29. CASE Exited
    BY <1>29 DEF Exited, vars
<1>30. CASE UNCHANGED vars
    BY <1>30 DEF vars
<1>31. CASE FirstPass
    BY <1>31 DEF FirstPass, Child, FirstPassTrace
<1> QED BY <1>1, <1>2, <1>3, <1>4, <1>5, <1>6, <1>7, <1>8, <1>9, <1>10, <1>11, <1>12, <1>13,
    <1>14, <1>15, <1>16, <1>17, <1>18, <1>19, <1>20, <1>21, <1>22, <1>23, <1>24, <1>25,
    <1>26, <1>27, <1>28, <1>29, <1>30, <1>31
        DEF Next, RunTarget, ServerStep, ChildStep

\* No late kill of a stopped target is forgotten.
LEMMA NextLateKillOK == IInv /\ [Next]_vars => LateKillOK'
<1> SUFFICES ASSUME TypeOK, PipeOK, DeathOK, TimerOK, ChildOK, LateKillOK, [Next]_vars
             PROVE  LateKillOK'
    BY DEF IInv
<1> USE ForkServerAssumption DEF TypeOK, PipeOK, DeathOK, TimerOK, ChildOK, LateKillOK,
    Quiet, Gone, Active,
        parentVars, serverVars, childVars, mapVars
<1>1. CASE PipeFailure
    BY <1>1 DEF PipeFailure, PipeFails, Parent
<1>2. CASE ReadHello
    BY <1>2 DEF ReadHello, Parent
<1>3. CASE DisarmHello
    BY <1>3 DEF DisarmHello, Parent
<1>4. CASE StartRun
    BY <1>4 DEF StartRun, Parent, NextCalls, Unheeding
<1>5. CASE Quit
    BY <1>5 DEF Quit, Parent
<1>6. CASE Request
    BY <1>6 DEF Request, Parent, Requested
<1>7. CASE GetPid
    BY <1>7 DEF GetPid, Parent
<1>8. CASE Arm
    BY <1>8 DEF Arm, Parent
<1>9. CASE GetStatus
    BY <1>9 DEF GetStatus, Parent
<1>10. CASE ForgetPid
    BY <1>10 DEF ForgetPid, Parent
<1>11. CASE Disarm
    BY <1>11 DEF Disarm, Parent
<1>12. CASE Report
    BY <1>12 DEF Report, Parent, Verdict
<1>13. CASE Return
    BY <1>13 DEF Return, Parent, Returned
<1>14. CASE Alarm
    <2>1. CASE child_pid > 0
        BY <1>14, <2>1, SMTT(30) DEF Alarm, TimeoutKills, Kill, Ends, ServerStarting
    <2>2. CASE child_pid <= 0
        BY <1>14, <2>2, SMTT(30) DEF Alarm, TimeoutKills, Kill, Ends, ServerStarting
    <2> QED BY <2>1, <2>2
<1>15. CASE StopSignal
    BY <1>15 DEF StopSignal, StopKills, Kill, Ends
<1>16. CASE SayHello
    BY <1>16 DEF SayHello, Server
<1>17. CASE ReadRequest
    BY <1>17 DEF ReadRequest, Server
<1>18. CASE ReapKilled
    BY <1>18 DEF ReapKilled, Server, WriteOff
<1>19. CASE Fork
    BY <1>19 DEF Fork, Server
<1>20. CASE Continue
    BY <1>20 DEF Continue, Server
<1>21. CASE PutPid
    BY <1>21 DEF PutPid, Server
<1>22. CASE WaitChild
    BY <1>22 DEF WaitChild, Server, StopNoticed
<1>23. CASE PutStatus
    BY <1>23 DEF PutStatus, Server
<1>24. CASE ServerExits
    BY <1>24 DEF ServerExits, Server
<1>25. CASE ChildStarts
    BY <1>25 DEF ChildStarts, Child, Touch
<1>26. CASE LoopAgain
    BY <1>26 DEF LoopAgain, Child, Touch, Ends
<1>27. CASE ChildLeaves
    BY <1>27 DEF ChildLeaves, Child, Touch, Ends
<1>28. CASE ChildDies
    BY <1>28 DEF ChildDies, Child, Touch, Ends
<1>29. CASE Exited
    BY <1>29 DEF Exited, vars
<1>30. CASE UNCHANGED vars
    BY <1>30 DEF vars
<1>31. CASE FirstPass
    BY <1>31 DEF FirstPass, Child, FirstPassTrace
<1> QED BY <1>1, <1>2, <1>3, <1>4, <1>5, <1>6, <1>7, <1>8, <1>9, <1>10, <1>11, <1>12, <1>13,
    <1>14, <1>15, <1>16, <1>17, <1>18, <1>19, <1>20, <1>21, <1>22, <1>23, <1>24, <1>25,
    <1>26, <1>27, <1>28, <1>29, <1>30, <1>31
        DEF Next, RunTarget, ServerStep, ChildStep

\* The status that is collected and passed on is that of this run.
LEMMA NextStatusOK == IInv /\ [Next]_vars => StatusOK'
<1> SUFFICES ASSUME TypeOK, PipeOK, DeathOK, TimerOK, ChildOK, LateKillOK, StatusOK, [Next]_vars
             PROVE  StatusOK'
    BY DEF IInv
<1> USE ForkServerAssumption DEF TypeOK, PipeOK, DeathOK, TimerOK, ChildOK, LateKillOK,
    StatusOK, Quiet, Gone, Active, Deaths, Kinds, Told, Collected, Verdict,
        parentVars, serverVars, childVars, mapVars
<1>1. CASE PipeFailure
    BY <1>1 DEF PipeFailure, PipeFails, Parent
<1>2. CASE ReadHello
    BY <1>2, PipeFacts DEF ReadHello, Parent
<1>3. CASE DisarmHello
    BY <1>3 DEF DisarmHello, Parent
<1>4. CASE StartRun
    BY <1>4 DEF StartRun, Parent, NextCalls, Unheeding
<1>5. CASE Quit
    BY <1>5 DEF Quit, Parent
<1>6. CASE Request
    BY <1>6, PipeFacts DEF Request, Parent, Requested
<1>7. CASE GetPid
    <2>1. ppc = "getpid" /\ ppc' = "arm"
        BY <1>7 DEF GetPid, Parent
    <2>2. UNCHANGED <<fpc, cstate, cexit, fstatus, outcome, run, child_timed_out, stop_soon, fault>>
        BY <1>7 DEF GetPid, Parent
    <2>3. Collected' => Collected
        BY <1>7, <2>1, <2>2, GetPidFacts, PipeFacts
    <2> QED BY <2>1, <2>2, <2>3
<1>8. CASE Arm
    BY <1>8 DEF Arm, Parent
<1>9. CASE GetStatus
    BY <1>9, GetStatusFacts, PipeFacts DEF GetStatus, Parent
<1>10. CASE ForgetPid
    BY <1>10 DEF ForgetPid, Parent
<1>11. CASE Disarm
    BY <1>11 DEF Disarm, Parent
<1>12. CASE Report
    BY <1>12 DEF Report, Parent, Verdict
<1>13. CASE Return
    BY <1>13 DEF Return, Parent, Returned
<1>14. CASE Alarm
    <2>1. CASE child_pid > 0
        BY <1>14, <2>1, SMTT(30) DEF Alarm, TimeoutKills, Kill, Ends, ServerStarting
    <2>2. CASE child_pid <= 0
        BY <1>14, <2>2, SMTT(30) DEF Alarm, TimeoutKills, Kill, Ends, ServerStarting
    <2> QED BY <2>1, <2>2
<1>15. CASE StopSignal
    BY <1>15 DEF StopSignal, StopKills, Kill, Ends
<1>16. CASE SayHello
    BY <1>16, PipeFacts DEF SayHello, Server
<1>17. CASE ReadRequest
    BY <1>17, PipeFacts DEF ReadRequest, Server
<1>18. CASE ReapKilled
    BY <1>18 DEF ReapKilled, Server, WriteOff
<1>19. CASE Fork
    BY <1>19, PipeFacts DEF Fork, Server
<1>20. CASE Continue
    <2>1. ppc = "getpid" /\ st = <<>> /\ cstate' = "body" /\ fpc' = "putpid"
        BY <1>20 DEF Continue, Server
    <2>2. UNCHANGED <<parentVars, st>>
        BY <1>20 DEF Continue, Server
    <2>3. ~Collected'
        BY <2>1, <2>2, PipeFacts
    <2> QED BY <2>1, <2>2, <2>3
<1>21. CASE PutPid
    <2>1. ppc = "getpid" /\ st' = <<pid>> /\ fpc = "putpid" /\ fpc' = "wait"
        BY <1>21, PipeFacts DEF PutPid, Server
    <2>2. UNCHANGED <<parentVars, childVars, fstatus>>
        BY <1>21 DEF PutPid, Server
    <2>3. ~Collected'
        BY <2>1, <2>2, PipeFacts
    <2> QED BY <2>1, <2>2, <2>3
<1>22. CASE WaitChild
    BY <1>22 DEF WaitChild, Server, StopNoticed
<1>23. CASE PutStatus
    BY <1>23, PutStatusFacts, PipeFacts DEF PutStatus, Server
<1>24. CASE ServerExits
    BY <1>24 DEF ServerExits, Server
<1>25. CASE ChildStarts
    BY <1>25 DEF ChildStarts, Child, Touch
<1>26. CASE LoopAgain
    BY <1>26 DEF LoopAgain, Child, Touch, Ends
<1>27. CASE ChildLeaves
    BY <1>27 DEF ChildLeaves, Child, Touch, Ends
<1>28. CASE ChildDies
    BY <1>28 DEF ChildDies, Child, Touch, Ends
<1>29. CASE Exited
    BY <1>29 DEF Exited, vars
<1>30. CASE UNCHANGED vars
    BY <1>30 DEF vars
<1>31. CASE FirstPass
    BY <1>31 DEF FirstPass, Child, FirstPassTrace
<1> QED BY <1>1, <1>2, <1>3, <1>4, <1>5, <1>6, <1>7, <1>8, <1>9, <1>10, <1>11, <1>12, <1>13,
    <1>14, <1>15, <1>16, <1>17, <1>18, <1>19, <1>20, <1>21, <1>22, <1>23, <1>24, <1>25,
    <1>26, <1>27, <1>28, <1>29, <1>30, <1>31
        DEF Next, RunTarget, ServerStep, ChildStep

\* A step that leaves the map and the target's state alone.
LEMMA TraceUntouched ==
    ASSUME TraceOK, NotForked' => NotForked,
           UNCHANGED <<trace_bits, cstate, outcome, is_persistent, stop_soon, run>>
    PROVE  TraceOK'
BY DEF TraceOK, OnePhase, Phases

\* The map is empty, and whoever writes to it next does so during this run.
LEMMA TraceErased == (trace_bits = {})' => TraceOK'
BY DEF TraceOK, OnePhase, Phases

\* An execution that dies, or is killed, leaves one phase in the map.
LEMMA TraceOfTheDead ==
    ASSUME TraceOK, ~stop_soon, is_persistent, cstate \in Active, outcome'.kind # "stopped",
           UNCHANGED trace_bits
    PROVE  OnePhase(trace_bits)'
<1>1. CASE Phases(trace_bits) \subseteq {"body"}
    BY <1>1 DEF OnePhase, Phases
<1>2. CASE ~(Phases(trace_bits) \subseteq {"body"})
    <2>1. Phases(trace_bits) \subseteq {"init"} /\ Phases(trace_bits) # {}
        BY <1>2 DEF TraceOK, Active
    <2>2. Phases(trace_bits)' = {"init"}
        BY <2>1 DEF Phases
    <2> QED BY <2>2 DEF OnePhase
<1> QED BY <1>1, <1>2

\* Only the execution of this run writes to the map, and only its phase.
LEMMA NextTraceOK == IInv /\ [Next]_vars => TraceOK'
<1> SUFFICES ASSUME IInv, [Next]_vars
             PROVE  TraceOK'
    OBVIOUS
<1> USE DEF parentVars, serverVars, childVars, mapVars
<1>0. TypeOK /\ PipeOK /\ DeathOK /\ ChildOK /\ TraceOK
    BY DEF IInv
<1>1. CASE PipeFailure
    BY <1>0, <1>1, TraceUntouched DEF PipeFailure, PipeFails, Parent, NotForked
<1>2. CASE ReadHello \/ DisarmHello \/ GetPid \/ Arm \/ GetStatus \/ ForgetPid \/ Disarm \/ Report
    BY <1>0, <1>2, TraceUntouched
        DEF ReadHello, DisarmHello, GetPid, Arm, GetStatus, ForgetPid, Disarm, Report, Parent,
            NotForked
<1>3. CASE StartRun
    BY <1>3, TraceErased DEF StartRun
<1>4. CASE Quit \/ Return
    BY <1>0, <1>4, TraceUntouched DEF Quit, Return, Returned, Parent, NotForked
<1>5. CASE Request
    BY <1>0, <1>5, TraceUntouched DEF Request, Parent, NotForked
<1>6. CASE Alarm
    <2>1. CASE UNCHANGED childVars
        BY <1>0, <1>6, <2>1, AlarmFacts, TraceUntouched DEF NotForked
    <2>2. CASE Killed
        <3>1. UNCHANGED <<ppc, ctl, fpc, trace_bits, is_persistent, stop_soon, run>>
            BY <1>6, <2>2, AlarmFacts DEF Killed
        <3>2. CASE cstate \in Active
            <4>1. outcome'.kind # "stopped" /\ cstate' = "zombie"
                BY <2>2, <3>2 DEF Killed
            <4>2. ~stop_soon /\ is_persistent => OnePhase(trace_bits)'
                BY <1>0, <3>1, <3>2, <4>1, TraceOfTheDead
            <4> QED BY <1>0, <3>1, <4>1, <4>2 DEF TraceOK, NotForked
        <3>3. CASE cstate \notin Active
            <4>1. cstate = "stopped" /\ cstate' = "zombie"
                BY <1>0, <2>2, <3>3 DEF Killed, TypeOK
            <4>2. ~stop_soon /\ is_persistent => OnePhase(trace_bits)'
                BY <1>0, <3>1, <4>1 DEF TraceOK, OnePhase, Phases
            <4> QED BY <1>0, <3>1, <4>1, <4>2 DEF TraceOK, NotForked
        <3> QED BY <3>2, <3>3
    <2> QED BY <1>6, <2>1, <2>2, AlarmFacts
<1>7. CASE StopSignal
    BY <1>7 DEF StopSignal, TraceOK
<1>8. CASE SayHello
    <2>1. fpc = "hello" /\ fpc' = "read" /\ UNCHANGED <<ppc, ctl, trace_bits, is_persistent>>
        BY <1>8 DEF SayHello, Server
    <2>2. ppc = "hello" /\ ctl = <<>>
        BY <1>0, <2>1 DEF TypeOK, PipeOK, Quiet
    <2> QED BY <1>0, <1>8, <2>1, <2>2, TraceUntouched DEF SayHello, Server, NotForked
<1>9. CASE ReadRequest
    BY <1>0, <1>9, TraceUntouched DEF ReadRequest, Server, NotForked
<1>10. CASE ReapKilled \/ Fork \/ Continue
    <2>1. ~stop_soon /\ NotForked /\ UNCHANGED trace_bits
        BY <1>0, <1>10 DEF ReapKilled, Fork, Continue, Server, NotForked, DeathOK
    <2> QED BY <1>0, <2>1, TraceErased DEF TraceOK
<1>11. CASE PutPid \/ ServerExits
    BY <1>0, <1>11, TraceUntouched DEF PutPid, ServerExits, Server, NotForked
<1>12. CASE WaitChild
    <2>1. /\ UNCHANGED <<trace_bits, outcome, is_persistent, stop_soon, run, ppc>>
          /\ fpc' = "putstatus"
          /\ UNCHANGED cstate \/ (cstate = "zombie" /\ cstate' = "gone")
        BY <1>12 DEF WaitChild, Server
    <2>2. UNCHANGED <<OnePhase(trace_bits), Phases(trace_bits)>>
        BY <2>1 DEF OnePhase, Phases
    <2> QED BY <1>0, <2>1, <2>2 DEF TraceOK, NotForked
<1>13. CASE PutStatus
    <2>1. ctl' = <<>> /\ ppc' # "req"
        BY <1>0, <1>13, PutStatusFacts DEF PutStatus, Server
    <2> QED BY <1>0, <1>13, <2>1, TraceUntouched DEF PutStatus, Server, NotForked
<1>14. CASE ChildStep
    <2>1. SUFFICES ASSUME ~stop_soon PROVE TraceOK'
        BY <1>14 DEF TraceOK, ChildStep, ChildStarts, FirstPass, LoopAgain, ChildLeaves, ChildDies,
            Child
    <2>2. cstate \in Active /\ UNCHANGED <<ppc, ctl, fpc, is_persistent, stop_soon, run>>
        BY <1>14 DEF ChildStep, ChildStarts, FirstPass, LoopAgain, ChildLeaves, ChildDies, Child,
            Active
    <2>3. crun = run /\ ~NotForked /\ ~NotForked'
        BY <1>0, <2>1, <2>2 DEF ChildOK, NotForked
    <2>4. \A w \in trace_bits : w.run = run
        BY <1>0, <2>1 DEF TraceOK
    <2>5. \A p : \A w \in Touch(trace_bits, p) : w.run = run
        BY <2>3, <2>4 DEF Touch
    <2>6. CASE ChildStarts
        <3>1. trace_bits' = Touch(trace_bits, "init") /\ cstate = "init" /\ cstate' = "setup"
            BY <2>6 DEF ChildStarts
        <3>2. is_persistent => Phases(trace_bits)' \subseteq {"init"}
            BY <1>0, <2>1, <3>1 DEF TraceOK, Phases, Touch
        <3> QED BY <2>2, <2>3, <2>5, <3>1, <3>2 DEF TraceOK
    <2>7. CASE FirstPass
        <3>1. trace_bits' = FirstPassTrace /\ cstate' = "body"
            BY <2>7 DEF FirstPass
        <3> QED BY <2>2, <2>3, <2>4, <3>1 DEF TraceOK, FirstPassTrace, Phases
    <2>8. CASE LoopAgain \/ (ChildDies /\ cstate = "body")
        <3>1. /\ trace_bits' = Touch(trace_bits, "body") /\ cstate = "body"
              /\ cstate' \in {"stopped", "post", "zombie"}
            BY <2>8 DEF LoopAgain, ChildDies
        <3>2. is_persistent => Phases(trace_bits)' \subseteq {"body"}
            BY <1>0, <2>1, <3>1 DEF TraceOK, Phases, Touch
        <3> QED BY <2>2, <2>3, <2>5, <3>1, <3>2 DEF TraceOK, OnePhase
    <2>9. CASE ChildLeaves \/ (ChildDies /\ cstate = "setup")
        <3>1. /\ UNCHANGED trace_bits /\ cstate' = "zombie"
              /\ \E d \in Deaths : outcome' = [run |-> crun, kind |-> d]
            BY <2>2, <2>9 DEF ChildLeaves, ChildDies, Ends
        <3>2. outcome'.kind # "stopped"
            BY <3>1 DEF Deaths
        <3>3. is_persistent => OnePhase(trace_bits)'
            BY <1>0, <2>1, <2>2, <3>1, <3>2, TraceOfTheDead
        <3> QED BY <2>2, <2>3, <2>4, <3>1, <3>3 DEF TraceOK
    <2> QED BY <1>14, <2>6, <2>7, <2>8, <2>9 DEF ChildStep, ChildDies
<1>15. CASE Exited \/ UNCHANGED vars
    BY <1>0, <1>15, TraceUntouched DEF Exited, vars, NotForked
<1> QED BY <1>1, <1>2, <1>3, <1>4, <1>5, <1>6, <1>7, <1>8, <1>9, <1>10, <1>11, <1>12, <1>13,
    <1>14, <1>15
        DEF Next, RunTarget, ServerStep

\* The invariant holds initially.
LEMMA InitInv == Init => IInv
<1> SUFFICES ASSUME Init PROVE IInv
    OBVIOUS
<1> USE ForkServerAssumption DEF Init
<1>1. TypeOK
    <2>1. {child_timed_out, prev_timed_out, stop_soon, timer, was_killed, child_stopped}
             \subseteq BOOLEAN
        OBVIOUS
    <2>2. outcome \in [run : 0 .. MaxRuns, kind : Kinds]
        BY DEF Kinds
    <2> QED BY <2>1, <2>2, PipeFacts DEF TypeOK, Kinds, Active, Unheeding
<1>2. PipeOK /\ DeathOK /\ TimerOK
    BY DEF PipeOK, DeathOK, TimerOK, Quiet, Gone
<1>3. ChildOK
    BY DEF ChildOK, NotForked, Active
<1>4. LateKillOK /\ StatusOK
    BY DEF LateKillOK, StatusOK, Collected
<1>5. TraceOK
    BY DEF TraceOK, OnePhase, Phases
<1> QED BY <1>1, <1>2, <1>3, <1>4, <1>5 DEF IInv

\* The inductive invariant holds in every reachable state.
LEMMA InvAlways == Spec => []IInv
<1>1. IInv /\ [Next]_vars => IInv'
    BY NextTypeOK, NextPipeOK, NextDeathOK, NextTimerOK, NextChildOK, NextLateKillOK,
       NextStatusOK, NextTraceOK DEF IInv
<1> QED BY <1>1, InitInv, PTL DEF Spec

-----------------------------------------------------------------------------
(* The properties of the runs.                                              *)

\* Every variable has its type, and the pipes between afl-fuzz and the fork
\* server never hold more than one request, nor more than a pid and a status.
THEOREM TypeCorrect == Spec => []TypeOK
<1>1. IInv => TypeOK
    BY DEF IInv
<1> QED BY <1>1, InvAlways, PTL

\* __afl_start_forkserver forks only when the last target has been reaped.
THEOREM ForkAfterReapAlways == Spec => []ForkAfterReap
<1>1. IInv => ForkAfterReap
    BY DEF IInv, ChildOK, ForkAfterReap
<1> QED BY <1>1, InvAlways, PTL

\* run_target reports what the execution of its own input did, in every order
\* of timeout, death, stop and status.
THEOREM ResultAlways == Spec => []ResultOfThisRun
<1>1. IInv => ResultOfThisRun
    <2> SUFFICES ASSUME IInv, ppc = "done", ~stop_soon
                 PROVE  /\ outcome.run = run
                        /\ fault = "FAULT_CRASH" <=> outcome.kind = "usr2"
                        /\ outcome.kind \in {"sigkill", "msan"} => fault = "FAULT_TMOUT"
                        /\ (fault = "FAULT_TMOUT" /\ outcome.kind \notin {"sigkill", "msan"})
                              => (outcome.kind = "stopped" /\ child_timed_out)
        BY DEF ResultOfThisRun
    <2>1. Told(status) /\ fault = Verdict
        BY DEF IInv, StatusOK, Collected
    <2> QED BY <2>1 DEF Told, Verdict, Deaths
<1> QED BY <1>1, InvAlways, PTL

\* The trace a caller of run_target reads was written by its own run, and in persistent mode
\* the code before or after the loop is never mixed into that of its body, whenever the
\* process dies or is killed.
THEOREM TraceAlways == Spec => []TraceOfThisRun
<1>1. IInv => TraceOfThisRun
    <2> SUFFICES ASSUME IInv, ppc = "done", ~stop_soon
                 PROVE  /\ \A w \in trace_bits : w.run = run
                        /\ is_persistent => OnePhase(trace_bits)
        BY DEF TraceOfThisRun
    <2>1. cstate \in {"stopped", "zombie", "gone"}
        BY DEF IInv, TypeOK, StatusOK, Collected
    <2> QED BY <2>1 DEF IInv, TraceOK, OnePhase
<1> QED BY <1>1, InvAlways, PTL

\* Ctrl-C leaves behind only a target whose pid afl-fuzz had not read.
THEOREM OrphansAlways == Spec => []OrphansUnknown
<1>1. IInv => OrphansUnknown
    BY DEF IInv, ChildOK, OrphansUnknown, Gone
<1> QED BY <1>1, InvAlways, PTL

-----------------------------------------------------------------------------
(* run_target as its callers see it.                                        *)

Running == {"req", "getpid", "arm", "wait", "forget", "disarm", "report"}

\* The phase of the abstract call, by the label of run_target.
LEMMA PhaseFacts ==
    /\ ppc \in {"hello", "hello_disarm", "idle", "unwind"} => phase = "idle"
    /\ ppc \in Running /\ ~(ppc = "req" /\ stop_soon) => phase = "running"
    /\ ppc = "req" /\ stop_soon => phase = "doomed"
    /\ ppc = "done" => phase = "answered"
    /\ Gone => phase = "over"
BY DEF phase, Running, Gone

\* The same after a step.
LEMMA PhaseFactsNext ==
    /\ ppc' \in {"hello", "hello_disarm", "idle", "unwind"} => phase' = "idle"
    /\ ppc' \in Running /\ ~(ppc = "req" /\ stop_soon)' => phase' = "running"
    /\ (ppc = "req" /\ stop_soon)' => phase' = "doomed"
    /\ ppc' = "done" => phase' = "answered"
    /\ ppc' \in {"halt", "fatal"} => phase' = "over"
BY DEF phase, Running, Gone

\* A step that changes neither the phase nor what the call shows is invisible.
LEMMA Invisible ==
    ASSUME phase' = phase, left' = left, UNCHANGED <<run, outcome, fault, stop_soon>>
    PROVE  UNCHANGED Abstract!vars
<1>1. end' = end
    BY DEF end
<1> QED BY <1>1 DEF Abstract!vars

\* The end of an execution is visible exactly while its call is running.
LEMMA EndVisible ==
    ASSUME IInv, cstate \in Active, NEW kind \in Deaths \cup {"stopped", "sigkill"},
           outcome' = [run |-> crun, kind |-> kind], UNCHANGED <<ppc, run>>,
           stop_soon' = stop_soon \/ ppc # "req"
    PROVE  /\ phase' = phase
           /\ \/ phase = "running" /\ end = "none" /\ end' = kind
              \/ end' = end
<1>1. phase' = phase
    BY DEF phase, Gone
<1>2. outcome.run < run /\ run \in Nat /\ outcome.run \in Nat
    BY ForkServerAssumption DEF IInv, TypeOK, ChildOK
<1>3. end = "none"
    BY <1>2 DEF end
<1>4. outcome'.run = crun /\ outcome'.kind = kind
    OBVIOUS
<1>5. CASE ppc \in {"getpid", "arm", "wait"} /\ crun = run
    <2>1. phase = "running"
        BY <1>5, PhaseFacts DEF Running
    <2> QED BY <1>1, <1>3, <1>4, <1>5, <2>1 DEF end
<1>6. CASE ~(ppc \in {"getpid", "arm", "wait"} /\ crun = run)
    <2>1. phase \in {"idle", "over", "doomed"}
        BY <1>6, PhaseFacts DEF IInv, ChildOK, Gone
    <2> QED BY <1>1, <1>3, <2>1 DEF end
<1> QED BY <1>5, <1>6

\* A step of the target, or of the timeout, that only ends its execution.
LEMMA EndStep ==
    ASSUME IInv, UNCHANGED <<ppc, run, fault, stop_soon, unheeding>>,
           \/ UNCHANGED outcome
           \/ \E kind \in Deaths \cup {"stopped", "sigkill"} :
                 cstate \in Active /\ outcome' = [run |-> crun, kind |-> kind]
    PROVE  Abstract!End \/ UNCHANGED Abstract!vars
<1>1. phase' = phase /\ left' = left
    BY DEF phase, left, Gone
<1>2. CASE UNCHANGED outcome
    BY <1>1, <1>2, Invisible
<1>3. CASE ~UNCHANGED outcome
    <2>1. PICK kind \in Deaths \cup {"stopped", "sigkill"} :
             cstate \in Active /\ outcome' = [run |-> crun, kind |-> kind]
        BY <1>3
    <2>2. \/ phase = "running" /\ end = "none" /\ end' = kind
          \/ end' = end
        BY <2>1, EndVisible
    <2> QED BY <1>1, <2>2 DEF Abstract!End, Abstract!vars, Deaths
<1> QED BY <1>2, <1>3

\* Every step of the pipes, signals and processes is a step of the abstract
\* call, or none.
LEMMA StepRefines ==
    ASSUME IInv, [Next]_vars
    PROVE  [Abstract!Next]_(Abstract!vars)
<1> USE DEF parentVars, serverVars, childVars, mapVars
<1>1. CASE PipeFailure
    <2>1. PICK from \in {"hello", "req", "getpid", "wait"} : PipeFails(from)
        BY <1>1 DEF PipeFailure
    <2>2. fpc = "dead" /\ ppc = from /\ UNCHANGED <<run, fault, stop_soon, unheeding>>
        BY <2>1 DEF PipeFails, Parent
    <2>3. CASE from = "hello"
        <3>1. ppc' = "fatal" /\ phase = "idle" /\ phase' = "over"
            BY <2>1, <2>2, <2>3, PhaseFacts, PhaseFactsNext DEF PipeFails, Parent
        <3>2. left' = 0 /\ end' = "none"
            BY <3>1 DEF left, end, Gone
        <3> QED BY <2>2, <3>1, <3>2 DEF Abstract!Next, Abstract!Leave
    <2>4. CASE from # "hello" /\ stop_soon
        <3>1. ppc' = "unwind" /\ phase \in {"running", "doomed"} /\ phase' = "idle"
            BY <2>1, <2>2, <2>4, PhaseFacts, PhaseFactsNext DEF PipeFails, Parent, Running
        <3>2. left' = left /\ end' = "none"
            BY <2>2, <2>4, <3>1 DEF left, end, Gone
        <3> QED BY <2>2, <2>4, <3>1, <3>2 DEF Abstract!Next, Abstract!Abort
    <2>5. CASE from # "hello" /\ ~stop_soon
        <3>1. ppc' = "fatal" /\ phase = "running" /\ phase' = "over"
            BY <2>1, <2>2, <2>5, PhaseFacts, PhaseFactsNext DEF PipeFails, Parent, Running
        <3>2. run = 1
            BY <2>2, <2>5 DEF IInv, DeathOK, Gone
        <3>3. left' = 0 /\ end' = "none"
            BY <3>1 DEF left, end, Gone
        <3> QED BY <2>2, <3>1, <3>2, <3>3 DEF Abstract!Next, Abstract!Leave
    <2> QED BY <2>3, <2>4, <2>5
<1>2. CASE ReadHello \/ DisarmHello
    <2>1. phase' = phase
        BY <1>2, PhaseFacts, PhaseFactsNext DEF ReadHello, DisarmHello, Parent
    <2>2. left' = left
        BY <1>2 DEF ReadHello, DisarmHello, Parent, left, Gone
    <2> QED BY <1>2, <2>1, <2>2, Invisible DEF ReadHello, DisarmHello, Parent
<1>3. CASE StartRun
    <2>1. /\ ppc \in {"idle", "unwind"} /\ ppc' = "req" /\ run' = run + 1
          /\ unheeding' \in NextCalls
          /\ run < MaxRuns /\ UNCHANGED <<outcome, fault, stop_soon>>
        BY <1>3 DEF StartRun, Parent
    <2>2. /\ outcome.run <= run /\ run \in Nat /\ outcome.run \in Nat
          /\ unheeding \in 0 .. Unheeding /\ stop_soon \in BOOLEAN
        BY ForkServerAssumption DEF IInv, TypeOK, ChildOK
    <2>3. phase = "idle" /\ phase' = IF stop_soon THEN "doomed" ELSE "running"
        BY <2>1, PhaseFacts, PhaseFactsNext DEF Running
    <2>4. end = "none" /\ end' = "none"
        BY <2>1, <2>2, <2>3 DEF end
    <2>5. CASE ~stop_soon
        <3>1. UNCHANGED left
            BY <2>1, <2>5 DEF left, Gone
        <3> QED BY <2>1, <2>3, <2>4, <2>5, <3>1 DEF Abstract!Next, Abstract!Call
    <2>6. CASE stop_soon /\ ppc = "unwind"
        <3>1. left = unheeding /\ left' = unheeding'
            BY <2>1, <2>6 DEF left, Gone
        <3>2. left' \in 0 .. left - 1
            BY <2>1, <2>6, <3>1 DEF NextCalls
        <3> QED BY <2>1, <2>3, <2>4, <2>6, <3>2 DEF Abstract!Next, Abstract!Call
    <2>7. CASE stop_soon /\ ppc = "idle"
        <3>1. left = Unheeding + 1 /\ left' = unheeding'
            BY <2>1, <2>7 DEF left, Gone
        <3>2. left' \in 0 .. left - 1
            BY <2>1, <2>7, <3>1 DEF NextCalls, Unheeding
        <3> QED BY <2>1, <2>3, <2>4, <2>7, <3>2 DEF Abstract!Next, Abstract!Call
    <2> QED BY <2>1, <2>5, <2>6, <2>7
<1>4. CASE Quit
    <2>1. /\ phase = "idle" /\ phase' = "over" /\ ppc' = "halt"
          /\ UNCHANGED <<run, fault, stop_soon>>
        BY <1>4, PhaseFacts, PhaseFactsNext DEF Quit, Parent
    <2>2. left' = 0 /\ end' = "none"
        BY <2>1 DEF left, end, Gone
    <2> QED BY <2>1, <2>2 DEF Abstract!Next, Abstract!Leave
<1>5. CASE Request \/ GetPid \/ Arm \/ GetStatus \/ ForgetPid \/ Disarm
    <2>1. /\ ppc \in Running /\ ppc' \in Running /\ ppc' # "req"
          /\ UNCHANGED <<run, outcome, fault, stop_soon, unheeding>>
        BY <1>5 DEF Request, GetPid, Arm, GetStatus, ForgetPid, Disarm, Parent, Running
    <2>2. ppc = "req" => ~stop_soon
        BY <1>5 DEF Request, GetPid, Arm, GetStatus, ForgetPid, Disarm, Parent, IInv, DeathOK
    <2>3. phase' = phase
        BY <2>1, <2>2, PhaseFacts, PhaseFactsNext
    <2>4. left' = left
        BY <2>1 DEF left, Gone, Running
    <2> QED BY <2>1, <2>3, <2>4, Invisible
<1>6. CASE Report
    <2>1. /\ phase = "running" /\ phase' = "answered" /\ fault' = Verdict
          /\ UNCHANGED <<run, outcome, stop_soon, unheeding>>
          /\ ppc = "report" /\ ppc' = "done"
        BY <1>6, PhaseFacts, PhaseFactsNext DEF Report, Parent, Running
    <2>2. Told(status)
        BY <2>1 DEF IInv, StatusOK, Collected
    <2>3. end = outcome.kind /\ end' = end
        BY <2>1, <2>2 DEF end, Told
    <2>4. end # "none" /\ (stop_soon \/ fault' \in Abstract!Fits(end))
        BY <2>1, <2>2, <2>3 DEF Told, Deaths, Verdict, Abstract!Fits
    <2>5. fault' \in {"FAULT_NONE", "FAULT_TMOUT", "FAULT_CRASH"}
        BY <2>1 DEF Verdict
    <2>6. left' = left
        BY <2>1 DEF left, Gone
    <2> QED BY <2>1, <2>3, <2>4, <2>5, <2>6 DEF Abstract!Next, Abstract!Answer
<1>7. CASE Return
    <2>1. /\ ppc = "done" /\ ppc' = Returned /\ fault' = "none"
          /\ UNCHANGED <<run, stop_soon, unheeding>>
        BY <1>7 DEF Return, Parent
    <2>2. phase = "answered" /\ phase' = "idle"
        BY <2>1, PhaseFacts, PhaseFactsNext DEF Returned
    <2>3. left' = left /\ end' = "none"
        BY <2>1, <2>2 DEF left, end, Gone, Returned
    <2> QED BY <2>1, <2>2, <2>3 DEF Abstract!Next, Abstract!Back
<1>8. CASE Alarm
    <2>1. UNCHANGED <<ppc, run, fault, stop_soon, unheeding>>
        BY <1>8 DEF Alarm
    <2>2. Kill(child_pid) \/ UNCHANGED childVars
        BY <1>8 DEF Alarm, TimeoutKills
    <2>3. \/ UNCHANGED outcome
          \/ cstate \in Active /\ outcome' = [run |-> crun, kind |-> "sigkill"]
        BY <2>2, KillFacts DEF Killed
    <2> QED BY <2>1, <2>3, EndStep DEF Abstract!Next
<1>9. CASE StopSignal
    <2>1. UNCHANGED <<ppc, run, fault, unheeding>> /\ ~stop_soon /\ stop_soon' = TRUE /\ ~Gone
        BY <1>9 DEF StopSignal
    <2>2. left' \in 0 .. left
        <3>1. left = Unheeding + 1 /\ left' \in {Unheeding + 1, unheeding}
            BY <2>1 DEF left, Gone
        <3>2. unheeding \in 0 .. Unheeding
            BY DEF IInv, TypeOK
        <3> QED BY <3>1, <3>2 DEF Unheeding
    <2>3. \/ UNCHANGED outcome
          \/ cstate \in Active /\ outcome' = [run |-> crun, kind |-> "sigkill"]
        BY <1>9, KillFacts DEF StopSignal, StopKills, Killed
    <2>4. CASE ppc = "req"
        <3>1. phase = "running" /\ phase' = "doomed"
            BY <2>1, <2>4, PhaseFacts, PhaseFactsNext DEF Running
        <3>2. outcome.run < run /\ run \in Nat /\ outcome.run \in Nat
            BY <2>4, ForkServerAssumption DEF IInv, TypeOK, ChildOK, NotForked
        <3>3. end = "none" /\ end' = "none"
            BY <3>1, <3>2 DEF end
        <3> QED BY <2>1, <2>2, <3>1, <3>3 DEF Abstract!Next, Abstract!Stop
    <2>5. CASE ppc # "req" /\ UNCHANGED outcome
        <3>1. phase' = phase
            BY <2>1, <2>5 DEF phase, Gone
        <3>2. end' = end
            BY <2>1, <2>5, <3>1 DEF end
        <3> QED BY <2>1, <2>2, <3>1, <3>2 DEF Abstract!Next, Abstract!Stop
    <2>6. CASE ppc # "req" /\ ~UNCHANGED outcome
        <3>1. /\ phase' = phase
              /\ \/ phase = "running" /\ end = "none" /\ end' = "sigkill"
                 \/ end' = end
            BY <2>1, <2>3, <2>6, EndVisible
        <3> QED BY <2>1, <2>2, <3>1 DEF Abstract!Next, Abstract!Stop
    <2> QED BY <2>4, <2>5, <2>6
<1>10. CASE ServerStep
    <2>1. UNCHANGED <<ppc, run, outcome, fault, stop_soon, unheeding>>
        BY <1>10 DEF ServerStep, SayHello, ReadRequest, ReapKilled, Fork, Continue, PutPid,
            WaitChild, PutStatus, ServerExits, Server
    <2> QED BY <2>1, EndStep DEF Abstract!Next
<1>11. CASE ChildStep
    <2>1. UNCHANGED <<ppc, run, fault, stop_soon, unheeding>>
        BY <1>11 DEF ChildStep, ChildStarts, FirstPass, LoopAgain, ChildLeaves, ChildDies,
            Child
    <2>2. \/ UNCHANGED outcome
          \/ \E kind \in Deaths \cup {"stopped", "sigkill"} :
                cstate \in Active /\ outcome' = [run |-> crun, kind |-> kind]
        BY <1>11 DEF ChildStep, ChildStarts, FirstPass, LoopAgain, ChildLeaves, ChildDies,
            Ends, Deaths, Active
    <2> QED BY <2>1, <2>2, EndStep DEF Abstract!Next
<1>12. CASE Exited \/ UNCHANGED vars
    <2>1. UNCHANGED <<ppc, run, outcome, fault, stop_soon, unheeding>>
        BY <1>12 DEF Exited, vars
    <2> QED BY <2>1, EndStep DEF Abstract!Next
<1> QED BY <1>1, <1>2, <1>3, <1>4, <1>5, <1>6, <1>7, <1>8, <1>9, <1>10, <1>11, <1>12
        DEF Next, RunTarget

\* afl-fuzz, the fork server and the target, with their pipes, signals and
\* timeouts, implement run_target as its callers see it: one answer per call,
\* after the end of that call's execution and fitting it; at most three calls
\* begin after Ctrl-C, and they execute nothing.
THEOREM Refinement == Spec => ImplementsTargetRun
<1>1. Init => Abstract!Init
    <2> SUFFICES ASSUME Init PROVE Abstract!Init
        OBVIOUS
    <2>1. phase = "idle"
        BY PhaseFacts DEF Init
    <2>2. end = "none"
        BY <2>1 DEF end
    <2>3. left = Unheeding + 1
        BY DEF Init, left, Gone
    <2> QED BY <2>1, <2>2, <2>3 DEF Init, Abstract!Init
<1> QED BY <1>1, InvAlways, StepRefines, PTL
        DEF Spec, ImplementsTargetRun, Abstract!Spec
=============================================================================
