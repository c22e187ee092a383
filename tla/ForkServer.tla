----------------------------- MODULE ForkServer -----------------------------
(***************************************************************************)
(* One execution of the target per call of run_target: afl-fuzz, the fork  *)
(* server inside the instrumented binary and the forked target process run *)
(* concurrently, joined by two pipes, process signals and the shared map.  *)
(* SIGALRM (the execution timeout) and SIGINT/SIGTERM may arrive between    *)
(* any two steps of afl-fuzz.                                               *)
(***************************************************************************)
EXTENDS Integers, Sequences

CONSTANTS
    Modes,        \* values of is_persistent considered
    LoopCount,    \* the argument of __AFL_LOOP
    MaxRuns,      \* bound on calls of run_target
    AllowStop     \* may the user press Ctrl-C?

ASSUME ForkServerAssumption ==
    /\ Modes \subseteq BOOLEAN /\ AllowStop \in BOOLEAN
    /\ LoopCount \in Nat \ {0} /\ MaxRuns \in Nat

VARIABLES
    \* afl-fuzz: label, globals, locals of run_target, number of the call, and how many of
    \* the functions around it will not test stop_soon when it returns
    ppc, child_pid, child_timed_out, prev_timed_out, stop_soon, timer,
    status, fault, run, unheeding,
    \* the control and the status pipe
    ctl, st,
    \* fork server: label and locals of __afl_start_forkserver
    fpc, was_killed, child_stopped, fstatus,
    \* the target uses __AFL_LOOP (PERSIST_ENV_VAR is set)
    is_persistent,
    \* the target: pid, state, exit kind, call it executes, cycle_cnt
    pid, cstate, cexit, crun, cycle_cnt,
    \* what wrote to trace_bits and hybrid_bits since they were last cleared
    trace_bits, hybrid_bits,
    \* history: how the target's last execution ended, and the call it served; child_pid
    \* when the user pressed Ctrl-C
    outcome, stop_pid

parentVars == <<ppc, child_pid, child_timed_out, prev_timed_out, stop_soon, stop_pid, timer,
                status, fault, run, unheeding>>
serverVars == <<fpc, was_killed, child_stopped, fstatus>>
childVars  == <<pid, cstate, cexit, crun, cycle_cnt, outcome>>
mapVars    == <<trace_bits, hybrid_bits>>
vars == <<parentVars, serverVars, childVars, mapVars, ctl, st, is_persistent>>

Deaths == {"exit", "usr2", "signal", "msan"}   \* ends the target chooses itself
Active == {"init", "setup", "body", "post"}    \* the target is executing

\* save_if_interesting calls calibrate_case, or run_target for a hang, and sync_fuzzers
\* calls save_if_interesting: neither tests stop_soon after it, nor does main after the
\* sync_fuzzers of AFL_IMPORT_FIRST
Unheeding == 2

Init ==
    /\ ppc = "hello" /\ child_pid = -1 /\ child_timed_out = FALSE
    /\ prev_timed_out = FALSE /\ stop_soon = FALSE /\ stop_pid = 0 /\ timer = TRUE
    /\ status = "none" /\ fault = "none" /\ run = 0 /\ unheeding = 0
    /\ ctl = <<>> /\ st = <<>>
    /\ fpc = "hello" /\ was_killed = FALSE /\ child_stopped = FALSE /\ fstatus = "none"
    /\ is_persistent \in Modes
    /\ pid = 0 /\ cstate = "gone" /\ cexit = "none" /\ crun = 0 /\ cycle_cnt = 0
    /\ trace_bits = {} /\ hybrid_bits = {}
    /\ outcome = [run |-> 0, kind |-> "none"]

-----------------------------------------------------------------------------
(* Signals.                                                                 *)

Gone == ppc \in {"halt", "fatal"}     \* afl-fuzz has exited

\* the execution of the current call ends
Ends(kind) == outcome' = IF cstate \in Active THEN [run |-> crun, kind |-> kind] ELSE outcome

\* kill(p, SIGKILL), where p may be stale or the pid of a stopped process
Kill(p) ==
    IF p = pid /\ cstate \notin {"gone", "zombie"}
    THEN /\ Ends("sigkill")
         /\ cstate' = "zombie" /\ cexit' = "sigkill"
         /\ UNCHANGED <<pid, crun, cycle_cnt>>
    ELSE UNCHANGED childVars

\* handle_timeout; child_pid is -1 until the first run, so a timeout then is
\* one of the fork server's hello
OnlyFlag(p) == UNCHANGED childVars
TimeoutKills(p) == Kill(p)

NoChild == child_pid <= 0
ServerStarting == child_pid = -1

Alarm ==
    /\ timer /\ ~Gone
    /\ timer' = FALSE
    /\ \/ /\ child_pid > 0
          /\ child_timed_out' = TRUE /\ TimeoutKills(child_pid)
          /\ UNCHANGED fpc
       \/ /\ ServerStarting
          /\ child_timed_out' = TRUE /\ fpc' = "dead"
          /\ UNCHANGED childVars
       \/ /\ child_pid <= 0 /\ ~ServerStarting
          /\ UNCHANGED <<child_timed_out, fpc, childVars>>
    /\ UNCHANGED <<ppc, child_pid, prev_timed_out, stop_soon, stop_pid, status, fault, run,
                   unheeding, ctl, st, was_killed, child_stopped, fstatus, mapVars, is_persistent>>

\* handle_stop_sig
StopKills(p) == Kill(p)

StopSignal ==
    /\ AllowStop /\ ~stop_soon /\ ~Gone
    /\ stop_soon' = TRUE /\ stop_pid' = child_pid
    /\ IF child_pid > 0 THEN StopKills(child_pid) ELSE UNCHANGED childVars
    /\ fpc' = "dead"
    /\ UNCHANGED <<ppc, child_pid, child_timed_out, prev_timed_out, timer, status, fault,
                   run, unheeding, ctl, st, was_killed, child_stopped, fstatus, mapVars, is_persistent>>

-----------------------------------------------------------------------------
(* afl-fuzz: the end of init_forkserver, then run_target over and over.     *)

Parent(from, to) ==
    ppc = from /\ ppc' = to /\ UNCHANGED <<serverVars, childVars, is_persistent>>

\* a call has returned: its caller, or one further out, tests stop_soon
Returned == IF stop_soon THEN "unwind" ELSE "idle"

\* a pipe operation fails because the fork server is dead: run_target returns
\* early if afl-fuzz is stopping (the timer stays armed), else it is an error
PipeFails(from) ==
    /\ Parent(from, IF stop_soon /\ from # "hello" THEN "unwind" ELSE "fatal")
    /\ fpc = "dead"
    /\ from # "req" => st = <<>>
    /\ UNCHANGED <<child_pid, child_timed_out, prev_timed_out, stop_soon, stop_pid, timer,
                   status, fault, run, unheeding, ctl, st, mapVars>>

PipeFailure == \E from \in {"hello", "req", "getpid", "wait"} : PipeFails(from)

ReadHello ==
    /\ Parent("hello", "hello_disarm") /\ st # <<>>
    /\ st' = Tail(st)
    /\ UNCHANGED <<child_pid, child_timed_out, prev_timed_out, stop_soon, stop_pid, timer,
                   status, fault, run, unheeding, ctl, mapVars>>

\* setitimer with a zero value: after the hello, and after a run
DisarmHello ==
    /\ Parent("hello_disarm", "idle") /\ timer' = FALSE
    /\ UNCHANGED <<child_pid, child_timed_out, prev_timed_out, stop_soon, stop_pid, status,
                   fault, run, unheeding, ctl, st, mapVars>>

\* What the call about to begin may be.  stop_soon is tested when a call has returned and
\* not again before the next one, so Ctrl-C may come in between; and the functions that
\* do not test it go on to one more call each.
NextCalls == IF ppc = "unwind" THEN 0 .. unheeding - 1
             ELSE IF run = 0 THEN {0} ELSE 0 .. Unheeding

\* run_target is called: both maps are cleared
StartRun ==
    /\ \E from \in {"idle", "unwind"} : Parent(from, "req")
    /\ run < MaxRuns /\ run' = run + 1
    /\ unheeding' \in NextCalls
    /\ child_timed_out' = FALSE /\ trace_bits' = {} /\ hybrid_bits' = {}
    /\ UNCHANGED <<child_pid, prev_timed_out, stop_soon, stop_pid, timer, status, fault, ctl, st>>

\* a caller of run_target has seen stop_soon, or fuzzing is over
Quit ==
    /\ \/ Parent("unwind", "halt")
       \/ Parent("idle", "halt") /\ (stop_soon \/ run = MaxRuns)
    /\ UNCHANGED <<child_pid, child_timed_out, prev_timed_out, stop_soon, stop_pid, timer, status,
                   fault, run, unheeding, ctl, st, mapVars>>

RequestedTwice == ctl \o <<prev_timed_out, prev_timed_out>>
Requested == Append(ctl, prev_timed_out)

Request ==
    /\ Parent("req", "getpid") /\ fpc # "dead"
    /\ ctl' = Requested
    /\ UNCHANGED <<child_pid, child_timed_out, prev_timed_out, stop_soon, stop_pid, timer,
                   status, fault, run, unheeding, st, mapVars>>

GetPid ==
    /\ Parent("getpid", "arm") /\ st # <<>>
    /\ child_pid' = Head(st) /\ st' = Tail(st)
    /\ UNCHANGED <<child_timed_out, prev_timed_out, stop_soon, stop_pid, timer, status, fault,
                   run, unheeding, ctl, mapVars>>

Arm ==
    /\ Parent("arm", "wait") /\ timer' = TRUE
    /\ UNCHANGED <<child_pid, child_timed_out, prev_timed_out, stop_soon, stop_pid, status,
                   fault, run, unheeding, ctl, st, mapVars>>

GetStatus ==
    /\ Parent("wait", "forget") /\ st # <<>>
    /\ status' = Head(st) /\ st' = Tail(st)
    /\ UNCHANGED <<child_pid, child_timed_out, prev_timed_out, stop_soon, stop_pid, timer,
                   fault, run, unheeding, ctl, mapVars>>

\* a process that was reaped is forgotten; a stopped one stays known
ForgetPid ==
    /\ Parent("forget", "disarm")
    /\ child_pid' = IF status = "stopped" THEN child_pid ELSE 0
    /\ UNCHANGED <<child_timed_out, prev_timed_out, stop_soon, stop_pid, timer, status, fault,
                   run, unheeding, ctl, st, mapVars>>

Disarm ==
    /\ Parent("disarm", "report") /\ timer' = FALSE
    /\ UNCHANGED <<child_pid, child_timed_out, prev_timed_out, stop_soon, stop_pid, status,
                   fault, run, unheeding, ctl, st, mapVars>>

\* the outcome reported to the caller (the target uses a sanitizer)
Verdict ==
    IF status = "sigkill" /\ child_timed_out /\ ~stop_soon THEN "FAULT_TMOUT"
    ELSE IF status = "usr2" /\ ~stop_soon THEN "FAULT_CRASH"
    ELSE IF status = "msan" THEN "FAULT_TMOUT"
    ELSE "FAULT_NONE"

Report ==
    /\ Parent("report", "done")
    /\ prev_timed_out' = child_timed_out /\ fault' = Verdict
    /\ UNCHANGED <<child_pid, child_timed_out, stop_soon, stop_pid, timer, status, run,
                   unheeding, ctl, st, mapVars>>

Return ==
    /\ Parent("done", Returned) /\ fault' = "none" /\ status' = "none"
    /\ UNCHANGED <<child_pid, child_timed_out, prev_timed_out, stop_soon, stop_pid, timer, run,
                   unheeding, ctl, st, mapVars>>

RunTarget == \/ PipeFailure \/ ReadHello \/ DisarmHello \/ StartRun \/ Quit \/ Request
             \/ GetPid \/ Arm \/ GetStatus \/ ForgetPid \/ Disarm \/ Report \/ Return

-----------------------------------------------------------------------------
(* The fork server.                                                         *)

Server(from, to) ==
    fpc = from /\ fpc' = to /\ UNCHANGED <<parentVars, mapVars, is_persistent>>

SayHello ==
    /\ Server("hello", "read") /\ st' = Append(st, "hello")
    /\ UNCHANGED <<was_killed, child_stopped, fstatus, childVars, ctl>>

ReadRequest ==
    /\ Server("read", "reap") /\ ctl # <<>>
    /\ was_killed' = Head(ctl) /\ ctl' = Tail(ctl)
    /\ UNCHANGED <<child_stopped, fstatus, childVars, st>>

\* a stopped child that afl-fuzz has killed is written off: waitpid blocks
\* until it is dead
NeverWriteOff == FALSE
WriteOff == child_stopped /\ was_killed

ReapKilled ==
    /\ Server("reap", "spawn")
    /\ IF WriteOff
       THEN /\ cstate = "zombie" /\ cstate' = "gone" /\ child_stopped' = FALSE
            /\ UNCHANGED <<pid, cexit, crun, cycle_cnt, outcome>>
       ELSE UNCHANGED <<child_stopped, childVars>>
    /\ UNCHANGED <<was_killed, fstatus, ctl, st>>

\* fork(), or SIGCONT to the stopped child
Fork ==
    /\ Server("spawn", "putpid") /\ ~child_stopped
    /\ pid' = pid + 1 /\ cstate' = "init" /\ cexit' = "none" /\ crun' = run
    /\ UNCHANGED <<cycle_cnt, outcome, was_killed, child_stopped, fstatus, ctl, st>>

Continue ==
    /\ Server("spawn", "putpid") /\ child_stopped
    /\ child_stopped' = FALSE
    /\ IF cstate = "stopped" THEN cstate' = "body" /\ crun' = run
                             ELSE UNCHANGED <<cstate, crun>>
    /\ UNCHANGED <<pid, cexit, cycle_cnt, outcome, was_killed, fstatus, ctl, st>>

PutPid ==
    /\ Server("putpid", "wait") /\ ~Gone /\ st' = Append(st, pid)
    /\ UNCHANGED <<was_killed, child_stopped, fstatus, childVars, ctl>>

StopUnnoticed == FALSE
StopNoticed == TRUE

\* waitpid: the child is dead, or (WUNTRACED) has stopped itself
WaitChild ==
    /\ Server("wait", "putstatus")
    /\ \/ /\ cstate = "zombie" /\ cstate' = "gone" /\ fstatus' = cexit
          /\ UNCHANGED child_stopped
       \/ /\ cstate = "stopped" /\ fstatus' = "stopped" /\ child_stopped' = StopNoticed
          /\ UNCHANGED cstate
    /\ UNCHANGED <<was_killed, pid, cexit, crun, cycle_cnt, outcome, ctl, st>>

PutStatus ==
    /\ Server("putstatus", "read") /\ ~Gone /\ st' = Append(st, fstatus)
    /\ UNCHANGED <<was_killed, child_stopped, fstatus, childVars, ctl>>

\* afl-fuzz is gone: reads and writes of the pipes fail
ServerExits ==
    /\ Gone /\ \E from \in {"read", "putpid", "putstatus"} : Server(from, "dead")
    /\ UNCHANGED <<was_killed, child_stopped, fstatus, childVars, ctl, st>>

ServerStep == SayHello \/ ReadRequest \/ ReapKilled \/ Fork \/ Continue \/ PutPid
              \/ WaitChild \/ PutStatus \/ ServerExits

-----------------------------------------------------------------------------
(* The target.  It may also hang: none of its steps is fair.                *)

Touch(map, phase) == map \cup {[phase |-> phase, run |-> crun]}

Child == UNCHANGED <<parentVars, serverVars, pid, crun, ctl, st, is_persistent>>

\* code that runs before __AFL_LOOP is reached
ChildStarts ==
    /\ cstate = "init" /\ cstate' = "setup" /\ Child
    /\ trace_bits' = Touch(trace_bits, "init") /\ hybrid_bits' = Touch(hybrid_bits, "init")
    /\ UNCHANGED <<cexit, cycle_cnt, outcome>>

\* the first call of __afl_persistent_loop erases the trace (but not the hybrid counts) of
\* what happened before
UnclearedTrace == trace_bits
FirstPassTrace == IF is_persistent THEN {} ELSE trace_bits

FirstPass ==
    /\ cstate = "setup" /\ cstate' = "body" /\ Child
    /\ trace_bits' = FirstPassTrace
    /\ cycle_cnt' = LoopCount
    /\ UNCHANGED <<hybrid_bits, cexit, outcome>>

\* the input is processed and __afl_persistent_loop is called again
LoopAgain ==
    /\ cstate = "body" /\ is_persistent /\ Child
    /\ trace_bits' = Touch(trace_bits, "body") /\ hybrid_bits' = Touch(hybrid_bits, "body")
    /\ cycle_cnt' = cycle_cnt - 1
    /\ IF cycle_cnt > 1 THEN cstate' = "stopped" /\ Ends("stopped")
                        ELSE cstate' = "post" /\ UNCHANGED outcome
    /\ UNCHANGED cexit

\* code that follows the loop: only __afl_area_ptr was pivoted away
ChildLeaves ==
    /\ cstate = "post" /\ Child
    /\ hybrid_bits' = Touch(hybrid_bits, "post")
    /\ \E d \in Deaths : cstate' = "zombie" /\ cexit' = d /\ Ends(d)
    /\ UNCHANGED <<trace_bits, cycle_cnt>>

\* the process ends before the loop, or the input ends it
ChildDies ==
    /\ Child
    /\ \/ cstate = "setup" /\ UNCHANGED mapVars
       \/ /\ cstate = "body"
          /\ trace_bits' = Touch(trace_bits, "body") /\ hybrid_bits' = Touch(hybrid_bits, "body")
    /\ \E d \in Deaths : cstate' = "zombie" /\ cexit' = d /\ Ends(d)
    /\ UNCHANGED cycle_cnt

ChildStep == ChildStarts \/ FirstPass \/ LoopAgain \/ ChildLeaves \/ ChildDies

Exited == Gone /\ UNCHANGED vars

Next == RunTarget \/ Alarm \/ StopSignal \/ ServerStep \/ ChildStep \/ Exited

Spec == Init /\ [][Next]_vars

\* afl-fuzz and the fork server are scheduled, an armed timer expires; the
\* target itself may hang for ever
Fairness == WF_vars(RunTarget) /\ WF_vars(ServerStep) /\ WF_vars(Alarm)

FairSpec == Spec /\ Fairness

-----------------------------------------------------------------------------
(* Properties.                                                              *)

Kinds == Deaths \cup {"none", "stopped", "sigkill"}

\* Every variable has its type, and the pipes never hold more than one
\* request, nor more than a pid and a status.
TypeOK ==
    /\ ppc \in {"hello", "hello_disarm", "idle", "unwind", "req", "getpid", "arm", "wait", "forget",
                "disarm", "report", "done", "halt", "fatal"}
    /\ {child_pid, stop_pid} \subseteq -1 .. MaxRuns /\ pid \in 0 .. MaxRuns
    /\ is_persistent \in Modes
    /\ {child_timed_out, prev_timed_out, stop_soon, timer, was_killed, child_stopped}
          \subseteq BOOLEAN
    /\ status \in Kinds /\ fstatus \in Kinds /\ cexit \in Kinds
    /\ fault \in {"none", "FAULT_NONE", "FAULT_TMOUT", "FAULT_CRASH"}
    /\ unheeding \in 0 .. Unheeding
    /\ run \in 0 .. MaxRuns /\ crun \in 0 .. MaxRuns /\ cycle_cnt \in 0 .. LoopCount
    /\ Len(ctl) <= 1 /\ Len(st) <= 2
    /\ fpc \in {"hello", "read", "reap", "spawn", "putpid", "wait", "putstatus", "dead"}
    /\ cstate \in Active \cup {"stopped", "zombie", "gone"}
    /\ outcome \in [run : 0 .. MaxRuns, kind : Kinds]

\* run_target reports what the execution of its own input did, whatever the
\* order of timeout, death, stop and status.  FAULT_CRASH means SIGUSR2;
\* FAULT_TMOUT means that this execution was killed, that a sanitizer ended
\* it, or that the deadline passed after it had stopped itself.
ResultOfThisRun ==
    ppc = "done" /\ ~stop_soon =>
        /\ outcome.run = run
        /\ fault = "FAULT_CRASH" <=> outcome.kind = "usr2"
        /\ outcome.kind \in {"sigkill", "msan"} => fault = "FAULT_TMOUT"
        /\ (fault = "FAULT_TMOUT" /\ outcome.kind \notin {"sigkill", "msan"})
              => (outcome.kind = "stopped" /\ child_timed_out)

\* fork() is called only when the previous target process has been reaped:
\* no process is left behind to write to the map of a later run.
ForkAfterReap == fpc = "spawn" /\ ~child_stopped => cstate = "gone"

\* The phases that wrote to a map; what a persistent target leaves in it: the body of the
\* loop alone, or, of an execution that ended before the loop was reached, the code before it.
Phases(map) == {w.phase : w \in map}
OnePhase(map) ==
    \/ Phases(map) \subseteq {"body"}
    \/ Phases(map) = {"init"} /\ outcome.kind # "stopped"

\* The trace a caller of run_target reads was written by its own run, and in persistent mode
\* the code before or after the loop is never mixed into that of its body, whenever the
\* process dies or is killed.
TraceOfThisRun ==
    ppc = "done" /\ ~stop_soon =>
        /\ \A w \in trace_bits : w.run = run
        /\ is_persistent => OnePhase(trace_bits)

\* The same of the hybrid counts.
HybridOfThisRun ==
    ppc = "done" /\ ~stop_soon =>
        /\ \A w \in hybrid_bits : w.run = run
        /\ is_persistent => OnePhase(hybrid_bits)

\* Only Ctrl-C leaves a target executing when afl-fuzz has exited, and only one that
\* afl-fuzz did not know of when the signal came: the fork server had forked it, but its
\* pid was not read yet.
OrphansUnknown == Gone /\ cstate \in Active => stop_soon /\ stop_pid # pid

\* The pipes, the signals and the processes together implement run_target as its callers
\* see it: one answer per call, after the end of that call's execution and fitting it; at
\* most three calls begin after Ctrl-C, and they execute nothing.  A "fork server" error
\* ends afl-fuzz only before the first answer: no later race of timeouts and answers
\* desynchronises the pipes.
phase == CASE ppc \in {"hello", "hello_disarm", "idle", "unwind"} -> "idle"
           [] ppc = "done" -> "answered"
           [] ppc = "req" /\ stop_soon -> "doomed"
           [] Gone -> "over"
           [] OTHER -> "running"
end == IF phase \in {"running", "answered"} /\ outcome.run = run THEN outcome.kind ELSE "none"
left == IF Gone THEN 0
        ELSE IF ~stop_soon \/ ppc \in {"hello", "hello_disarm", "idle"} THEN Unheeding + 1
        ELSE unheeding

Abstract == INSTANCE TargetRun WITH
    call <- run, phase <- phase, end <- end, answer <- fault, stopping <- stop_soon,
    left <- left, MaxLeft <- Unheeding + 1

ImplementsTargetRun == Abstract!Spec

\* Every run of the target returns, even if the target hangs.
RunReturns == ppc = "req" ~> ppc \in {"done", "unwind", "fatal"}
=============================================================================
