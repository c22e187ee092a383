----------------------------- MODULE TargetRun -----------------------------
(***************************************************************************)
(* What run_target promises its callers: a call is answered only after the *)
(* execution of its own input has ended, once, and with a fault that fits  *)
(* that end.  Ctrl-C may abort a call or spoil its answer, and only so     *)
(* many calls may still begin after it, which execute nothing.  How the    *)
(* fork server does it is not seen.                                        *)
(***************************************************************************)
EXTENDS Naturals

CONSTANTS
    MaxRuns,
    MaxLeft      \* calls that may begin after Ctrl-C

VARIABLES call, phase, end, answer, stopping,
    left         \* how many more calls may begin if afl-fuzz is stopping

vars == <<call, phase, end, answer, stopping, left>>

\* the faults that fit an end; an execution that stopped itself to wait for its next
\* input may still be late
Fits(kind) ==
    CASE kind = "usr2" -> {"FAULT_CRASH"}
      [] kind \in {"sigkill", "msan"} -> {"FAULT_TMOUT"}
      [] kind = "stopped" -> {"FAULT_NONE", "FAULT_TMOUT"}
      [] OTHER -> {"FAULT_NONE"}

Init == /\ call = 0 /\ phase = "idle" /\ end = "none" /\ answer = "none" /\ stopping = FALSE
        /\ left = MaxLeft

Call ==
    /\ phase = "idle" /\ call < MaxRuns
    /\ call' = call + 1
    /\ IF stopping THEN phase' = "doomed" /\ left' \in 0 .. left - 1
                   ELSE phase' = "running" /\ UNCHANGED left
    /\ UNCHANGED <<end, answer, stopping>>

\* the target's doing, or the timeout's
End ==
    /\ phase = "running" /\ end = "none"
    /\ end' \in {"exit", "usr2", "signal", "msan", "stopped", "sigkill"}
    /\ UNCHANGED <<call, phase, answer, stopping, left>>

Answer ==
    /\ phase = "running" /\ phase' = "answered"
    /\ \/ end # "none" /\ answer' \in Fits(end)
       \/ stopping /\ answer' \in {"FAULT_NONE", "FAULT_TMOUT", "FAULT_CRASH"}
    /\ UNCHANGED <<call, end, stopping, left>>

Back ==
    /\ phase = "answered" /\ phase' = "idle" /\ end' = "none" /\ answer' = "none"
    /\ UNCHANGED <<call, stopping, left>>

\* SIGINT, SIGTERM; it may end the execution too, or come before there is one
Stop ==
    /\ ~stopping /\ stopping' = TRUE /\ left' \in 0 .. left
    /\ \/ UNCHANGED <<phase, end>>
       \/ /\ phase = "running" /\ end = "none"
          /\ \/ end' = "sigkill" /\ UNCHANGED phase
             \/ phase' = "doomed" /\ UNCHANGED end
    /\ UNCHANGED <<call, answer>>

Abort ==
    /\ phase \in {"running", "doomed"} /\ stopping
    /\ phase' = "idle" /\ end' = "none"
    /\ UNCHANGED <<call, answer, stopping, left>>

\* afl-fuzz exits; before the first answer also because the fork server does not start
Leave ==
    /\ \/ phase = "idle"
       \/ phase = "running" /\ call = 1
    /\ phase' = "over" /\ end' = "none" /\ left' = 0
    /\ UNCHANGED <<call, answer, stopping>>

Next == Call \/ End \/ Answer \/ Back \/ Stop \/ Abort \/ Leave

Spec == Init /\ [][Next]_vars
=============================================================================
