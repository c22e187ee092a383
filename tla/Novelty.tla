------------------------------ MODULE Novelty ------------------------------
(***************************************************************************)
(* What afl-fuzz counts as new.  Every run leaves a trace; the virgin maps *)
(* remember which (byte, hit count class) pairs have been seen, and decide *)
(* which inputs are queued and which crashes and hangs are saved.  A       *)
(* queued entry is calibrated: run several times, its traces compared, the *)
(* calibration possibly cut short and retried.  What save_if_interesting   *)
(* does with the hybrid counts only labels the entry, and is left out.     *)
(***************************************************************************)
EXTENDS Naturals, Sequences, FiniteSets

CONSTANTS
    Words,          \* the words of the bitmap, each a set of bytes
    Class,          \* the hit count classes are 1 .. Class
    Traces,         \* the classified traces the target can produce
    CrashModes,     \* values of crash_mode considered
    Seeds,          \* entries read from the input directory
    MaxEntries,     \* bound on the queue
    MaxRuns,        \* bound on runs of the target
    CalCycles, CalCyclesLong, CalChances,    \* CAL_CYCLES ...
    KeepHang, KeepCrash,                     \* KEEP_UNIQUE_HANG, KEEP_UNIQUE_CRASH
    Generous        \* exec_tmout >= hang_tmout: hangs are not run again

Slots == UNION Words
AllTraces == [Slots -> 0 .. Class]
Full == 1 .. Class                \* a byte of a virgin map that is 0xff

ASSUME NoveltyAssumption ==
    /\ \A w, v \in Words : w = v \/ w \cap v = {}
    /\ Slots # {} /\ Seeds <= MaxEntries
    /\ Class \in Nat \ {0, 1} /\ Traces \subseteq AllTraces
    /\ CrashModes \subseteq {"FAULT_NONE", "FAULT_CRASH"}
    /\ {Seeds, MaxEntries, MaxRuns, KeepHang, KeepCrash} \subseteq Nat
    /\ {CalCycles, CalCyclesLong, CalChances} \subseteq Nat \ {0} /\ CalCycles <= CalCyclesLong
    /\ Generous \in BOOLEAN

Faults == {"FAULT_NONE", "FAULT_TMOUT", "FAULT_CRASH"}
NoTrace == [s \in Slots |-> Class + 1]       \* exec_cksum = 0

VARIABLES
    pc, crash_mode, stop_soon,
    \* the number of runs, the map of the last one and its verdict
    runs, trace_bits, fault,
    virgin_bits, virgin_tmout, virgin_crash, unique_hangs, unique_crashes,
    \* queue entries, and the bytes known to vary
    queue, var_bytes,
    \* locals of calibrate_case: entry, caller, counters, first_trace, flags
    cal,
    \* history: per entry and byte, the classes its compared runs showed; which
    \* entry first hit a byte; the paths judged as crashes; did a calibration start
    \* from the trace of another input
    seen, firstHit, crashes, staleFirst

mapVars == <<virgin_bits, virgin_tmout, virgin_crash, unique_hangs, unique_crashes>>
vars == <<pc, crash_mode, stop_soon, runs, trace_bits, fault, mapVars, queue, var_bytes, cal, seen,
          firstHit, crashes, staleFirst>>

NoCal == [q |-> 0, ret |-> "none", stage_cur |-> 0, stage_max |-> 0, first_run |-> FALSE,
          first_trace |-> NoTrace, new_bits |-> 0, var_detected |-> FALSE]

EntryOf(trace, cov) ==
    [exec_cksum |-> trace, has_new_cov |-> cov, var_behavior |-> FALSE, cal_failed |-> 0]

Init ==
    /\ pc = "dry" /\ crash_mode \in CrashModes /\ stop_soon = FALSE
    /\ runs = 0 /\ trace_bits = [s \in Slots |-> 0] /\ fault = "FAULT_NONE"
    /\ virgin_bits = [s \in Slots |-> Full] /\ virgin_tmout = [s \in Slots |-> Full]
    /\ virgin_crash = [s \in Slots |-> Full] /\ unique_hangs = 0 /\ unique_crashes = 0
    /\ queue = [i \in 1 .. Seeds |-> EntryOf(NoTrace, FALSE)] /\ var_bytes = {}
    /\ cal = NoCal
    /\ seen = [q \in 1 .. MaxEntries |-> [s \in Slots |-> {}]]
    /\ firstHit = [s \in Slots |-> 0] /\ crashes = {} /\ staleFirst = FALSE

-----------------------------------------------------------------------------
(* The bitmap algorithms.                                                   *)

\* has_new_bits works word by word: words that hold a new pair are updated, and
\* among them one with a pristine byte makes the result 2
Touched(virgin, trace) == {w \in Words : \E s \in w : trace[s] \in virgin[s]}

AnyNewIsTwo(virgin, trace) == IF Touched(virgin, trace) = {} THEN 0 ELSE 2
HasNewBits(virgin, trace) ==
    IF Touched(virgin, trace) = {} THEN 0
    ELSE IF \E w \in Touched(virgin, trace) : \E s \in w : trace[s] # 0 /\ virgin[s] = Full
         THEN 2 ELSE 1

Cleared(virgin, trace) ==
    [s \in Slots |-> IF s \in UNION Touched(virgin, trace) THEN virgin[s] \ {trace[s]}
                                                          ELSE virgin[s]]

\* simplify_trace: not hit becomes the lowest class, hit the highest
SimplifiedHits(trace) == [s \in Slots |-> IF trace[s] = 0 THEN 0 ELSE Class]
Simplified(trace) == [s \in Slots |-> IF trace[s] = 0 THEN 1 ELSE Class]

Hits(trace) == {s \in Slots : trace[s] # 0}

\* history: a run of entry q was compared
Observe(q, trace) ==
    /\ seen' = [seen EXCEPT ![q] = [s \in Slots |-> @[s] \cup {trace[s]}]]
    /\ firstHit' = [s \in Slots |-> IF firstHit[s] = 0 /\ trace[s] # 0 THEN q ELSE firstHit[s]]

\* run_target leaves its trace in trace_bits
RunTarget(t) == runs < MaxRuns /\ runs' = runs + 1 /\ trace_bits' = t

-----------------------------------------------------------------------------
(* calibrate_case.                                                          *)

\* the entry to calibrate is in queue', its trace (if known) was copied from
\* trace_bits'
CalBegin(q, ret) ==
    /\ pc' = "cal"
    /\ LET known == queue'[q].exec_cksum # NoTrace
       IN  /\ cal' = [q |-> q, ret |-> ret, stage_cur |-> 0, stage_max |-> CalCycles,
                      first_run |-> ~known, new_bits |-> 0, var_detected |-> FALSE,
                      first_trace |-> IF known THEN trace_bits' ELSE NoTrace]
           /\ staleFirst' = (staleFirst \/ (known /\ trace_bits' # queue'[q].exec_cksum))

\* abort_calibration: variable entries and new coverage are recorded in any case
CovOnly(e) == [e EXCEPT !.has_new_cov = @ \/ cal.new_bits = 2]
Conclude(e) ==
    [e EXCEPT !.has_new_cov = @ \/ cal.new_bits = 2, !.var_behavior = @ \/ cal.var_detected]

CalReturn(f) ==
    /\ cal' = NoCal
    /\ \/ cal.ret = "dry" /\ f \in {crash_mode, "FAULT_NOBITS", "FAULT_TMOUT", "FAULT_CRASH"}
          /\ pc' = "dry"
       \/ cal.ret = "dry" /\ f \notin {crash_mode, "FAULT_NOBITS"} /\ pc' = "halt"
       \/ cal.ret # "dry" /\ pc' = cal.ret

\* run_target was stopped, or its verdict is not the expected one, or the target
\* reports nothing on the first run.  perform_dry_run gives such a seed up, or ends.
CalAbort ==
    /\ pc = "cal" /\ cal.stage_cur < cal.stage_max
    /\ \E t \in Traces, f \in Faults, stop \in BOOLEAN :
          /\ stop \/ f # crash_mode \/ (cal.stage_cur = 0 /\ Hits(t) = {})
          /\ RunTarget(t) /\ stop_soon' = stop
          /\ IF stop THEN pc' = "halt" /\ cal' = NoCal
             ELSE CalReturn(IF f # crash_mode THEN f ELSE "FAULT_NOINST")
          /\ queue' = [queue EXCEPT ![cal.q] =
                          IF cal.ret = "dry" THEN [Conclude(@) EXCEPT !.cal_failed = CalChances]
                                             ELSE Conclude(@)]
    /\ UNCHANGED <<crash_mode, fault, mapVars, var_bytes, seen, firstHit, crashes, staleFirst>>

\* the first trace of an entry is what later ones are compared with
KeepFirst(t) == cal.first_trace
FirstTrace(t) == IF queue[cal.q].exec_cksum = NoTrace THEN t ELSE cal.first_trace

UnmergedFirst(t) == queue[cal.q].exec_cksum \notin {t, NoTrace}
Differs(t) == queue[cal.q].exec_cksum # t

CalRun ==
    /\ pc = "cal" /\ cal.stage_cur < cal.stage_max
    /\ \E t \in Traces :
          LET known  == queue[cal.q].exec_cksum # NoTrace
              varies == IF known /\ Differs(t)
                        THEN {s \in Slots \ var_bytes : cal.first_trace[s] # t[s]} ELSE {}
              hnb    == IF Differs(t) THEN HasNewBits(virgin_bits, t) ELSE 0
          IN  /\ cal.stage_cur = 0 => Hits(t) # {}
              /\ RunTarget(t)
              /\ virgin_bits' = IF Differs(t) THEN Cleared(virgin_bits, t) ELSE virgin_bits
              /\ var_bytes' = var_bytes \cup varies
              /\ queue' = [queue EXCEPT ![cal.q].exec_cksum = IF known THEN @ ELSE t]
              /\ cal' = [cal EXCEPT !.stage_cur = @ + 1, !.first_trace = FirstTrace(t),
                                    !.stage_max = IF varies # {} THEN CalCyclesLong ELSE @,
                                    !.new_bits = IF hnb > @ THEN hnb ELSE @,
                                    !.var_detected = @ \/ (known /\ Differs(t))]
              /\ Observe(cal.q, t)
    /\ UNCHANGED <<pc, crash_mode, stop_soon, fault, virgin_tmout, virgin_crash,
                   unique_hangs, unique_crashes, crashes, staleFirst>>

CalEnd ==
    /\ pc = "cal" /\ cal.stage_cur = cal.stage_max
    /\ queue' = [queue EXCEPT ![cal.q] = [Conclude(@) EXCEPT !.cal_failed = 0]]
    /\ CalReturn(IF cal.first_run /\ crash_mode = "FAULT_NONE" /\ cal.new_bits = 0
                 THEN "FAULT_NOBITS" ELSE crash_mode)
    /\ UNCHANGED <<crash_mode, stop_soon, runs, trace_bits, fault, mapVars, var_bytes, seen, firstHit,
                   crashes, staleFirst>>

-----------------------------------------------------------------------------
(* The callers of calibrate_case.                                           *)

Fails(q) == queue' = [queue EXCEPT ![q].cal_failed = @ + 1]

\* perform_dry_run takes the seeds in order
DryRun ==
    /\ pc = "dry"
    /\ LET left == {q \in 1 .. Seeds : queue[q].exec_cksum = NoTrace /\ queue[q].cal_failed = 0}
       IN  \/ \E q \in left : /\ \A p \in left : q <= p
                              /\ Fails(q) /\ UNCHANGED trace_bits /\ CalBegin(q, "dry")
           \/ left = {} /\ pc' = "idle" /\ UNCHANGED <<trace_bits, queue, cal, staleFirst>>
    /\ UNCHANGED <<crash_mode, stop_soon, runs, fault, mapVars, var_bytes, seen, firstHit, crashes>>

\* fuzz_one retries a failed calibration
Retry ==
    /\ pc = "idle"
    /\ \E q \in DOMAIN queue : /\ queue[q].cal_failed \in 1 .. CalChances - 1
                               /\ Fails(q) /\ UNCHANGED trace_bits /\ CalBegin(q, "idle")
    /\ UNCHANGED <<crash_mode, stop_soon, runs, fault, mapVars, var_bytes, seen, firstHit, crashes>>

\* common_fuzz_stuff runs a mutated input; save_if_interesting queues it if its
\* verdict is the expected one and its trace has something new
Expected(f) == f = crash_mode

AnyVerdict(f) == TRUE
MergedVerdict(f) == Expected(f)

Execute ==
    /\ pc = "idle"
    /\ \E t \in Traces, f \in Faults :
          LET hnb == HasNewBits(virgin_bits, t)
          IN  /\ RunTarget(t)
              /\ virgin_bits' = IF MergedVerdict(f) THEN Cleared(virgin_bits, t) ELSE virgin_bits
              /\ \/ /\ Expected(f) /\ hnb = 0 /\ pc' = "idle"
                    /\ UNCHANGED <<fault, queue, cal, seen, firstHit, staleFirst>>
                 \/ /\ Expected(f) /\ hnb > 0 /\ Len(queue) < MaxEntries
                    /\ fault' = f
                    /\ queue' = Append(queue, [EntryOf(t, hnb = 2) EXCEPT !.cal_failed = 1])
                    /\ Observe(Len(queue'), t) /\ CalBegin(Len(queue'), "judge")
                 \/ /\ ~Expected(f) /\ pc' = "judge" /\ fault' = f
                    /\ UNCHANGED <<queue, cal, seen, firstHit, staleFirst>>
    /\ UNCHANGED <<crash_mode, stop_soon, virgin_tmout, virgin_crash, unique_hangs,
                   unique_crashes, var_bytes, crashes>>

-----------------------------------------------------------------------------
(* The switch on the verdict in save_if_interesting.                        *)

JudgeNone ==
    /\ pc = "judge" /\ fault = "FAULT_NONE" /\ pc' = "idle"
    /\ UNCHANGED <<crash_mode, stop_soon, runs, trace_bits, fault, mapVars, queue, var_bytes, cal,
                   seen, firstHit, crashes, staleFirst>>

\* a hang: unique by its simplified path, and run again with a longer timeout
JudgeHang ==
    /\ pc = "judge" /\ fault = "FAULT_TMOUT"
    /\ \/ /\ unique_hangs >= KeepHang /\ pc' = "idle"
          /\ UNCHANGED <<trace_bits, virgin_tmout, unique_hangs>>
       \/ /\ unique_hangs < KeepHang
          /\ trace_bits' = Simplified(trace_bits)
          /\ virgin_tmout' = Cleared(virgin_tmout, trace_bits')
          /\ LET new == HasNewBits(virgin_tmout, trace_bits') > 0
             IN  /\ pc' = IF new /\ ~Generous THEN "rerun" ELSE "idle"
                 /\ unique_hangs' = IF new /\ Generous THEN unique_hangs + 1 ELSE unique_hangs
    /\ fault' = "FAULT_NONE"
    /\ UNCHANGED <<crash_mode, stop_soon, runs, virgin_bits, virgin_crash, unique_crashes,
                   queue, var_bytes, cal, seen, firstHit, crashes, staleFirst>>

Rerun ==
    /\ pc = "rerun"
    /\ \E t \in Traces : RunTarget(t)
    /\ \/ stop_soon' = TRUE /\ pc' = "halt" /\ fault' = "FAULT_NONE" /\ UNCHANGED unique_hangs
       \/ pc' = "judge" /\ fault' = "FAULT_CRASH" /\ UNCHANGED <<stop_soon, unique_hangs>>
       \/ pc' = "idle" /\ unique_hangs' = unique_hangs + 1 /\ fault' = "FAULT_NONE"
          /\ UNCHANGED stop_soon
       \/ pc' = "idle" /\ fault' = "FAULT_NONE" /\ UNCHANGED <<stop_soon, unique_hangs>>
    /\ UNCHANGED <<crash_mode, virgin_bits, virgin_tmout, virgin_crash, unique_crashes, queue,
                   var_bytes, cal, seen, firstHit, crashes, staleFirst>>

\* keep_as_crash
OneMore == unique_crashes > KeepCrash
CrashLimit == unique_crashes >= KeepCrash

JudgeCrash ==
    /\ pc = "judge" /\ fault = "FAULT_CRASH" /\ pc' = "idle"
    /\ \/ /\ CrashLimit
          /\ UNCHANGED <<trace_bits, virgin_crash, unique_crashes, crashes>>
       \/ /\ ~CrashLimit
          /\ trace_bits' = Simplified(trace_bits)
          /\ virgin_crash' = Cleared(virgin_crash, trace_bits')
          /\ unique_crashes' = unique_crashes +
                (IF HasNewBits(virgin_crash, trace_bits') > 0 THEN 1 ELSE 0)
          /\ crashes' = crashes \cup {Hits(trace_bits)}
    /\ fault' = "FAULT_NONE"
    /\ UNCHANGED <<crash_mode, stop_soon, runs, virgin_bits, virgin_tmout, unique_hangs, queue,
                   var_bytes, cal, seen, firstHit, staleFirst>>

\* the process has ended, or the bound is reached
Halted == (pc = "halt" \/ runs = MaxRuns) /\ UNCHANGED vars

Next == \/ DryRun \/ CalRun \/ CalAbort \/ CalEnd \/ Retry \/ Execute \/ JudgeNone
        \/ JudgeHang \/ Rerun \/ JudgeCrash \/ Halted

Spec == Init /\ [][Next]_vars

-----------------------------------------------------------------------------
(* Properties.                                                              *)

\* Every variable has its type, and the counters of saved files their limits.
TypeOK ==
    /\ pc \in {"dry", "idle", "cal", "judge", "rerun", "halt"}
    /\ crash_mode \in CrashModes /\ stop_soon \in BOOLEAN
    /\ runs \in 0 .. MaxRuns /\ trace_bits \in AllTraces /\ fault \in Faults
    /\ {virgin_bits, virgin_tmout, virgin_crash} \subseteq [Slots -> SUBSET Full]
    /\ unique_hangs \in 0 .. KeepHang /\ unique_crashes \in 0 .. KeepCrash
    /\ Len(queue) <= MaxEntries
    /\ queue \in Seq([exec_cksum : AllTraces \cup {NoTrace}, has_new_cov : BOOLEAN,
                      var_behavior : BOOLEAN, cal_failed : 0 .. CalChances])
    /\ var_bytes \subseteq Slots /\ crashes \subseteq SUBSET Slots /\ staleFirst \in BOOLEAN
    /\ cal.q \in 0 .. Len(queue) /\ cal.stage_max \in 0 .. CalCyclesLong
    /\ cal.stage_cur \in 0 .. cal.stage_max
    /\ cal.first_trace \in AllTraces \cup {NoTrace}

\* virgin_bits lacks exactly what runs of queued entries have shown, aborted and
\* retried calibrations included: nothing only a crash, a hang or a discarded input
\* did is lost to later inputs, and the checksum test skips no trace that is new.
VirginExact ==
    \A s \in Slots : Full \ virgin_bits[s] = (UNION {seen[q][s] : q \in DOMAIN queue}) \ {0}

\* has_new_cov marks the entries that were the first to reach some byte at all.
NewCovExact ==
    pc # "cal" => \A q \in DOMAIN queue :
        queue[q].has_new_cov <=> \E s \in Slots : firstHit[s] = q

\* An entry is marked variable iff two of its compared runs differed, also if the
\* calibration that saw it was cut short.
VariableExact ==
    pc # "cal" => \A q \in DOMAIN queue :
        queue[q].var_behavior <=> \E s \in Slots : Cardinality(seen[q][s]) > 1

\* var_bytes are exactly the bytes in which two compared runs of one entry differed,
\* as long as no retry has compared an entry with the trace of another input
\* (a retry takes over whatever trace_bits holds).
VarBytesExact ==
    ~staleFirst => var_bytes = {s \in Slots : \E q \in DOMAIN queue :
                                                 Cardinality(seen[q][s]) > 1}

\* A crash is saved iff its path includes a byte no earlier crash hit, or misses one
\* that all earlier crashes hit (docs/technical_details.txt, "De-duping crashes"),
\* up to the limit on saved crashes.
UniqueCrashRule ==
    [][/\ unique_crashes' # unique_crashes => crashes' # crashes
       /\ \A h \in crashes' \ crashes :
             unique_crashes' = unique_crashes + 1
                <=> \/ h \ UNION crashes # {}
                    \/ \E s \in Slots \ h : \A g \in crashes : s \in g]_vars
=============================================================================
