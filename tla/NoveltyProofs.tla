--------------------------- MODULE NoveltyProofs ---------------------------
(* Proofs about Novelty, for any bitmap, any traces and any bounds.         *)
EXTENDS Novelty, SequenceTheorems, FiniteSetTheorems, TLAPS

Entry == [exec_cksum : AllTraces \cup {NoTrace}, has_new_cov : BOOLEAN,
          var_behavior : BOOLEAN, cal_failed : 0 .. CalChances]

Calibration ==
    [q : Nat, ret : {"none", "dry", "idle", "judge"}, stage_cur : Nat, stage_max : Nat,
     first_run : BOOLEAN, first_trace : AllTraces \cup {NoTrace}, new_bits : 0 .. 2,
     var_detected : BOOLEAN]

Known(q) == queue[q].exec_cksum # NoTrace
Calibrated(q) == pc = "cal" /\ q = cal.q
Varied(S) == \E a, b \in S : a # b

\* What TypeOK leaves open: the histories, the locals of calibrate_case, that the
\* seeds stay queued, and that the hang which is run again is below the limit.
HistoryTypes ==
    /\ Seeds <= Len(queue)
    /\ seen \in [1 .. MaxEntries -> [Slots -> SUBSET (0 .. Class)]]
    /\ firstHit \in [Slots -> 0 .. Len(queue)]
    /\ cal \in Calibration
    /\ pc = "cal" => cal.q \in 1 .. Len(queue) /\ cal.ret # "none"
    /\ pc = "rerun" => unique_hangs < KeepHang

TypeInv == TypeOK /\ HistoryTypes

\* The checksum of an entry is that of a trace which was compared; an entry
\* without one has not been observed.
SeenOK ==
    /\ \A q \in 1 .. MaxEntries, s \in Slots : q > Len(queue) => seen[q][s] = {}
    /\ \A q \in 1 .. Len(queue), s \in Slots :
          IF Known(q) THEN queue[q].exec_cksum[s] \in seen[q][s] ELSE seen[q][s] = {}

\* VirginExact, class by class; a byte is pristine until some entry hits it.
VirginInv ==
    /\ \A s \in Slots : \A k \in Full :
          k \notin virgin_bits[s] <=> \E q \in 1 .. Len(queue) : k \in seen[q][s]
    /\ \A s \in Slots : firstHit[s] = 0 <=> virgin_bits[s] = Full

\* NewCovExact, with what the calibration under way has found out.
NewCovInv ==
    \A q \in 1 .. Len(queue) :
        queue[q].has_new_cov \/ (Calibrated(q) /\ cal.new_bits = 2)
            <=> \E s \in Slots : firstHit[s] = q

\* VariableExact, likewise.
VariableInv ==
    \A q \in 1 .. Len(queue) :
        queue[q].var_behavior \/ (Calibrated(q) /\ cal.var_detected)
            <=> \E s \in Slots : Varied(seen[q][s])

\* VarBytesExact; a calibration that is not stale compares with the trace whose
\* checksum the entry has.
VarBytesInv ==
    ~staleFirst =>
        /\ pc = "cal" /\ Known(cal.q) => cal.first_trace = queue[cal.q].exec_cksum
        /\ \A s \in Slots :
              s \in var_bytes <=> \E q \in 1 .. Len(queue) : Varied(seen[q][s])

QueueInv == SeenOK /\ VirginInv /\ NewCovInv /\ VariableInv /\ VarBytesInv

\* virgin_crash lacks the highest class where some crash hit the byte, and the
\* lowest where some crash did not.
CrashMapInv ==
    /\ \A s \in Slots : Class \notin virgin_crash[s] <=> \E h \in crashes : s \in h
    /\ \A s \in Slots : 1 \notin virgin_crash[s] <=> \E h \in crashes : s \notin h

-----------------------------------------------------------------------------
(* The bitmap algorithms, and the queue.                                    *)

\* A checksum of zero is that of no trace.
LEMMA NoTraceIsNone == NoTrace \notin AllTraces
<1>1. PICK s \in Slots : TRUE
    BY NoveltyAssumption
<1>2. NoTrace[s] = Class + 1
    BY DEF NoTrace
<1> QED BY <1>2, NoveltyAssumption DEF AllTraces

\* has_new_bits clears every pair of the trace, though it looks word by word.
LEMMA ClearedFacts ==
    ASSUME NEW virgin \in [Slots -> SUBSET Full], NEW t \in AllTraces
    PROVE  /\ Cleared(virgin, t) \in [Slots -> SUBSET Full]
           /\ \A s \in Slots : Cleared(virgin, t)[s] = virgin[s] \ {t[s]}
<1>1. ASSUME NEW s \in Slots, s \notin UNION Touched(virgin, t)
      PROVE  virgin[s] = virgin[s] \ {t[s]}
    BY <1>1 DEF Touched, Slots
<1> QED BY <1>1 DEF Cleared

\* has_new_bits tells a new pair from a new byte.
LEMMA NewBitsFacts ==
    ASSUME NEW virgin \in [Slots -> SUBSET Full], NEW t \in AllTraces
    PROVE  /\ HasNewBits(virgin, t) \in 0 .. 2
           /\ HasNewBits(virgin, t) = 0 <=> \A s \in Slots : t[s] \notin virgin[s]
           /\ HasNewBits(virgin, t) = 2 <=> \E s \in Slots : t[s] # 0 /\ virgin[s] = Full
<1>1. Touched(virgin, t) = {} <=> \A s \in Slots : t[s] \notin virgin[s]
    BY DEF Touched, Slots
<1>2. ASSUME NEW s \in Slots, t[s] # 0, virgin[s] = Full
      PROVE  \E w \in Touched(virgin, t) : s \in w
    <2>1. t[s] \in Full
        BY <1>2, NoveltyAssumption DEF AllTraces, Full
    <2> QED BY <1>2, <2>1 DEF Touched, Slots
<1>3. \A w \in Touched(virgin, t) : w \subseteq Slots
    BY DEF Touched, Slots
<1>4. (\E w \in Touched(virgin, t) : \E s \in w : t[s] # 0 /\ virgin[s] = Full)
         <=> \E s \in Slots : t[s] # 0 /\ virgin[s] = Full
    BY <1>2, <1>3
<1> QED BY <1>1, <1>4 DEF HasNewBits

\* simplify_trace yields a trace again.
LEMMA SimplifiedType ==
    ASSUME NEW t \in AllTraces
    PROVE  Simplified(t) \in AllTraces
BY NoveltyAssumption DEF Simplified, AllTraces

\* A finite set has more than one element iff two of its elements differ.
LEMMA CardinalityVaried ==
    ASSUME NEW S, IsFiniteSet(S)
    PROVE  Cardinality(S) > 1 <=> Varied(S)
<1>0. Cardinality(S) \in Nat
    BY FS_CardinalityType
<1>1. ASSUME Varied(S) PROVE Cardinality(S) > 1
    <2>1. PICK a, b \in S : a # b
        BY <1>1 DEF Varied
    <2>2. Cardinality(S) # 0 /\ Cardinality(S) # 1
        BY <2>1, FS_EmptySet, FS_Singleton
    <2> QED BY <1>0, <2>2
<1>2. ASSUME ~Varied(S) PROVE ~(Cardinality(S) > 1)
    <2>1. S = {} \/ \E x : S = {x}
        BY <1>2 DEF Varied
    <2> QED BY <2>1, FS_EmptySet, FS_Singleton
<1> QED BY <1>1, <1>2

-----------------------------------------------------------------------------
(* Types.                                                                   *)

\* The parts of TypeInv that the proofs treat one by one.
RunTypes ==
    /\ pc \in {"dry", "idle", "cal", "judge", "rerun", "halt"}
    /\ crash_mode \in CrashModes /\ stop_soon \in BOOLEAN
    /\ runs \in 0 .. MaxRuns /\ trace_bits \in AllTraces /\ fault \in Faults
    /\ unique_hangs \in 0 .. KeepHang /\ unique_crashes \in 0 .. KeepCrash
    /\ pc = "rerun" => unique_hangs < KeepHang

MapTypes ==
    /\ {virgin_bits, virgin_tmout, virgin_crash} \subseteq [Slots -> SUBSET Full]
    /\ var_bytes \subseteq Slots /\ crashes \subseteq SUBSET Slots /\ staleFirst \in BOOLEAN

QueueTypes == queue \in Seq(Entry) /\ Seeds <= Len(queue) /\ Len(queue) <= MaxEntries

CalTypes ==
    /\ cal \in Calibration /\ cal.q \in 0 .. Len(queue)
    /\ cal.stage_max <= CalCyclesLong /\ cal.stage_cur <= cal.stage_max
    /\ pc = "cal" => cal.q # 0 /\ cal.ret # "none"

HistTypes ==
    /\ seen \in [1 .. MaxEntries -> [Slots -> SUBSET (0 .. Class)]]
    /\ firstHit \in [Slots -> 0 .. Len(queue)]

Types == RunTypes /\ MapTypes /\ QueueTypes /\ CalTypes /\ HistTypes

\* They are TypeInv.
LEMMA TypeParts == Types <=> TypeInv
<1>1. ASSUME Types PROVE TypeInv
    <2> USE <1>1 DEF Types, QueueTypes
    <2>1. Len(queue) \in Nat
        BY LenProperties
    <2>2. HistoryTypes
        BY <2>1 DEF RunTypes, CalTypes, HistTypes, HistoryTypes, Calibration
    <2>3. TypeOK
        BY <2>1, NoveltyAssumption DEF RunTypes, MapTypes, CalTypes, TypeOK, Calibration, Entry
    <2> QED BY <2>2, <2>3 DEF TypeInv
<1>2. ASSUME TypeInv PROVE Types
    <2> USE <1>2 DEF TypeInv
    <2>1. RunTypes /\ MapTypes
        BY DEF TypeOK, HistoryTypes, RunTypes, MapTypes
    <2>2. QueueTypes
        BY DEF TypeOK, HistoryTypes, QueueTypes, Entry
    <2>3. CalTypes
        BY <2>2, LenProperties DEF TypeOK, HistoryTypes, CalTypes, QueueTypes
    <2>4. HistTypes
        BY DEF HistoryTypes, HistTypes
    <2> QED BY <2>1, <2>2, <2>3, <2>4 DEF Types
<1> QED BY <1>1, <1>2

\* The initial state has its types.
LEMMA InitTypes == Init => Types
<1> SUFFICES ASSUME Init PROVE Types
    OBVIOUS
<1> USE NoveltyAssumption DEF Init
<1>1. RunTypes
    <2>1. trace_bits \in AllTraces
        BY DEF AllTraces
    <2>2. Seeds \in Nat /\ MaxRuns \in Nat /\ KeepHang \in Nat /\ KeepCrash \in Nat
        OBVIOUS
    <2>3. stop_soon \in BOOLEAN
        OBVIOUS
    <2> QED BY <2>1, <2>2, <2>3 DEF RunTypes, Faults
<1>2. MapTypes
    BY DEF MapTypes
<1>3. QueueTypes
    <2>1. EntryOf(NoTrace, FALSE) \in Entry
        BY DEF EntryOf, Entry
    <2>2. queue \in [1 .. Seeds -> Entry]
        BY <2>1
    <2>3. queue \in Seq(Entry)
        <3> HIDE DEF Init
        <3>1. Seeds \in Nat
            OBVIOUS
        <3> QED BY <2>2, <3>1
    <2>4. Len(queue) = Seeds
        BY <2>2, <2>3, LenProperties
    <2> QED BY <2>3, <2>4 DEF QueueTypes
<1>4. CalTypes
    <2>1. cal \in Calibration
        BY DEF NoCal, Calibration
    <2> QED BY <1>3, <2>1, LenProperties DEF CalTypes, NoCal, QueueTypes
<1>5. HistTypes
    BY <1>3, LenProperties DEF HistTypes, QueueTypes
<1> QED BY <1>1, <1>2, <1>3, <1>4, <1>5 DEF Types

\* The bounds are numbers.
LEMMA Bounds ==
    /\ {Class, Seeds, MaxEntries, MaxRuns, KeepHang, KeepCrash} \subseteq Nat
    /\ {CalCycles, CalCyclesLong, CalChances} \subseteq Nat \ {0}
    /\ Class > 1 /\ Seeds <= MaxEntries /\ CalCycles <= CalCyclesLong
BY NoveltyAssumption

-----------------------------------------------------------------------------
(* What the actions do to the queue and to the calibration.                 *)

\* The step changes at most one entry, and not its trace.
Marked(q, cov, var) ==
    /\ QueueTypes' /\ Len(queue') = Len(queue)
    /\ \A p \in 1 .. Len(queue) : p # q => queue'[p] = queue[p]
    /\ queue'[q].exec_cksum = queue[q].exec_cksum
    /\ queue'[q].has_new_cov = cov /\ queue'[q].var_behavior = var

\* The failure of a calibration is counted before it starts.
LEMMA FailsFacts ==
    ASSUME Types, NEW q \in 1 .. Len(queue), queue[q].cal_failed < CalChances, Fails(q)
    PROVE  Marked(q, queue[q].has_new_cov, queue[q].var_behavior)
<1> DEFINE n == queue[q].cal_failed + 1
           e == [queue[q] EXCEPT !.cal_failed = n]
<1>1. queue[q] \in Entry
    BY ElementOfSeq DEF Types, QueueTypes
<1>2. /\ e \in Entry /\ e.exec_cksum = queue[q].exec_cksum
      /\ e.has_new_cov = queue[q].has_new_cov /\ e.var_behavior = queue[q].var_behavior
    <2>1. n \in 0 .. CalChances
        <3>1. queue[q].cal_failed \in 0 .. CalChances
            BY <1>1 DEF Entry
        <3>2. CalChances \in Nat
            BY Bounds
        <3> QED BY <3>1, <3>2
    <2> HIDE DEF n
    <2> QED BY <1>1, <2>1 DEF Entry
<1>3. queue' = [queue EXCEPT ![q] = e]
    BY DEF Fails
<1> HIDE DEF e
<1> QED BY <1>2, <1>3, ExceptSeq DEF Types, QueueTypes, Marked

\* A calibration starts afresh, from the trace of the entry unless it is stale.
Begun(q) ==
    /\ pc' = "cal" /\ CalTypes'
    /\ cal'.q = q /\ cal'.new_bits = 0 /\ cal'.var_detected = FALSE
    /\ staleFirst' \in BOOLEAN /\ (staleFirst => staleFirst')
    /\ ~staleFirst' /\ queue'[q].exec_cksum # NoTrace =>
          cal'.first_trace = queue'[q].exec_cksum

\* This is what CalBegin does.
LEMMA CalBeginFacts ==
    ASSUME Types, QueueTypes', trace_bits' \in AllTraces, NEW q \in 1 .. Len(queue'),
           NEW ret \in {"dry", "idle", "judge"}, CalBegin(q, ret)
    PROVE  Begun(q)
<1> DEFINE known == queue'[q].exec_cksum # NoTrace
           c == [q |-> q, ret |-> ret, stage_cur |-> 0, stage_max |-> CalCycles,
                 first_run |-> ~known, new_bits |-> 0, var_detected |-> FALSE,
                 first_trace |-> IF known THEN trace_bits' ELSE NoTrace]
<1>1. /\ pc' = "cal" /\ cal' = c
      /\ staleFirst' = (staleFirst \/ (known /\ trace_bits' # queue'[q].exec_cksum))
    BY DEF CalBegin
<1>2. Len(queue') \in Nat
    BY LenProperties DEF QueueTypes
<1>3. c \in Calibration
    BY <1>2, Bounds DEF Calibration
<1>4. CalTypes'
    BY <1>1, <1>2, <1>3, Bounds DEF CalTypes
<1>5. staleFirst' \in BOOLEAN /\ (staleFirst => staleFirst')
    BY <1>1 DEF Types, MapTypes
<1>6. ~staleFirst' /\ known => cal'.first_trace = queue'[q].exec_cksum
    BY <1>1
<1>7. cal'.q = q /\ cal'.new_bits = 0 /\ cal'.var_detected = FALSE
    BY <1>1
<1> QED BY <1>1, <1>4, <1>5, <1>6, <1>7 DEF Begun

\* perform_dry_run and fuzz_one start calibrations of queued entries.
LEMMA StartFacts ==
    ASSUME Types, DryRun \/ Retry
    PROVE  /\ pc # "cal"
           /\ UNCHANGED <<crash_mode, stop_soon, runs, trace_bits, fault, mapVars, var_bytes, seen,
                          firstHit, crashes>>
           /\ \/ UNCHANGED <<queue, cal, staleFirst>> /\ pc' = "idle"
              \/ \E q \in 1 .. Len(queue) :
                    Marked(q, queue[q].has_new_cov, queue[q].var_behavior) /\ Begun(q)
<1>1. UNCHANGED <<crash_mode, stop_soon, runs, trace_bits, fault, mapVars, var_bytes, seen,
                  firstHit, crashes>> /\ pc # "cal"
    BY DEF DryRun, Retry
<1>2. trace_bits' \in AllTraces
    BY <1>1 DEF Types, RunTypes
<1>3. ASSUME NEW q \in 1 .. Len(queue), queue[q].cal_failed < CalChances, Fails(q),
             NEW ret \in {"dry", "idle", "judge"}, CalBegin(q, ret)
      PROVE  Marked(q, queue[q].has_new_cov, queue[q].var_behavior) /\ Begun(q)
    <2>1. Marked(q, queue[q].has_new_cov, queue[q].var_behavior)
        BY <1>3, FailsFacts
    <2> QED BY <1>2, <1>3, <2>1, CalBeginFacts DEF Marked
<1>4. CASE DryRun
    <2>1. CASE UNCHANGED <<queue, cal, staleFirst>> /\ pc' = "idle"
        BY <1>1, <2>1
    <2>2. CASE ~(UNCHANGED <<queue, cal, staleFirst>> /\ pc' = "idle")
        <3>1. PICK q \in 1 .. Seeds : queue[q].cal_failed = 0 /\ Fails(q) /\ CalBegin(q, "dry")
            BY <1>4, <2>2 DEF DryRun
        <3>2. q \in 1 .. Len(queue)
            BY Bounds, LenProperties DEF Types, QueueTypes
        <3> QED BY <1>1, <1>3, <3>1, <3>2, Bounds
    <2> QED BY <2>1, <2>2
<1>5. CASE Retry
    <2>1. PICK q \in DOMAIN queue : /\ queue[q].cal_failed \in 1 .. CalChances - 1
                                    /\ Fails(q) /\ CalBegin(q, "idle")
        BY <1>5 DEF Retry
    <2>2. q \in 1 .. Len(queue)
        BY LenProperties DEF Types, QueueTypes
    <2> QED BY <1>1, <1>3, <2>1, <2>2, Bounds
<1> QED BY <1>4, <1>5

\* abort_calibration and the end of the last cycle: the marks of the entry are
\* brought up to date, and the calibration is over.
Concluded ==
    /\ pc = "cal" /\ pc' \in {"dry", "idle", "judge", "halt"} /\ cal' = NoCal
    /\ UNCHANGED <<crash_mode, fault, mapVars, var_bytes, seen, firstHit, crashes, staleFirst>>
    /\ Marked(cal.q, queue[cal.q].has_new_cov \/ cal.new_bits = 2,
                     queue[cal.q].var_behavior \/ cal.var_detected)

\* What calibrate_case writes to the entry when it returns.
LEMMA ConcludeFacts ==
    ASSUME Types, pc = "cal", NEW failed \in 0 .. CalChances,
           \/ queue' = [queue EXCEPT ![cal.q] = Conclude(@)]
           \/ queue' = [queue EXCEPT ![cal.q] = [Conclude(@) EXCEPT !.cal_failed = failed]]
    PROVE  Marked(cal.q, queue[cal.q].has_new_cov \/ cal.new_bits = 2,
                         queue[cal.q].var_behavior \/ cal.var_detected)
<1> DEFINE q == cal.q
           cov == queue[q].has_new_cov \/ cal.new_bits = 2
           var == queue[q].var_behavior \/ cal.var_detected
<1>1. q \in 1 .. Len(queue) /\ queue[q] \in Entry
    <2>1. q \in 1 .. Len(queue)
        BY LenProperties DEF Types, CalTypes, QueueTypes
    <2> QED BY <2>1, ElementOfSeq DEF Types, QueueTypes
<1>2. cov \in BOOLEAN /\ var \in BOOLEAN
    BY <1>1 DEF Types, CalTypes, Entry, Calibration
<1>3. PICK e \in Entry :
         /\ queue' = [queue EXCEPT ![q] = e] /\ e.exec_cksum = queue[q].exec_cksum
         /\ e.has_new_cov = cov /\ e.var_behavior = var
    <2> DEFINE c == [queue[q] EXCEPT !.has_new_cov = cov, !.var_behavior = var]
    <2>0. \/ queue' = [queue EXCEPT ![q] = c]
          \/ queue' = [queue EXCEPT ![q] = [c EXCEPT !.cal_failed = failed]]
        BY DEF Conclude
    <2> HIDE DEF cov, var
    <2>1. /\ c \in Entry /\ c.exec_cksum = queue[q].exec_cksum
          /\ c.has_new_cov = cov /\ c.var_behavior = var
        BY <1>1, <1>2 DEF Entry
    <2> HIDE DEF c
    <2>2. /\ [c EXCEPT !.cal_failed = failed] \in Entry
          /\ [c EXCEPT !.cal_failed = failed].exec_cksum = queue[q].exec_cksum
          /\ [c EXCEPT !.cal_failed = failed].has_new_cov = cov
          /\ [c EXCEPT !.cal_failed = failed].var_behavior = var
        BY <2>1 DEF Entry
    <2> QED BY <2>0, <2>1, <2>2
<1> HIDE DEF cov, var
<1>4. /\ queue' \in Seq(Entry) /\ Len(queue') = Len(queue) /\ queue'[q] = e
      /\ \A p \in 1 .. Len(queue) : p # q => queue'[p] = queue[p]
    BY <1>1, <1>3, ExceptSeq DEF Types, QueueTypes
<1>5. Marked(q, cov, var)
    BY <1>1, <1>3, <1>4 DEF Marked, Types, QueueTypes
<1> QED BY <1>5 DEF cov, var

\* Both ways out of calibrate_case conclude.
LEMMA StopsFacts ==
    ASSUME Types, CalAbort \/ CalEnd
    PROVE  Concluded
<1>1. pc = "cal" /\ cal.ret \in {"dry", "idle", "judge"}
    BY DEF CalAbort, CalEnd, Types, CalTypes, Calibration
<1>2. ASSUME NEW f, CalReturn(f) PROVE pc' \in {"dry", "idle", "judge", "halt"} /\ cal' = NoCal
    BY <1>1, <1>2 DEF CalReturn
<1>3. CASE CalAbort
    <2>1. PICK t \in Traces, f \in Faults, stop \in BOOLEAN :
             /\ IF stop THEN pc' = "halt" /\ cal' = NoCal
                ELSE CalReturn(IF f # crash_mode THEN f ELSE "FAULT_NOINST")
             /\ queue' = [queue EXCEPT ![cal.q] =
                             IF cal.ret = "dry" THEN [Conclude(@) EXCEPT !.cal_failed = CalChances]
                                                ELSE Conclude(@)]
        BY <1>3 DEF CalAbort
    <2>2. pc' \in {"dry", "idle", "judge", "halt"} /\ cal' = NoCal
        BY <1>2, <2>1
    <2>3. \/ queue' = [queue EXCEPT ![cal.q] = Conclude(@)]
          \/ queue' = [queue EXCEPT ![cal.q] = [Conclude(@) EXCEPT !.cal_failed = CalChances]]
        BY <2>1
    <2>4. CalChances \in 0 .. CalChances
        BY Bounds
    <2>5. Marked(cal.q, queue[cal.q].has_new_cov \/ cal.new_bits = 2,
                        queue[cal.q].var_behavior \/ cal.var_detected)
        BY <1>1, <2>3, <2>4, ConcludeFacts
    <2>6. UNCHANGED <<crash_mode, fault, mapVars, var_bytes, seen, firstHit, crashes, staleFirst>>
        BY <1>3 DEF CalAbort
    <2> QED BY <1>1, <2>2, <2>5, <2>6 DEF Concluded
<1>4. CASE CalEnd
    <2>1. pc' \in {"dry", "idle", "judge", "halt"} /\ cal' = NoCal
        BY <1>2, <1>4 DEF CalEnd
    <2>2. queue' = [queue EXCEPT ![cal.q] = [Conclude(@) EXCEPT !.cal_failed = 0]]
        BY <1>4 DEF CalEnd
    <2>3. 0 \in 0 .. CalChances
        BY Bounds
    <2>4. Marked(cal.q, queue[cal.q].has_new_cov \/ cal.new_bits = 2,
                        queue[cal.q].var_behavior \/ cal.var_detected)
        BY <1>1, <2>2, <2>3, ConcludeFacts
    <2>5. UNCHANGED <<crash_mode, fault, mapVars, var_bytes, seen, firstHit, crashes, staleFirst>>
        BY <1>4 DEF CalEnd
    <2> QED BY <1>1, <2>1, <2>4, <2>5 DEF Concluded
<1> QED BY <1>3, <1>4

\* The histories after entry q was seen to produce trace t.
Observed(q, t) ==
    /\ seen' \in [1 .. MaxEntries -> [Slots -> SUBSET (0 .. Class)]]
    /\ \A p \in 1 .. MaxEntries, s \in Slots :
          seen'[p][s] = IF p = q THEN seen[p][s] \cup {t[s]} ELSE seen[p][s]
    /\ firstHit' \in [Slots -> 0 .. Len(queue')]
    /\ \A s \in Slots : firstHit'[s] = IF firstHit[s] = 0 /\ t[s] # 0 THEN q ELSE firstHit[s]

\* This is what Observe records.
LEMMA ObserveFacts ==
    ASSUME Types, QueueTypes', Len(queue') >= Len(queue), NEW q \in 1 .. Len(queue'),
           NEW t \in AllTraces, Observe(q, t)
    PROVE  Observed(q, t)
<1>0. Len(queue) \in Nat /\ Len(queue') \in Nat /\ q \in 1 .. MaxEntries
    BY LenProperties, Bounds DEF Types, QueueTypes
<1>1. t \in [Slots -> 0 .. Class]
    BY DEF AllTraces
<1>2. /\ seen' \in [1 .. MaxEntries -> [Slots -> SUBSET (0 .. Class)]]
      /\ \A p \in 1 .. MaxEntries, s \in Slots :
             seen'[p][s] = IF p = q THEN seen[p][s] \cup {t[s]} ELSE seen[p][s]
    <2> DEFINE m == [s \in Slots |-> seen[q][s] \cup {t[s]}]
    <2>1. seen' = [seen EXCEPT ![q] = m] /\ seen[q] \in [Slots -> SUBSET (0 .. Class)]
        BY <1>0 DEF Observe, Types, HistTypes
    <2>2. m \in [Slots -> SUBSET (0 .. Class)]
        BY <1>1, <2>1
    <2>3. \A s \in Slots : m[s] = seen[q][s] \cup {t[s]}
        OBVIOUS
    <2> HIDE DEF m
    <2> QED BY <1>0, <2>1, <2>2, <2>3 DEF Types, HistTypes
<1>3. firstHit' \in [Slots -> 0 .. Len(queue')]
    BY <1>0 DEF Observe, Types, HistTypes
<1>4. \A s \in Slots : firstHit'[s] = IF firstHit[s] = 0 /\ t[s] # 0 THEN q ELSE firstHit[s]
    BY DEF Observe
<1> QED BY <1>2, <1>3, <1>4 DEF Observed

\* calibrate_case has run entry cal.q, with trace t, and compared it.
Compared(t) ==
    /\ pc = "cal" /\ pc' = "cal" /\ cal'.q = cal.q /\ CalTypes'
    /\ UNCHANGED <<crash_mode, stop_soon, fault, virgin_tmout, virgin_crash, unique_hangs,
                   unique_crashes, crashes, staleFirst>>
    /\ RunTarget(t)
    /\ QueueTypes' /\ Len(queue') = Len(queue)
    /\ \A p \in 1 .. Len(queue) :
          /\ queue'[p].has_new_cov = queue[p].has_new_cov
          /\ queue'[p].var_behavior = queue[p].var_behavior
          /\ queue'[p].exec_cksum = IF p = cal.q /\ ~Known(p) THEN t ELSE queue[p].exec_cksum
    /\ virgin_bits' = IF Differs(t) THEN Cleared(virgin_bits, t) ELSE virgin_bits
    /\ var_bytes' = var_bytes \cup (IF Known(cal.q) /\ Differs(t)
                                    THEN {s \in Slots \ var_bytes : cal.first_trace[s] # t[s]}
                                    ELSE {})
    /\ cal'.first_trace = FirstTrace(t)
    /\ cal'.new_bits = IF Differs(t) /\ HasNewBits(virgin_bits, t) > cal.new_bits
                       THEN HasNewBits(virgin_bits, t) ELSE cal.new_bits
    /\ cal'.var_detected = (cal.var_detected \/ (Known(cal.q) /\ Differs(t)))
    /\ Observed(cal.q, t)

\* This is what CalRun does.
LEMMA CalRunFacts ==
    ASSUME Types, CalRun
    PROVE  \E t \in AllTraces : Compared(t)
<1>0. Traces \subseteq AllTraces /\ pc = "cal" /\ pc' = "cal"
    BY NoveltyAssumption DEF CalRun
<1>1. cal.q \in 1 .. Len(queue) /\ queue[cal.q] \in Entry /\ cal \in Calibration
    <2>1. cal.q \in 1 .. Len(queue)
        BY <1>0, LenProperties DEF Types, CalTypes, QueueTypes
    <2> QED BY <2>1, ElementOfSeq DEF Types, QueueTypes, CalTypes
<1> DEFINE varies(t) == IF Known(cal.q) /\ Differs(t)
                        THEN {s \in Slots \ var_bytes : cal.first_trace[s] # t[s]} ELSE {}
           hnb(t) == IF Differs(t) THEN HasNewBits(virgin_bits, t) ELSE 0
           e(t) == [queue[cal.q] EXCEPT !.exec_cksum = IF Known(cal.q) THEN @ ELSE t]
           c(t) == [cal EXCEPT !.stage_cur = @ + 1, !.first_trace = FirstTrace(t),
                               !.stage_max = IF varies(t) # {} THEN CalCyclesLong ELSE @,
                               !.new_bits = IF hnb(t) > @ THEN hnb(t) ELSE @,
                               !.var_detected = @ \/ (Known(cal.q) /\ Differs(t))]
<1>2. PICK t \in Traces :
         /\ RunTarget(t) /\ Observe(cal.q, t)
         /\ virgin_bits' = IF Differs(t) THEN Cleared(virgin_bits, t) ELSE virgin_bits
         /\ var_bytes' = var_bytes \cup varies(t)
         /\ queue' = [queue EXCEPT ![cal.q] = e(t)] /\ cal' = c(t)
    BY DEF CalRun, Known
<1>3. t \in AllTraces
    BY <1>0
<1>4. /\ e(t) \in Entry /\ e(t).exec_cksum = IF Known(cal.q) THEN queue[cal.q].exec_cksum ELSE t
      /\ e(t).has_new_cov = queue[cal.q].has_new_cov
      /\ e(t).var_behavior = queue[cal.q].var_behavior
    BY <1>1, <1>3 DEF Entry
<1>5. /\ QueueTypes' /\ Len(queue') = Len(queue)
      /\ \A p \in 1 .. Len(queue) : queue'[p] = IF p = cal.q THEN e(t) ELSE queue[p]
    <2> HIDE DEF e
    <2> QED BY <1>1, <1>2, <1>4, ExceptSeq DEF Types, QueueTypes
<1>6. virgin_bits \in [Slots -> SUBSET Full]
    BY DEF Types, MapTypes
<1>7. hnb(t) \in 0 .. 2
    BY <1>3, <1>6, NewBitsFacts
<1>8. /\ c(t) \in Calibration /\ c(t).q = cal.q /\ c(t).ret = cal.ret
      /\ c(t).stage_cur = cal.stage_cur + 1 /\ c(t).stage_max \in {cal.stage_max, CalCyclesLong}
      /\ c(t).first_trace = FirstTrace(t)
      /\ c(t).new_bits = IF hnb(t) > cal.new_bits THEN hnb(t) ELSE cal.new_bits
      /\ c(t).var_detected = (cal.var_detected \/ (Known(cal.q) /\ Differs(t)))
    <2> DEFINE nb == IF hnb(t) > cal.new_bits THEN hnb(t) ELSE cal.new_bits
               vd == cal.var_detected \/ (Known(cal.q) /\ Differs(t))
               sm == IF varies(t) # {} THEN CalCyclesLong ELSE cal.stage_max
               ft == FirstTrace(t)
    <2>1. ft \in AllTraces \cup {NoTrace}
        BY <1>1, <1>3 DEF FirstTrace, Calibration
    <2>2. nb \in 0 .. 2 /\ sm \in {cal.stage_max, CalCyclesLong} /\ sm \in Nat
        BY <1>1, <1>7, Bounds DEF Calibration
    <2>3. vd \in BOOLEAN
        BY <1>1 DEF Calibration
    <2>4. c(t) = [cal EXCEPT !.stage_cur = @ + 1, !.first_trace = ft, !.stage_max = sm,
                             !.new_bits = nb, !.var_detected = vd]
        OBVIOUS
    <2> HIDE DEF c, nb, vd, sm, ft
    <2>5. c(t) = [q |-> cal.q, ret |-> cal.ret, stage_cur |-> cal.stage_cur + 1,
                  stage_max |-> sm, first_run |-> cal.first_run, first_trace |-> ft,
                  new_bits |-> nb, var_detected |-> vd]
        BY <1>1, <2>4 DEF Calibration
    <2>6. c(t) \in Calibration
        BY <1>1, <2>1, <2>2, <2>3, <2>5 DEF Calibration
    <2> QED BY <2>2, <2>5, <2>6 DEF nb, vd, ft
<1>9. CalTypes'
    <2> HIDE DEF c, e
    <2>1. cal.stage_cur < cal.stage_max
        BY DEF CalRun
    <2>2. cal'.stage_max <= CalCyclesLong /\ cal'.stage_cur <= cal'.stage_max
        <3>1. /\ cal.stage_cur \in Nat /\ cal.stage_max \in Nat /\ CalCyclesLong \in Nat
              /\ cal.stage_max <= CalCyclesLong
            BY <1>1, Bounds DEF Types, CalTypes, Calibration
        <3>2. /\ cal'.stage_cur = cal.stage_cur + 1
              /\ cal'.stage_max = cal.stage_max \/ cal'.stage_max = CalCyclesLong
            BY <1>2, <1>8
        <3> QED BY <2>1, <3>1, <3>2
    <2>3. cal' \in Calibration /\ cal'.q = cal.q /\ cal'.ret = cal.ret
        BY <1>2, <1>8
    <2>4. cal.q \in 0 .. Len(queue') /\ cal.q # 0 /\ cal.ret # "none"
        BY <1>0, <1>1, <1>5 DEF Types, CalTypes
    <2> QED BY <2>2, <2>3, <2>4 DEF CalTypes
<1>10. Observed(cal.q, t)
    BY <1>1, <1>2, <1>3, <1>5, ObserveFacts
<1>11. \A p \in 1 .. Len(queue) :
          /\ queue'[p].has_new_cov = queue[p].has_new_cov
          /\ queue'[p].var_behavior = queue[p].var_behavior
          /\ queue'[p].exec_cksum = IF p = cal.q /\ ~Known(p) THEN t ELSE queue[p].exec_cksum
    <2> HIDE DEF e
    <2> QED BY <1>4, <1>5
<1>12. cal'.new_bits = IF Differs(t) /\ HasNewBits(virgin_bits, t) > cal.new_bits
                       THEN HasNewBits(virgin_bits, t) ELSE cal.new_bits
    <2> HIDE DEF c
    <2> QED BY <1>1, <1>2, <1>8 DEF Calibration
<1>13. UNCHANGED <<crash_mode, stop_soon, fault, virgin_tmout, virgin_crash, unique_hangs,
                   unique_crashes, crashes, staleFirst>>
    BY DEF CalRun
<1> HIDE DEF c, e, hnb
<1> QED BY <1>0, <1>2, <1>3, <1>5, <1>8, <1>9, <1>10, <1>11, <1>12, <1>13 DEF Compared

\* The step leaves alone what queue entries and their marks are about.
Uninteresting ==
    /\ UNCHANGED <<queue, var_bytes, cal, seen, firstHit, staleFirst>>
    /\ \A s \in Slots : virgin_bits'[s] = virgin_bits[s]
    /\ pc' = pc \/ {pc, pc'} \subseteq {"idle", "judge", "rerun", "halt"}

\* save_if_interesting adds an input with trace t to the queue, and has it calibrated.
Queued(t) ==
    /\ pc # "cal" /\ UNCHANGED <<var_bytes, crashes>>
    /\ QueueTypes' /\ Len(queue') = Len(queue) + 1
    /\ \A p \in 1 .. Len(queue) : queue'[p] = queue[p]
    /\ queue'[Len(queue) + 1].exec_cksum = t
    /\ queue'[Len(queue) + 1].has_new_cov = (HasNewBits(virgin_bits, t) = 2)
    /\ queue'[Len(queue) + 1].var_behavior = FALSE
    /\ virgin_bits' = Cleared(virgin_bits, t)
    /\ Begun(Len(queue) + 1) /\ Observed(Len(queue) + 1, t)

\* An input that is run is queued, or leaves the queue and its map alone.
LEMMA ExecuteFacts ==
    ASSUME Types, Execute
    PROVE  Uninteresting \/ \E t \in AllTraces : Queued(t)
<1>0. Traces \subseteq AllTraces /\ pc = "idle" /\ UNCHANGED <<var_bytes, crashes>>
    BY NoveltyAssumption DEF Execute
<1>1. PICK t \in Traces, f \in Faults :
         /\ RunTarget(t)
         /\ virgin_bits' = IF MergedVerdict(f) THEN Cleared(virgin_bits, t) ELSE virgin_bits
         /\ \/ /\ Expected(f) /\ HasNewBits(virgin_bits, t) = 0 /\ pc' = "idle"
               /\ UNCHANGED <<fault, queue, cal, seen, firstHit, staleFirst>>
            \/ /\ Expected(f) /\ Len(queue) < MaxEntries
               /\ queue' = Append(queue, [EntryOf(t, HasNewBits(virgin_bits, t) = 2)
                                            EXCEPT !.cal_failed = 1])
               /\ Observe(Len(queue'), t) /\ CalBegin(Len(queue'), "judge")
            \/ /\ ~Expected(f) /\ pc' = "judge"
               /\ UNCHANGED <<queue, cal, seen, firstHit, staleFirst>>
    BY DEF Execute
<1>2. t \in AllTraces /\ virgin_bits \in [Slots -> SUBSET Full]
    BY <1>0 DEF Types, MapTypes
<1>3. CASE Expected(f) /\ HasNewBits(virgin_bits, t) = 0 /\ pc' = "idle"
             /\ UNCHANGED <<fault, queue, cal, seen, firstHit, staleFirst>>
    <2>1. \A s \in Slots : t[s] \notin virgin_bits[s]
        BY <1>2, <1>3, NewBitsFacts
    <2>2. virgin_bits' \in {virgin_bits, Cleared(virgin_bits, t)}
        BY <1>1
    <2>3. \A s \in Slots : Cleared(virgin_bits, t)[s] = virgin_bits[s] \ {t[s]}
        BY <1>2, ClearedFacts
    <2>4. \A s \in Slots : virgin_bits'[s] = virgin_bits[s]
        BY <2>1, <2>2, <2>3
    <2> QED BY <1>0, <1>3, <2>4 DEF Uninteresting
<1>4. CASE ~Expected(f) /\ pc' = "judge" /\ UNCHANGED <<queue, cal, seen, firstHit, staleFirst>>
    <2>1. virgin_bits' = virgin_bits
        BY <1>1, <1>4 DEF MergedVerdict
    <2> QED BY <1>0, <1>4, <2>1 DEF Uninteresting
<1>5. CASE /\ Expected(f) /\ Len(queue) < MaxEntries
           /\ queue' = Append(queue, [EntryOf(t, HasNewBits(virgin_bits, t) = 2)
                                        EXCEPT !.cal_failed = 1])
           /\ Observe(Len(queue'), t) /\ CalBegin(Len(queue'), "judge")
    <2> DEFINE cov == HasNewBits(virgin_bits, t) = 2
               e == [EntryOf(t, cov) EXCEPT !.cal_failed = 1]
    <2>1. e \in Entry /\ e.exec_cksum = t /\ e.has_new_cov = cov /\ e.var_behavior = FALSE
        <3>1. cov \in BOOLEAN
            OBVIOUS
        <3> HIDE DEF cov
        <3>2. /\ EntryOf(t, cov) \in Entry /\ EntryOf(t, cov).exec_cksum = t
              /\ EntryOf(t, cov).has_new_cov = cov /\ EntryOf(t, cov).var_behavior = FALSE
            BY <1>2, <3>1, Bounds DEF EntryOf, Entry
        <3> QED BY <3>2, Bounds DEF Entry
    <2>2. queue' = Append(queue, e)
        BY <1>5
    <2> HIDE DEF e
    <2>3. /\ queue' \in Seq(Entry) /\ Len(queue') = Len(queue) + 1
          /\ \A p \in 1 .. Len(queue) : queue'[p] = queue[p]
          /\ queue'[Len(queue) + 1] = e /\ Len(queue) \in Nat
        BY <2>1, <2>2, AppendProperties, LenProperties DEF Types, QueueTypes
    <2>4. QueueTypes' /\ Len(queue') \in 1 .. Len(queue')
        BY <1>5, <2>3, Bounds DEF Types, QueueTypes
    <2>5. Observed(Len(queue'), t)
        BY <1>2, <1>5, <2>3, <2>4, ObserveFacts
    <2>6. trace_bits' \in AllTraces
        BY <1>1, <1>2 DEF RunTarget
    <2>7. Begun(Len(queue'))
        BY <1>5, <2>4, <2>6, CalBeginFacts
    <2>8. virgin_bits' = Cleared(virgin_bits, t)
        BY <1>1, <1>5 DEF MergedVerdict
    <2>9. Queued(t)
        BY <1>0, <2>1, <2>3, <2>4, <2>5, <2>7, <2>8 DEF Queued
    <2> QED BY <1>2, <2>9
<1> QED BY <1>1, <1>3, <1>4, <1>5

\* Judging a verdict, running a hang again and halting do not concern the queue.
LEMMA JudgeFacts ==
    ASSUME JudgeNone \/ JudgeHang \/ Rerun \/ JudgeCrash \/ Halted \/ UNCHANGED vars
    PROVE  Uninteresting
BY DEF JudgeNone, JudgeHang, Rerun, JudgeCrash, Halted, vars, mapVars, Uninteresting

\* perform_dry_run or fuzz_one went on, perhaps by starting a calibration.
Started ==
    /\ pc # "cal"
    /\ UNCHANGED <<virgin_bits, var_bytes, seen, firstHit>>
    /\ \/ UNCHANGED <<queue, cal, staleFirst>> /\ pc' = "idle"
       \/ \E q \in 1 .. Len(queue) :
             Marked(q, queue[q].has_new_cov, queue[q].var_behavior) /\ Begun(q)

\* Every step is of one of these shapes.
LEMMA StepShapes ==
    ASSUME Types, [Next]_vars
    PROVE  \/ Uninteresting
           \/ Started
           \/ Concluded
           \/ \E t \in AllTraces : Compared(t) \/ Queued(t)
BY StartFacts, StopsFacts, CalRunFacts, ExecuteFacts, JudgeFacts DEF Next, mapVars, Started

-----------------------------------------------------------------------------
(* Type correctness.                                                        *)

\* The queue, the calibration and the histories keep their types.
LEMMA NextQueueTypes ==
    ASSUME Types, [Next]_vars
    PROVE  QueueTypes' /\ CalTypes' /\ HistTypes'
<1> USE DEF Types
<1>1. CASE Uninteresting
    BY <1>1 DEF Uninteresting, QueueTypes, CalTypes, HistTypes
<1>2. CASE Started
    BY <1>2 DEF Started, Marked, Begun, QueueTypes, CalTypes, HistTypes
<1>3. CASE Concluded
    <2>1. QueueTypes' /\ Len(queue') = Len(queue)
        BY <1>3 DEF Concluded, Marked
    <2>2. cal' \in Calibration /\ cal'.q = 0 /\ cal'.stage_cur = 0 /\ cal'.stage_max = 0
        BY <1>3, Bounds DEF Concluded, NoCal, Calibration
    <2>3. CalTypes'
        BY <1>3, <2>1, <2>2, LenProperties, Bounds DEF Concluded, CalTypes, QueueTypes
    <2> QED BY <1>3, <2>1, <2>3 DEF Concluded, HistTypes
<1>4. CASE \E t \in AllTraces : Compared(t)
    BY <1>4 DEF Compared, Observed, HistTypes
<1>5. CASE \E t \in AllTraces : Queued(t)
    BY <1>5 DEF Queued, Begun, Observed, HistTypes
<1> QED BY <1>1, <1>2, <1>3, <1>4, <1>5, StepShapes

\* Labels, verdicts and counters keep their types, and the limits hold.
LEMMA NextRunTypes ==
    ASSUME Types, [Next]_vars
    PROVE  RunTypes'
<1> USE Bounds DEF Types, RunTypes, Faults
<1>0. Traces \subseteq AllTraces
    BY NoveltyAssumption
<1>1. CASE DryRun \/ Retry
    BY <1>1 DEF DryRun, Retry, CalBegin, mapVars
<1>2. CASE CalRun
    BY <1>0, <1>2 DEF CalRun, RunTarget
<1>3. CASE CalAbort
    <2>1. /\ pc' \in {"dry", "idle", "judge", "halt"}
          /\ UNCHANGED <<crash_mode, fault, unique_hangs, unique_crashes>>
        BY <1>3, StopsFacts DEF Concluded, mapVars
    <2>2. stop_soon' \in BOOLEAN /\ \E t \in Traces : RunTarget(t)
        BY <1>3 DEF CalAbort
    <2> QED BY <1>0, <2>1, <2>2 DEF RunTarget
<1>4. CASE CalEnd
    <2>1. /\ pc' \in {"dry", "idle", "judge", "halt"}
          /\ UNCHANGED <<crash_mode, fault, unique_hangs, unique_crashes>>
        BY <1>4, StopsFacts DEF Concluded, mapVars
    <2> QED BY <1>4, <2>1 DEF CalEnd
<1>5. CASE Execute
    <2>1. PICK t \in Traces, f \in Faults :
             /\ RunTarget(t)
             /\ pc' \in {"idle", "judge", "cal"} /\ fault' \in {fault, f}
        BY <1>5 DEF Execute, CalBegin
    <2>2. runs' \in 0 .. MaxRuns /\ trace_bits' \in AllTraces
        BY <1>0, <2>1 DEF RunTarget
    <2>3. UNCHANGED <<crash_mode, stop_soon, unique_hangs, unique_crashes>>
        BY <1>5 DEF Execute
    <2> QED BY <2>1, <2>2, <2>3
<1>6. CASE JudgeNone
    BY <1>6 DEF JudgeNone, mapVars
<1>7. CASE JudgeHang
    <2>1. trace_bits' \in AllTraces
        BY <1>7, SimplifiedType DEF JudgeHang
    <2>2. /\ unique_hangs' \in 0 .. KeepHang /\ pc' \in {"idle", "rerun"}
          /\ pc' = "rerun" => unique_hangs' < KeepHang
        BY <1>7 DEF JudgeHang
    <2> QED BY <1>7, <2>1, <2>2 DEF JudgeHang
<1>8. CASE Rerun
    <2>1. PICK t \in Traces : RunTarget(t)
        BY <1>8 DEF Rerun
    <2>2. runs' \in 0 .. MaxRuns /\ trace_bits' \in AllTraces
        BY <1>0, <2>1 DEF RunTarget
    <2>3. stop_soon' \in BOOLEAN
        BY <1>8 DEF Rerun
    <2>4. /\ unique_hangs' \in 0 .. KeepHang /\ pc' \in {"halt", "judge", "idle"}
          /\ fault' \in {"FAULT_NONE", "FAULT_CRASH"}
        BY <1>8 DEF Rerun
    <2> QED BY <1>8, <2>2, <2>3, <2>4 DEF Rerun
<1>9. CASE JudgeCrash
    <2>1. trace_bits' \in AllTraces
        BY <1>9, SimplifiedType DEF JudgeCrash
    <2>2. unique_crashes' \in 0 .. KeepCrash
        BY <1>9 DEF JudgeCrash, CrashLimit
    <2> QED BY <1>9, <2>1, <2>2 DEF JudgeCrash
<1>10. CASE Halted \/ UNCHANGED vars
    BY <1>10 DEF Halted, vars, mapVars
<1> QED BY <1>1, <1>2, <1>3, <1>4, <1>5, <1>6, <1>7, <1>8, <1>9, <1>10 DEF Next

\* The maps keep theirs.
LEMMA NextMapTypes ==
    ASSUME Types, [Next]_vars
    PROVE  MapTypes'
<1> USE DEF Types, MapTypes, mapVars
<1>0. Traces \subseteq AllTraces /\ trace_bits \in AllTraces
    BY NoveltyAssumption DEF RunTypes
<1>1. CASE DryRun \/ Retry
    BY <1>1, StartFacts DEF Begun
<1>2. CASE CalRun
    <2>1. PICK t \in AllTraces : Compared(t)
        BY <1>2, CalRunFacts
    <2>2. virgin_bits' \in [Slots -> SUBSET Full]
        BY <2>1, ClearedFacts DEF Compared
    <2>3. var_bytes' \subseteq Slots
        BY <2>1 DEF Compared
    <2> QED BY <2>1, <2>2, <2>3 DEF Compared
<1>3. CASE CalAbort \/ CalEnd
    BY <1>3 DEF CalAbort, CalEnd
<1>4. CASE Execute
    <2>1. \E t \in Traces, f \in Faults :
             virgin_bits' = IF MergedVerdict(f) THEN Cleared(virgin_bits, t) ELSE virgin_bits
        BY <1>4 DEF Execute
    <2>2. virgin_bits' \in [Slots -> SUBSET Full]
        BY <1>0, <2>1, ClearedFacts
    <2>3. staleFirst' \in BOOLEAN
        BY <1>4, ExecuteFacts DEF Uninteresting, Queued, Begun
    <2> QED BY <1>4, <2>2, <2>3 DEF Execute
<1>5. CASE JudgeNone \/ Rerun \/ Halted \/ UNCHANGED vars
    BY <1>5 DEF JudgeNone, Rerun, Halted, vars
<1>6. CASE JudgeHang
    <2>1. virgin_tmout' \in [Slots -> SUBSET Full]
        BY <1>0, <1>6, ClearedFacts, SimplifiedType DEF JudgeHang
    <2> QED BY <1>6, <2>1 DEF JudgeHang
<1>7. CASE JudgeCrash
    <2>1. virgin_crash' \in [Slots -> SUBSET Full]
        BY <1>0, <1>7, ClearedFacts, SimplifiedType DEF JudgeCrash
    <2>2. crashes' \subseteq SUBSET Slots
        BY <1>7 DEF JudgeCrash, Hits
    <2> QED BY <1>7, <2>1, <2>2 DEF JudgeCrash
<1> QED BY <1>1, <1>2, <1>3, <1>4, <1>5, <1>6, <1>7 DEF Next

\* The types hold in every reachable state.
LEMMA TypesAlways == Spec => []Types
<1>1. Types /\ [Next]_vars => Types'
    BY NextQueueTypes, NextRunTypes, NextMapTypes DEF Types
<1> QED BY <1>1, InitTypes, PTL DEF Spec

\* Every variable of the bitmap logic has its type, and the numbers of saved
\* hangs and crashes keep to KEEP_UNIQUE_HANG and KEEP_UNIQUE_CRASH.
THEOREM TypeCorrect == Spec => []TypeOK
<1>1. Types => TypeOK
    BY TypeParts DEF TypeInv
<1> QED BY <1>1, TypesAlways, PTL

-----------------------------------------------------------------------------
(* What the queue knows of the traces.                                      *)

\* The length of the queue is a number within its bound.
LEMMA Length ==
    ASSUME Types
    PROVE  /\ Len(queue) \in Nat /\ Len(queue) <= MaxEntries
           /\ \A p \in 1 .. Len(queue) : p \in 1 .. MaxEntries
BY LenProperties, Bounds DEF Types, QueueTypes

\* A step that compares a trace keeps the length of the queue, and records the
\* trace for the entry it calibrates.
LEMMA ComparedFacts ==
    ASSUME Types, NEW t \in AllTraces, Compared(t)
    PROVE  /\ cal.q \in 1 .. Len(queue) /\ Len(queue') = Len(queue)
           /\ \A s \in Slots : seen'[cal.q][s] = seen[cal.q][s] \cup {t[s]}
           /\ \A p \in 1 .. MaxEntries : p # cal.q => \A s \in Slots : seen'[p][s] = seen[p][s]
<1>1. cal.q \in 1 .. Len(queue)
    BY LenProperties DEF Types, CalTypes, QueueTypes, Compared
<1>2. cal.q \in 1 .. MaxEntries
    BY <1>1, Length
<1>3. \A p \in 1 .. MaxEntries, s \in Slots :
         seen'[p][s] = IF p = cal.q THEN seen[p][s] \cup {t[s]} ELSE seen[p][s]
    BY DEF Compared, Observed
<1>4. Len(queue') = Len(queue)
    BY DEF Compared
<1> QED BY <1>1, <1>2, <1>3, <1>4

\* A step that queues an input makes the queue longer by one, and records the trace
\* for the new entry, of which nothing was recorded before.
LEMMA QueuedFacts ==
    ASSUME Types, SeenOK, NEW t \in AllTraces, Queued(t), NEW n, n = Len(queue) + 1
    PROVE  /\ Len(queue') = n /\ n \in 1 .. MaxEntries /\ 1 .. n = (1 .. Len(queue)) \cup {n}
           /\ n \notin 1 .. Len(queue)
           /\ \A s \in Slots : seen'[n][s] = {t[s]}
           /\ \A p \in 1 .. MaxEntries : p # n => \A s \in Slots : seen'[p][s] = seen[p][s]
           /\ \A s \in Slots : firstHit[s] # n
<1>1. Len(queue') = n /\ n <= MaxEntries
    BY DEF Queued, QueueTypes
<1>2. n \in 1 .. MaxEntries /\ n > Len(queue) /\ n \notin 1 .. Len(queue)
    BY <1>1, Length, Bounds
<1>3. 1 .. n = (1 .. Len(queue)) \cup {n}
    BY Length
<1>4. \A p \in 1 .. MaxEntries, s \in Slots :
         seen'[p][s] = IF p = n THEN seen[p][s] \cup {t[s]} ELSE seen[p][s]
    BY DEF Queued, Observed
<1>5. ASSUME NEW s \in Slots PROVE seen'[n][s] = {t[s]}
    <2>1. seen[n][s] = {}
        BY <1>2 DEF SeenOK
    <2> QED BY <1>2, <1>4, <2>1
<1>6. ASSUME NEW s \in Slots PROVE firstHit[s] # n
    BY <1>2, Length DEF Types, HistTypes
<1> QED BY <1>1, <1>2, <1>3, <1>4, <1>5, <1>6

\* A set grows by an element: two of its elements differ if two did before, or the
\* new one differs from some old one.
LEMMA VariedGrows ==
    ASSUME NEW S, NEW a, NEW b \in S
    PROVE  Varied(S \cup {a}) <=> Varied(S) \/ a # b
BY DEF Varied

\* A trace that is compared, though the map may be skipped because of an equal
\* checksum, leaves virgin_bits without its pairs, and new_bits tells whether
\* it reached a byte first.
LEMMA ComparedMap ==
    ASSUME Types, SeenOK, VirginInv, NEW t \in AllTraces, Compared(t)
    PROVE  /\ \A s \in Slots : virgin_bits'[s] = virgin_bits[s] \ {t[s]}
           /\ cal'.new_bits = 2 <=>
                 cal.new_bits = 2 \/ \E s \in Slots : t[s] # 0 /\ firstHit[s] = 0
<1>0. /\ virgin_bits \in [Slots -> SUBSET Full] /\ cal.q \in 1 .. Len(queue)
      /\ cal.new_bits \in 0 .. 2 /\ t \in [Slots -> 0 .. Class] /\ t # NoTrace
    <2>1. cal.q \in 1 .. Len(queue)
        BY LenProperties DEF Types, CalTypes, QueueTypes, Compared
    <2> QED BY <2>1, NoTraceIsNone DEF Types, MapTypes, CalTypes, Calibration, AllTraces
<1>1. CASE Differs(t)
    <2>1. \A s \in Slots : virgin_bits'[s] = virgin_bits[s] \ {t[s]}
        BY <1>0, <1>1, ClearedFacts DEF Compared
    <2>2. /\ HasNewBits(virgin_bits, t) \in 0 .. 2
          /\ HasNewBits(virgin_bits, t) = 2 <=> \E s \in Slots : t[s] # 0 /\ virgin_bits[s] = Full
        BY <1>0, NewBitsFacts
    <2>3. cal'.new_bits = IF HasNewBits(virgin_bits, t) > cal.new_bits
                          THEN HasNewBits(virgin_bits, t) ELSE cal.new_bits
        BY <1>1 DEF Compared
    <2>4. cal'.new_bits = 2 <=> cal.new_bits = 2 \/ HasNewBits(virgin_bits, t) = 2
        BY <1>0, <2>2, <2>3
    <2> QED BY <2>1, <2>2, <2>4 DEF VirginInv
<1>2. CASE ~Differs(t)
    <2>1. \A s \in Slots : t[s] \in seen[cal.q][s]
        BY <1>0, <1>2 DEF Differs, SeenOK, Known
    <2>2. \A s \in Slots : t[s] # 0 => t[s] \in Full
        BY <1>0, Bounds DEF Full
    <2>3. \A s \in Slots : t[s] # 0 => t[s] \notin virgin_bits[s]
        BY <1>0, <2>1, <2>2 DEF VirginInv
    <2>4. \A s \in Slots : t[s] = 0 => t[s] \notin virgin_bits[s]
        BY <1>0, Bounds DEF Full
    <2>5. virgin_bits' = virgin_bits /\ cal'.new_bits = cal.new_bits
        BY <1>2 DEF Compared
    <2>6. \A s \in Slots : t[s] # 0 => firstHit[s] # 0
        BY <2>2, <2>3 DEF VirginInv
    <2> QED BY <2>3, <2>4, <2>5, <2>6
<1> QED BY <1>1, <1>2

\* The runs of an entry differ in a byte iff they did before, or this trace
\* differs there from the one whose checksum the entry has.
LEMMA ComparedVaried ==
    ASSUME Types, SeenOK, NEW t \in AllTraces, Compared(t), NEW s \in Slots
    PROVE  Varied(seen'[cal.q][s]) <=>
              Varied(seen[cal.q][s]) \/ (Known(cal.q) /\ t[s] # queue[cal.q].exec_cksum[s])
<1>1. cal.q \in 1 .. Len(queue) /\ cal.q \in 1 .. MaxEntries
    BY LenProperties, Bounds DEF Types, CalTypes, QueueTypes, Compared
<1>2. seen'[cal.q][s] = seen[cal.q][s] \cup {t[s]}
    BY <1>1 DEF Compared, Observed
<1>3. CASE Known(cal.q)
    <2>1. queue[cal.q].exec_cksum[s] \in seen[cal.q][s]
        BY <1>1, <1>3 DEF SeenOK
    <2>2. Varied(seen[cal.q][s] \cup {t[s]}) <=>
             Varied(seen[cal.q][s]) \/ t[s] # queue[cal.q].exec_cksum[s]
        BY <2>1, VariedGrows
    <2> QED BY <1>2, <1>3, <2>2
<1>4. CASE ~Known(cal.q)
    <2>1. seen[cal.q][s] = {}
        BY <1>1, <1>4 DEF SeenOK
    <2> QED BY <1>2, <1>4, <2>1 DEF Varied
<1> QED BY <1>3, <1>4

\* Every step keeps the checksums of the entries among their observed traces.
LEMMA NextSeen ==
    ASSUME Types, SeenOK, [Next]_vars
    PROVE  SeenOK'
<1>1. CASE Uninteresting
    BY <1>1 DEF Uninteresting, SeenOK, Known
<1>2. CASE Started
    BY <1>2 DEF Started, Marked, SeenOK, Known
<1>3. CASE Concluded
    BY <1>3 DEF Concluded, Marked, SeenOK, Known
<1>4. ASSUME NEW t \in AllTraces, Compared(t) PROVE SeenOK'
    <2>0. /\ cal.q \in 1 .. Len(queue) /\ Len(queue') = Len(queue)
          /\ \A s \in Slots : seen'[cal.q][s] = seen[cal.q][s] \cup {t[s]}
          /\ \A p \in 1 .. MaxEntries : p # cal.q => \A s \in Slots : seen'[p][s] = seen[p][s]
        BY <1>4, ComparedFacts
    <2>1. \A p \in 1 .. Len(queue) :
             queue'[p].exec_cksum = IF p = cal.q /\ ~Known(p) THEN t ELSE queue[p].exec_cksum
        BY <1>4 DEF Compared
    <2>2. ASSUME NEW p \in 1 .. Len(queue), NEW s \in Slots
          PROVE  IF Known(p)' THEN queue'[p].exec_cksum[s] \in seen'[p][s] ELSE seen'[p][s] = {}
        <3>1. CASE p = cal.q /\ Known(p)
            <4>1. queue[p].exec_cksum[s] \in seen[p][s]
                BY <3>1 DEF SeenOK
            <4>2. queue'[p].exec_cksum = queue[p].exec_cksum /\ Known(p)'
                BY <2>1, <3>1 DEF Known
            <4> QED BY <2>0, <3>1, <4>1, <4>2
        <3>2. CASE p = cal.q /\ ~Known(p)
            <4>1. queue'[p].exec_cksum = t /\ Known(p)'
                BY <2>1, <3>2, NoTraceIsNone DEF Known
            <4> QED BY <2>0, <3>2, <4>1
        <3>3. CASE p # cal.q
            <4>1. seen'[p][s] = seen[p][s]
                BY <2>0, <3>3, Length
            <4>2. queue'[p].exec_cksum = queue[p].exec_cksum
                BY <2>1, <3>3
            <4> QED BY <4>1, <4>2 DEF SeenOK, Known
        <3> QED BY <3>1, <3>2, <3>3
    <2>3. ASSUME NEW p \in 1 .. MaxEntries, NEW s \in Slots, p > Len(queue)
          PROVE  seen'[p][s] = {}
        <3>1. p # cal.q
            BY <2>0, <2>3, Length
        <3>2. seen[p][s] = {}
            BY <2>3 DEF SeenOK
        <3> QED BY <2>0, <3>1, <3>2
    <2> QED BY <2>0, <2>2, <2>3 DEF SeenOK
<1>5. ASSUME NEW t \in AllTraces, Queued(t) PROVE SeenOK'
    <2> DEFINE n == Len(queue) + 1
    <2>0. /\ Len(queue') = n /\ n \in 1 .. MaxEntries /\ 1 .. n = (1 .. Len(queue)) \cup {n}
          /\ n \notin 1 .. Len(queue)
          /\ \A s \in Slots : seen'[n][s] = {t[s]}
          /\ \A p \in 1 .. MaxEntries : p # n => \A s \in Slots : seen'[p][s] = seen[p][s]
        BY <1>5, QueuedFacts
    <2>1. queue'[n].exec_cksum = t /\ t # NoTrace
        BY <1>5, NoTraceIsNone DEF Queued
    <2>2. \A p \in 1 .. Len(queue) : queue'[p] = queue[p]
        BY <1>5 DEF Queued
    <2>3. ASSUME NEW p \in 1 .. n, NEW s \in Slots
          PROVE  IF Known(p)' THEN queue'[p].exec_cksum[s] \in seen'[p][s] ELSE seen'[p][s] = {}
        <3> HIDE DEF n
        <3>1. CASE p = n
            BY <2>0, <2>1, <3>1 DEF Known
        <3>2. CASE p \in 1 .. Len(queue)
            <4>1. seen'[p][s] = seen[p][s]
                BY <2>0, <3>2, Length
            <4> QED BY <2>2, <3>2, <4>1 DEF SeenOK, Known
        <3> QED BY <2>0, <3>1, <3>2
    <2>4. ASSUME NEW p \in 1 .. MaxEntries, NEW s \in Slots, p > n
          PROVE  seen'[p][s] = {}
        <3>1. p # n /\ p > Len(queue)
            BY <2>4, Length
        <3> QED BY <2>0, <3>1 DEF SeenOK
    <2> QED BY <2>0, <2>3, <2>4 DEF SeenOK
<1> QED BY <1>1, <1>2, <1>3, <1>4, <1>5, StepShapes

\* A byte of the map after the pair of a trace was cleared.
LEMMA ClearedByte ==
    ASSUME NEW V \in SUBSET Full, NEW k \in 0 .. Class
    PROVE  V \ {k} = Full <=> V = Full /\ k = 0
<1>1. k # 0 => k \in Full
    BY Bounds DEF Full
<1>2. 0 \notin Full
    BY Bounds DEF Full
<1> QED BY <1>1, <1>2

\* Every step keeps virgin_bits exact.
LEMMA NextVirgin ==
    ASSUME Types, SeenOK, VirginInv, [Next]_vars
    PROVE  VirginInv'
<1>1. CASE Uninteresting
    BY <1>1 DEF Uninteresting, VirginInv
<1>2. CASE Started
    BY <1>2 DEF Started, Marked, VirginInv
<1>3. CASE Concluded
    BY <1>3 DEF Concluded, Marked, VirginInv, mapVars
<1>4. ASSUME NEW t \in AllTraces, Compared(t) PROVE VirginInv'
    <2>0. /\ cal.q \in 1 .. Len(queue) /\ Len(queue') = Len(queue)
          /\ \A s \in Slots : seen'[cal.q][s] = seen[cal.q][s] \cup {t[s]}
          /\ \A p \in 1 .. MaxEntries : p # cal.q => \A s \in Slots : seen'[p][s] = seen[p][s]
        BY <1>4, ComparedFacts
    <2>1. \A s \in Slots : virgin_bits'[s] = virgin_bits[s] \ {t[s]}
        BY <1>4, ComparedMap
    <2>2. ASSUME NEW s \in Slots, NEW k \in Full
          PROVE  k \notin virgin_bits'[s] <=> \E q \in 1 .. Len(queue) : k \in seen'[q][s]
        <3>1. k \notin virgin_bits'[s] <=> k \notin virgin_bits[s] \/ k = t[s]
            BY <2>1
        <3>2. ASSUME NEW q \in 1 .. Len(queue)
              PROVE  k \in seen'[q][s] <=> k \in seen[q][s] \/ (q = cal.q /\ k = t[s])
            BY <2>0, Length
        <3>3. (\E q \in 1 .. Len(queue) : k \in seen'[q][s]) <=>
                 (\E q \in 1 .. Len(queue) : k \in seen[q][s]) \/ k = t[s]
            BY <2>0, <3>2
        <3> QED BY <3>1, <3>3 DEF VirginInv
    <2>3. ASSUME NEW s \in Slots PROVE firstHit'[s] = 0 <=> virgin_bits'[s] = Full
        <3>1. virgin_bits[s] \in SUBSET Full /\ t[s] \in 0 .. Class
            BY DEF AllTraces, Types, MapTypes
        <3>2. virgin_bits'[s] = Full <=> virgin_bits[s] = Full /\ t[s] = 0
            BY <2>1, <3>1, ClearedByte
        <3>3. cal.q # 0
            BY <2>0, Length
        <3>4. firstHit'[s] = IF firstHit[s] = 0 /\ t[s] # 0 THEN cal.q ELSE firstHit[s]
            BY <1>4 DEF Compared, Observed
        <3>5. firstHit'[s] = 0 <=> firstHit[s] = 0 /\ t[s] = 0
            BY <3>3, <3>4
        <3> QED BY <3>2, <3>5 DEF VirginInv
    <2> QED BY <2>0, <2>2, <2>3 DEF VirginInv
<1>5. ASSUME NEW t \in AllTraces, Queued(t) PROVE VirginInv'
    <2> DEFINE n == Len(queue) + 1
    <2>0. /\ Len(queue') = n /\ n \in 1 .. MaxEntries /\ 1 .. n = (1 .. Len(queue)) \cup {n}
          /\ n \notin 1 .. Len(queue)
          /\ \A s \in Slots : seen'[n][s] = {t[s]}
          /\ \A p \in 1 .. MaxEntries : p # n => \A s \in Slots : seen'[p][s] = seen[p][s]
        BY <1>5, QueuedFacts
    <2>1. virgin_bits \in [Slots -> SUBSET Full]
        BY DEF Types, MapTypes
    <2>2. \A s \in Slots : virgin_bits'[s] = virgin_bits[s] \ {t[s]}
        BY <1>5, <2>1, ClearedFacts DEF Queued
    <2>3. ASSUME NEW s \in Slots, NEW k \in Full
          PROVE  k \notin virgin_bits'[s] <=> \E q \in 1 .. n : k \in seen'[q][s]
        <3> HIDE DEF n
        <3>1. k \notin virgin_bits'[s] <=> k \notin virgin_bits[s] \/ k = t[s]
            BY <2>2
        <3>2. ASSUME NEW q \in 1 .. Len(queue) PROVE seen'[q][s] = seen[q][s]
            BY <2>0, Length
        <3>3. (\E q \in 1 .. n : k \in seen'[q][s]) <=>
                 (\E q \in 1 .. Len(queue) : k \in seen[q][s]) \/ k = t[s]
            BY <2>0, <3>2
        <3> QED BY <3>1, <3>3 DEF VirginInv
    <2>4. ASSUME NEW s \in Slots PROVE firstHit'[s] = 0 <=> virgin_bits'[s] = Full
        <3>1. virgin_bits[s] \in SUBSET Full /\ t[s] \in 0 .. Class
            BY <2>1 DEF AllTraces
        <3>2. virgin_bits'[s] = Full <=> virgin_bits[s] = Full /\ t[s] = 0
            BY <2>2, <3>1, ClearedByte
        <3>3. firstHit'[s] = IF firstHit[s] = 0 /\ t[s] # 0 THEN n ELSE firstHit[s]
            BY <1>5 DEF Queued, Observed
        <3>4. n # 0
            BY Length
        <3>5. firstHit'[s] = 0 <=> firstHit[s] = 0 /\ t[s] = 0
            BY <3>3, <3>4
        <3> QED BY <3>2, <3>5 DEF VirginInv
    <2> QED BY <2>0, <2>3, <2>4 DEF VirginInv
<1> QED BY <1>1, <1>2, <1>3, <1>4, <1>5, StepShapes

\* Every step keeps the marks of new coverage exact.
LEMMA NextNewCov ==
    ASSUME Types, SeenOK, VirginInv, NewCovInv, [Next]_vars
    PROVE  NewCovInv'
<1>1. CASE Uninteresting
    BY <1>1 DEF Uninteresting, NewCovInv, Calibrated
<1>2. CASE Started
    BY <1>2 DEF Started, Marked, Begun, NewCovInv, Calibrated
<1>3. CASE Concluded
    BY <1>3 DEF Concluded, Marked, NewCovInv, Calibrated
<1>4. ASSUME NEW t \in AllTraces, Compared(t) PROVE NewCovInv'
    <2>0. cal.q \in 1 .. Len(queue) /\ Len(queue') = Len(queue)
        BY <1>4, ComparedFacts
    <2>1. pc = "cal" /\ pc' = "cal" /\ cal'.q = cal.q
        BY <1>4 DEF Compared
    <2>2. \A s \in Slots :
             firstHit'[s] = IF firstHit[s] = 0 /\ t[s] # 0 THEN cal.q ELSE firstHit[s]
        BY <1>4 DEF Compared, Observed
    <2>3. cal'.new_bits = 2 <=>
             cal.new_bits = 2 \/ \E s \in Slots : t[s] # 0 /\ firstHit[s] = 0
        BY <1>4, ComparedMap
    <2>4. ASSUME NEW q \in 1 .. Len(queue)
          PROVE  queue'[q].has_new_cov \/ (Calibrated(q)' /\ cal'.new_bits = 2)
                    <=> \E s \in Slots : firstHit'[s] = q
        <3>1. queue'[q].has_new_cov = queue[q].has_new_cov
            BY <1>4 DEF Compared
        <3>2. q # 0
            BY Length
        <3>3. queue[q].has_new_cov \/ (Calibrated(q) /\ cal.new_bits = 2)
                 <=> \E s \in Slots : firstHit[s] = q
            BY DEF NewCovInv
        <3>4. CASE q = cal.q
            <4>1. (\E s \in Slots : firstHit'[s] = q) <=>
                     \/ \E s \in Slots : firstHit[s] = q
                     \/ \E s \in Slots : t[s] # 0 /\ firstHit[s] = 0
                BY <2>2, <3>2, <3>4
            <4> QED BY <2>1, <2>3, <3>1, <3>3, <3>4, <4>1 DEF Calibrated
        <3>5. CASE q # cal.q
            <4>1. (\E s \in Slots : firstHit'[s] = q) <=> \E s \in Slots : firstHit[s] = q
                BY <2>2, <3>2, <3>5
            <4> QED BY <2>1, <3>1, <3>3, <3>5, <4>1 DEF Calibrated
        <3> QED BY <3>4, <3>5
    <2> QED BY <2>0, <2>4 DEF NewCovInv
<1>5. ASSUME NEW t \in AllTraces, Queued(t) PROVE NewCovInv'
    <2> DEFINE n == Len(queue) + 1
    <2>0. /\ Len(queue') = n /\ 1 .. n = (1 .. Len(queue)) \cup {n} /\ n \notin 1 .. Len(queue)
          /\ \A s \in Slots : firstHit[s] # n
        BY <1>5, QueuedFacts
    <2>1. pc # "cal" /\ pc' = "cal" /\ cal'.q = n /\ cal'.new_bits = 0
        BY <1>5 DEF Queued, Begun
    <2>2. \A s \in Slots : firstHit'[s] = IF firstHit[s] = 0 /\ t[s] # 0 THEN n ELSE firstHit[s]
        BY <1>5 DEF Queued, Observed
    <2>3. queue'[n].has_new_cov <=> \E s \in Slots : t[s] # 0 /\ firstHit[s] = 0
        <3>1. virgin_bits \in [Slots -> SUBSET Full]
            BY DEF Types, MapTypes
        <3>2. HasNewBits(virgin_bits, t) = 2 <=> \E s \in Slots : t[s] # 0 /\ virgin_bits[s] = Full
            BY <3>1, NewBitsFacts
        <3>3. queue'[n].has_new_cov <=> HasNewBits(virgin_bits, t) = 2
            BY <1>5 DEF Queued
        <3> QED BY <3>2, <3>3 DEF VirginInv
    <2>4. \A q \in 1 .. Len(queue) : queue'[q] = queue[q] /\ q # 0
        BY <1>5, Length DEF Queued
    <2> HIDE DEF n
    <2>5. ASSUME NEW q \in 1 .. n
          PROVE  queue'[q].has_new_cov \/ (Calibrated(q)' /\ cal'.new_bits = 2)
                    <=> \E s \in Slots : firstHit'[s] = q
        <3>1. CASE q = n
            <4>1. (\E s \in Slots : firstHit'[s] = n) <=>
                     \E s \in Slots : t[s] # 0 /\ firstHit[s] = 0
                BY <2>0, <2>2
            <4> QED BY <2>1, <2>3, <3>1, <4>1
        <3>2. CASE q \in 1 .. Len(queue)
            <4>1. q # n /\ q # 0
                BY <2>0, <2>4, <3>2
            <4>2. (\E s \in Slots : firstHit'[s] = q) <=> \E s \in Slots : firstHit[s] = q
                BY <2>2, <4>1
            <4>3. queue[q].has_new_cov <=> \E s \in Slots : firstHit[s] = q
                BY <2>1, <3>2 DEF NewCovInv, Calibrated
            <4> QED BY <2>1, <2>4, <3>2, <4>2, <4>3
        <3> QED BY <2>0, <3>1, <3>2
    <2> QED BY <2>0, <2>5 DEF NewCovInv
<1> QED BY <1>1, <1>2, <1>3, <1>4, <1>5, StepShapes

\* Every step keeps the marks of variable behaviour exact.
LEMMA NextVariable ==
    ASSUME Types, SeenOK, VariableInv, [Next]_vars
    PROVE  VariableInv'
<1>1. CASE Uninteresting
    BY <1>1 DEF Uninteresting, VariableInv, Calibrated
<1>2. CASE Started
    BY <1>2 DEF Started, Marked, Begun, VariableInv, Calibrated
<1>3. CASE Concluded
    BY <1>3 DEF Concluded, Marked, VariableInv, Calibrated
<1>4. ASSUME NEW t \in AllTraces, Compared(t) PROVE VariableInv'
    <2>0. /\ cal.q \in 1 .. Len(queue) /\ Len(queue') = Len(queue)
          /\ \A p \in 1 .. MaxEntries : p # cal.q => \A s \in Slots : seen'[p][s] = seen[p][s]
        BY <1>4, ComparedFacts
    <2>1. pc = "cal" /\ pc' = "cal" /\ cal'.q = cal.q
        BY <1>4 DEF Compared
    <2>2. cal'.var_detected = (cal.var_detected \/ (Known(cal.q) /\ Differs(t)))
        BY <1>4 DEF Compared
    <2>3. Known(cal.q) =>
             (Differs(t) <=> \E s \in Slots : t[s] # queue[cal.q].exec_cksum[s])
        <3>1. queue[cal.q] \in Entry
            BY <2>0, ElementOfSeq DEF Types, QueueTypes
        <3>2. Known(cal.q) => queue[cal.q].exec_cksum \in AllTraces
            BY <3>1 DEF Entry, Known
        <3> QED BY <3>2 DEF AllTraces, Differs
    <2>4. \A s \in Slots : Varied(seen'[cal.q][s]) <=>
             Varied(seen[cal.q][s]) \/ (Known(cal.q) /\ t[s] # queue[cal.q].exec_cksum[s])
        BY <1>4, ComparedVaried
    <2>5. (\E s \in Slots : Varied(seen'[cal.q][s])) <=>
             (\E s \in Slots : Varied(seen[cal.q][s])) \/ (Known(cal.q) /\ Differs(t))
        BY <2>3, <2>4
    <2>6. ASSUME NEW q \in 1 .. Len(queue)
          PROVE  queue'[q].var_behavior \/ (Calibrated(q)' /\ cal'.var_detected)
                    <=> \E s \in Slots : Varied(seen'[q][s])
        <3>1. queue'[q].var_behavior = queue[q].var_behavior
            BY <1>4 DEF Compared
        <3>2. queue[q].var_behavior \/ (Calibrated(q) /\ cal.var_detected)
                 <=> \E s \in Slots : Varied(seen[q][s])
            BY DEF VariableInv
        <3>3. CASE q = cal.q
            BY <2>1, <2>2, <2>5, <3>1, <3>2, <3>3 DEF Calibrated
        <3>4. CASE q # cal.q
            <4>1. \A s \in Slots : seen'[q][s] = seen[q][s]
                BY <2>0, <3>4, Length
            <4> QED BY <2>1, <3>1, <3>2, <3>4, <4>1 DEF Calibrated
        <3> QED BY <3>3, <3>4
    <2> QED BY <2>0, <2>6 DEF VariableInv
<1>5. ASSUME NEW t \in AllTraces, Queued(t) PROVE VariableInv'
    <2> DEFINE n == Len(queue) + 1
    <2>0. /\ Len(queue') = n /\ n \in 1 .. MaxEntries /\ 1 .. n = (1 .. Len(queue)) \cup {n}
          /\ n \notin 1 .. Len(queue)
          /\ \A s \in Slots : seen'[n][s] = {t[s]}
          /\ \A p \in 1 .. MaxEntries : p # n => \A s \in Slots : seen'[p][s] = seen[p][s]
        BY <1>5, QueuedFacts
    <2>1. pc # "cal" /\ pc' = "cal" /\ cal'.q = n /\ cal'.var_detected = FALSE
        BY <1>5 DEF Queued, Begun
    <2>2. queue'[n].var_behavior = FALSE /\ \A q \in 1 .. Len(queue) : queue'[q] = queue[q]
        BY <1>5 DEF Queued
    <2> HIDE DEF n
    <2>3. ASSUME NEW q \in 1 .. n
          PROVE  queue'[q].var_behavior \/ (Calibrated(q)' /\ cal'.var_detected)
                    <=> \E s \in Slots : Varied(seen'[q][s])
        <3>1. CASE q = n
            <4>1. \A s \in Slots : ~Varied(seen'[n][s])
                BY <2>0 DEF Varied
            <4> QED BY <2>1, <2>2, <3>1, <4>1
        <3>2. CASE q \in 1 .. Len(queue)
            <4>1. \A s \in Slots : seen'[q][s] = seen[q][s]
                BY <2>0, <3>2, Length
            <4>2. queue[q].var_behavior <=> \E s \in Slots : Varied(seen[q][s])
                BY <2>1, <3>2 DEF VariableInv, Calibrated
            <4> QED BY <2>1, <2>2, <3>2, <4>1, <4>2
        <3> QED BY <2>0, <3>1, <3>2
    <2> QED BY <2>0, <2>3 DEF VariableInv
<1> QED BY <1>1, <1>2, <1>3, <1>4, <1>5, StepShapes

\* Every step keeps var_bytes exact, as long as no calibration was stale.
LEMMA NextVarBytes ==
    ASSUME Types, SeenOK, VarBytesInv, [Next]_vars
    PROVE  VarBytesInv'
<1>1. CASE Uninteresting
    BY <1>1 DEF Uninteresting, VarBytesInv, Known
<1>2. CASE Started
    BY <1>2 DEF Started, Marked, Begun, VarBytesInv, Known
<1>3. CASE Concluded
    BY <1>3 DEF Concluded, Marked, VarBytesInv, Known
<1>4. ASSUME NEW t \in AllTraces, Compared(t), ~staleFirst'
      PROVE  /\ cal'.first_trace = queue'[cal.q].exec_cksum
             /\ \A s \in Slots :
                   s \in var_bytes' <=> \E q \in 1 .. Len(queue') : Varied(seen'[q][s])
    <2>0. /\ cal.q \in 1 .. Len(queue) /\ Len(queue') = Len(queue)
          /\ \A p \in 1 .. MaxEntries : p # cal.q => \A s \in Slots : seen'[p][s] = seen[p][s]
        BY <1>4, ComparedFacts
    <2>1. ~staleFirst /\ pc = "cal" /\ cal'.first_trace = FirstTrace(t)
        BY <1>4 DEF Compared
    <2>2. Known(cal.q) => cal.first_trace = queue[cal.q].exec_cksum
        BY <2>1 DEF VarBytesInv
    <2>3. queue'[cal.q].exec_cksum = IF ~Known(cal.q) THEN t ELSE queue[cal.q].exec_cksum
        BY <1>4, <2>0 DEF Compared
    <2>4. cal'.first_trace = queue'[cal.q].exec_cksum
        BY <2>1, <2>2, <2>3 DEF FirstTrace, Known
    <2>5. ASSUME NEW s \in Slots
          PROVE  s \in var_bytes' <=> \E q \in 1 .. Len(queue) : Varied(seen'[q][s])
        <3>1. s \in var_bytes <=> \E q \in 1 .. Len(queue) : Varied(seen[q][s])
            BY <2>1 DEF VarBytesInv
        <3>2. s \in var_bytes' <=>
                 s \in var_bytes \/ (Known(cal.q) /\ Differs(t) /\ cal.first_trace[s] # t[s])
            BY <1>4 DEF Compared
        <3>3. s \in var_bytes' <=>
                 s \in var_bytes \/ (Known(cal.q) /\ t[s] # queue[cal.q].exec_cksum[s])
            BY <2>2, <3>2 DEF Differs
        <3>4. Varied(seen'[cal.q][s]) <=>
                 Varied(seen[cal.q][s]) \/ (Known(cal.q) /\ t[s] # queue[cal.q].exec_cksum[s])
            BY <1>4, ComparedVaried
        <3>5. \A q \in 1 .. Len(queue) : q # cal.q => seen'[q][s] = seen[q][s]
            BY <2>0, Length
        <3>6. (\E q \in 1 .. Len(queue) : Varied(seen'[q][s])) <=>
                 \/ \E q \in 1 .. Len(queue) : Varied(seen[q][s])
                 \/ Known(cal.q) /\ t[s] # queue[cal.q].exec_cksum[s]
            BY <2>0, <3>4, <3>5
        <3> QED BY <3>1, <3>3, <3>6
    <2> QED BY <2>0, <2>4, <2>5
<1>5. ASSUME NEW t \in AllTraces, Queued(t), ~staleFirst'
      PROVE  /\ queue'[Len(queue) + 1].exec_cksum # NoTrace =>
                   cal'.first_trace = queue'[Len(queue) + 1].exec_cksum
             /\ \A s \in Slots :
                   s \in var_bytes' <=> \E q \in 1 .. Len(queue') : Varied(seen'[q][s])
    <2> DEFINE n == Len(queue) + 1
    <2>0. /\ Len(queue') = n /\ n \in 1 .. MaxEntries /\ 1 .. n = (1 .. Len(queue)) \cup {n}
          /\ n \notin 1 .. Len(queue)
          /\ \A s \in Slots : seen'[n][s] = {t[s]}
          /\ \A p \in 1 .. MaxEntries : p # n => \A s \in Slots : seen'[p][s] = seen[p][s]
        BY <1>5, QueuedFacts
    <2>1. ~staleFirst /\ var_bytes' = var_bytes
        BY <1>5 DEF Queued, Begun, Types, MapTypes
    <2>2. queue'[n].exec_cksum # NoTrace => cal'.first_trace = queue'[n].exec_cksum
        BY <1>5 DEF Queued, Begun
    <2> HIDE DEF n
    <2>3. ASSUME NEW s \in Slots
          PROVE  s \in var_bytes <=> \E q \in 1 .. n : Varied(seen'[q][s])
        <3>1. s \in var_bytes <=> \E q \in 1 .. Len(queue) : Varied(seen[q][s])
            BY <2>1 DEF VarBytesInv
        <3>2. ~Varied(seen'[n][s])
            BY <2>0 DEF Varied
        <3>3. \A q \in 1 .. Len(queue) : seen'[q][s] = seen[q][s]
            BY <2>0, Length
        <3> QED BY <2>0, <3>1, <3>2, <3>3
    <2> QED BY <2>0, <2>1, <2>2, <2>3 DEF n
<1>6. ASSUME NEW t \in AllTraces, Compared(t) PROVE VarBytesInv'
    <2>1. cal'.q = cal.q
        BY <1>6 DEF Compared
    <2> QED BY <1>4, <1>6, <2>1 DEF VarBytesInv, Known
<1>7. ASSUME NEW t \in AllTraces, Queued(t) PROVE VarBytesInv'
    <2>1. cal'.q = Len(queue) + 1
        BY <1>7 DEF Queued, Begun
    <2> QED BY <1>5, <1>7, <2>1 DEF VarBytesInv, Known
<1> QED BY <1>1, <1>2, <1>3, <1>6, <1>7, StepShapes

\* Nothing was observed at the start.
LEMMA InitQueue == Init => QueueInv
<1> SUFFICES ASSUME Init PROVE QueueInv
    OBVIOUS
<1>1. /\ pc = "dry" /\ var_bytes = {}
      /\ \A q \in 1 .. MaxEntries, s \in Slots : seen[q][s] = {}
      /\ \A s \in Slots : firstHit[s] = 0 /\ virgin_bits[s] = Full
    BY DEF Init
<1>2. Len(queue) = Seeds /\ \A q \in 1 .. Len(queue) : queue[q] = EntryOf(NoTrace, FALSE)
    <2>1. queue = [i \in 1 .. Seeds |-> EntryOf(NoTrace, FALSE)] /\ Seeds \in Nat
        BY Bounds DEF Init
    <2> QED BY <2>1
<1>3. \A q \in 1 .. Len(queue) : q \in 1 .. MaxEntries /\ q # 0
    BY <1>2, Bounds
<1>4. \A q \in 1 .. Len(queue) : /\ queue[q].exec_cksum = NoTrace
                                 /\ queue[q].has_new_cov = FALSE
                                 /\ queue[q].var_behavior = FALSE
    BY <1>2 DEF EntryOf
<1>5. SeenOK
    BY <1>1, <1>3, <1>4 DEF SeenOK, Known
<1>6. VirginInv
    BY <1>1, <1>3 DEF VirginInv
<1>7. NewCovInv
    BY <1>1, <1>3, <1>4 DEF NewCovInv, Calibrated
<1>8. VariableInv
    BY <1>1, <1>3, <1>4 DEF VariableInv, Calibrated, Varied
<1>9. VarBytesInv
    BY <1>1, <1>3 DEF VarBytesInv, Varied
<1> QED BY <1>5, <1>6, <1>7, <1>8, <1>9 DEF QueueInv

\* The queue invariant is inductive.
LEMMA QueueAlways == Spec => [](Types /\ QueueInv)
<1>1. Init => Types /\ QueueInv
    BY InitTypes, InitQueue
<1>2. Types /\ QueueInv /\ [Next]_vars => (Types /\ QueueInv)'
    <2> SUFFICES ASSUME Types, QueueInv, [Next]_vars PROVE Types' /\ QueueInv'
        OBVIOUS
    <2>1. Types'
        BY NextQueueTypes, NextRunTypes, NextMapTypes DEF Types
    <2>2. SeenOK' /\ VirginInv' /\ NewCovInv' /\ VariableInv' /\ VarBytesInv'
        BY NextSeen, NextVirgin, NextNewCov, NextVariable, NextVarBytes DEF QueueInv
    <2> QED BY <2>1, <2>2 DEF QueueInv
<1> QED BY <1>1, <1>2, PTL DEF Spec

\* What was observed of an entry in a byte is finite, so counting tells whether
\* two observations differ.
LEMMA SeenCount ==
    ASSUME Types, NEW q \in 1 .. Len(queue), NEW s \in Slots
    PROVE  Cardinality(seen[q][s]) > 1 <=> Varied(seen[q][s])
<1>1. seen[q][s] \subseteq 0 .. Class
    BY Length DEF Types, HistTypes
<1>2. IsFiniteSet(0 .. Class)
    BY Bounds, FS_Interval
<1> QED BY <1>1, <1>2, FS_Subset, CardinalityVaried

\* The bitmap of what is known lacks exactly the pairs some queued entry showed.
THEOREM VirginAlways == Spec => []VirginExact
<1>1. ASSUME Types, QueueInv PROVE VirginExact
    <2>1. DOMAIN queue = 1 .. Len(queue)
        BY <1>1, LenProperties DEF Types, QueueTypes
    <2>2. ASSUME NEW s \in Slots
          PROVE  Full \ virgin_bits[s] = (UNION {seen[q][s] : q \in 1 .. Len(queue)}) \ {0}
        <3>1. \A k \in Full :
                 k \notin virgin_bits[s] <=> \E q \in 1 .. Len(queue) : k \in seen[q][s]
            BY <1>1 DEF QueueInv, VirginInv
        <3>2. \A q \in 1 .. Len(queue) : seen[q][s] \subseteq 0 .. Class
            BY <1>1, Length DEF Types, HistTypes
        <3>3. (0 .. Class) \ {0} = Full
            BY Bounds DEF Full
        <3>4. ASSUME NEW k
              PROVE  k \in Full \ virgin_bits[s]
                        <=> k \in (UNION {seen[q][s] : q \in 1 .. Len(queue)}) \ {0}
            <4>1. k \in UNION {seen[q][s] : q \in 1 .. Len(queue)}
                     <=> \E q \in 1 .. Len(queue) : k \in seen[q][s]
                OBVIOUS
            <4>2. (\E q \in 1 .. Len(queue) : k \in seen[q][s]) /\ k # 0 => k \in Full
                BY <3>2, <3>3
            <4>3. k \in Full => k # 0
                BY <3>3
            <4> QED BY <3>1, <4>1, <4>2, <4>3
        <3> QED BY <3>4
    <2> QED BY <2>1, <2>2 DEF VirginExact
<1> QED BY <1>1, QueueAlways, PTL

\* Outside calibrations, has_new_cov marks the entries that reached a byte first.
THEOREM NewCovAlways == Spec => []NewCovExact
<1>1. ASSUME Types, QueueInv PROVE NewCovExact
    <2>1. DOMAIN queue = 1 .. Len(queue)
        BY <1>1, LenProperties DEF Types, QueueTypes
    <2> QED BY <1>1, <2>1 DEF QueueInv, NewCovInv, Calibrated, NewCovExact
<1> QED BY <1>1, QueueAlways, PTL

\* Outside calibrations, var_behavior marks the entries two of whose compared
\* runs differed.
THEOREM VariableAlways == Spec => []VariableExact
<1>1. ASSUME Types, QueueInv PROVE VariableExact
    <2>1. DOMAIN queue = 1 .. Len(queue)
        BY <1>1, LenProperties DEF Types, QueueTypes
    <2>2. \A q \in 1 .. Len(queue), s \in Slots : Cardinality(seen[q][s]) > 1 <=> Varied(seen[q][s])
        BY <1>1, SeenCount
    <2>3. pc # "cal" => \A q \in 1 .. Len(queue) :
             queue[q].var_behavior <=> \E s \in Slots : Varied(seen[q][s])
        BY <1>1 DEF QueueInv, VariableInv, Calibrated
    <2> QED BY <2>1, <2>2, <2>3 DEF VariableExact
<1> QED BY <1>1, QueueAlways, PTL

\* var_bytes are the bytes in which compared runs of one entry differed, until a
\* retry compares with the trace of another input.
THEOREM VarBytesAlways == Spec => []VarBytesExact
<1>1. ASSUME Types, QueueInv PROVE VarBytesExact
    <2>1. DOMAIN queue = 1 .. Len(queue)
        BY <1>1, LenProperties DEF Types, QueueTypes
    <2>2. \A q \in 1 .. Len(queue), s \in Slots : Cardinality(seen[q][s]) > 1 <=> Varied(seen[q][s])
        BY <1>1, SeenCount
    <2>3. ~staleFirst => \A s \in Slots :
             s \in var_bytes <=> \E q \in 1 .. Len(queue) : Varied(seen[q][s])
        BY <1>1 DEF QueueInv, VarBytesInv
    <2>4. var_bytes \subseteq Slots
        BY <1>1 DEF Types, MapTypes
    <2> QED BY <2>1, <2>2, <2>3, <2>4 DEF VarBytesExact
<1> QED BY <1>1, QueueAlways, PTL

-----------------------------------------------------------------------------
(* Unique crashes.                                                          *)

\* The part of keep_as_crash that looks at the map.
Judged ==
    /\ crashes' = crashes \cup {Hits(trace_bits)}
    /\ virgin_crash' = Cleared(virgin_crash, Simplified(trace_bits))
    /\ unique_crashes' = unique_crashes +
          (IF HasNewBits(virgin_crash, Simplified(trace_bits)) > 0 THEN 1 ELSE 0)

\* No other step touches the map of crashes.
LEMMA CrashSteps ==
    ASSUME [Next]_vars
    PROVE  Judged \/ UNCHANGED <<crashes, virgin_crash, unique_crashes>>
<1> USE DEF mapVars
<1>1. CASE DryRun \/ Retry \/ CalRun \/ CalAbort \/ CalEnd
    BY <1>1 DEF DryRun, Retry, CalRun, CalAbort, CalEnd
<1>2. CASE Execute
    BY <1>2 DEF Execute
<1>3. CASE JudgeNone \/ JudgeHang \/ Rerun \/ Halted \/ UNCHANGED vars
    BY <1>3 DEF JudgeNone, JudgeHang, Rerun, Halted, vars
<1>4. CASE JudgeCrash
    BY <1>4 DEF JudgeCrash, Judged
<1> QED BY <1>1, <1>2, <1>3, <1>4 DEF Next

\* A simplified trace holds the highest class where the path hits, and the lowest
\* elsewhere.
LEMMA SimplifiedFacts ==
    ASSUME NEW t \in AllTraces, NEW s \in Slots
    PROVE  /\ s \in Hits(t) => Simplified(t)[s] = Class
           /\ s \notin Hits(t) => Simplified(t)[s] = 1
           /\ Class # 1
BY Bounds DEF Simplified, Hits

\* The map of crashes remembers which bytes crashes hit, and which they missed.
LEMMA CrashMapAlways == Spec => [](Types /\ CrashMapInv)
<1>1. ASSUME Init PROVE CrashMapInv
    <2>1. Class \in Full /\ 1 \in Full
        BY Bounds DEF Full
    <2> QED BY <1>1, <2>1 DEF Init, CrashMapInv
<1>2. ASSUME Types, CrashMapInv, [Next]_vars PROVE CrashMapInv'
    <2>1. CASE UNCHANGED <<crashes, virgin_crash, unique_crashes>>
        BY <1>2, <2>1 DEF CrashMapInv
    <2>2. CASE Judged
        <3>1. trace_bits \in AllTraces /\ virgin_crash \in [Slots -> SUBSET Full]
            BY <1>2 DEF Types, RunTypes, MapTypes
        <3>2. Simplified(trace_bits) \in AllTraces
            BY <3>1, SimplifiedType
        <3>3. \A s \in Slots : virgin_crash'[s] = virgin_crash[s] \ {Simplified(trace_bits)[s]}
            BY <2>2, <3>1, <3>2, ClearedFacts DEF Judged
        <3>4. ASSUME NEW s \in Slots
              PROVE  /\ Class \notin virgin_crash'[s] <=>
                           Class \notin virgin_crash[s] \/ s \in Hits(trace_bits)
                     /\ 1 \notin virgin_crash'[s] <=>
                           1 \notin virgin_crash[s] \/ s \notin Hits(trace_bits)
            BY <3>1, <3>3, SimplifiedFacts
        <3>5. crashes' = crashes \cup {Hits(trace_bits)}
            BY <2>2 DEF Judged
        <3> QED BY <1>2, <3>4, <3>5 DEF CrashMapInv
    <2> QED BY <1>2, <2>1, <2>2, CrashSteps
<1>3. Init => Types /\ CrashMapInv
    BY <1>1, InitTypes
<1>4. Types /\ CrashMapInv /\ [Next]_vars => (Types /\ CrashMapInv)'
    BY <1>2, NextQueueTypes, NextRunTypes, NextMapTypes DEF Types
<1> QED BY <1>3, <1>4, PTL DEF Spec

\* A crash is saved iff its path includes a byte no earlier crash hit, or misses
\* one that all earlier crashes hit.
THEOREM UniqueCrashAlways == Spec => UniqueCrashRule
<1> DEFINE Rule == /\ unique_crashes' # unique_crashes => crashes' # crashes
                   /\ \A h \in crashes' \ crashes :
                         unique_crashes' = unique_crashes + 1
                            <=> \/ h \ UNION crashes # {}
                                \/ \E s \in Slots \ h : \A g \in crashes : s \in g
<1>1. ASSUME Types, CrashMapInv, [Next]_vars PROVE [Rule]_vars
    <2>0. unique_crashes \in Nat
        BY <1>1, Bounds DEF Types, RunTypes
    <2>1. CASE UNCHANGED <<crashes, virgin_crash, unique_crashes>>
        BY <2>1
    <2>2. CASE Judged
        <3> DEFINE h == Hits(trace_bits)
                   t == Simplified(trace_bits)
        <3>1. trace_bits \in AllTraces /\ virgin_crash \in [Slots -> SUBSET Full]
            BY <1>1 DEF Types, RunTypes, MapTypes
        <3>2. t \in AllTraces
            BY <3>1, SimplifiedType
        <3>3. /\ HasNewBits(virgin_crash, t) \in 0 .. 2
              /\ HasNewBits(virgin_crash, t) = 0 <=> \A s \in Slots : t[s] \notin virgin_crash[s]
            BY <3>1, <3>2, NewBitsFacts
        <3>4. HasNewBits(virgin_crash, t) > 0 <=> \E s \in Slots : t[s] \in virgin_crash[s]
            BY <3>3
        <3>5. \A s \in Slots : t[s] \in virgin_crash[s] <=>
                 \/ s \in h /\ \A g \in crashes : s \notin g
                 \/ s \notin h /\ \A g \in crashes : s \in g
            BY <1>1, <3>1, SimplifiedFacts DEF CrashMapInv
        <3>6. h \subseteq Slots
            BY DEF Hits
        <3>7. HasNewBits(virgin_crash, t) > 0 <=>
                 \/ h \ UNION crashes # {}
                 \/ \E s \in Slots \ h : \A g \in crashes : s \in g
            BY <3>4, <3>5, <3>6
        <3>8. /\ crashes' = crashes \cup {h}
              /\ unique_crashes' =
                    unique_crashes + (IF HasNewBits(virgin_crash, t) > 0 THEN 1 ELSE 0)
            BY <2>2 DEF Judged
        <3> HIDE DEF h, t
        <3>9. ASSUME h \in crashes PROVE unique_crashes' = unique_crashes
            <4>1. h \ UNION crashes = {} /\ ~\E s \in Slots \ h : \A g \in crashes : s \in g
                BY <3>9
            <4> QED BY <2>0, <3>7, <3>8, <4>1
        <3>10. ASSUME h \notin crashes PROVE crashes' # crashes /\ crashes' \ crashes = {h}
            BY <3>8, <3>10
        <3>11. unique_crashes' = unique_crashes + 1 <=> HasNewBits(virgin_crash, t) > 0
            BY <2>0, <3>8
        <3> QED BY <3>7, <3>8, <3>9, <3>10, <3>11
    <2> QED BY <1>1, <2>1, <2>2, CrashSteps
<1>2. [](Types /\ CrashMapInv) /\ [][Next]_vars => UniqueCrashRule
    BY <1>1, PTL DEF UniqueCrashRule
<1> QED BY <1>2, CrashMapAlways, PTL DEF Spec
=============================================================================
