--------------------------- MODULE FavoredProofs ---------------------------
(* Proofs about QueueCull, continued: the counters, the cover the favored   *)
(* entries are elected for, the reference counts, the best entry per byte.  *)
EXTENDS QueueCullProofs

\* If the traces of an input do not vary: hit is the trace every run of the entry
\* leaves, set by its one successful calibration; what trace_mini keeps and the
\* bytes a table names the entry for are of that trace.
HitInv ==
    /\ \A e \in Entries : hit[e] # {} => e \in Queue /\ cal_failed[e] = 0
    /\ pc = "dry" => \A e \in Entries : hit[e] # {} => e < entry
    /\ pc = "score" => hit[entry] = trace_bits
    /\ pc = "score" /\ ret = "dry" => \A e \in Entries : hit[e] # {} => e <= entry
    /\ \A e \in Entries : trace_mini[e] \in {{}, hit[e]}
    /\ \A s \in Slots : \A e \in {top_rated[s], top_rated_orig[s]} \ {NULL} : s \in hit[e]

\* While the greedy loop runs, temp_v has lost exactly the kept traces of the
\* entries taken, so that no entry is taken twice.
ElectInv ==
    pc = "greedy" =>
        /\ \A e \in favored : trace_mini[e] # {} /\ trace_mini[e] \cap temp_v = {}
        /\ \A s \in Slots \ temp_v : \E e \in favored : s \in trace_mini[e]

\* The bytes seen and passed by the greedy loop are covered.
CoverInv == pc = "greedy" => \A s \in seen : s < byte => s \notin temp_v

\* The slots of a table that name an entry.
Count(a, e) == Cardinality({s \in Slots : a[s] = e})

\* The counts and the traces are those of the slots that name the entry.
Exact(ref, mini, a, b) ==
    \A e \in Entries : ref[e] = Count(a, e) + Count(b, e) /\ (mini[e] # {} <=> ref[e] > 0)

\* As long as no find is tagged, everything is counted.  Without -s and in the
\* original nothing is ever tagged, and there is no second table; without -s the
\* hybrid program inserts nothing.
RefInv ==
    /\ has_new_incorrect = {} => Exact(tc_ref, trace_mini, top_rated, top_rated_orig)
    /\ ~TF_switch => has_new_incorrect = {} /\ \A s \in Slots : top_rated_orig[s] = NULL
    /\ ~TF_switch /\ ~Stock => \A s \in Slots : top_rated[s] = NULL

-----------------------------------------------------------------------------
(* What the tables and the kept traces are of.                              *)

\* Entries are numbers, and so are the queued ones among them.
LEMMA QueueFacts ==
    ASSUME TypeInv
    PROVE  /\ queued_paths \in Nat /\ Queue = 1 .. queued_paths /\ Queue \subseteq Entries
           /\ NULL \notin Entries
           /\ \A s \in Slots : /\ top_rated[s] \in Queue \cup {NULL}
                               /\ top_rated_orig[s] \in Queue \cup {NULL}
<1>1. /\ queued_paths \in Nat /\ Queue = 1 .. queued_paths /\ Queue \subseteq Entries
      /\ NULL \notin Entries
    BY ConstantsAssumption DEF TypeInv, TypeOK, EntryTypes, Queue, Entries, NULL
<1>2. \A s \in Slots : /\ top_rated[s] \in Queue \cup {NULL}
                       /\ top_rated_orig[s] \in Queue \cup {NULL}
    BY DEF TypeInv, TypeOK, ScoreTypes
<1> QED BY <1>1, <1>2

\* What the helpers leave of a kept trace: itself, nothing, or the trace in trace_bits
\* for the entry that is scored.
LEMMA KeptTraces ==
    ASSUME NEW mini \in [Entries -> SUBSET Slots], NEW ref, NEW o, NEW e \in Entries
    PROVE  /\ Discard(mini, ref, o)[e] \in {mini[e], {}}
           /\ KeepTrace(mini, entry)[e] = mini[e]
                 \/ (e = entry /\ KeepTrace(mini, entry)[e] = trace_bits)
BY DEF Discard, KeepTrace

\* One byte of update_bitmap_score changes the tables at that byte only, if the run
\* hit it, and keeps no other trace than that of this run.
LEMMA ScoreSlotFacts ==
    ASSUME TypeInv, ScoreSlot
    PROVE  /\ \A s \in Slots :
                 /\ top_rated'[s] = top_rated[s] \/ top_rated'[s] = NULL
                       \/ (top_rated'[s] = entry /\ s = byte /\ byte \in trace_bits)
                 /\ top_rated_orig'[s] = top_rated_orig[s]
                       \/ (top_rated_orig'[s] = entry /\ s = byte /\ byte \in trace_bits)
           /\ \A e \in Entries : \/ trace_mini'[e] \in {trace_mini[e], {}}
                                 \/ e = entry /\ trace_mini'[e] = trace_bits
<1>0. /\ top_rated \in [Slots -> Queue \cup {NULL}] /\ top_rated_orig \in [Slots -> Queue \cup {NULL}]
      /\ trace_mini \in [Entries -> SUBSET Slots]
    BY DEF TypeInv, TypeOK, ScoreTypes
<1>1. CASE byte \notin trace_bits
    BY <1>1 DEF ScoreSlot, scoreVars
<1>2. CASE byte \in trace_bits
    <2>0. /\ byte \in Slots /\ entry \in Entries /\ trace_bits \in SUBSET Slots
          /\ top_rated[byte] \in Entries \cup {NULL} /\ top_rated_orig[byte] \in Entries \cup {NULL}
        BY <1>2, QueueFacts DEF ScoreSlot, ControlOK, TypeInv, TypeOK, RunTypes
    <2> DEFINE ok(mini) == /\ mini \in [Entries -> SUBSET Slots]
                           /\ \A e \in Entries : \/ mini[e] \in {trace_mini[e], {}}
                                                 \/ e = entry /\ mini[e] = trace_bits
    <2>1. ASSUME NEW mini, NEW ref, NEW o \in Entries \cup {NULL}, ok(mini)
          PROVE  ok(Discard(mini, ref, o))
        <3>1. Discard(mini, ref, o) \in [Entries -> SUBSET Slots]
            BY <2>1, DiscardType
        <3>2. \A e \in Entries : Discard(mini, ref, o)[e] \in {mini[e], {}}
            BY <2>1, KeptTraces
        <3> HIDE DEF ScoreSlot
        <3> QED BY <2>1, <3>1, <3>2
    <2>2. ASSUME NEW mini, ok(mini) PROVE ok(KeepTrace(mini, entry))
        <3>1. KeepTrace(mini, entry) \in [Entries -> SUBSET Slots]
            BY <2>0, <2>2, KeepType
        <3>2. \A e \in Entries : KeepTrace(mini, entry)[e] = mini[e]
                                    \/ (e = entry /\ KeepTrace(mini, entry)[e] = trace_bits)
            BY <2>2, KeptTraces
        <3> QED BY <2>2, <3>1, <3>2
    <2>3. ok(trace_mini)
        BY <1>0
    <2>4. ASSUME NEW mini, NEW ref, ok(mini), ScoreOrig(ref, mini)
          PROVE  /\ ok(trace_mini')
                 /\ \A s \in Slots : top_rated_orig'[s] = top_rated_orig[s]
                                        \/ (top_rated_orig'[s] = entry /\ s = byte)
        <3> DEFINE o == top_rated_orig[byte]
                   mini1 == Discard(mini, DropRef(ref, o), o)
        <3>1. ok(KeepTrace(mini1, entry))
            BY <2>0, <2>1, <2>2, <2>4
        <3>2. trace_mini' = mini \/ trace_mini' = KeepTrace(mini1, entry)
            BY <2>4 DEF ScoreOrig
        <3>3. \A s \in Slots : top_rated_orig'[s] = top_rated_orig[s]
                                  \/ (top_rated_orig'[s] = entry /\ s = byte)
            BY <1>0, <2>4 DEF ScoreOrig
        <3> HIDE DEF ok, mini1
        <3> QED BY <2>4, <3>1, <3>2, <3>3
    <2> DEFINE t == top_rated[byte]
               ref == DropRef(tc_ref, t)
               mini == Discard(trace_mini, ref, t)
    <2>5. ok(mini) /\ ok(KeepTrace(mini, entry))
        BY <2>0, <2>1, <2>2, <2>3
    <2>6. \A s \in Slots : top_rated'[s] = top_rated[s] \/ top_rated'[s] = NULL
                              \/ (top_rated'[s] = entry /\ s = byte)
        BY <1>0, <1>2 DEF ScoreSlot, ScoreBelowMax, ScoreTie, ScoreWin, ScoreStock, ScorePlain
    <2>7. /\ ok(trace_mini')
          /\ \A s \in Slots : top_rated_orig'[s] = top_rated_orig[s]
                                 \/ (top_rated_orig'[s] = entry /\ s = byte)
        <3> HIDE DEF ok
        <3>1. CASE ScoreBelowMax
            BY <2>3, <3>1 DEF ScoreBelowMax
        <3>2. CASE ScoreTie
            BY <2>4, <2>5, <3>2 DEF ScoreTie
        <3>3. CASE ScoreWin
            <4>1. \E m \in {mini, KeepTrace(mini, entry)} : ScoreOrig(TakeRef(ref, entry), m)
                BY <3>3 DEF ScoreWin
            <4> HIDE DEF ref, mini
            <4> QED BY <2>4, <2>5, <4>1
        <3>4. CASE ScoreStock
            BY <2>3, <2>5, <3>4 DEF ScoreStock
        <3>5. CASE ScorePlain
            BY <2>3, <2>5, <3>5 DEF ScorePlain
        <3> QED BY <1>2, <3>1, <3>2, <3>3, <3>4, <3>5 DEF ScoreSlot
    <2> QED BY <1>2, <2>6, <2>7
<1> QED BY <1>1, <1>2

\* A run that succeeds is of an entry that has not been scored before.
LEMMA HitCalibrated ==
    ASSUME TypeInv, HitInv, NEW e \in Entries, NEW back, Calibrated(e, back), hit[e] = {},
           e \in Queue', Queue \subseteq Queue', UNCHANGED tables,
           back = "dry" => \A p \in Entries : hit[p] # {} => p <= e
    PROVE  HitInv'
<1>1. PICK T \in (SUBSET Slots) \ {{}} : trace_bits' = T /\ hit' = [hit EXCEPT ![e] = T]
    BY DEF Calibrated
<1>2. cal_failed' = [cal_failed EXCEPT ![e] = 0] /\ entry' = e /\ pc' = "score" /\ ret' = back
    BY DEF Calibrated, CalibrationReset, Call
<1>3. hit \in [Entries -> SUBSET Slots] /\ cal_failed \in [Entries -> 0 .. CalChances]
    BY DEF TypeInv, TypeOK, EntryTypes
<1>4. \A p \in Entries : hit'[p] = IF p = e THEN T ELSE hit[p]
    BY <1>1, <1>3
<1>5. \A p \in Entries : cal_failed'[p] = IF p = e THEN 0 ELSE cal_failed[p]
    BY <1>2, <1>3
<1>6. \A p \in Entries : hit'[p] # {} => p \in Queue' /\ cal_failed'[p] = 0
    BY <1>4, <1>5 DEF HitInv
<1>7. hit'[entry'] = trace_bits'
    BY <1>1, <1>2, <1>4
<1>8. back = "dry" => \A p \in Entries : hit'[p] # {} => p <= entry'
    <2>1. e <= e
        BY ConstantsAssumption DEF Entries
    <2> QED BY <1>2, <1>4, <2>1
<1>9. ASSUME NEW p \in Entries PROVE trace_mini'[p] \in {{}, hit'[p]}
    BY <1>4, <1>9 DEF HitInv, tables
<1>10. ASSUME NEW s \in Slots, NEW p \in {top_rated[s], top_rated_orig[s]} \ {NULL}
       PROVE  s \in hit'[p]
    <2>1. p \in Entries /\ s \in hit[p]
        BY QueueFacts DEF HitInv
    <2> QED BY <1>4, <2>1
<1> QED BY <1>2, <1>6, <1>7, <1>8, <1>9, <1>10 DEF HitInv, tables

\* A step that leaves the tables and the traces alone, and starts no scoring.
LEMMA HitFrame ==
    ASSUME TypeInv, HitInv, UNCHANGED tables, UNCHANGED hit, Queue \subseteq Queue', pc' # "score",
           \A e \in Entries : cal_failed'[e] = cal_failed[e] \/ hit[e] = {},
           pc' = "dry" => \A e \in Entries : hit[e] # {} => e < entry'
    PROVE  HitInv'
BY DEF HitInv, tables

\* Every step preserves HitInv.
LEMMA HitStep ==
    ASSUME VariableTraces = FALSE, TypeInv, CalInv, HitInv, [Next]_vars
    PROVE  HitInv'
<1>q. /\ Queue = 1 .. queued_paths /\ queued_paths \in Nat /\ Queue \subseteq Entries
      /\ cal_failed \in [Entries -> 0 .. CalChances] /\ entry \in Nat
    BY QueueFacts DEF TypeInv, TypeOK, EntryTypes, ControlTypes
<1>1. CASE ScoreSlot
    <2>1. /\ UNCHANGED <<cal_failed, hit, pc, ret, entry, trace_bits>> /\ pc = "score"
          /\ Queue' = Queue /\ entry \in Entries
        BY <1>1, <1>q DEF ScoreSlot, entryVars, runVars, Queue, TypeInv, ControlOK
    <2>2. hit[entry] = trace_bits
        BY <2>1 DEF HitInv
    <2>3. ASSUME NEW e \in Entries PROVE trace_mini'[e] \in {{}, hit[e]}
        BY <1>1, <2>2, ScoreSlotFacts DEF HitInv
    <2>4. ASSUME NEW s \in Slots, NEW e \in {top_rated'[s], top_rated_orig'[s]} \ {NULL}
          PROVE  s \in hit[e]
        BY <1>1, <2>2, ScoreSlotFacts DEF HitInv
    <2> QED BY <2>1, <2>3, <2>4 DEF HitInv
<1>2. CASE ScoreDone
    <2>1. /\ UNCHANGED tables /\ UNCHANGED <<hit, cal_failed>> /\ Queue' = Queue
          /\ pc = "score" /\ pc' = ret /\ pc' # "score"
          /\ entry' = IF ret = "dry" THEN entry + 1 ELSE 1
        BY <1>2 DEF ScoreDone, scoreVars, tables, entryVars, Queue, TypeInv, TypeOK, ControlTypes
    <2>2. pc' = "dry" => \A e \in Entries : hit[e] # {} => e < entry'
        BY <1>q, <2>1 DEF HitInv, Entries
    <2> QED BY <2>1, <2>2, HitFrame
<1>3. CASE CullStep
    <2>1. /\ UNCHANGED tables /\ UNCHANGED <<hit, cal_failed>> /\ Queue' = Queue
        BY <1>3 DEF CullStep, CullRescan, CullAltern, CullTF, GreedyTake, GreedyPass, CullMark,
           scoreVars, tables, entryVars, Queue
    <2>2. pc' \notin {"score", "dry"}
        BY <1>3 DEF CullStep, CullRescan, CullAltern, CullTF, GreedyTake, GreedyPass, CullMark,
           Call, CalInv
    <2> QED BY <2>1, <2>2, HitFrame
<1>4. CASE DryRun
    <2>1. /\ UNCHANGED tables /\ Queue' = Queue /\ pc = "dry" /\ entry \in Queue
          /\ hit[entry] = {}
        <3>1. UNCHANGED tables /\ Queue' = Queue /\ pc = "dry" /\ entry \in Queue
            BY <1>4, <1>q, ConstantsAssumption DEF DryRun, scoreVars, tables, TypeInv, TypeOK,
               EntryTypes, ControlTypes, Queue
        <3> QED BY <1>q, <3>1 DEF HitInv
    <2>2. CASE Calibrated(entry, "dry")
        <3>1. \A p \in Entries : hit[p] # {} => p <= entry
            BY <1>q, <2>1 DEF HitInv, Entries
        <3> QED BY <1>q, <2>1, <2>2, <3>1, HitCalibrated
    <2>3. CASE ~Calibrated(entry, "dry")
        <3>1. /\ cal_failed' = [cal_failed EXCEPT ![entry] = CalChances]
              /\ entry' = entry + 1 /\ UNCHANGED <<hit, pc>>
            BY <1>4, <2>3 DEF DryRun
        <3>2. \A e \in Entries : cal_failed'[e] = cal_failed[e] \/ hit[e] = {}
            BY <1>q, <2>1, <3>1
        <3>3. \A e \in Entries : hit[e] # {} => e < entry'
            BY <1>q, <2>1, <3>1 DEF HitInv, Entries
        <3> QED BY <2>1, <3>1, <3>2, <3>3, HitFrame
    <2> QED BY <2>2, <2>3
<1>5. CASE DryRunDone \/ LoopTop \/ Pick \/ FuzzSkip \/ Advance \/ FuzzStart \/ FuzzDone \/ Stop
    <2>1. /\ UNCHANGED tables /\ UNCHANGED <<hit, cal_failed>> /\ Queue' = Queue
          /\ pc' \notin {"score", "dry"}
        BY <1>5 DEF DryRunDone, LoopTop, Pick, FuzzSkip, Advance, FuzzStart, FuzzDone, Stop, Call,
           scoreVars, tables, entryVars, Queue
    <2> QED BY <2>1, HitFrame
<1>6. CASE FuzzRecalibrate
    <2>1. /\ UNCHANGED tables /\ Queue' = Queue /\ cal_failed[queue_cur] > 0
          /\ queue_cur \in Queue
        BY <1>6 DEF FuzzRecalibrate, scoreVars, tables, TypeInv, ControlOK, InFuzz, Queue
    <2>2. hit[queue_cur] = {}
        BY <1>q, <2>1 DEF HitInv
    <2>3. CASE Calibrated(queue_cur, "trim")
        BY <1>q, <2>1, <2>2, <2>3, HitCalibrated
    <2>4. CASE ~Calibrated(queue_cur, "trim")
        <3>1. /\ pc' = "loop" /\ UNCHANGED hit
              /\ \/ UNCHANGED cal_failed
                 \/ cal_failed' = [cal_failed EXCEPT ![queue_cur] = cal_failed[queue_cur] + 1]
            BY <1>6, <2>4 DEF FuzzRecalibrate
        <3>2. \A e \in Entries : cal_failed'[e] = cal_failed[e] \/ hit[e] = {}
            BY <1>q, <2>2, <3>1
        <3> QED BY <2>1, <3>1, <3>2, HitFrame
    <2> QED BY <2>3, <2>4
<1>7. CASE Trim
    <2>1. UNCHANGED tables /\ UNCHANGED <<hit, cal_failed>> /\ Queue' = Queue
        BY <1>7 DEF Trim, scoreVars, tables, Queue
    <2>2. \/ pc' = "havoc"
          \/ /\ pc' = "score" /\ ret' = "havoc" /\ entry' = queue_cur
             /\ trace_bits' = hit[queue_cur]
        BY <1>7 DEF Trim, Call
    <2>3. CASE pc' = "havoc"
        BY <2>1, <2>3, HitFrame
    <2>4. CASE pc' = "score" /\ ret' = "havoc" /\ entry' = queue_cur /\ trace_bits' = hit[queue_cur]
        BY <2>1, <2>4 DEF HitInv, tables
    <2> QED BY <2>2, <2>3, <2>4
<1>8. CASE Save
    <2>1. /\ UNCHANGED tables /\ queued_paths' = queued_paths + 1
          /\ pc \in {"havoc", "sync"} /\ queued_paths' \in Entries
        BY <1>8, <1>q, ConstantsAssumption DEF Save, scoreVars, tables, Entries
    <2>2. Queue \subseteq Queue' /\ queued_paths' \in Queue' /\ queued_paths' \notin Queue
        BY <1>q, <2>1 DEF Queue
    <2>3. hit[queued_paths'] = {}
        BY <2>1, <2>2 DEF HitInv
    <2>4. CASE Calibrated(queued_paths', pc)
        BY <2>1, <2>2, <2>3, <2>4, HitCalibrated
    <2>5. CASE ~Calibrated(queued_paths', pc)
        <3>1. cal_failed' = [cal_failed EXCEPT ![queued_paths'] = 1] /\ UNCHANGED <<hit, pc>>
            BY <1>8, <2>5 DEF Save
        <3>2. \A e \in Entries : cal_failed'[e] = cal_failed[e] \/ hit[e] = {}
            BY <1>q, <2>3, <3>1
        <3> QED BY <2>1, <2>2, <3>1, <3>2, HitFrame
    <2> QED BY <2>4, <2>5
<1>9. CASE UNCHANGED vars
    BY <1>9 DEF vars, HitInv, scoreVars, entryVars, runVars, Queue
<1> QED BY <1>1, <1>2, <1>3, <1>4, <1>5, <1>6, <1>7, <1>8, <1>9
        DEF Next, ScoreStep, FuzzStep, MainStep, Ended

\* HitInv holds in every reachable state, if traces do not vary.
LEMMA HitAlways ==
    ASSUME VariableTraces = FALSE
    PROVE  Spec => [](TypeInv /\ HitInv)
<1>1. Init => TypeInv /\ CalInv /\ HitInv
    BY InitType DEF Init, CalInv, WinnersCalibrated, HitInv, NULL
<1>2. TypeInv /\ CalInv /\ HitInv /\ [Next]_vars => (TypeInv /\ CalInv /\ HitInv)'
    BY TypeStep, CalStep, HitStep
<1> QED BY <1>1, <1>2, PTL DEF Spec

-----------------------------------------------------------------------------
(* The counters, and the cover.                                             *)

\* The numbers of favored and of unfuzzed entries, when one more is favored.
LEMMA FavorOne ==
    ASSUME NEW F, NEW W, IsFiniteSet(F), NEW w, w \notin F
    PROVE  /\ Cardinality(F \cup {w}) = Cardinality(F) + 1
           /\ Cardinality((F \cup {w}) \ W) =
                 Cardinality(F \ W) + (IF w \in W THEN 0 ELSE 1)
<1>1. IsFiniteSet(F \ W)
    BY FS_Subset
<1>2. Cardinality(F \cup {w}) = Cardinality(F) + 1
    BY FS_AddElement
<1>3. CASE w \in W
    <2>1. (F \cup {w}) \ W = F \ W
        BY <1>3
    <2>2. Cardinality(F \ W) \in Nat
        BY <1>1, FS_CardinalityType
    <2>3. Cardinality((F \cup {w}) \ W) = Cardinality(F \ W)
        BY <2>1, Zenon
    <2>4. Cardinality(F \ W) = Cardinality(F \ W) + 0
        BY <2>2
    <2> QED BY <1>2, <1>3, <2>3, <2>4, Zenon
<1>4. CASE w \notin W
    <2>1. (F \cup {w}) \ W = (F \ W) \cup {w} /\ w \notin F \ W
        BY <1>4
    <2>2. Cardinality((F \ W) \cup {w}) = Cardinality(F \ W) + 1
        BY <1>1, <2>1, FS_AddElement
    <2> QED BY <1>2, <1>4, <2>1, <2>2
<1> QED BY <1>3, <1>4

\* The number of a set's members outside W, when one more is put into W.
LEMMA FuzzOne ==
    ASSUME NEW F, NEW W, IsFiniteSet(F), NEW w, w \notin W
    PROVE  Cardinality(F \ (W \cup {w})) = Cardinality(F \ W) - (IF w \in F THEN 1 ELSE 0)
<1>1. IsFiniteSet(F \ W)
    BY FS_Subset
<1>2. F \ (W \cup {w}) = (F \ W) \ {w}
    OBVIOUS
<1>3. CASE w \in F
    BY <1>1, <1>2, <1>3, FS_RemoveElement
<1>4. CASE w \notin F
    <2>1. (F \ W) \ {w} = F \ W
        BY <1>4
    <2>2. Cardinality(F \ W) \in Nat
        BY <1>1, FS_CardinalityType
    <2> QED BY <1>2, <1>4, <2>1, <2>2
<1> QED BY <1>3, <1>4

\* The sets that are counted are finite.
LEMMA FiniteQueue ==
    ASSUME TypeInv
    PROVE  /\ IsFiniteSet(Queue) /\ IsFiniteSet(favored) /\ Cardinality({}) = 0
           /\ \A W : /\ IsFiniteSet(Queue \ W) /\ Cardinality(Queue \ W) \in Nat
                     /\ Cardinality(favored \ W) \in Nat
<1>1. IsFiniteSet(Queue)
    BY QueueFacts, FS_Interval
<1>2. IsFiniteSet(favored)
    BY <1>1, FS_Subset DEF TypeInv, TypeOK, CullTypes
<1>3. \A W : IsFiniteSet(Queue \ W) /\ IsFiniteSet(favored \ W)
    BY <1>1, <1>2, FS_Subset
<1> QED BY <1>1, <1>2, <1>3, FS_CardinalityType, FS_EmptySet

\* The steps of cull_queue's loops and the bookkeeping after a fuzzed entry keep
\* the counters exact.
LEMMA CountStep ==
    ASSUME TypeInv, HitInv, ElectInv, CountersExact, [Next]_vars
    PROVE  CountersExact'
<1> USE DEF CountersExact
<1>1. CASE UNCHANGED <<favored, queued_favored, pending_favored, was_fuzzed, pending_not_fuzzed,
                       queued_paths>>
    BY <1>1 DEF Queue
<1>2. CASE ResetFavored /\ UNCHANGED <<was_fuzzed, pending_not_fuzzed, queued_paths>>
    <2>1. favored' = {} /\ queued_favored' = 0 /\ pending_favored' = 0
        BY <1>2 DEF ResetFavored
    <2>2. favored' \ was_fuzzed' = {}
        BY <2>1
    <2> QED BY <1>2, <2>1, <2>2, FiniteQueue DEF Queue
<1>3. CASE CullTF
    <2> DEFINE w == top_rated[byte]
    <2>0. UNCHANGED <<was_fuzzed, pending_not_fuzzed, queued_paths>>
        BY <1>3 DEF CullTF, fuzzVars, entryVars
    <2>1. CASE w # NULL /\ w \notin was_fuzzed /\ w \notin favored
        <3>1. /\ favored' = favored \cup {w} /\ queued_favored' = queued_favored + 1
              /\ pending_favored' = pending_favored + 1
            BY <1>3, <2>1 DEF CullTF
        <3>2. /\ Cardinality(favored \cup {w}) = Cardinality(favored) + 1
              /\ Cardinality((favored \cup {w}) \ was_fuzzed) = Cardinality(favored \ was_fuzzed) + 1
            <4>1. IsFiniteSet(favored)
                BY FiniteQueue
            <4> HIDE DEF w
            <4> QED BY <2>1, <4>1, FavorOne
        <3> QED BY <2>0, <3>1, <3>2 DEF Queue
    <2>2. CASE ~(w # NULL /\ w \notin was_fuzzed /\ w \notin favored)
        <3>1. /\ favored' = favored /\ queued_favored' = queued_favored + 0
              /\ pending_favored' = pending_favored + 0
            BY <1>3, <2>2 DEF CullTF
        <3>2. queued_favored \in Nat /\ pending_favored \in Int
            BY DEF TypeInv, TypeOK, CullTypes
        <3> QED BY <1>1, <2>0, <3>1, <3>2
    <2> QED BY <2>1, <2>2
<1>4. CASE GreedyTake
    <2> DEFINE w == GreedyTable[byte]
    <2>0. UNCHANGED <<was_fuzzed, pending_not_fuzzed, queued_paths>>
        BY <1>4 DEF GreedyTake, fuzzVars, entryVars
    <2>1. CASE trace_mini[w] = {}
        BY <1>1, <1>4, <2>0, <2>1 DEF GreedyTake
    <2>2. CASE trace_mini[w] # {}
        <3>1. /\ favored' = favored \cup {w} /\ queued_favored' = queued_favored + 1
              /\ pending_favored' = pending_favored + (IF w \in was_fuzzed THEN 0 ELSE 1)
              /\ byte \in temp_v /\ w # NULL /\ pc = "greedy" /\ byte \in Slots
            BY <1>4, <2>2 DEF GreedyTake, TypeInv, TypeOK, CullTypes
        <3>2. byte \in trace_mini[w]
            <4>1. w \in Entries /\ w \in {top_rated[byte], top_rated_orig[byte]} \ {NULL}
                BY <3>1, QueueFacts DEF GreedyTable
            <4> QED BY <2>2, <3>1, <4>1 DEF HitInv
        <3>3. w \notin favored
            BY <3>1, <3>2 DEF ElectInv
        <3> HIDE DEF w
        <3>4. /\ Cardinality(favored \cup {w}) = Cardinality(favored) + 1
              /\ Cardinality((favored \cup {w}) \ was_fuzzed) =
                    Cardinality(favored \ was_fuzzed) + (IF w \in was_fuzzed THEN 0 ELSE 1)
            <4>1. IsFiniteSet(favored)
                BY FiniteQueue
            <4> QED BY <3>3, <4>1, FavorOne
        <3> QED BY <2>0, <3>1, <3>4 DEF Queue
    <2> QED BY <2>1, <2>2
<1>5. CASE FuzzDone
    <2> DEFINE first == cal_failed[queue_cur] = 0 /\ queue_cur \notin was_fuzzed
    <2>1. UNCHANGED <<favored, queued_favored, queued_paths>> /\ queue_cur \in Queue
        BY <1>5 DEF FuzzDone, entryVars, TypeInv, ControlOK, InFuzz
    <2>2. CASE first
        <3>1. /\ was_fuzzed' = was_fuzzed \cup {queue_cur}
              /\ pending_not_fuzzed' = pending_not_fuzzed - 1
              /\ pending_favored' = pending_favored - (IF queue_cur \in favored THEN 1 ELSE 0)
            BY <1>5, <2>2 DEF FuzzDone
        <3>2. Cardinality(Queue \ (was_fuzzed \cup {queue_cur})) = Cardinality(Queue \ was_fuzzed) - 1
            BY <2>1, <2>2, FiniteQueue, FuzzOne
        <3>3. Cardinality(favored \ (was_fuzzed \cup {queue_cur})) =
                 Cardinality(favored \ was_fuzzed) - (IF queue_cur \in favored THEN 1 ELSE 0)
            BY <2>2, FiniteQueue, FuzzOne
        <3> QED BY <2>1, <3>1, <3>2, <3>3 DEF Queue
    <2>3. CASE ~first
        <3>1. /\ was_fuzzed' = was_fuzzed /\ pending_not_fuzzed' = pending_not_fuzzed - 0
              /\ pending_favored' = pending_favored - 0
            BY <1>5, <2>3 DEF FuzzDone
        <3>2. pending_not_fuzzed \in Int /\ pending_favored \in Int
            BY DEF TypeInv, TypeOK, CullTypes, FuzzTypes
        <3> QED BY <1>1, <2>1, <3>1, <3>2
    <2> QED BY <2>2, <2>3
<1>6. CASE Save
    <2>1. /\ UNCHANGED <<favored, queued_favored, pending_favored, was_fuzzed>>
          /\ queued_paths' = queued_paths + 1 /\ pending_not_fuzzed' = pending_not_fuzzed + 1
        BY <1>6 DEF Save, cullVars
    <2>2. Queue' = Queue \cup {queued_paths + 1} /\ queued_paths + 1 \notin Queue
        BY <2>1, QueueFacts DEF Queue
    <2>3. queued_paths + 1 \notin was_fuzzed
        BY <2>2 DEF TypeInv, TypeOK, FuzzTypes
    <2>4. Cardinality(Queue' \ was_fuzzed) = Cardinality(Queue \ was_fuzzed) + 1
        <3>1. \A w : w \notin Queue /\ w \notin was_fuzzed =>
                 Cardinality((Queue \cup {w}) \ was_fuzzed) = Cardinality(Queue \ was_fuzzed) + 1
            <4>1. IsFiniteSet(Queue)
                BY FiniteQueue
            <4> QED BY <4>1, FavorOne
        <3> QED BY <2>2, <2>3, <3>1
    <2> QED BY <2>1, <2>4
<1>7. CASE CullRescan \/ CullAltern
    BY <1>1, <1>2, <1>7 DEF CullRescan, CullAltern, fuzzVars, entryVars
<1>8. CASE ScoreStep \/ GreedyPass \/ CullMark \/ UNCHANGED vars
    BY <1>1, <1>8 DEF ScoreStep, ScoreSlot, ScoreDone, GreedyPass, CullMark, vars, cullVars, fuzzVars,
       entryVars
<1>9. CASE MainStep \/ FuzzRecalibrate \/ FuzzStart \/ Trim
    BY <1>1, <1>9 DEF MainStep, DryRun, DryRunDone, LoopTop, Pick, FuzzSkip, Advance, Stop,
       FuzzRecalibrate, FuzzStart, Trim, cullVars, fuzzVars, entryVars
<1> QED BY <1>3, <1>4, <1>5, <1>6, <1>7, <1>8, <1>9 DEF Next, CullStep, FuzzStep, Ended

\* A table changes only in update_bitmap_score, which is not the greedy loop.
LEMMA GreedySteps ==
    ASSUME TypeInv, CalInv, [Next]_vars, pc' = "greedy"
    PROVE  /\ UNCHANGED tables /\ UNCHANGED TF_switch
           /\ \/ favored' = {} /\ temp_v' = Slots /\ byte' = 0
              \/ pc = "greedy" /\ (GreedyTake \/ GreedyPass \/ UNCHANGED <<favored, temp_v, byte>>)
<1> USE DEF CalInv, TypeInv, TypeOK, ControlTypes, Call, ResetFavored
<1>1. UNCHANGED TF_switch
    BY SwitchFixed
<1>2. ~ScoreSlot
    BY DEF ScoreSlot
<1>3. UNCHANGED tables
    BY <1>2, OnlyScoreWrites
<1>4. CASE CullStep
    <2>1. CASE CullRescan
        BY <1>1, <1>3, <2>1 DEF CullRescan
    <2>2. CASE CullAltern
        BY <1>1, <1>3, <2>2 DEF CullAltern
    <2>3. CASE CullTF \/ CullMark
        <3>1. pc' # "greedy"
            BY <2>3 DEF CullTF, CullMark
        <3> QED BY <3>1
    <2>4. CASE GreedyTake \/ GreedyPass
        BY <1>1, <1>3, <2>4 DEF GreedyTake, GreedyPass
    <2> QED BY <1>4, <2>1, <2>2, <2>3, <2>4 DEF CullStep
<1>5. CASE ScoreStep \/ FuzzStep \/ MainStep
    <2>1. pc' # "greedy"
        BY <1>5 DEF ScoreStep, FuzzStep, MainStep, ScoreSlot, ScoreDone, FuzzRecalibrate, FuzzStart,
           Trim, Save, FuzzDone, DryRun, DryRunDone, LoopTop, Pick, FuzzSkip, Advance, Stop, Calibrated
    <2> QED BY <2>1
<1>6. CASE UNCHANGED vars
    BY <1>1, <1>3, <1>6 DEF vars, cullVars
<1> QED BY <1>4, <1>5, <1>6 DEF Next, Ended

\* Every step keeps the traces of the entries taken out of temp_v.
LEMMA ElectStep ==
    ASSUME TypeInv, CalInv, HitInv, ElectInv, [Next]_vars
    PROVE  ElectInv'
<1> SUFFICES ASSUME pc' = "greedy"
             PROVE  /\ \A e \in favored' : trace_mini'[e] # {} /\ trace_mini'[e] \cap temp_v' = {}
                    /\ \A s \in Slots \ temp_v' : \E e \in favored' : s \in trace_mini'[e]
    BY DEF ElectInv
<1>1. trace_mini' = trace_mini
    BY GreedySteps DEF tables
<1>2. CASE favored' = {} /\ temp_v' = Slots
    BY <1>1, <1>2
<1>3. CASE pc = "greedy" /\ GreedyTake
    <2> DEFINE w == GreedyTable[byte]
    <2>1. trace_mini[w] # {} /\ favored' = favored \cup {w} /\ temp_v' = temp_v \ trace_mini[w]
        BY <1>3 DEF GreedyTake, Uncovered
    <2> HIDE DEF w
    <2> QED BY <1>1, <1>3, <2>1 DEF ElectInv
<1>4. CASE pc = "greedy" /\ UNCHANGED <<favored, temp_v>>
    BY <1>1, <1>4 DEF ElectInv
<1> QED BY <1>2, <1>3, <1>4, GreedySteps DEF GreedyPass, cullVars

\* At every step of every loop, queued_favored, pending_favored and
\* pending_not_fuzzed are the numbers of entries they stand for.
THEOREM CountersAlways ==
    ASSUME VariableTraces = FALSE
    PROVE  Spec => []CountersExact
<1> DEFINE Inv == TypeInv /\ CalInv /\ HitInv /\ ElectInv /\ CountersExact
<1>1. ASSUME Init PROVE CountersExact
    <2>1. /\ favored = {} /\ was_fuzzed = {} /\ queued_favored = 0 /\ pending_favored = 0
          /\ pending_not_fuzzed = queued_paths /\ Queue = 1 .. queued_paths /\ queued_paths \in Nat
        BY <1>1, ConstantsAssumption DEF Init, Queue
    <2>2. Cardinality(1 .. queued_paths) = queued_paths /\ Queue \ {} = 1 .. queued_paths /\ favored \ was_fuzzed = {}
        BY <2>1, FS_Interval
    <2> QED BY <2>1, <2>2, FS_EmptySet DEF CountersExact
<1>2. Init => Inv
    <2>1. Init => CalInv /\ HitInv /\ ElectInv
        BY DEF Init, CalInv, WinnersCalibrated, HitInv, ElectInv, NULL
    <2> QED BY <1>1, <2>1, InitType
<1>3. Inv /\ [Next]_vars => Inv'
    BY TypeStep, CalStep, HitStep, ElectStep, CountStep
<1> QED BY <1>2, <1>3, PTL DEF Spec

\* When the greedy loop of cull_queue ends, the favored entries hit every byte seen,
\* in afl/afl-fuzz.c and in hybrid_metric/afl-fuzz.c run with -s.
THEOREM CoverAlways ==
    ASSUME VariableTraces = FALSE, Stock \/ FALSE \notin Switches
    PROVE  Spec => []FavoredCoverSeen
<1> DEFINE Inv == TypeInv /\ CalInv /\ HitInv /\ ElectInv /\ CoverInv
<1>1. Init => Inv
    BY InitType DEF Init, CalInv, WinnersCalibrated, HitInv, ElectInv, CoverInv, NULL
<1>2. ASSUME Inv, SeenBytesHaveWinner, [Next]_vars PROVE CoverInv'
    <2> SUFFICES ASSUME pc' = "greedy", NEW s \in seen', s < byte' PROVE s \notin temp_v'
        BY DEF CoverInv
    <2>1. seen' = seen /\ seen \subseteq Slots /\ byte \in Nat /\ \A b \in Slots : b \in Nat
        BY <1>2, GreedySteps, ConstantsAssumption
           DEF tables, TypeInv, TypeOK, ScoreTypes, ControlTypes, Slots
    <2>2. CASE favored' = {} /\ temp_v' = Slots /\ byte' = 0
        BY <2>1, <2>2
    <2>3. CASE pc = "greedy" /\ UNCHANGED <<favored, temp_v, byte>>
        BY <1>2, <2>1, <2>3 DEF CoverInv
    <2>4. CASE pc = "greedy" /\ GreedyPass
        <3>1. byte' = byte + 1 /\ temp_v' = temp_v /\ (GreedyTable[byte] = NULL \/ byte \notin temp_v)
            BY <2>4 DEF GreedyPass, cullVars
        <3>2. CASE s = byte
            BY <1>2, <2>1, <3>1, <3>2 DEF SeenBytesHaveWinner
        <3>3. CASE s # byte
            <4>1. s < byte
                BY <2>1, <3>1, <3>3
            <4> QED BY <1>2, <2>1, <2>4, <3>1, <4>1 DEF CoverInv
        <3> QED BY <3>2, <3>3
    <2>5. CASE pc = "greedy" /\ GreedyTake
        <3> DEFINE w == GreedyTable[byte]
        <3>1. /\ trace_mini[w] # {} /\ temp_v' = temp_v \ trace_mini[w] /\ byte' = byte + 1
              /\ w # NULL /\ byte \in Slots
            BY <1>2, <2>5 DEF GreedyTake, Uncovered, TypeInv, TypeOK, CullTypes
        <3>2. byte \in trace_mini[w]
            <4>1. w \in Entries /\ w \in {top_rated[byte], top_rated_orig[byte]} \ {NULL}
                BY <1>2, <3>1, QueueFacts DEF GreedyTable
            <4> QED BY <1>2, <3>1, <4>1 DEF HitInv
        <3> HIDE DEF w
        <3>3. CASE s = byte
            BY <3>1, <3>2, <3>3
        <3>4. CASE s # byte
            <4>1. s < byte
                BY <2>1, <3>1, <3>4
            <4> QED BY <1>2, <2>1, <2>5, <3>1, <4>1 DEF CoverInv
        <3> QED BY <3>3, <3>4
    <2> QED BY <1>2, <2>2, <2>3, <2>4, <2>5, GreedySteps
<1>3. Inv /\ SeenBytesHaveWinner /\ [Next]_vars => Inv'
    BY <1>2, TypeStep, CalStep, HitStep, ElectStep
<1>4. ASSUME Inv PROVE FavoredCoverSeen
    <2> SUFFICES ASSUME pc = "greedy", byte = MapSize, NEW s \in seen
                 PROVE  \E e \in favored : s \in hit[e]
        BY DEF FavoredCoverSeen
    <2>1. s \in Slots /\ s < byte /\ favored \subseteq Entries
        BY <1>4, QueueFacts, ConstantsAssumption
           DEF TypeInv, TypeOK, ScoreTypes, CullTypes, Slots
    <2>2. PICK e \in favored : s \in trace_mini[e]
        BY <1>4, <2>1 DEF CoverInv, ElectInv
    <2> QED BY <1>4, <2>1, <2>2 DEF HitInv
<1> QED BY <1>1, <1>3, <1>4, WinnerAlways, PTL DEF Spec

-----------------------------------------------------------------------------
(* The reference counts.                                                    *)

Table == [Slots -> Entries \cup {NULL}]
Refs == [Entries -> 0 .. RefModulus - 1]
Minis == [Entries -> SUBSET Slots]

\* A table has MAP_SIZE slots, and the slots that name an entry are counted by
\* whole numbers up to that.
LEMMA CountType ==
    ASSUME NEW a, NEW e
    PROVE  /\ Count(a, e) \in 0 .. MapSize /\ IsFiniteSet({s \in Slots : a[s] = e})
<1>1. IsFiniteSet(Slots) /\ Cardinality(Slots) = MapSize
    <2>1. 0 \in Int /\ MapSize - 1 \in Int /\ MapSize \in Nat
        BY ConstantsAssumption
    <2>2. Cardinality(0 .. MapSize - 1) = IF 0 > MapSize - 1 THEN 0 ELSE MapSize - 1 - 0 + 1
        BY <2>1, FS_Interval
    <2>3. IsFiniteSet(0 .. MapSize - 1)
        BY <2>1, FS_Interval
    <2> QED BY <2>1, <2>2, <2>3, ConstantsAssumption DEF Slots
<1>2. /\ IsFiniteSet({s \in Slots : a[s] = e})
      /\ Cardinality({s \in Slots : a[s] = e}) <= Cardinality(Slots)
    BY <1>1, FS_Subset
<1>3. Cardinality({s \in Slots : a[s] = e}) \in Nat
    BY <1>2, FS_CardinalityType
<1> QED BY <1>1, <1>2, <1>3, ConstantsAssumption DEF Count

\* A slot is cleared: its entry is named once less.
LEMMA CountCleared ==
    ASSUME NEW a \in Table, NEW s \in Slots, NEW e \in Entries
    PROVE  Count([a EXCEPT ![s] = NULL], e) = Count(a, e) - (IF e = a[s] THEN 1 ELSE 0)
<1> DEFINE S == {p \in Slots : a[p] = e}
           T == {p \in Slots : [a EXCEPT ![s] = NULL][p] = e}
<1>0. e # NULL
    BY ConstantsAssumption DEF Entries, NULL
<1>1. IsFiniteSet(S) /\ Cardinality(S) \in Nat
    BY CountType, FS_CardinalityType
<1>2. T = S \ {s}
    BY <1>0 DEF Table
<1>3. CASE e = a[s]
    <2>1. s \in S
        BY <1>3
    <2> HIDE DEF S, T
    <2>2. Cardinality(T) = Cardinality(S) - 1
        BY <1>1, <1>2, <2>1, FS_RemoveElement
    <2> QED BY <1>3, <2>2 DEF Count, S, T
<1>4. CASE e # a[s]
    <2>1. T = S
        BY <1>2, <1>4
    <2> HIDE DEF S, T
    <2>2. Cardinality(T) = Cardinality(S) - 0
        BY <1>1, <2>1
    <2> QED BY <1>4, <2>2 DEF Count, S, T
<1> QED BY <1>3, <1>4

\* An empty slot is filled: its entry is named once more.
LEMMA CountFilled ==
    ASSUME NEW a \in Table, NEW s \in Slots, NEW n \in Entries, NEW e \in Entries, a[s] = NULL
    PROVE  Count([a EXCEPT ![s] = n], e) = Count(a, e) + (IF e = n THEN 1 ELSE 0)
<1> DEFINE S == {p \in Slots : a[p] = e}
           T == {p \in Slots : [a EXCEPT ![s] = n][p] = e}
<1>0. e # NULL
    BY ConstantsAssumption DEF Entries, NULL
<1>1. IsFiniteSet(S) /\ Cardinality(S) \in Nat
    BY CountType, FS_CardinalityType
<1>2. s \notin S
    BY <1>0
<1>3. CASE e = n
    <2>1. T = S \cup {s}
        BY <1>3 DEF Table
    <2> HIDE DEF S, T
    <2>2. Cardinality(T) = Cardinality(S) + 1
        BY <1>1, <1>2, <2>1, FS_AddElement
    <2> QED BY <1>3, <2>2 DEF Count, S, T
<1>4. CASE e # n
    <2>1. T = S
        BY <1>0, <1>2, <1>4 DEF Table
    <2> HIDE DEF S, T
    <2>2. Cardinality(T) = Cardinality(S) + 0
        BY <1>1, <2>1
    <2> QED BY <1>4, <2>2 DEF Count, S, T
<1> QED BY <1>3, <1>4

\* Dropping the incumbent of a slot, and discarding its trace with its last
\* reference, keeps the counts exact.
LEMMA DropExact ==
    ASSUME NEW ref \in Refs, NEW mini \in Minis, NEW a \in Table, NEW b \in Table, NEW s \in Slots,
           Exact(ref, mini, a, b)
    PROVE  Exact(DropRef(ref, a[s]), Discard(mini, DropRef(ref, a[s]), a[s]),
                 [a EXCEPT ![s] = NULL], b)
<1> DEFINE o == a[s]
           r == DropRef(ref, o)
           m == Discard(mini, r, o)
           c == [a EXCEPT ![s] = NULL]
<1>0. NULL \notin Entries /\ o \in Entries \cup {NULL}
    BY ConstantsAssumption DEF Entries, NULL, Table
<1>1. CASE o = NULL
    <2>1. r = ref /\ m = mini /\ c = a
        BY <1>1 DEF DropRef, Discard, Table
    <2> QED BY <2>1
<1>2. CASE o # NULL
    <2>1. ASSUME NEW e \in Entries PROVE r[e] = Count(c, e) + Count(b, e) /\ (m[e] # {} <=> r[e] > 0)
        <3>1. /\ Count(a, e) \in Nat /\ Count(b, e) \in Nat /\ Count(c, e) \in Nat
              /\ Count(c, e) = Count(a, e) - (IF e = o THEN 1 ELSE 0)
            <4>1. /\ Count(a, e) \in 0 .. MapSize /\ Count(b, e) \in 0 .. MapSize
                  /\ Count(c, e) \in 0 .. MapSize
                BY CountType
            <4>2. Count(c, e) = Count(a, e) - (IF e = o THEN 1 ELSE 0)
                BY CountCleared
            <4> HIDE DEF c
            <4> QED BY <4>1, <4>2, ConstantsAssumption
        <3>2. ref[e] = Count(a, e) + Count(b, e) /\ (mini[e] # {} <=> ref[e] > 0)
            BY DEF Exact
        <3> HIDE DEF c
        <3>3. CASE e = o
            <4>1. ref[e] > 0
                BY <3>1, <3>2, <3>3
            <4>2. r[e] = ref[e] - 1
                BY <1>2, <3>3, <4>1 DEF DropRef, Refs
            <4>3. m[e] = IF r[e] = 0 THEN {} ELSE mini[e]
                BY <1>2, <3>3 DEF Discard, Minis
            <4> HIDE DEF r, m, o
            <4>4. r[e] = Count(c, e) + Count(b, e) /\ r[e] \in Nat
                BY <3>1, <3>2, <3>3, <4>1, <4>2
            <4> QED BY <3>2, <4>1, <4>3, <4>4
        <3>4. CASE e # o
            <4>1. r[e] = ref[e]
                BY <1>2, <3>4 DEF DropRef, Refs
            <4>2. m[e] = mini[e]
                BY <1>2, <3>4 DEF Discard, Minis
            <4> HIDE DEF r, m, o
            <4> QED BY <3>1, <3>2, <3>4, <4>1, <4>2
        <3> QED BY <3>3, <3>4
    <2> HIDE DEF r, m, c
    <2>2. Exact(r, m, c, b)
        BY <2>1 DEF Exact
    <2> QED BY <2>2 DEF r, m, c
<1> QED BY <1>1, <1>2

\* Putting an entry into an empty slot, and keeping the trace in trace_bits with its
\* first reference, keeps the counts exact, and no count overflows.
LEMMA TakeExact ==
    ASSUME 2 * MapSize < RefModulus,
           NEW ref \in Refs, NEW mini \in Minis, NEW a \in Table, NEW b \in Table, NEW s \in Slots,
           NEW n \in Entries, a[s] = NULL, trace_bits # {}, Exact(ref, mini, a, b)
    PROVE  Exact(TakeRef(ref, n), KeepTrace(mini, n), [a EXCEPT ![s] = n], b)
<1> DEFINE r == TakeRef(ref, n)
           m == KeepTrace(mini, n)
           c == [a EXCEPT ![s] = n]
<1>1. ASSUME NEW e \in Entries PROVE r[e] = Count(c, e) + Count(b, e) /\ (m[e] # {} <=> r[e] > 0)
    <2>1. /\ Count(a, e) \in 0 .. MapSize /\ Count(b, e) \in 0 .. MapSize /\ Count(c, e) \in 0 .. MapSize
          /\ Count(c, e) = Count(a, e) + (IF e = n THEN 1 ELSE 0)
        BY CountType, CountFilled
    <2>2. ref[e] = Count(a, e) + Count(b, e) /\ (mini[e] # {} <=> ref[e] > 0)
        BY DEF Exact
    <2> HIDE DEF c
    <2>3. CASE e = n
        <3>1. ref[e] + 1 = Count(c, e) + Count(b, e) /\ ref[e] \in Nat
            BY <2>1, <2>2, <2>3, ConstantsAssumption
        <3>2. ref[e] # RefModulus - 1
            BY <2>1, <3>1, ConstantsAssumption
        <3>3. r[e] = ref[e] + 1
            BY <2>3, <3>2 DEF TakeRef, Refs
        <3>4. m[e] # {}
            BY <2>3 DEF KeepTrace, Minis
        <3> HIDE DEF r, m
        <3> QED BY <3>1, <3>3, <3>4
    <2>4. CASE e # n
        <3>1. r[e] = ref[e] /\ m[e] = mini[e]
            BY <2>4 DEF TakeRef, KeepTrace, Refs, Minis
        <3> HIDE DEF r, m
        <3> QED BY <2>1, <2>2, <2>4, <3>1
    <2> QED BY <2>3, <2>4
<1> HIDE DEF r, m, c
<1>2. Exact(r, m, c, b)
    BY <1>1 DEF Exact
<1> QED BY <1>2 DEF r, m, c

\* The two tables count alike.
LEMMA ExactSymmetric ==
    ASSUME NEW ref, NEW mini, NEW a, NEW b, Exact(ref, mini, a, b)
    PROVE  Exact(ref, mini, b, a)
<1>1. \A e \in Entries : Count(a, e) \in Nat /\ Count(b, e) \in Nat
    <2>1. \A e \in Entries : Count(a, e) \in 0 .. MapSize /\ Count(b, e) \in 0 .. MapSize
        BY CountType
    <2> QED BY <2>1, ConstantsAssumption
<1> QED BY <1>1 DEF Exact

\* A slot that changes hands is cleared and filled.
LEMMA ReplaceExact ==
    ASSUME 2 * MapSize < RefModulus,
           NEW ref \in Refs, NEW mini \in Minis, NEW a \in Table, NEW b \in Table, NEW s \in Slots,
           NEW n \in Entries, trace_bits # {}, trace_bits \in SUBSET Slots, Exact(ref, mini, a, b)
    PROVE  LET r == DropRef(ref, a[s])
           IN  Exact(TakeRef(r, n), KeepTrace(Discard(mini, r, a[s]), n), [a EXCEPT ![s] = n], b)
<1> DEFINE r == DropRef(ref, a[s])
           m == Discard(mini, r, a[s])
           c == [a EXCEPT ![s] = NULL]
<1>1. a[s] \in Entries \cup {NULL}
    BY DEF Table
<1>2. r \in Refs /\ m \in Minis
    BY <1>1, DropType, DiscardType DEF Refs, Minis
<1>3. c \in Table /\ c[s] = NULL /\ [c EXCEPT ![s] = n] = [a EXCEPT ![s] = n]
    BY DEF Table
<1>4. Exact(r, m, c, b)
    BY DropExact
<1> HIDE DEF r, m, c
<1>5. Exact(TakeRef(r, n), KeepTrace(m, n), [c EXCEPT ![s] = n], b)
    BY <1>2, <1>3, <1>4, TakeExact
<1>6. Exact(TakeRef(r, n), KeepTrace(m, n), [a EXCEPT ![s] = n], b)
    BY <1>3, <1>5
<1> QED BY <1>6 DEF r, m

\* The update of top_rated_orig keeps the counts exact.
LEMMA OrigExact ==
    ASSUME 2 * MapSize < RefModulus, TypeInv, byte \in trace_bits, entry \in Entries,
           NEW ref \in Refs, NEW mini \in Minis, NEW a \in Table,
           Exact(ref, mini, a, top_rated_orig), ScoreOrig(ref, mini)
    PROVE  Exact(tc_ref', trace_mini', a, top_rated_orig')
<1> DEFINE b == top_rated_orig
           r == DropRef(ref, b[byte])
<1>0. b \in Table /\ byte \in Slots /\ trace_bits # {} /\ trace_bits \in SUBSET Slots
    BY QueueFacts DEF TypeInv, TypeOK, ScoreTypes, RunTypes, Table
<1>1. CASE LosesTo(b[byte])
    BY <1>1 DEF ScoreOrig
<1>2. CASE ~LosesTo(b[byte])
    <2>1. /\ top_rated_orig' = [b EXCEPT ![byte] = entry] /\ tc_ref' = TakeRef(r, entry)
          /\ trace_mini' = KeepTrace(Discard(mini, r, b[byte]), entry)
        BY <1>2 DEF ScoreOrig
    <2>2. Exact(ref, mini, b, a)
        BY ExactSymmetric
    <2>3. Exact(TakeRef(r, entry), KeepTrace(Discard(mini, r, b[byte]), entry),
                [b EXCEPT ![byte] = entry], a)
        BY <1>0, <2>2, ReplaceExact
    <2> HIDE DEF r, b
    <2>4. Exact(tc_ref', trace_mini', top_rated_orig', a)
        BY <2>1, <2>3
    <2> QED BY <2>4, ExactSymmetric
<1> QED BY <1>1, <1>2

\* One byte of update_bitmap_score keeps the counts exact, as long as no entry is tagged.
LEMMA ScoreExact ==
    ASSUME 2 * MapSize < RefModulus, TypeInv, RefInv, has_new_incorrect = {}, ScoreSlot
    PROVE  Exact(tc_ref', trace_mini', top_rated', top_rated_orig')
<1>0. Exact(tc_ref, trace_mini, top_rated, top_rated_orig)
    BY DEF RefInv
<1>1. CASE byte \notin trace_bits
    BY <1>0, <1>1 DEF ScoreSlot, scoreVars
<1>2. CASE byte \in trace_bits
    <2> DEFINE t == top_rated[byte]
               ref == DropRef(tc_ref, t)
               mini == Discard(trace_mini, ref, t)
               none == [top_rated EXCEPT ![byte] = NULL]
               won == [top_rated EXCEPT ![byte] = entry]
    <2>0. /\ byte \in Slots /\ entry \in Entries /\ trace_bits # {} /\ trace_bits \in SUBSET Slots
          /\ t \in Entries \cup {NULL} /\ top_rated \in Table /\ top_rated_orig \in Table
          /\ tc_ref \in Refs /\ trace_mini \in Minis
        BY <1>2, QueueFacts DEF ScoreSlot, ControlOK, TypeInv, TypeOK, RunTypes, ScoreTypes, Table,
           Refs, Minis
    <2>1. ref \in Refs /\ mini \in Minis /\ none \in Table /\ won \in Table
        BY <2>0, DropType, DiscardType DEF Refs, Minis, Table
    <2>2. Exact(ref, mini, none, top_rated_orig)
        BY <1>0, <2>0, DropExact
    <2>3. /\ TakeRef(ref, entry) \in Refs /\ KeepTrace(mini, entry) \in Minis
        BY <2>0, <2>1, TakeType, KeepType DEF Refs, Minis
    <2>4. Exact(TakeRef(ref, entry), KeepTrace(mini, entry), won, top_rated_orig)
        BY <1>0, <2>0, ReplaceExact
    <2>5. CASE ScoreBelowMax
        <3>1. UNCHANGED <<tc_ref, trace_mini, top_rated, top_rated_orig>>
            BY <2>5 DEF ScoreBelowMax
        <3> QED BY <1>0, <3>1
    <2>6. CASE ScoreTie
        <3>1. ScoreOrig(ref, mini) /\ top_rated' = none
            BY <2>6 DEF ScoreTie
        <3> HIDE DEF ref, mini, none
        <3> QED BY <1>2, <2>0, <2>1, <2>2, <3>1, OrigExact
    <2>7. CASE ScoreWin
        <3>1. ScoreOrig(TakeRef(ref, entry), KeepTrace(mini, entry)) /\ top_rated' = won
            BY <2>7 DEF ScoreWin
        <3> HIDE DEF ref, mini, won
        <3> QED BY <1>2, <2>0, <2>1, <2>3, <2>4, <3>1, OrigExact
    <2>8. CASE ScoreStock
        <3>1. CASE LosesTo(t)
            BY <1>0, <2>8, <3>1 DEF ScoreStock
        <3>2. CASE ~LosesTo(t)
            <4>1. /\ top_rated' = won /\ tc_ref' = TakeRef(ref, entry)
                  /\ trace_mini' = KeepTrace(mini, entry) /\ UNCHANGED top_rated_orig
                BY <2>8, <3>2 DEF ScoreStock
            <4> HIDE DEF ref, mini, won
            <4> QED BY <2>4, <4>1
        <3> QED BY <3>1, <3>2
    <2>9. CASE ~TF_switch /\ ~Stock /\ ScorePlain
        <3>1. t = NULL
            BY <2>0, <2>9 DEF RefInv
        <3>2. UNCHANGED <<tc_ref, trace_mini, top_rated, top_rated_orig>>
            BY <2>9, <3>1 DEF ScorePlain
        <3> QED BY <1>0, <3>2
    <2> QED BY <1>2, <2>5, <2>6, <2>7, <2>8, <2>9 DEF ScoreSlot
<1> QED BY <1>1, <1>2

\* Tags are put by save_if_interesting, only with -s, and never taken away.
LEMMA TagStep ==
    ASSUME [Next]_vars
    PROVE  has_new_incorrect \subseteq has_new_incorrect'
           /\ (~TF_switch => has_new_incorrect' = has_new_incorrect)
<1>1. CASE UNCHANGED has_new_incorrect
    BY <1>1
<1>2. CASE Save
    BY <1>2 DEF Save
<1>3. CASE ScoreStep \/ CullStep
    BY <1>1, <1>3 DEF ScoreStep, CullStep, ScoreSlot, ScoreDone, CullRescan, CullAltern, CullTF,
       GreedyTake, GreedyPass, CullMark, entryVars
<1>4. CASE FuzzRecalibrate \/ FuzzStart \/ Trim \/ FuzzDone
    BY <1>1, <1>4 DEF FuzzRecalibrate, FuzzStart, Trim, FuzzDone, entryVars
<1>5. CASE MainStep
    BY <1>1, <1>5 DEF MainStep, DryRun, DryRunDone, LoopTop, Pick, FuzzSkip, Advance, Stop, entryVars
<1>6. CASE UNCHANGED vars
    BY <1>1, <1>6 DEF vars, entryVars
<1> QED BY <1>2, <1>3, <1>4, <1>5, <1>6 DEF Next, FuzzStep, Ended

\* RefInv is inductive: the counts never wrap.
LEMMA RefAlways ==
    ASSUME 2 * MapSize < RefModulus
    PROVE  Spec => [](TypeInv /\ RefInv)
<1>1. ASSUME Init PROVE RefInv
    <2>1. /\ \A s \in Slots : top_rated[s] = NULL /\ top_rated_orig[s] = NULL
          /\ \A e \in Entries : tc_ref[e] = 0 /\ trace_mini[e] = {}
          /\ has_new_incorrect = {}
        BY <1>1 DEF Init
    <2>2. ASSUME NEW e \in Entries PROVE Count(top_rated, e) = 0 /\ Count(top_rated_orig, e) = 0
        <3>1. e # NULL
            BY ConstantsAssumption DEF Entries, NULL
        <3>2. {s \in Slots : top_rated[s] = e} = {} /\ {s \in Slots : top_rated_orig[s] = e} = {}
            BY <2>1, <3>1
        <3> QED BY <3>2, FS_EmptySet DEF Count
    <2>3. Exact(tc_ref, trace_mini, top_rated, top_rated_orig)
        BY <2>1, <2>2 DEF Exact
    <2> QED BY <2>1, <2>3 DEF RefInv
<1>2. ASSUME TypeInv, RefInv, [Next]_vars PROVE RefInv'
    <2>1. UNCHANGED TF_switch
        BY <1>2, SwitchFixed
    <2>2. has_new_incorrect' = {} => Exact(tc_ref', trace_mini', top_rated', top_rated_orig')
        <3> SUFFICES ASSUME has_new_incorrect' = {}
                     PROVE  Exact(tc_ref', trace_mini', top_rated', top_rated_orig')
            OBVIOUS
        <3>1. has_new_incorrect = {}
            BY <1>2, TagStep
        <3>2. CASE ScoreSlot
            BY <1>2, <3>1, <3>2, ScoreExact
        <3>3. CASE UNCHANGED tables
            BY <1>2, <3>1, <3>3 DEF RefInv, tables
        <3> QED BY <1>2, <3>2, <3>3, OnlyScoreWrites
    <2>3. ~TF_switch => has_new_incorrect' = {}
        BY <1>2, TagStep DEF RefInv
    <2>4. ~TF_switch => \A s \in Slots : top_rated_orig'[s] = NULL
        <3>1. CASE ScoreSlot /\ ~TF_switch
            BY <1>2, <3>1 DEF RefInv, ScoreSlot, ScoreStock, ScorePlain, scoreVars
        <3>2. CASE UNCHANGED tables
            BY <1>2, <3>2 DEF RefInv, tables
        <3> QED BY <1>2, <3>1, <3>2, OnlyScoreWrites
    <2>5. ~TF_switch /\ ~Stock => \A s \in Slots : top_rated'[s] = NULL
        <3>1. CASE ScoreSlot /\ ~TF_switch /\ ~Stock
            BY <1>2, <3>1 DEF RefInv, ScoreSlot, ScorePlain, scoreVars
        <3>2. CASE UNCHANGED tables
            BY <1>2, <3>2 DEF RefInv, tables
        <3> QED BY <1>2, <3>1, <3>2, OnlyScoreWrites
    <2> QED BY <2>1, <2>2, <2>3, <2>4, <2>5 DEF RefInv
<1>3. Init => TypeInv /\ RefInv
    BY <1>1, InitType
<1>4. TypeInv /\ RefInv /\ [Next]_vars => (TypeInv /\ RefInv)'
    BY <1>2, TypeStep
<1> QED BY <1>3, <1>4, PTL DEF Spec

\* In afl/afl-fuzz.c (and without -s) the reference counts are exact throughout, and
\* a trace is kept exactly while a table names its entry.
THEOREM RefCountAlways ==
    ASSUME 2 * MapSize < RefModulus, Switches = {FALSE}
    PROVE  Spec => []RefCountExact
<1>1. TypeInv /\ RefInv => RefCountExact
    <2> SUFFICES ASSUME TypeInv, RefInv PROVE RefCountExact
        OBVIOUS
    <2>1. ~TF_switch
        BY Zenon DEF TypeInv, TypeOK, FlagTypes
    <2>2. Exact(tc_ref, trace_mini, top_rated, top_rated_orig)
        BY <2>1 DEF RefInv
    <2> QED BY <2>2 DEF Exact, Count, RefCountExact, SlotsOf
<1> QED BY <1>1, RefAlways, PTL

\* Without -s and in the original, cull_queue never follows a NULL trace_mini: a
\* winner has a reference, and so its trace.
THEOREM TraceKept ==
    ASSUME 2 * MapSize < RefModulus, Switches = {FALSE}
    PROVE  Spec => []NoNullTrace
<1>1. ASSUME TypeInv, RefCountExact, NoNullTrace, [Next]_vars PROVE NoNullTrace'
    <2>1. CASE GreedyTake
        <3> DEFINE w == GreedyTable[byte]
        <3>1. ~TF_switch
            BY <1>1, Zenon DEF TypeInv, TypeOK, FlagTypes
        <3>2. w = top_rated[byte] /\ w # NULL /\ byte \in Slots
            BY <1>1, <2>1, <3>1 DEF GreedyTake, GreedyTable, TypeInv, TypeOK, CullTypes
        <3>3. w \in Entries
            BY <1>1, <3>2, QueueFacts
        <3>4. Count(top_rated, w) # 0
            <4>1. byte \in {s \in Slots : top_rated[s] = w}
                BY <3>2
            <4>2. IsFiniteSet({s \in Slots : top_rated[s] = w})
                BY CountType
            <4> HIDE DEF w
            <4> QED BY <4>1, <4>2, FS_EmptySet DEF Count
        <3>5. /\ tc_ref[w] = Count(top_rated, w) + Count(top_rated_orig, w)
              /\ trace_mini[w] # {} <=> tc_ref[w] > 0
            BY <1>1, <3>3 DEF RefCountExact, Count, SlotsOf
        <3>6. Count(top_rated, w) \in 0 .. MapSize /\ Count(top_rated_orig, w) \in 0 .. MapSize
            BY CountType
        <3> HIDE DEF w
        <3>7. trace_mini[w] # {}
            BY <3>4, <3>5, <3>6, ConstantsAssumption
        <3> QED BY <2>1, <3>7 DEF GreedyTake, NoNullTrace, w
    <2>2. CASE CullStep /\ ~GreedyTake
        BY <1>1, <2>2 DEF CullStep, CullRescan, CullAltern, CullTF, GreedyPass, CullMark, Call,
           NoNullTrace, TypeInv, TypeOK, ControlTypes
    <2>3. CASE ScoreStep \/ FuzzStep \/ MainStep
        BY <1>1, <2>3 DEF ScoreStep, FuzzStep, MainStep, ScoreSlot, ScoreDone, FuzzRecalibrate,
           FuzzStart, Trim, Save, FuzzDone, DryRun, DryRunDone, LoopTop, Pick, FuzzSkip, Advance,
           Stop, Calibrated, Call, NoNullTrace, TypeInv, TypeOK, ControlTypes
    <2>4. CASE UNCHANGED vars
        BY <1>1, <2>4 DEF vars, NoNullTrace
    <2> QED BY <1>1, <2>1, <2>2, <2>3, <2>4 DEF Next, Ended
<1>2. Init => NoNullTrace
    BY DEF Init, NoNullTrace
<1>3. TypeInv /\ RefCountExact /\ NoNullTrace /\ [Next]_vars => NoNullTrace'
    BY <1>1
<1> QED BY <1>2, <1>3, RefAlways, RefCountAlways, PTL DEF Spec

-----------------------------------------------------------------------------
(* The reference counts once finds are tagged.                              *)

Untagged == Entries \ has_new_incorrect

\* An untagged entry counts at least the slots that name it, and has its trace
\* while it counts anything.
SafeCount(ref, mini, a, b) ==
    \A e \in Untagged : ref[e] >= Count(a, e) + Count(b, e) /\ (ref[e] > 0 => mini[e] # {})

\* No untagged entry has gained a reference, but for n, which has gained at most one.
NoGain(new, old) == \A e \in Untagged : new[e] <= old[e]
GainsOne(new, old, n) == \A e \in Untagged : new[e] <= old[e] + (IF e = n THEN 1 ELSE 0)

\* The two tables count alike.
LEMMA SafeSymmetric ==
    ASSUME NEW ref, NEW mini, NEW a, NEW b, SafeCount(ref, mini, a, b)
    PROVE  SafeCount(ref, mini, b, a)
<1>1. \A e \in Entries : Count(a, e) \in Nat /\ Count(b, e) \in Nat
    <2>1. \A e \in Entries : Count(a, e) \in 0 .. MapSize /\ Count(b, e) \in 0 .. MapSize
        BY CountType
    <2> QED BY <2>1, ConstantsAssumption
<1> QED BY <1>1 DEF SafeCount, Untagged

\* Dropping the incumbent of a slot takes a reference that the slot accounted for, so
\* that an untagged count does not wrap.
LEMMA DropSafe ==
    ASSUME NEW ref \in Refs, NEW mini \in Minis, NEW a \in Table, NEW b \in Table, NEW s \in Slots,
           SafeCount(ref, mini, a, b)
    PROVE  /\ SafeCount(DropRef(ref, a[s]), Discard(mini, DropRef(ref, a[s]), a[s]),
                        [a EXCEPT ![s] = NULL], b)
           /\ NoGain(DropRef(ref, a[s]), ref)
<1> DEFINE o == a[s]
           r == DropRef(ref, o)
           m == Discard(mini, r, o)
           c == [a EXCEPT ![s] = NULL]
<1>1. ASSUME NEW e \in Untagged
      PROVE  /\ r[e] >= Count(c, e) + Count(b, e) /\ (r[e] > 0 => m[e] # {})
             /\ r[e] <= ref[e]
    <2>0. e \in Entries /\ e # NULL /\ ref[e] \in 0 .. RefModulus - 1
        BY ConstantsAssumption DEF Untagged, Entries, NULL, Refs
    <2>1. /\ Count(a, e) \in Nat /\ Count(b, e) \in Nat /\ Count(c, e) \in Nat
          /\ Count(c, e) = Count(a, e) - (IF e = o THEN 1 ELSE 0)
        <3>1. /\ Count(a, e) \in 0 .. MapSize /\ Count(b, e) \in 0 .. MapSize
              /\ Count(c, e) \in 0 .. MapSize
            BY CountType
        <3>2. Count(c, e) = Count(a, e) - (IF e = o THEN 1 ELSE 0)
            BY <2>0, CountCleared
        <3> HIDE DEF c
        <3> QED BY <3>1, <3>2, ConstantsAssumption
    <2>2. ref[e] >= Count(a, e) + Count(b, e) /\ (ref[e] > 0 => mini[e] # {})
        BY DEF SafeCount
    <2> HIDE DEF c
    <2>3. CASE e = o
        <3>1. ref[e] > 0
            BY <2>0, <2>1, <2>2, <2>3, ConstantsAssumption
        <3>2. r[e] = ref[e] - 1
            BY <2>0, <2>3, <3>1 DEF DropRef, Refs
        <3>3. m[e] = IF r[e] = 0 THEN {} ELSE mini[e]
            BY <2>0, <2>3 DEF Discard, Minis
        <3> HIDE DEF r, m, o
        <3> QED BY <2>0, <2>1, <2>2, <2>3, <3>1, <3>2, <3>3, ConstantsAssumption
    <2>4. CASE e # o
        <3>1. r[e] = ref[e]
            BY <2>0, <2>4 DEF DropRef, Refs
        <3>2. m[e] = mini[e]
            BY <2>0, <2>4 DEF Discard, Minis
        <3> HIDE DEF r, m, o
        <3> QED BY <2>0, <2>1, <2>2, <2>4, <3>1, <3>2, ConstantsAssumption
    <2> QED BY <2>3, <2>4
<1> HIDE DEF r, m, c
<1>2. SafeCount(r, m, c, b) /\ NoGain(r, ref)
    BY <1>1 DEF SafeCount, NoGain
<1> QED BY <1>2 DEF r, m, c

\* Putting an entry into an empty slot: only a tagged entry may lack its trace or
\* overflow its count.
LEMMA TakeSafe ==
    ASSUME NEW ref \in Refs, NEW mini \in Minis, NEW a \in Table, NEW b \in Table, NEW s \in Slots,
           NEW n \in Entries, a[s] = NULL, trace_bits # {}, SafeCount(ref, mini, a, b),
           n \in Untagged => ref[n] + 1 < RefModulus,
           NEW m, m = KeepTrace(mini, n) \/ (m = mini /\ n \notin Untagged)
    PROVE  /\ SafeCount(TakeRef(ref, n), m, [a EXCEPT ![s] = n], b)
           /\ GainsOne(TakeRef(ref, n), ref, n)
<1> DEFINE r == TakeRef(ref, n)
           c == [a EXCEPT ![s] = n]
<1>1. ASSUME NEW e \in Untagged
      PROVE  /\ r[e] >= Count(c, e) + Count(b, e) /\ (r[e] > 0 => m[e] # {})
             /\ r[e] <= ref[e] + (IF e = n THEN 1 ELSE 0)
    <2>0. e \in Entries /\ ref[e] \in 0 .. RefModulus - 1 /\ ref[e] \in Nat
        BY ConstantsAssumption DEF Untagged, Refs
    <2>1. /\ Count(a, e) \in Nat /\ Count(b, e) \in Nat /\ Count(c, e) \in Nat
          /\ Count(c, e) = Count(a, e) + (IF e = n THEN 1 ELSE 0)
        <3>1. /\ Count(a, e) \in 0 .. MapSize /\ Count(b, e) \in 0 .. MapSize
              /\ Count(c, e) \in 0 .. MapSize
            BY CountType
        <3>2. Count(c, e) = Count(a, e) + (IF e = n THEN 1 ELSE 0)
            BY <2>0, CountFilled
        <3> HIDE DEF c
        <3> QED BY <3>1, <3>2, ConstantsAssumption
    <2>2. ref[e] >= Count(a, e) + Count(b, e) /\ (ref[e] > 0 => mini[e] # {})
        BY DEF SafeCount
    <2> HIDE DEF c
    <2>3. CASE e = n
        <3>1. ref[e] # RefModulus - 1
            BY <2>0, <2>3, ConstantsAssumption
        <3>2. r[e] = ref[e] + 1
            BY <2>0, <2>3, <3>1 DEF TakeRef, Refs
        <3>3. m[e] # {}
            BY <2>0, <2>3 DEF KeepTrace, Minis
        <3> HIDE DEF r
        <3> QED BY <2>0, <2>1, <2>2, <2>3, <3>2, <3>3
    <2>4. CASE e # n
        <3>1. r[e] = ref[e]
            BY <2>0, <2>4 DEF TakeRef, Refs
        <3>2. m[e] = mini[e]
            BY <2>0, <2>4 DEF KeepTrace, Minis
        <3> HIDE DEF r
        <3> QED BY <2>0, <2>1, <2>2, <2>4, <3>1, <3>2
    <2> QED BY <2>3, <2>4
<1> HIDE DEF r, c
<1>2. SafeCount(r, m, c, b) /\ GainsOne(r, ref, n)
    BY <1>1 DEF SafeCount, GainsOne
<1> QED BY <1>2 DEF r, c

\* A slot that changes hands is cleared and filled.
LEMMA ReplaceSafe ==
    ASSUME NEW ref \in Refs, NEW mini \in Minis, NEW a \in Table, NEW b \in Table, NEW s \in Slots,
           NEW n \in Entries, trace_bits # {}, trace_bits \in SUBSET Slots,
           SafeCount(ref, mini, a, b), n \in Untagged => ref[n] + 1 < RefModulus,
           NEW m, LET d == Discard(mini, DropRef(ref, a[s]), a[s])
                  IN  m = KeepTrace(d, n) \/ (m = d /\ n \notin Untagged)
    PROVE  /\ SafeCount(TakeRef(DropRef(ref, a[s]), n), m, [a EXCEPT ![s] = n], b)
           /\ GainsOne(TakeRef(DropRef(ref, a[s]), n), ref, n)
<1> DEFINE r == DropRef(ref, a[s])
           d == Discard(mini, r, a[s])
           c == [a EXCEPT ![s] = NULL]
<1>1. a[s] \in Entries \cup {NULL}
    BY DEF Table
<1>2. r \in Refs /\ d \in Minis
    BY <1>1, DropType, DiscardType DEF Refs, Minis
<1>3. c \in Table /\ c[s] = NULL /\ [c EXCEPT ![s] = n] = [a EXCEPT ![s] = n]
    BY DEF Table
<1>4. SafeCount(r, d, c, b) /\ NoGain(r, ref)
    BY DropSafe
<1>5. m = KeepTrace(d, n) \/ (m = d /\ n \notin Untagged)
    OBVIOUS
<1> HIDE DEF r, d, c
<1>6. n \in Untagged => r[n] + 1 < RefModulus
    BY <1>2, <1>4, ConstantsAssumption DEF NoGain, Refs
<1>7. /\ SafeCount(TakeRef(r, n), m, [c EXCEPT ![s] = n], b)
      /\ GainsOne(TakeRef(r, n), r, n)
    BY <1>2, <1>3, <1>4, <1>5, <1>6, TakeSafe
<1>8. GainsOne(TakeRef(r, n), ref, n)
    <2>1. TakeRef(r, n) \in Refs
        BY <1>2, TakeType DEF Refs
    <2>2. ASSUME NEW e \in Untagged
          PROVE  TakeRef(r, n)[e] <= ref[e] + (IF e = n THEN 1 ELSE 0)
        <3>1. /\ TakeRef(r, n)[e] <= r[e] + (IF e = n THEN 1 ELSE 0) /\ r[e] <= ref[e]
              /\ TakeRef(r, n)[e] \in Int /\ r[e] \in Int /\ ref[e] \in Int
            BY <1>2, <1>4, <1>7, <2>1, ConstantsAssumption DEF GainsOne, NoGain, Refs, Untagged
        <3> QED BY <3>1
    <2> QED BY <2>2 DEF GainsOne
<1>9. SafeCount(TakeRef(r, n), m, [a EXCEPT ![s] = n], b)
    BY <1>3, <1>7
<1> QED BY <1>8, <1>9 DEF r

\* The update of top_rated_orig.
LEMMA OrigSafe ==
    ASSUME TypeInv, byte \in trace_bits, entry \in Entries,
           NEW ref \in Refs, NEW mini \in Minis, NEW a \in Table,
           SafeCount(ref, mini, a, top_rated_orig), ScoreOrig(ref, mini),
           entry \in Untagged => ref[entry] + 1 < RefModulus
    PROVE  /\ SafeCount(tc_ref', trace_mini', a, top_rated_orig')
           /\ GainsOne(tc_ref', ref, entry)
<1> DEFINE b == top_rated_orig
           r == DropRef(ref, b[byte])
           m == KeepTrace(Discard(mini, r, b[byte]), entry)
<1>0. b \in Table /\ byte \in Slots /\ trace_bits # {} /\ trace_bits \in SUBSET Slots
    BY QueueFacts DEF TypeInv, TypeOK, ScoreTypes, RunTypes, Table
<1>1. CASE LosesTo(b[byte])
    <2>1. tc_ref' = ref /\ trace_mini' = mini /\ top_rated_orig' = b
        BY <1>1 DEF ScoreOrig
    <2>2. GainsOne(ref, ref, entry)
        BY ConstantsAssumption DEF GainsOne, Refs, Untagged
    <2> QED BY <2>1, <2>2
<1>2. CASE ~LosesTo(b[byte])
    <2>1. /\ top_rated_orig' = [b EXCEPT ![byte] = entry] /\ tc_ref' = TakeRef(r, entry)
          /\ trace_mini' = m
        BY <1>2 DEF ScoreOrig
    <2>2. SafeCount(ref, mini, b, a)
        BY SafeSymmetric
    <2>3. /\ SafeCount(TakeRef(r, entry), m, [b EXCEPT ![byte] = entry], a)
          /\ GainsOne(TakeRef(r, entry), ref, entry)
        BY <1>0, <2>2, ReplaceSafe
    <2> HIDE DEF r, b, m
    <2>4. SafeCount(tc_ref', trace_mini', top_rated_orig', a)
        BY <2>1, <2>3
    <2> QED BY <2>1, <2>3, <2>4, SafeSymmetric
<1> QED BY <1>1, <1>2

\* The inductive form: the hybrid program without -s names nobody in a table.
SafeInv ==
    /\ SafeCount(tc_ref, trace_mini, top_rated, top_rated_orig)
    /\ ~TF_switch /\ ~Stock => \A s \in Slots : top_rated[s] = NULL

\* One byte of update_bitmap_score: the entry that is scored gains two references at
\* most, the others none.
LEMMA ScoreSafe ==
    ASSUME TypeInv, SafeInv, ScoreSlot, entry \in Untagged => tc_ref[entry] + 2 < RefModulus
    PROVE  /\ SafeCount(tc_ref', trace_mini', top_rated', top_rated_orig')
           /\ \A e \in Untagged : tc_ref'[e] <= tc_ref[e] + (IF e = entry THEN 2 ELSE 0)
<1>0. SafeCount(tc_ref, trace_mini, top_rated, top_rated_orig) /\ tc_ref \in Refs
    BY DEF SafeInv, TypeInv, TypeOK, ScoreTypes, Refs
<1>a. \A e \in Untagged : tc_ref[e] <= tc_ref[e] + (IF e = entry THEN 2 ELSE 0)
    BY <1>0, ConstantsAssumption DEF Refs, Untagged
<1>1. CASE byte \notin trace_bits
    BY <1>0, <1>1, <1>a DEF ScoreSlot, scoreVars
<1>2. CASE byte \in trace_bits
    <2> DEFINE t == top_rated[byte]
               ref == DropRef(tc_ref, t)
               mini == Discard(trace_mini, ref, t)
               none == [top_rated EXCEPT ![byte] = NULL]
               won == [top_rated EXCEPT ![byte] = entry]
               taken == TakeRef(ref, entry)
    <2>0. /\ byte \in Slots /\ entry \in Entries /\ trace_bits # {} /\ trace_bits \in SUBSET Slots
          /\ t \in Entries \cup {NULL} /\ top_rated \in Table /\ top_rated_orig \in Table
          /\ trace_mini \in Minis
        BY <1>2, QueueFacts DEF ScoreSlot, ControlOK, TypeInv, TypeOK, RunTypes, ScoreTypes, Table,
           Minis
    <2>1. ref \in Refs /\ mini \in Minis /\ none \in Table /\ won \in Table
        BY <1>0, <2>0, DropType, DiscardType DEF Refs, Minis, Table
    <2>2. taken \in Refs /\ KeepTrace(mini, entry) \in Minis
        BY <2>0, <2>1, TakeType, KeepType DEF Refs, Minis
    <2>3. SafeCount(ref, mini, none, top_rated_orig) /\ NoGain(ref, tc_ref)
        BY <1>0, <2>0, DropSafe
    <2>4. entry \in Untagged => tc_ref[entry] + 1 < RefModulus
        BY <1>0, ConstantsAssumption DEF Refs, Untagged
    <2>5. ASSUME NEW m, m = KeepTrace(mini, entry) \/ (m = mini /\ entry \notin Untagged)
          PROVE  SafeCount(taken, m, won, top_rated_orig) /\ GainsOne(taken, tc_ref, entry)
        BY <1>0, <2>0, <2>4, <2>5, ReplaceSafe
    <2> HIDE DEF ref, mini, none, won, taken
    <2>6. CASE ScoreBelowMax
        <3>1. CASE entry \in has_new_incorrect
            <4>1. /\ UNCHANGED <<tc_ref, trace_mini, top_rated_orig>> /\ top_rated' = won
                BY <2>6, <3>1 DEF ScoreBelowMax, won
            <4>2. ASSUME NEW e \in Untagged PROVE Count(won, e) <= Count(top_rated, e)
                <5>1. e \in Entries /\ e # entry
                    BY <3>1 DEF Untagged
                <5>2. none[byte] = NULL /\ [none EXCEPT ![byte] = entry] = won
                    BY <2>0 DEF none, won, Table
                <5>3. Count(won, e) = Count(none, e) + 0
                    <6>1. /\ none \in Table /\ byte \in Slots /\ entry \in Entries /\ e \in Entries
                          /\ none[byte] = NULL
                        BY <2>0, <2>1, <5>1, <5>2
                    <6>2. Count([none EXCEPT ![byte] = entry], e)
                              = Count(none, e) + (IF e = entry THEN 1 ELSE 0)
                        BY <6>1, CountFilled
                    <6> QED BY <5>1, <5>2, <6>2
                <5>4. Count(none, e) = Count(top_rated, e) - (IF e = t THEN 1 ELSE 0)
                    BY <2>0, <5>1, CountCleared DEF none
                <5>5. Count(top_rated, e) \in 0 .. MapSize /\ Count(none, e) \in 0 .. MapSize
                    BY CountType
                <5> HIDE DEF t
                <5> QED BY <5>3, <5>4, <5>5, ConstantsAssumption
            <4>3. ASSUME NEW e \in Untagged
                  PROVE  /\ Count(won, e) \in Int /\ Count(top_rated, e) \in Int
                         /\ Count(top_rated_orig, e) \in Int /\ tc_ref[e] \in Int
                <5>1. /\ Count(won, e) \in 0 .. MapSize /\ Count(top_rated, e) \in 0 .. MapSize
                      /\ Count(top_rated_orig, e) \in 0 .. MapSize
                    BY CountType
                <5> QED BY <1>0, <5>1, ConstantsAssumption DEF Refs, Untagged
            <4>4. SafeCount(tc_ref, trace_mini, won, top_rated_orig)
                BY <1>0, <4>2, <4>3 DEF SafeCount
            <4> QED BY <1>a, <4>1, <4>4
        <3>2. CASE entry \notin has_new_incorrect
            <4>1. UNCHANGED <<tc_ref, trace_mini, top_rated, top_rated_orig>>
                BY <2>6, <3>2 DEF ScoreBelowMax
            <4> QED BY <1>0, <1>a, <4>1
        <3> QED BY <3>1, <3>2
    <2>7. ASSUME NEW r \in Refs, NEW m \in Minis, NEW a \in Table, ScoreOrig(r, m), top_rated' = a,
                 SafeCount(r, m, a, top_rated_orig), GainsOne(r, tc_ref, entry)
          PROVE  /\ SafeCount(tc_ref', trace_mini', top_rated', top_rated_orig')
                 /\ \A e \in Untagged : tc_ref'[e] <= tc_ref[e] + (IF e = entry THEN 2 ELSE 0)
        <3>1. entry \in Untagged => r[entry] + 1 < RefModulus
            BY <1>0, <2>7, ConstantsAssumption DEF GainsOne, Refs, Untagged
        <3>2. /\ SafeCount(tc_ref', trace_mini', a, top_rated_orig')
              /\ GainsOne(tc_ref', r, entry)
            BY <1>2, <2>0, <2>7, <3>1, OrigSafe
        <3>3. tc_ref' \in Refs
            BY ScoreSlotType DEF ScoreTypes, Refs
        <3>4. ASSUME NEW e \in Untagged
              PROVE  tc_ref'[e] <= tc_ref[e] + (IF e = entry THEN 2 ELSE 0)
            <4>1. tc_ref'[e] \in Int /\ tc_ref[e] \in Int /\ r[e] \in Int
                BY <1>0, <2>7, <3>3, ConstantsAssumption DEF Refs, Untagged
            <4>2. /\ tc_ref'[e] <= r[e] + (IF e = entry THEN 1 ELSE 0)
                  /\ r[e] <= tc_ref[e] + (IF e = entry THEN 1 ELSE 0)
                BY <2>7, <3>2 DEF GainsOne
            <4> QED BY <4>1, <4>2
        <3> QED BY <2>7, <3>2, <3>4
    <2>8. CASE ScoreTie
        <3>1. ScoreOrig(ref, mini) /\ top_rated' = none
            BY <2>8 DEF ScoreTie, ref, mini, none
        <3>2. GainsOne(ref, tc_ref, entry)
            BY <1>0, <2>1, <2>3, ConstantsAssumption DEF NoGain, GainsOne, Refs, Untagged
        <3> QED BY <2>1, <2>3, <2>7, <3>1, <3>2
    <2>9. CASE ScoreWin
        <3>1. PICK m \in Minis : /\ ScoreOrig(taken, m)
                                 /\ m = KeepTrace(mini, entry) \/ (m = mini /\ entry \notin Untagged)
            BY <2>1, <2>2, <2>9 DEF ScoreWin, Untagged, ref, mini, taken
        <3>2. top_rated' = won
            BY <2>9 DEF ScoreWin, won
        <3> QED BY <2>1, <2>2, <2>5, <2>7, <3>1, <3>2
    <2>10. CASE ScoreStock
        <3>1. CASE LosesTo(t)
            BY <1>0, <1>a, <2>10, <3>1 DEF ScoreStock
        <3>2. CASE ~LosesTo(t)
            <4>1. /\ top_rated' = won /\ tc_ref' = taken
                  /\ trace_mini' = KeepTrace(mini, entry) /\ UNCHANGED top_rated_orig
                BY <2>10, <3>2 DEF ScoreStock, ref, mini, won, taken
            <4>2. SafeCount(taken, KeepTrace(mini, entry), won, top_rated_orig)
                  /\ GainsOne(taken, tc_ref, entry)
                BY <2>5
            <4>3. \A e \in Untagged : taken[e] <= tc_ref[e] + (IF e = entry THEN 2 ELSE 0)
                BY <1>0, <2>2, <4>2, ConstantsAssumption DEF GainsOne, Refs, Untagged
            <4> QED BY <4>1, <4>2, <4>3
        <3> QED BY <3>1, <3>2
    <2>11. CASE ~TF_switch /\ ~Stock /\ ScorePlain
        <3>1. t = NULL
            BY <2>0, <2>11 DEF SafeInv
        <3>2. UNCHANGED <<tc_ref, trace_mini, top_rated, top_rated_orig>>
            BY <2>11, <3>1 DEF ScorePlain
        <3> QED BY <1>0, <1>a, <3>2
    <2> QED BY <1>2, <2>6, <2>8, <2>9, <2>10, <2>11 DEF ScoreSlot
<1> QED BY <1>1, <1>2

\* An entry is scored at most twice: when its calibration succeeds, which sets hit, and
\* when it is trimmed; each time it gains at most two references per byte.
Owed(e) == (IF hit[e] = {} THEN 0 ELSE 2 * MapSize) + (IF e \in trim_done THEN 2 * MapSize ELSE 0)
ToCome(e) == IF pc = "score" /\ e = entry THEN 2 * (MapSize - byte) ELSE 0

OnceInv ==
    /\ \A e \in Entries : hit[e] # {} => e \in Queue /\ cal_failed[e] = 0
    /\ pc = "dry" => \A e \in Entries : hit[e] # {} => e < entry
    /\ pc = "score" /\ ret = "dry" => \A e \in Entries : hit[e] # {} => e <= entry
    /\ \A e \in Untagged : tc_ref[e] + ToCome(e) <= Owed(e)

\* A step that starts no scoring leaves what an entry is owed, or adds to it.
LEMMA OnceFrame ==
    ASSUME TypeInv, OnceInv, UNCHANGED <<tc_ref, hit>>, Queue \subseteq Queue', pc' # "score",
           trim_done \subseteq trim_done', has_new_incorrect \subseteq has_new_incorrect',
           \A e \in Entries : cal_failed'[e] = cal_failed[e] \/ hit[e] = {},
           pc' = "dry" => \A e \in Entries : hit[e] # {} => e < entry'
    PROVE  OnceInv'
<1>1. ASSUME NEW e \in Untagged' PROVE tc_ref'[e] + ToCome(e)' <= Owed(e)'
    <2>1. e \in Untagged /\ ToCome(e)' = 0 /\ tc_ref[e] \in Int
        BY <1>1, ConstantsAssumption DEF Untagged, ToCome, TypeInv, TypeOK, ScoreTypes
    <2>2. tc_ref[e] + ToCome(e) <= Owed(e)
        BY <2>1 DEF OnceInv
    <2>3. ToCome(e) \in Int /\ ToCome(e) >= 0
        BY ConstantsAssumption DEF ToCome, TypeInv, TypeOK, ControlTypes
    <2>4. Owed(e) \in Int /\ Owed(e)' \in Int /\ Owed(e) <= Owed(e)'
        BY ConstantsAssumption DEF Owed
    <2> QED BY <2>1, <2>2, <2>3, <2>4
<1>2. /\ \A e \in Entries : hit'[e] # {} => e \in Queue' /\ cal_failed'[e] = 0
      /\ pc' = "dry" => \A e \in Entries : hit'[e] # {} => e < entry'
    BY DEF OnceInv
<1> QED BY <1>1, <1>2 DEF OnceInv

\* The scoring of an entry begins: it is owed two references per byte more than before.
LEMMA OnceScored ==
    ASSUME TypeInv, OnceInv, UNCHANGED tc_ref, Queue \subseteq Queue', NEW e \in Entries,
           pc' = "score", pc # "score", entry' = e, byte' = 0, e \in Queue', cal_failed'[e] = 0,
           has_new_incorrect \subseteq has_new_incorrect',
           \A p \in Entries \ {e} : /\ hit'[p] = hit[p] /\ cal_failed'[p] = cal_failed[p]
                                    /\ p \in trim_done' <=> p \in trim_done,
           \/ hit[e] = {} /\ hit'[e] # {} /\ (e \in trim_done' <=> e \in trim_done)
           \/ hit'[e] = hit[e] /\ e \notin trim_done /\ e \in trim_done',
           ret' = "dry" => \A p \in Entries : hit[p] # {} => p <= e
    PROVE  OnceInv'
<1>1. ASSUME NEW p \in Untagged' PROVE tc_ref'[p] + ToCome(p)' <= Owed(p)'
    <2>1. /\ p \in Untagged /\ p \in Entries /\ tc_ref[p] \in Int /\ tc_ref'[p] = tc_ref[p]
          /\ ToCome(p)' = IF p = e THEN 2 * MapSize ELSE 0
        BY <1>1, ConstantsAssumption DEF Untagged, ToCome, TypeInv, TypeOK, ScoreTypes
    <2>2. tc_ref[p] <= Owed(p)
        <3>1. ToCome(p) = 0
            BY DEF ToCome
        <3> QED BY <2>1, <3>1 DEF OnceInv
    <2>3. Owed(p) \in Int /\ Owed(p)' = Owed(p) + ToCome(p)'
        BY <2>1, ConstantsAssumption DEF Owed
    <2>4. ToCome(p)' \in Int
        BY <2>1, ConstantsAssumption
    <2> QED BY <2>1, <2>2, <2>3, <2>4
<1>2. \A p \in Entries : hit'[p] # {} => p \in Queue' /\ cal_failed'[p] = 0
    BY DEF OnceInv
<1>3. ret' = "dry" => \A p \in Entries : hit'[p] # {} => p <= e
    <2>1. e <= e
        BY ConstantsAssumption DEF Entries
    <2> QED BY <2>1
<1> QED BY <1>1, <1>2, <1>3 DEF OnceInv

\* A calibration that succeeds is of an entry that was not scored before.
LEMMA OnceCalibrated ==
    ASSUME TypeInv, OnceInv, NEW e \in Entries, NEW back, Calibrated(e, back), hit[e] = {},
           e \in Queue', Queue \subseteq Queue', UNCHANGED <<tc_ref, trim_done>>, pc # "score",
           has_new_incorrect \subseteq has_new_incorrect',
           back = "dry" => \A p \in Entries : hit[p] # {} => p <= e
    PROVE  OnceInv'
<1>1. PICK T \in (SUBSET Slots) \ {{}} : hit' = [hit EXCEPT ![e] = T]
    BY DEF Calibrated
<1>2. /\ cal_failed' = [cal_failed EXCEPT ![e] = 0] /\ entry' = e /\ pc' = "score" /\ ret' = back
      /\ byte' = 0
    BY DEF Calibrated, CalibrationReset, Call
<1>3. hit \in [Entries -> SUBSET Slots] /\ cal_failed \in [Entries -> 0 .. CalChances]
    BY DEF TypeInv, TypeOK, EntryTypes
<1>4. /\ hit'[e] # {} /\ cal_failed'[e] = 0
      /\ \A p \in Entries \ {e} : hit'[p] = hit[p] /\ cal_failed'[p] = cal_failed[p]
    BY <1>1, <1>2, <1>3
<1> QED BY <1>2, <1>4, OnceScored

\* While an untagged entry is scored, its count is two below the modulus.
LEMMA ScoreRoom ==
    ASSUME 4 * MapSize < RefModulus, TypeInv, OnceInv, pc = "score", byte < MapSize,
           entry \in Untagged
    PROVE  tc_ref[entry] + 2 < RefModulus
<1>1. tc_ref[entry] + 2 * (MapSize - byte) <= Owed(entry)
    BY DEF OnceInv, ToCome
<1>2. Owed(entry) <= 4 * MapSize /\ Owed(entry) \in Int
    BY ConstantsAssumption DEF Owed
<1>3. byte \in Int /\ MapSize \in Int /\ RefModulus \in Int /\ tc_ref[entry] \in Int
    BY ConstantsAssumption DEF TypeInv, TypeOK, ScoreTypes, ControlTypes, Untagged
<1> QED BY <1>1, <1>2, <1>3

\* Every step preserves OnceInv.
LEMMA OnceStep ==
    ASSUME 4 * MapSize < RefModulus, TypeInv, CalInv, SafeInv, OnceInv, [Next]_vars
    PROVE  OnceInv'
<1>q. /\ Queue = 1 .. queued_paths /\ queued_paths \in Nat /\ Queue \subseteq Entries
      /\ cal_failed \in [Entries -> 0 .. CalChances] /\ entry \in Nat
      /\ has_new_incorrect \subseteq has_new_incorrect'
    BY QueueFacts, TagStep DEF TypeInv, TypeOK, EntryTypes, ControlTypes
<1>1. CASE ScoreSlot
    <2>1. /\ UNCHANGED <<cal_failed, hit, pc, ret, entry, trim_done, has_new_incorrect>>
          /\ pc = "score" /\ byte' = byte + 1 /\ byte < MapSize /\ Queue' = Queue
        BY <1>1, <1>q DEF ScoreSlot, entryVars, fuzzVars, Queue
    <2>2. entry \in Untagged => tc_ref[entry] + 2 < RefModulus
        BY <2>1, ScoreRoom
    <2>3. \A e \in Untagged : tc_ref'[e] <= tc_ref[e] + (IF e = entry THEN 2 ELSE 0)
        BY <1>1, <2>2, ScoreSafe
    <2>4. ASSUME NEW e \in Untagged PROVE tc_ref'[e] + ToCome(e)' <= Owed(e)'
        <3>1. tc_ref[e] + ToCome(e) <= Owed(e) /\ Owed(e)' = Owed(e) /\ Owed(e) \in Int
            BY <2>1, ConstantsAssumption DEF OnceInv, Owed
        <3>2. /\ ToCome(e) = IF e = entry THEN 2 * (MapSize - byte) ELSE 0
              /\ ToCome(e)' = IF e = entry THEN 2 * (MapSize - (byte + 1)) ELSE 0
              /\ byte \in Int /\ MapSize \in Int
            BY <2>1, ConstantsAssumption DEF ToCome, TypeInv, TypeOK, ControlTypes
        <3>3. tc_ref[e] \in Int /\ tc_ref'[e] \in Int
            BY <1>1, ScoreSlotType, ConstantsAssumption
               DEF Untagged, TypeInv, TypeOK, ScoreTypes
        <3>4. tc_ref'[e] <= tc_ref[e] + (IF e = entry THEN 2 ELSE 0)
            BY <2>3
        <3> QED BY <3>1, <3>2, <3>3, <3>4
    <2> QED BY <2>1, <2>4 DEF OnceInv, Untagged
<1>2. CASE ScoreDone
    <2>1. /\ UNCHANGED <<tc_ref, hit, cal_failed, trim_done>> /\ Queue' = Queue
          /\ pc = "score" /\ pc' = ret /\ pc' # "score"
          /\ entry' = IF ret = "dry" THEN entry + 1 ELSE 1
        BY <1>2 DEF ScoreDone, scoreVars, entryVars, fuzzVars, Queue, TypeInv, TypeOK, ControlTypes
    <2>2. pc' = "dry" => \A e \in Entries : hit[e] # {} => e < entry'
        BY <1>q, <2>1 DEF OnceInv, Entries
    <2> QED BY <1>q, <2>1, <2>2, OnceFrame
<1>3. CASE CullStep
    <2>1. UNCHANGED <<tc_ref, hit, cal_failed, trim_done>> /\ Queue' = Queue
        BY <1>3 DEF CullStep, CullRescan, CullAltern, CullTF, GreedyTake, GreedyPass, CullMark,
           scoreVars, entryVars, fuzzVars, Queue
    <2>2. pc' \notin {"score", "dry"}
        BY <1>3 DEF CullStep, CullRescan, CullAltern, CullTF, GreedyTake, GreedyPass, CullMark,
           Call, CalInv
    <2> QED BY <1>q, <2>1, <2>2, OnceFrame
<1>4. CASE DryRun
    <2>1. /\ UNCHANGED <<tc_ref, trim_done>> /\ Queue' = Queue /\ pc = "dry" /\ entry \in Queue
          /\ hit[entry] = {}
        <3>1. /\ UNCHANGED <<tc_ref, trim_done>> /\ Queue' = Queue /\ pc = "dry"
              /\ entry \in Queue
            BY <1>4, <1>q, ConstantsAssumption DEF DryRun, scoreVars, fuzzVars, TypeInv, TypeOK,
               EntryTypes, ControlTypes, Queue
        <3> QED BY <1>q, <3>1 DEF OnceInv
    <2>2. CASE Calibrated(entry, "dry")
        <3>1. \A p \in Entries : hit[p] # {} => p <= entry
            BY <1>q, <2>1 DEF OnceInv, Entries
        <3> QED BY <1>q, <2>1, <2>2, <3>1, OnceCalibrated
    <2>3. CASE ~Calibrated(entry, "dry")
        <3>1. /\ cal_failed' = [cal_failed EXCEPT ![entry] = CalChances]
              /\ entry' = entry + 1 /\ UNCHANGED <<hit, pc>>
            BY <1>4, <2>3 DEF DryRun
        <3>2. \A e \in Entries : cal_failed'[e] = cal_failed[e] \/ hit[e] = {}
            BY <1>q, <2>1, <3>1
        <3>3. \A e \in Entries : hit[e] # {} => e < entry'
            BY <1>q, <2>1, <3>1 DEF OnceInv, Entries
        <3> QED BY <1>q, <2>1, <3>1, <3>2, <3>3, OnceFrame
    <2> QED BY <2>2, <2>3
<1>5. CASE DryRunDone \/ LoopTop \/ Pick \/ FuzzSkip \/ Advance \/ FuzzStart \/ FuzzDone \/ Stop
    <2>1. /\ UNCHANGED <<tc_ref, hit, cal_failed, trim_done>> /\ Queue' = Queue
          /\ pc' \notin {"score", "dry"}
        BY <1>5 DEF DryRunDone, LoopTop, Pick, FuzzSkip, Advance, FuzzStart, FuzzDone, Stop, Call,
           scoreVars, entryVars, fuzzVars, Queue
    <2> QED BY <1>q, <2>1, OnceFrame
<1>6. CASE FuzzRecalibrate
    <2>1. /\ UNCHANGED <<tc_ref, trim_done>> /\ Queue' = Queue /\ cal_failed[queue_cur] > 0
          /\ queue_cur \in Queue /\ pc = "fuzz"
        BY <1>6 DEF FuzzRecalibrate, scoreVars, TypeInv, ControlOK, InFuzz, Queue
    <2>2. hit[queue_cur] = {}
        BY <1>q, <2>1 DEF OnceInv
    <2>3. CASE Calibrated(queue_cur, "trim")
        BY <1>q, <2>1, <2>2, <2>3, OnceCalibrated
    <2>4. CASE ~Calibrated(queue_cur, "trim")
        <3>1. /\ pc' = "loop" /\ UNCHANGED hit
              /\ \/ UNCHANGED cal_failed
                 \/ cal_failed' = [cal_failed EXCEPT ![queue_cur] = cal_failed[queue_cur] + 1]
            BY <1>6, <2>4 DEF FuzzRecalibrate
        <3>2. \A e \in Entries : cal_failed'[e] = cal_failed[e] \/ hit[e] = {}
            BY <1>q, <2>2, <3>1
        <3> QED BY <1>q, <2>1, <3>1, <3>2, OnceFrame
    <2> QED BY <2>3, <2>4
<1>7. CASE Trim
    <2>1. /\ UNCHANGED <<tc_ref, hit, cal_failed>> /\ Queue' = Queue /\ pc = "trim"
          /\ queue_cur \in Queue /\ cal_failed[queue_cur] = 0
          /\ trim_done' = trim_done \cup {queue_cur}
        BY <1>7 DEF Trim, scoreVars, Queue, CalInv, TypeInv, ControlOK, InFuzz
    <2>2. CASE pc' = "havoc"
        BY <1>q, <2>1, <2>2, OnceFrame
    <2>3. CASE pc' # "havoc"
        <3>1. /\ pc' = "score" /\ ret' = "havoc" /\ entry' = queue_cur /\ byte' = 0
              /\ queue_cur \notin trim_done
            BY <1>7, <2>3 DEF Trim, Call
        <3> QED BY <1>q, <2>1, <3>1, OnceScored
    <2> QED BY <2>2, <2>3
<1>8. CASE Save
    <2>1. /\ UNCHANGED <<tc_ref, trim_done>> /\ queued_paths' = queued_paths + 1
          /\ pc \in {"havoc", "sync"} /\ queued_paths' \in Entries
        BY <1>8, <1>q, ConstantsAssumption DEF Save, scoreVars, Entries
    <2>2. Queue \subseteq Queue' /\ queued_paths' \in Queue' /\ queued_paths' \notin Queue
        BY <1>q, <2>1 DEF Queue
    <2>3. hit[queued_paths'] = {}
        BY <2>1, <2>2 DEF OnceInv
    <2>4. CASE Calibrated(queued_paths', pc)
        BY <1>q, <2>1, <2>2, <2>3, <2>4, OnceCalibrated
    <2>5. CASE ~Calibrated(queued_paths', pc)
        <3>1. cal_failed' = [cal_failed EXCEPT ![queued_paths'] = 1] /\ UNCHANGED <<hit, pc>>
            BY <1>8, <2>5 DEF Save
        <3>2. \A e \in Entries : cal_failed'[e] = cal_failed[e] \/ hit[e] = {}
            BY <1>q, <2>3, <3>1
        <3> QED BY <1>q, <2>1, <2>2, <3>1, <3>2, OnceFrame
    <2> QED BY <2>4, <2>5
<1>9. CASE UNCHANGED vars
    <2>1. /\ UNCHANGED <<tc_ref, hit, cal_failed, trim_done, pc, ret, entry, byte, queued_paths>>
          /\ UNCHANGED has_new_incorrect
        BY <1>9 DEF vars, scoreVars, entryVars, fuzzVars
    <2> QED BY <2>1 DEF OnceInv, Untagged, Owed, ToCome, Queue
<1> QED BY <1>1, <1>2, <1>3, <1>4, <1>5, <1>6, <1>7, <1>8, <1>9
        DEF Next, ScoreStep, FuzzStep, MainStep, Ended

\* Every step preserves SafeInv.
LEMMA SafeStep ==
    ASSUME 4 * MapSize < RefModulus, TypeInv, SafeInv, OnceInv, [Next]_vars
    PROVE  SafeInv'
<1>1. UNCHANGED TF_switch /\ Untagged' \subseteq Untagged
    BY SwitchFixed, TagStep DEF Untagged
<1>2. CASE ScoreSlot
    <2>1. SafeCount(tc_ref', trace_mini', top_rated', top_rated_orig')
        <3>1. entry \in Untagged => tc_ref[entry] + 2 < RefModulus
            BY <1>2, ScoreRoom DEF ScoreSlot
        <3> QED BY <1>2, <3>1, ScoreSafe
    <2>2. ~TF_switch /\ ~Stock => \A s \in Slots : top_rated'[s] = NULL
        BY <1>2 DEF SafeInv, ScoreSlot, ScorePlain, scoreVars
    <2> QED BY <1>1, <2>1, <2>2 DEF SafeInv, SafeCount, Count
<1>3. CASE UNCHANGED tables
    BY <1>1, <1>3 DEF SafeInv, SafeCount, Count, tables
<1> QED BY <1>2, <1>3, OnlyScoreWrites

\* With the hybrid metric, the reference counts are exact until the first find is
\* tagged; afterwards an untagged entry never counts fewer slots than name it, nor
\* loses its trace while one does: tc_ref, a u32, can count every slot of both tables
\* twice.
THEOREM UntaggedRefCountAlways ==
    ASSUME 4 * MapSize < RefModulus
    PROVE  Spec => []UntaggedRefCount
<1>1. ASSUME Init PROVE SafeInv /\ OnceInv
    <2>1. /\ \A s \in Slots : top_rated[s] = NULL /\ top_rated_orig[s] = NULL
          /\ \A e \in Entries : tc_ref[e] = 0 /\ trace_mini[e] = {} /\ hit[e] = {}
          /\ pc = "dry" /\ trim_done = {}
        BY <1>1 DEF Init
    <2>2. ASSUME NEW e \in Entries PROVE Count(top_rated, e) = 0 /\ Count(top_rated_orig, e) = 0
        <3>1. e # NULL
            BY ConstantsAssumption DEF Entries, NULL
        <3>2. {s \in Slots : top_rated[s] = e} = {} /\ {s \in Slots : top_rated_orig[s] = e} = {}
            BY <2>1, <3>1
        <3> QED BY <3>2, FS_EmptySet DEF Count
    <2>3. SafeInv
        BY <2>1, <2>2 DEF SafeInv, SafeCount, Untagged
    <2>4. OnceInv
        BY <2>1 DEF OnceInv, Untagged, Owed, ToCome
    <2> QED BY <2>3, <2>4
<1>2. Init => TypeInv /\ CalInv
    BY InitType DEF Init, CalInv, WinnersCalibrated, NULL
<1>3. /\ TypeInv /\ CalInv /\ SafeInv /\ OnceInv /\ [Next]_vars
      => (TypeInv /\ CalInv /\ SafeInv /\ OnceInv)'
    BY TypeStep, CalStep, SafeStep, OnceStep
<1>4. ASSUME TypeInv, RefInv, SafeInv PROVE UntaggedRefCount
    <2>1. has_new_incorrect = {} => RefCountExact
        BY <1>4 DEF RefInv, Exact, Count, RefCountExact, SlotsOf
    <2>2. ASSUME NEW e \in Entries \ has_new_incorrect
          PROVE  tc_ref[e] >= SlotsOf(e) /\ (SlotsOf(e) > 0 => trace_mini[e] # {})
        <3>1. /\ tc_ref[e] >= Count(top_rated, e) + Count(top_rated_orig, e)
              /\ tc_ref[e] > 0 => trace_mini[e] # {}
            BY <1>4 DEF SafeInv, SafeCount, Untagged
        <3>2. /\ Count(top_rated, e) \in 0 .. MapSize /\ Count(top_rated_orig, e) \in 0 .. MapSize
              /\ tc_ref[e] \in 0 .. RefModulus - 1
            BY <1>4, CountType DEF TypeInv, TypeOK, ScoreTypes
        <3>3. SlotsOf(e) = Count(top_rated, e) + Count(top_rated_orig, e)
            BY DEF SlotsOf, Count
        <3> QED BY <3>1, <3>2, <3>3, ConstantsAssumption
    <2> QED BY <2>1, <2>2 DEF UntaggedRefCount
<1>5. 2 * MapSize < RefModulus
    BY ConstantsAssumption
<1> QED BY <1>1, <1>2, <1>3, <1>4, <1>5, RefAlways, PTL DEF Spec

-----------------------------------------------------------------------------
(* The best entry of every byte.                                            *)

\* An entry is about to be scored, its factor new, or smaller than before.
LEMMA SmallestScored ==
    ASSUME TypeInv, TypeInv', HitInv, WinnerSmallest, ~TF_switch, UNCHANGED TF_switch,
           UNCHANGED tables, pc # "score", pc' = "score", byte' = 0, NEW e \in Entries, entry' = e,
           \A p \in Entries : p # e => hit'[p] = hit[p] /\ fav'[p] = fav[p],
           hit[e] = {} \/ fav'[e] <= fav[e]
    PROVE  WinnerSmallest'
<1>1. /\ fav \in [Entries -> Nat] /\ fav' \in [Entries -> Nat]
      /\ hit \in [Entries -> SUBSET Slots] /\ hit' \in [Entries -> SUBSET Slots]
      /\ \A s \in Slots : ~(s < 0)
    BY ConstantsAssumption DEF TypeInv, TypeOK, EntryTypes, Slots
<1>2. ASSUME NEW p \in Entries, NEW s \in hit'[p], p = e => s < 0
      PROVE  top_rated[s] # NULL /\ fav'[top_rated[s]] <= fav'[p]
    <2>1. p # e /\ s \in hit[p] /\ s \in Slots /\ fav'[p] = fav[p]
        BY <1>1, <1>2
    <2>2. top_rated[s] # NULL /\ fav[top_rated[s]] <= fav[p]
        BY <2>1 DEF WinnerSmallest, GreedyTable
    <2>3. top_rated[s] \in Entries /\ s \in hit[top_rated[s]]
        BY <2>1, <2>2, QueueFacts DEF HitInv
    <2>4. CASE top_rated[s] # e
        BY <2>1, <2>2, <2>3, <2>4
    <2>5. CASE top_rated[s] = e
        <3>1. fav'[e] <= fav[e]
            BY <2>3, <2>5
        <3>2. fav'[e] \in Nat /\ fav[e] \in Nat /\ fav[p] \in Nat
            BY <1>1
        <3> QED BY <2>1, <2>2, <2>5, <3>1, <3>2
    <2> QED BY <2>4, <2>5
<1> QED BY <1>2 DEF WinnerSmallest, GreedyTable, tables

\* One byte of update_bitmap_score gives it to the scored entry unless the incumbent
\* is better.
LEMMA SmallestSlot ==
    ASSUME Stock, TypeInv, HitInv, WinnerSmallest, ~TF_switch, UNCHANGED TF_switch, ScoreSlot
    PROVE  WinnerSmallest'
<1>1. /\ UNCHANGED <<fav, hit, pc, entry>> /\ pc = "score" /\ byte' = byte + 1 /\ byte < MapSize
    BY DEF ScoreSlot, entryVars
<1>2. /\ fav \in [Entries -> Nat] /\ hit \in [Entries -> SUBSET Slots] /\ byte \in Slots
      /\ \A s \in Slots : s \in Nat
      /\ top_rated \in [Slots -> Queue \cup {NULL}]
      /\ entry \in Entries /\ entry # NULL /\ hit[entry] = trace_bits
    <2>1. fav \in [Entries -> Nat] /\ hit \in [Entries -> SUBSET Slots]
        BY DEF TypeInv, TypeOK, EntryTypes
    <2>2. byte \in Slots /\ \A s \in Slots : s \in Nat
        BY <1>1, ConstantsAssumption DEF TypeInv, TypeOK, ControlTypes, Slots
    <2>3. top_rated \in [Slots -> Queue \cup {NULL}]
        BY DEF TypeInv, TypeOK, ScoreTypes
    <2>4. entry \in Entries /\ entry # NULL
        BY <1>1, QueueFacts DEF TypeInv, ControlOK
    <2>5. hit[entry] = trace_bits
        BY <1>1 DEF HitInv
    <2> QED BY <2>1, <2>2, <2>3, <2>4, <2>5
<1>3. \/ UNCHANGED top_rated /\ (byte \in trace_bits => LosesTo(top_rated[byte]))
      \/ top_rated' = [top_rated EXCEPT ![byte] = entry] /\ ~LosesTo(top_rated[byte])
    BY DEF ScoreSlot, ScoreStock, scoreVars
<1>4. ASSUME NEW e \in Entries, NEW s \in hit[e], e = entry => s < byte + 1
      PROVE  top_rated'[s] # NULL /\ fav[top_rated'[s]] <= fav[e]
    <2>1. s \in Slots /\ s \in Nat
        BY <1>2
    <2>2. ASSUME e = entry => s < byte
          PROVE  /\ top_rated[s] # NULL /\ fav[top_rated[s]] <= fav[e]
                 /\ top_rated[s] \in Entries /\ fav[top_rated[s]] \in Nat
        <3>1. top_rated[s] # NULL /\ fav[top_rated[s]] <= fav[e]
            BY <2>2 DEF WinnerSmallest, GreedyTable
        <3> QED BY <1>2, <2>1, <3>1, QueueFacts
    <2>3. CASE s # byte
        <3>1. e = entry => s < byte
            BY <1>2, <1>4, <2>1, <2>3
        <3>2. top_rated'[s] = top_rated[s]
            BY <1>2, <1>3, <2>1, <2>3
        <3> QED BY <2>2, <3>1, <3>2
    <2>4. CASE s = byte /\ e = entry
        <3>1. byte \in trace_bits
            BY <1>2, <2>4
        <3>2. fav[entry] \in Nat
            BY <1>2
        <3>3. CASE UNCHANGED top_rated /\ LosesTo(top_rated[byte])
            <4>1. top_rated[byte] \in Entries
                BY <1>2, <3>3, QueueFacts DEF LosesTo
            <4> QED BY <1>2, <2>4, <3>3, <4>1 DEF LosesTo
        <3>4. CASE top_rated' = [top_rated EXCEPT ![byte] = entry]
            BY <1>2, <2>4, <3>2, <3>4
        <3> QED BY <1>3, <3>1, <3>3, <3>4
    <2>5. CASE s = byte /\ e # entry
        <3>1. /\ top_rated[s] # NULL /\ fav[top_rated[s]] <= fav[e]
              /\ top_rated[s] \in Entries /\ fav[top_rated[s]] \in Nat
            BY <2>2, <2>5
        <3>2. CASE UNCHANGED top_rated
            BY <3>1, <3>2
        <3>3. CASE top_rated' = [top_rated EXCEPT ![byte] = entry] /\ ~LosesTo(top_rated[byte])
            <4>1. fav[entry] <= fav[top_rated[s]] /\ fav[entry] \in Nat /\ fav[e] \in Nat
                BY <1>2, <2>5, <3>1, <3>3 DEF LosesTo
            <4>2. top_rated'[s] = entry
                BY <1>2, <2>5, <3>3
            <4>3. fav[entry] <= fav[e]
                BY <3>1, <4>1
            <4> QED BY <1>2, <4>2, <4>3
        <3> QED BY <1>3, <3>2, <3>3
    <2> QED BY <2>3, <2>4, <2>5
<1> QED BY <1>1, <1>4 DEF WinnerSmallest, GreedyTable

\* In afl/afl-fuzz.c, outside the scoring of an entry, the winner of every byte has the
\* smallest exec_us * len among the scored entries that hit it, also after trimming.
THEOREM SmallestAlways ==
    ASSUME Stock, VariableTraces = FALSE
    PROVE  Spec => []WinnerSmallest
<1>1. ASSUME Init PROVE WinnerSmallest
    BY <1>1 DEF Init, WinnerSmallest
<1>2. ASSUME TypeInv, TypeInv', HitInv, WinnerSmallest, [Next]_vars PROVE WinnerSmallest'
    <2>1. ~TF_switch /\ UNCHANGED TF_switch
        <3>1. TF_switch \in {FALSE}
            BY <1>2, ConstantsAssumption DEF TypeInv, TypeOK, FlagTypes
        <3> QED BY <1>2, <3>1, SwitchFixed, Zenon
    <2>2. CASE ScoreSlot
        BY <1>2, <2>1, <2>2, SmallestSlot
    <2>3. CASE ScoreDone
        <3>1. UNCHANGED <<top_rated, hit, fav>> /\ pc = "score" /\ byte = MapSize
            BY <2>3 DEF ScoreDone, scoreVars, entryVars
        <3>2. \A e \in Entries : \A s \in hit[e] : s < MapSize
            BY <1>2, ConstantsAssumption DEF TypeInv, TypeOK, EntryTypes, Slots
        <3>3. \A e \in Entries : \A s \in hit[e] :
                 top_rated[s] # NULL /\ fav[top_rated[s]] <= fav[e]
            BY <1>2, <2>1, <3>1, <3>2 DEF WinnerSmallest, GreedyTable
        <3> QED BY <2>1, <3>1, <3>3 DEF WinnerSmallest, GreedyTable
    <2>4. ASSUME ~ScoreSlot, pc # "score", pc' # "score", UNCHANGED <<hit, fav>>
          PROVE  WinnerSmallest'
        <3>1. UNCHANGED top_rated
            BY <1>2, <2>4, OnlyScoreWrites DEF tables
        <3> QED BY <1>2, <2>1, <2>4, <3>1 DEF WinnerSmallest, GreedyTable
    <2>5. ASSUME NEW e \in Entries, NEW back, Calibrated(e, back), hit[e] = {}, pc # "score"
          PROVE  WinnerSmallest'
        <3>1. /\ pc' = "score" /\ byte' = 0 /\ entry' = e
              /\ \E f : fav' = [fav EXCEPT ![e] = f] /\ \E T : hit' = [hit EXCEPT ![e] = T]
            BY <2>5 DEF Calibrated, Call
        <3>2. fav \in [Entries -> Nat] /\ hit \in [Entries -> SUBSET Slots]
            BY <1>2 DEF TypeInv, TypeOK, EntryTypes
        <3>3. \A p \in Entries : p # e => hit'[p] = hit[p] /\ fav'[p] = fav[p]
            BY <3>1, <3>2
        <3>4. UNCHANGED tables
            BY <1>2, <2>5, OnlyScoreWrites DEF ScoreSlot
        <3> QED BY <1>2, <2>1, <2>5, <3>1, <3>3, <3>4, SmallestScored
    <2>6. CASE DryRun
        <3>1. /\ pc = "dry" /\ entry \in Entries /\ hit[entry] = {} /\ pc # "score"
            <4>1. pc = "dry" /\ entry \in Entries
                BY <1>2, <2>6, ConstantsAssumption DEF DryRun, TypeInv, TypeOK, EntryTypes, ControlTypes,
                   Entries
            <4>2. ~(entry < entry)
                BY <1>2 DEF TypeInv, TypeOK, ControlTypes
            <4> QED BY <1>2, <4>1, <4>2 DEF HitInv
        <3>2. CASE Calibrated(entry, "dry")
            BY <2>5, <3>1, <3>2
        <3>3. CASE ~Calibrated(entry, "dry")
            BY <2>4, <2>6, <3>1, <3>3 DEF DryRun, ScoreSlot
        <3> QED BY <3>2, <3>3
    <2>7. CASE FuzzRecalibrate
        <3>1. /\ pc = "fuzz" /\ queue_cur \in Entries /\ hit[queue_cur] = {}
            <4>1. pc = "fuzz" /\ queue_cur \in Queue /\ cal_failed[queue_cur] > 0
                BY <1>2, <2>7 DEF FuzzRecalibrate, TypeInv, ControlOK, InFuzz
            <4> QED BY <1>2, <4>1, QueueFacts DEF HitInv
        <3>2. CASE Calibrated(queue_cur, "trim")
            BY <2>5, <3>1, <3>2
        <3>3. CASE ~Calibrated(queue_cur, "trim")
            BY <2>4, <2>7, <3>1, <3>3 DEF FuzzRecalibrate, ScoreSlot
        <3> QED BY <3>2, <3>3
    <2>8. CASE Save
        <3>1. /\ pc \in {"havoc", "sync"} /\ queued_paths' \in Entries /\ hit[queued_paths'] = {}
            <4>1. /\ pc \in {"havoc", "sync"} /\ queued_paths' = queued_paths + 1
                  /\ queued_paths < MaxEntries
                BY <2>8 DEF Save
            <4>2. queued_paths' \in Entries /\ queued_paths' \notin Queue
                BY <1>2, <4>1, QueueFacts, ConstantsAssumption DEF Entries
            <4> QED BY <1>2, <4>1, <4>2 DEF HitInv
        <3>2. CASE Calibrated(queued_paths', pc)
            BY <2>5, <3>1, <3>2
        <3>3. CASE ~Calibrated(queued_paths', pc)
            BY <2>4, <2>8, <3>1, <3>3 DEF Save, ScoreSlot
        <3> QED BY <3>2, <3>3
    <2>9. CASE Trim
        <3>1. pc = "trim" /\ queue_cur \in Entries /\ UNCHANGED hit
            BY <1>2, <2>9, QueueFacts DEF Trim, TypeInv, ControlOK, InFuzz
        <3>2. CASE pc' = "havoc" /\ UNCHANGED fav
            BY <2>4, <3>1, <3>2 DEF ScoreSlot
        <3>3. CASE ~(pc' = "havoc" /\ UNCHANGED fav)
            <4>1. PICK f \in FavFactors :
                     /\ f <= fav[queue_cur] /\ fav' = [fav EXCEPT ![queue_cur] = f]
                     /\ pc' = "score" /\ byte' = 0 /\ entry' = queue_cur
                BY <2>9, <3>3 DEF Trim, Call
            <4>2. fav \in [Entries -> Nat]
                BY <1>2 DEF TypeInv, TypeOK, EntryTypes
            <4>3. /\ \A p \in Entries : p # queue_cur => fav'[p] = fav[p]
                  /\ fav'[queue_cur] <= fav[queue_cur]
                BY <3>1, <4>1, <4>2
            <4>4. UNCHANGED tables
                BY <1>2, <3>1, OnlyScoreWrites DEF ScoreSlot
            <4> QED BY <1>2, <2>1, <3>1, <4>1, <4>3, <4>4, SmallestScored
        <3> QED BY <3>2, <3>3
    <2>10. CASE CullStep \/ FuzzStart \/ FuzzDone
        <3>1. /\ pc # "score" /\ pc' # "score" /\ UNCHANGED <<hit, fav>>
            BY <1>2, <2>10 DEF CullStep, CullRescan, CullAltern, CullTF, GreedyTake, GreedyPass,
               CullMark, FuzzStart, FuzzDone, Call, entryVars, TypeInv, TypeOK, ControlTypes
        <3> QED BY <2>4, <3>1 DEF ScoreSlot
    <2>11. CASE DryRunDone \/ LoopTop \/ Pick \/ FuzzSkip \/ Advance \/ Stop
        <3>1. /\ pc # "score" /\ pc' # "score" /\ UNCHANGED <<hit, fav>>
            BY <2>11 DEF DryRunDone, LoopTop, Pick, FuzzSkip, Advance, Stop, Call, entryVars
        <3> QED BY <2>4, <3>1 DEF ScoreSlot
    <2>12. CASE UNCHANGED vars
        BY <1>2, <2>12 DEF vars, scoreVars, entryVars, tfVars, WinnerSmallest, GreedyTable
    <2> QED BY <1>2, <2>2, <2>3, <2>6, <2>7, <2>8, <2>9, <2>10, <2>11, <2>12
            DEF Next, ScoreStep, FuzzStep, MainStep, Ended
<1>3. Init => TypeInv /\ WinnerSmallest
    BY <1>1, InitType
<1>4. TypeInv /\ HitInv /\ WinnerSmallest /\ [Next]_vars => WinnerSmallest'
    BY <1>2, TypeStep
<1> QED BY <1>3, <1>4, HitAlways, PTL DEF Spec
=============================================================================
