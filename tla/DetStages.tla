----------------------------- MODULE DetStages -----------------------------
(***************************************************************************)
(* The deterministic part of fuzz_one: bit flips, during which dictionary  *)
(* tokens are picked up; byte flips, which build the effector map; the     *)
(* filtered word stages; the dictionary stages, which overwrite parts of   *)
(* out_buf and restore it.  The dictionary of automatic tokens lives on    *)
(* from one entry to the next.                                             *)
(***************************************************************************)
EXTENDS WordStages

CONSTANTS
    Inputs,            \* contents of the queue entries
    Cksums, Same,      \* checksums of traces; Same is that of the entry
    NoArith,           \* values of no_arith considered
    Extras,            \* the user's tokens, sorted by size
    AutoFiles,         \* contents of the tokens an earlier run has saved
    MinAuto, MaxAuto, UseAuto, MaxAutoExtras,    \* MIN_AUTO_EXTRA ...
    EffBlock, EffMinLen, EffMaxPerc,             \* 1 << EFF_MAP_SCALE2 ...
    MaxFile,           \* MAX_FILE: no longer file is executed
    MaxFuzz            \* bound on entries fuzzed

ASSUME DetAssumption ==
    /\ Inputs \subseteq Seq(Byte) \ {<<>>} /\ Same \in Cksums /\ NoArith \subseteq BOOLEAN
    /\ Extras \in Seq(Seq(Byte)) /\ AutoFiles \in Seq(Seq(Byte))
    /\ MinAuto \in Nat \ {0, 1} /\ {MaxAuto, UseAuto, MaxAutoExtras, MaxFuzz} \subseteq Nat
    /\ UseAuto <= MaxAutoExtras \div 2
    /\ EffBlock \in Nat \ {0} /\ {EffMinLen, EffMaxPerc, MaxFile} \subseteq Nat
    /\ \A k \in DOMAIN Extras : \A m \in 1 .. k : Len(Extras[m]) <= Len(Extras[k])

VARIABLES
    pc, no_arith, fuzzed, in_buf, out_buf,
    \* position in the buffer or in the list of stages, in the list of tokens
    i, j, last_len,
    \* token collection, the dictionary, the flagged parts of the effector map
    prev_cksum, a_collect, a_extras, eff_map,
    \* history: checksum per byte, tokens picked up, bytes whose flip changed nothing,
    \* buffers executed by the dictionary stages
    cksums, tokens, inert, tried

tokenVars == <<prev_cksum, a_collect, cksums, tokens>>
effVars   == <<eff_map, inert>>
vars == <<pc, no_arith, fuzzed, in_buf, out_buf, i, j, last_len, a_extras, tokenVars, effVars,
          tried>>

Blank ==
    /\ in_buf' = <<>> /\ out_buf' = <<>> /\ i' = 1 /\ j' = 1 /\ last_len' = 0
    /\ prev_cksum' = Same /\ a_collect' = <<>> /\ cksums' = <<>> /\ tokens' = {}
    /\ eff_map' = {} /\ inert' = {} /\ tried' = {}

Init ==
    /\ pc = "load" /\ no_arith \in NoArith /\ fuzzed = 0 /\ a_extras = <<>>
    /\ in_buf = <<>> /\ out_buf = <<>> /\ i = 1 /\ j = 1 /\ last_len = 0
    /\ prev_cksum = Same /\ a_collect = <<>> /\ cksums = <<>> /\ tokens = {}
    /\ eff_map = {} /\ inert = {} /\ tried = {}

Pick ==
    /\ pc = "pick" /\ fuzzed < MaxFuzz
    /\ pc' = "flip1" /\ fuzzed' = fuzzed + 1
    /\ in_buf' \in Inputs /\ out_buf' = in_buf'
    /\ UNCHANGED <<no_arith, i, j, last_len, a_extras, tokenVars, effVars, tried>>

\* common_fuzz_stuff says so, or all is done: abandon_entry
Abandon ==
    /\ pc \notin {"load", "pick"} /\ pc' = "pick"
    /\ Blank /\ UNCHANGED <<no_arith, fuzzed, a_extras>>

len == Len(in_buf)

-----------------------------------------------------------------------------
(* maybe_add_auto.                                                          *)

ToLower(x) == IF x \in 65 .. 90 THEN x + 32 ELSE x
SameExactly(s, t) == s = t
Folded(s) == [k \in DOMAIN s |-> ToLower(s[k])]
memcmp_nocase(s, t) == Len(s) = Len(t) /\ Folded(s) = Folded(t)

\* a run of one byte, a built-in value (compared with its sign), a user's token
Unwanted(tok) ==
    \/ \A k \in DOMAIN tok : tok[k] = tok[1]
    \/ Len(tok) = 2 /\ (\/ \E v \in Ints16 : v >= 0 /\ tok = Bytes(v, 2)
                        \/ \E v \in Ints16 : tok = Swap(Bytes(v, 2)))
    \/ Len(tok) = 4 /\ \E v \in Ints32 : tok \in {Bytes(v, 4), Swap(Bytes(v, 4))}
    \/ \E k \in DOMAIN Extras : memcmp_nocase(Extras[k], tok)

Used(A) == 1 .. (IF Len(A) < UseAuto THEN Len(A) ELSE UseAuto)

\* the two calls of qsort, which may leave equal elements in any order: by use, then
\* the ones in use by size
ByUse(A) == \A k, m \in DOMAIN A : k < m => A[k].hit_cnt >= A[m].hit_cnt
InOrder(A) ==
    /\ \A k, m \in DOMAIN A : k < m /\ m \notin Used(A) => A[k].hit_cnt >= A[m].hit_cnt
    /\ \A k, m \in Used(A) : k < m => Len(A[k].data) <= Len(A[m].data)
Sorted(A) ==
    {B \in {[k \in DOMAIN A |-> A[f[k]]] : f \in Bijection(DOMAIN A, DOMAIN A)} : InOrder(B)}

\* a full list loses an entry of its bottom half
AnyPlace == 1 .. MaxAutoExtras
Evictable == MaxAutoExtras \div 2 + 1 .. MaxAutoExtras

First(S) == {k \in S : \A m \in S : k <= m}

maybe_add_auto(A, tok) ==
    LET same == {k \in DOMAIN A : memcmp_nocase(A[k].data, tok)}
        new  == [data |-> tok, hit_cnt |-> 0]
    IN  IF Unwanted(tok) THEN {A}
        ELSE IF same # {}
        THEN UNION {Sorted([A EXCEPT ![k].hit_cnt = @ + 1]) : k \in First(same)}
        ELSE IF Len(A) < MaxAutoExtras THEN Sorted(Append(A, new))
        ELSE UNION {Sorted([A EXCEPT ![k] = new]) : k \in Evictable}

RightLength(tok) == Len(tok) \in MinAuto .. MaxAuto

\* load_auto: a file that was cut short by a crash is skipped like one too long
LoadAuto ==
    /\ pc = "load" /\ i <= UseAuto /\ i <= Len(AutoFiles)
    /\ IF RightLength(AutoFiles[i]) THEN a_extras' \in maybe_add_auto(a_extras, AutoFiles[i])
                                   ELSE UNCHANGED a_extras
    /\ i' = i + 1
    /\ UNCHANGED <<pc, no_arith, fuzzed, in_buf, out_buf, j, last_len, tokenVars, effVars, tried>>

Loaded ==
    /\ pc = "load" /\ (i > UseAuto \/ i > Len(AutoFiles))
    /\ pc' = "pick" /\ i' = 1
    /\ UNCHANGED <<no_arith, fuzzed, in_buf, out_buf, j, last_len, a_extras, tokenVars, effVars,
                   tried>>

-----------------------------------------------------------------------------
(* Bit flips and token collection.                                          *)

\* the checksum with the lowest bit of byte i flipped: the run of bytes with equal,
\* unusual checksums continues or ends.  At the end of the file it is forced out.
NeverForced(c) == FALSE
Forced(c) == i = len /\ c = prev_cksum

Flip1 ==
    /\ pc = "flip1" /\ i <= len
    /\ \E c \in Cksums :
          LET ch   == out_buf[i]
              tok  == IF Forced(c) THEN Append(a_collect, ch) ELSE a_collect
              ends == Forced(c) \/ c # prev_cksum
              kept == IF c # prev_cksum THEN <<>> ELSE tok
          IN  /\ IF ends /\ RightLength(tok)
                 THEN a_extras' \in maybe_add_auto(a_extras, tok) /\ tokens' = tokens \cup {tok}
                 ELSE UNCHANGED <<a_extras, tokens>>
              /\ prev_cksum' = c
              /\ a_collect' = IF c # Same THEN Append(kept, ch) ELSE kept
              /\ cksums' = Append(cksums, c)
    /\ i' = i + 1
    /\ UNCHANGED <<pc, no_arith, fuzzed, in_buf, out_buf, j, last_len, effVars, tried>>

\* flip2, flip4, and the first and the last byte are flagged
EffPos(p) == (p - 1) \div EffBlock
EffLen == EffPos(len) + 1

Flip2And4 ==
    /\ pc = "flip1" /\ i = len + 1
    /\ pc' = "flip8" /\ i' = 1
    /\ eff_map' = {EffPos(1), EffPos(len)}
    /\ prev_cksum' = Same /\ a_collect' = <<>> /\ cksums' = <<>> /\ tokens' = {}
    /\ UNCHANGED <<no_arith, fuzzed, in_buf, out_buf, j, last_len, a_extras, inert, tried>>

\* flip8: does flipping the whole byte change the checksum?  Short files are not asked.
Flip8 ==
    /\ pc = "flip8" /\ i <= len
    /\ \E change \in BOOLEAN :
          /\ inert' = IF change THEN inert ELSE inert \cup {i}
          /\ eff_map' = IF change \/ len < EffMinLen THEN eff_map \cup {EffPos(i)} ELSE eff_map
    /\ i' = i + 1
    /\ UNCHANGED <<pc, no_arith, fuzzed, in_buf, out_buf, j, last_len, a_extras, tokenVars, tried>>

\* a dense map is filled up
Dense == Cardinality(eff_map) # EffLen
         /\ (Cardinality(eff_map) * 100) \div EffLen > EffMaxPerc

OneTooMany == 0 .. EffLen
FullMap == 0 .. EffLen - 1

FillMap ==
    /\ pc = "flip8" /\ i = len + 1
    /\ pc' = "words" /\ i' = 1
    /\ eff_map' = IF Dense THEN FullMap ELSE eff_map
    /\ UNCHANGED <<no_arith, fuzzed, in_buf, out_buf, j, last_len, a_extras, tokenVars, inert,
                   tried>>

Effective == {p \in 1 .. len : EffPos(p) \in eff_map}

\* the arithmetic and interesting-value stages: AllRuns of WordStages is executed, nothing
\* but the counters changes
RunWordStages ==
    /\ pc = "words" /\ pc' = "ext_UO" /\ i' = 1
    /\ UNCHANGED <<no_arith, fuzzed, in_buf, out_buf, j, last_len, a_extras, tokenVars, effVars,
                   tried>>

-----------------------------------------------------------------------------
(* Dictionary stages: user extras (over), user extras (insert), which works *)
(* on a copy, and auto extras (over).                                       *)

AutoTokens == [k \in Used(a_extras) |-> a_extras[k].data]
Tokens == IF pc = "ext_UO" THEN Extras ELSE AutoTokens

Span(p, tok) == p .. p + Len(tok) - 1
InsideOnly(tok, p) == p + Len(tok) - 1 < len
Fits(tok, p) == p + Len(tok) - 1 <= len

OverwriteToken ==
    /\ pc \in {"ext_UO", "ext_AO"} /\ i <= len /\ j <= Len(Tokens)
    /\ LET tok == Tokens[j]
           try == /\ Fits(tok, i) /\ Word(out_buf, i, Len(tok)) # tok
                  /\ \E e \in EffPos(i) .. EffPos(i + Len(tok) - 1) : e \in eff_map
       IN  /\ out_buf' = IF try THEN Put(out_buf, i, tok) ELSE out_buf
           /\ last_len' = IF try THEN Len(tok) ELSE last_len
           /\ tried' = IF try THEN tried \cup {out_buf'} ELSE tried
    /\ j' = j + 1
    /\ UNCHANGED <<pc, no_arith, fuzzed, in_buf, i, a_extras, tokenVars, effVars>>

\* the clobbered bytes are restored: as many as the last token had
RestoreBuffer ==
    /\ pc \in {"ext_UO", "ext_AO"} /\ i <= len /\ j = Len(Tokens) + 1
    /\ out_buf' = Put(out_buf, i, Word(in_buf, i, last_len))
    /\ i' = i + 1 /\ j' = 1 /\ last_len' = 0
    /\ UNCHANGED <<pc, no_arith, fuzzed, in_buf, a_extras, tokenVars, effVars, tried>>

InsertExtras ==
    /\ pc = "ext_UO" /\ i = len + 1
    /\ pc' = "ext_AO" /\ i' = 1
    /\ tried' = tried \cup {SubSeq(out_buf, 1, p) \o Extras[k] \o SubSeq(out_buf, p + 1, len) :
                               p \in 0 .. len,
                               k \in {m \in DOMAIN Extras : len + Len(Extras[m]) <= MaxFile}}
    /\ UNCHANGED <<no_arith, fuzzed, in_buf, out_buf, j, last_len, a_extras, tokenVars, effVars>>

\* the entry is marked as done, and havoc follows
Finish ==
    /\ pc = "ext_AO" /\ i = len + 1 /\ pc' = "pick"
    /\ Blank /\ UNCHANGED <<no_arith, fuzzed, a_extras>>

Over == pc = "pick" /\ fuzzed = MaxFuzz /\ UNCHANGED vars

Next == \/ LoadAuto \/ Loaded \/ Pick \/ Abandon \/ Flip1 \/ Flip2And4 \/ Flip8 \/ FillMap
        \/ RunWordStages \/ OverwriteToken \/ RestoreBuffer \/ InsertExtras \/ Finish \/ Over

Spec == Init /\ [][Next]_vars

-----------------------------------------------------------------------------
(* Properties.                                                              *)

WalkTypes ==
    /\ pc \in {"load", "pick", "flip1", "flip8", "words", "ext_UO", "ext_AO"}
    /\ no_arith \in BOOLEAN /\ fuzzed \in 0 .. MaxFuzz
    /\ in_buf \in Inputs \cup {<<>>} /\ Len(out_buf) = len /\ Range(out_buf) \subseteq Byte
    /\ i \in Nat \ {0} /\ j \in Nat \ {0} /\ last_len \in 0 .. len

TokenTypes ==
    /\ prev_cksum \in Cksums /\ Len(a_collect) <= len + 1
    /\ Len(a_extras) <= MaxAutoExtras
    /\ \A k \in DOMAIN a_extras : RightLength(a_extras[k].data) /\ a_extras[k].hit_cnt \in Nat

EffectorTypes ==
    /\ eff_map # {} => eff_map \subseteq 0 .. EffLen - 1
    /\ inert \subseteq 1 .. len

\* Every variable has its type, and the effector map its length.
TypeOK == WalkTypes /\ TokenTypes /\ EffectorTypes

\* What the arithmetic and interesting-value stages are meant to try and no stage does, by
\* entry, effective bytes and no_arith; a run of bits across two bytes is let pass, and with
\* AFL_NO_ARITH a value close to the old one.
Missed(b, E, na) ==
    LET runs == AllRuns(b, E, na)
    IN  {c \in UNION {Meant(b, n, ~na) : n \in IF na THEN {1} ELSE {1, 2, 4}} :
           /\ c \notin runs /\ c # b /\ ~CrossingRun(b, c)
           /\ ~(na /\ \A k \in Changed(b, c) : Within(<<b[k]>>, <<c[k]>>))}

MissedTable ==
    {[buf |-> b, bytes |-> E, na |-> na, lost |-> Missed(b, E, na)] :
        b \in Inputs, E \in SUBSET UNION {DOMAIN b : b \in Inputs}, na \in NoArith}

\* No filter loses a mutation: what no stage tries changes only bytes whose flip changed
\* nothing.  (could_be_bitflip takes a run of bits across two bytes for a walking flip, which
\* it is not; could_be_arith filters int8 although AFL_NO_ARITH has left arith8 out.)
FilterSound ==
    pc = "words" => \A r \in MissedTable :
        r.buf = in_buf /\ r.bytes = Effective /\ r.na = no_arith =>
            \A c \in r.lost : Changed(in_buf, c) \subseteq inert

\* The tokens picked up while bits are flipped are the maximal runs of bytes whose
\* checksums are equal and differ from the entry's, if they have the right length.
TokensAreRuns ==
    pc = "flip1" /\ i = len + 1 =>
        tokens = {SubSeq(in_buf, r[1], r[2]) :
                    r \in {q \in (1 .. len) \X (1 .. len) :
                             /\ q[2] - q[1] + 1 \in MinAuto .. MaxAuto
                             /\ cksums[q[1]] # Same
                             /\ \A k \in q[1] .. q[2] : cksums[k] = cksums[q[1]]
                             /\ q[1] > 1 => cksums[q[1] - 1] # cksums[q[1]]
                             /\ q[2] < len => cksums[q[2] + 1] # cksums[q[1]]}}

\* Whatever tokens were written over it, out_buf equals in_buf again before the next
\* position: relies on the order of the tokens, for automatic ones that of maybe_add_auto.
BufferRestored == pc \in {"ext_UO", "ext_AO"} /\ j = 1 => out_buf = in_buf

\* Every token was executed, laid purely over the entry, wherever it fits and touches a
\* byte that matters, although each is written over the remains of the shorter ones.
TokensTried ==
    pc \in {"ext_UO", "ext_AO"} /\ i = len + 1 =>
        \A k \in DOMAIN Tokens : \A p \in 1 .. len - Len(Tokens[k]) + 1 :
            \/ Put(in_buf, p, Tokens[k]) \in tried \cup {in_buf}
            \/ Span(p, Tokens[k]) \subseteq inert

\* The dictionary has no two tokens that differ in case only, none that the user gave,
\* and the tokens in use have been seen at least as often as the others.
DictionaryClean ==
    /\ \A k, m \in DOMAIN a_extras : k # m => Folded(a_extras[k].data) # Folded(a_extras[m].data)
    /\ \A k \in DOMAIN a_extras, m \in DOMAIN Extras :
          Folded(a_extras[k].data) # Folded(Extras[m])
    /\ \A k \in Used(a_extras), m \in DOMAIN a_extras \ Used(a_extras) :
          a_extras[k].hit_cnt >= a_extras[m].hit_cnt

\* A token in use is never evicted to make room for a new one.
UsedSurvive ==
    [][\A k \in Used(a_extras) : \E m \in DOMAIN a_extras' :
          a_extras'[m].data = a_extras[k].data]_vars
=============================================================================
