-------------------------- MODULE DetStagesProofs --------------------------
(* What holds of the deterministic stages for every input, dictionary and  *)
(* answer of the target: types, the dictionary of automatic tokens, the    *)
(* tokens picked up, the buffer the dictionary stages overwrite, and that  *)
(* the filters of the word stages lose nothing.                            *)
EXTENDS DetStages, WordStagesProofs, SequenceTheorems, FiniteSetTheorems, TLAPS

Token     == [data : Seq(Byte), hit_cnt : Nat]
Between   == {"load", "pick"}
Flipping  == {"flip1", "flip8", "words"}
Extending == {"ext_UO", "ext_AO"}

\* The bytes collected are fewer than the bytes passed, until the last is forced out.
ControlOK ==
    /\ out_buf \in Seq(Byte) /\ a_collect \in Seq(Byte)
    /\ IF pc \in Between
       THEN /\ in_buf = <<>> /\ eff_map = {} /\ inert = {}
            /\ prev_cksum = Same /\ a_collect = <<>> /\ cksums = <<>> /\ tokens = {}
       ELSE in_buf \in Inputs
    /\ pc # "load" => i <= len + 1
    /\ pc = "flip1" /\ i <= len => Len(a_collect) < i
    /\ pc \notin Extending => j = 1 /\ last_len = 0
    /\ pc \in Extending =>
          j <= Len(Tokens) + 1 /\ i + last_len <= len + 1 /\ (i > len => j = 1 /\ last_len = 0)

\* A dictionary as maybe_add_auto leaves it: without duplicates or the user's tokens, sorted.
Distinct(A) ==
    /\ A \in Seq(Token) /\ Len(A) <= MaxAutoExtras
    /\ \A k \in DOMAIN A : RightLength(A[k].data)
    /\ \A k, m \in DOMAIN A : k # m => Folded(A[k].data) # Folded(A[m].data)
    /\ \A k \in DOMAIN A, m \in DOMAIN Extras : Folded(A[k].data) # Folded(Extras[m])
DictOK(A) == Distinct(A) /\ InOrder(A)

TypeInv == TypeOK /\ ControlOK /\ DictOK(a_extras)

\* The runs of bytes that were found out to be tokens, when the checksums ck of the first
\* n bytes are known.
TokenRun(a, b, ck, n) ==
    /\ b - a + 1 \in MinAuto .. MaxAuto
    /\ b < n \/ n = len
    /\ ck[a] # Same
    /\ \A k \in a .. b : ck[k] = ck[a]
    /\ a > 1 => ck[a - 1] # ck[a]
    /\ b < n => ck[b + 1] # ck[a]
FoundIn(ck, n) ==
    {SubSeq(in_buf, r[1], r[2]) : r \in {q \in (1 .. n) \X (1 .. n) : TokenRun(q[1], q[2], ck, n)}}

\* The run that may go on: it started at s.
OpenRun(s, ck, n) ==
    /\ ck[s] # Same
    /\ \A k \in s .. n : ck[k] = ck[s]
    /\ s > 1 => ck[s - 1] # ck[s]

RunsInv ==
    pc = "flip1" =>
        /\ cksums \in Seq(Cksums) /\ Len(cksums) = i - 1
        /\ prev_cksum = IF i = 1 THEN Same ELSE cksums[i - 1]
        /\ i <= len /\ prev_cksum = Same => a_collect = <<>>
        /\ i <= len /\ prev_cksum # Same =>
              \E s \in 1 .. i - 1 : OpenRun(s, cksums, i - 1) /\ a_collect = SubSeq(in_buf, s, i - 1)
        /\ tokens = FoundIn(cksums, i - 1)

\* While tokens are written over position i, out_buf is the entry with one of them laid
\* over it, a token already tried; the next is no shorter and hides it.
BufferInv ==
    /\ pc \in Flipping => out_buf = in_buf
    /\ pc \in Extending =>
          \/ last_len = 0 /\ out_buf = in_buf
          \/ \E m \in 1 .. j - 1 :
                /\ last_len = Len(Tokens[m]) /\ Fits(Tokens[m], i)
                /\ out_buf = Put(in_buf, i, Tokens[m]) /\ out_buf \in tried

\* A byte that is not in the effector map did nothing when it was flipped.
Asked == IF pc = "flip8" THEN i - 1 ELSE IF pc \in {"words"} \cup Extending THEN len ELSE 0
EffectorInv == \A p \in 1 .. Asked : p \in inert \/ EffPos(p) \in eff_map

\* TokensTried up to token j at position i.
Served(tok, p) ==
    Put(in_buf, p, tok) \in tried \cup {in_buf} \/ Span(p, tok) \subseteq inert
TriedInv ==
    pc \in Extending =>
        \A k \in DOMAIN Tokens : \A p \in 1 .. len :
            (p < i \/ (p = i /\ k < j)) /\ Fits(Tokens[k], p) => Served(Tokens[k], p)

-----------------------------------------------------------------------------
(* The dictionary.                                                          *)

\* The bounds on the tokens and on the dictionary.
LEMMA Limits ==
    /\ MinAuto \in Nat \ {0, 1} /\ MaxAuto \in Nat /\ UseAuto \in Nat
    /\ MaxAutoExtras \in Nat /\ MaxFuzz \in Nat
BY DetAssumption

\* The tokens in use are the first few.
LEMMA UsedRange ==
    ASSUME NEW A, Len(A) \in Nat
    PROVE  \E n \in Nat : Used(A) = 1 .. n /\ n <= Len(A) /\ n <= UseAuto
<1> DEFINE n == IF Len(A) < UseAuto THEN Len(A) ELSE UseAuto
<1>1. n \in Nat /\ n <= Len(A) /\ n <= UseAuto
    BY Limits
<1>2. Used(A) = 1 .. n
    BY DEF Used
<1> QED BY <1>1, <1>2

\* Folding keeps the length of a token.
LEMMA FoldedLength ==
    ASSUME NEW s \in Seq(Byte), NEW t \in Seq(Byte)
    PROVE  memcmp_nocase(s, t) <=> Folded(s) = Folded(t)
<1>1. DOMAIN Folded(s) = 1 .. Len(s) /\ DOMAIN Folded(t) = 1 .. Len(t)
    BY LenProperties DEF Folded
<1>2. Len(s) \in Nat /\ Len(t) \in Nat
    BY LenProperties
<1>3. ASSUME Folded(s) = Folded(t) PROVE Len(s) = Len(t)
    BY <1>1, <1>2, <1>3
<1> QED BY <1>3 DEF memcmp_nocase

\* The two calls of qsort reorder the tokens, losing and doubling none.
LEMMA SortedKeeps ==
    ASSUME NEW A, Distinct(A), NEW B \in Sorted(A)
    PROVE  /\ DictOK(B) /\ Len(B) = Len(A)
           /\ \A k \in DOMAIN A : \E m \in DOMAIN B : B[m] = A[k]
<1>1. A \in Seq(Token) /\ Len(A) \in Nat /\ DOMAIN A = 1 .. Len(A)
      /\ \A k \in DOMAIN A : A[k] \in Token
    BY LenProperties, ElementOfSeq DEF Distinct
<1>2. PICK f \in Bijection(DOMAIN A, DOMAIN A) : B = [k \in DOMAIN A |-> A[f[k]]]
    BY DEF Sorted
<1>3. InOrder(B)
    BY DEF Sorted
<1>4. /\ \A k \in DOMAIN A : f[k] \in DOMAIN A
      /\ \A k, m \in DOMAIN A : k # m => f[k] # f[m]
      /\ \A k \in DOMAIN A : \E m \in DOMAIN A : f[m] = k
    BY <1>2 DEF Bijection, Injection, Surjection, IsInjective
<1>5. B \in [1 .. Len(A) -> Token]
    BY <1>1, <1>2, <1>4
<1>6. B \in Seq(Token) /\ Len(B) = Len(A) /\ DOMAIN B = DOMAIN A
    BY <1>1, <1>5, SeqDef
<1>7. \A k \in DOMAIN B : B[k] = A[f[k]]
    BY <1>2, <1>6
<1>8. Distinct(B)
    <2>1. \A k, m \in DOMAIN A : k # m => Folded(A[k].data) # Folded(A[m].data)
        BY DEF Distinct
    <2>2. ASSUME NEW k \in DOMAIN B, NEW m \in DOMAIN B, k # m
          PROVE  Folded(B[k].data) # Folded(B[m].data)
        <3>1. k \in DOMAIN A /\ m \in DOMAIN A /\ f[k] \in DOMAIN A /\ f[m] \in DOMAIN A
            BY <1>4, <1>6
        <3>2. f[k] # f[m]
            BY <1>4, <2>2, <3>1
        <3>3. Folded(A[f[k]].data) # Folded(A[f[m]].data)
            BY <2>1, <3>1, <3>2
        <3>4. B[k] = A[f[k]] /\ B[m] = A[f[m]]
            BY <1>7
        <3> QED BY <3>3, <3>4
    <2>3. \A k \in DOMAIN A : RightLength(A[k].data)
        BY DEF Distinct
    <2>4. \A k \in DOMAIN B : RightLength(B[k].data)
        BY <1>4, <1>6, <1>7, <2>3
    <2>5. \A k \in DOMAIN A, m \in DOMAIN Extras : Folded(A[k].data) # Folded(Extras[m])
        BY DEF Distinct
    <2>6. ASSUME NEW k \in DOMAIN B, NEW m \in DOMAIN Extras
          PROVE  Folded(B[k].data) # Folded(Extras[m])
        <3>1. f[k] \in DOMAIN A /\ B[k] = A[f[k]]
            BY <1>4, <1>6, <1>7
        <3>2. Folded(A[f[k]].data) # Folded(Extras[m])
            BY <2>5, <3>1
        <3> QED BY <3>1, <3>2
    <2>7. Len(B) <= MaxAutoExtras
        BY <1>6 DEF Distinct
    <2> QED BY <1>6, <2>2, <2>4, <2>6, <2>7 DEF Distinct
<1>9. \A k \in DOMAIN A : \E m \in DOMAIN B : B[m] = A[k]
    BY <1>4, <1>6, <1>7
<1> QED BY <1>3, <1>6, <1>8, <1>9 DEF DictOK

\* A token that is neither unwanted nor known can take any place in the list.
LEMMA NewToken ==
    ASSUME NEW A, Distinct(A), NEW tok \in Seq(Byte), RightLength(tok), ~Unwanted(tok),
           \A k \in DOMAIN A : ~memcmp_nocase(A[k].data, tok)
    PROVE  /\ Len(A) < MaxAutoExtras => Distinct(Append(A, [data |-> tok, hit_cnt |-> 0]))
           /\ \A k \in DOMAIN A : Distinct([A EXCEPT ![k] = [data |-> tok, hit_cnt |-> 0]])
<1> DEFINE new == [data |-> tok, hit_cnt |-> 0]
<1>1. A \in Seq(Token) /\ Len(A) \in Nat /\ DOMAIN A = 1 .. Len(A)
      /\ \A k \in DOMAIN A : A[k] \in Token /\ A[k].data \in Seq(Byte)
    <2>1. A \in Seq(Token) /\ Len(A) \in Nat /\ DOMAIN A = 1 .. Len(A)
          /\ \A k \in DOMAIN A : A[k] \in Token
        BY LenProperties, ElementOfSeq DEF Distinct
    <2> QED BY <2>1 DEF Token
<1>2. new \in Token /\ new.data = tok
    BY DEF Token
<1>3. \A k \in DOMAIN A : Folded(A[k].data) # Folded(tok)
    BY <1>1, FoldedLength
<1>4. \A m \in DOMAIN Extras : Folded(tok) # Folded(Extras[m])
    <2>1. \A m \in DOMAIN Extras : Extras[m] \in Seq(Byte) /\ ~memcmp_nocase(Extras[m], tok)
        BY LenProperties, ElementOfSeq, DetAssumption DEF Unwanted
    <2> QED BY <2>1, FoldedLength
<1>5. ASSUME NEW B \in Seq(Token), Len(B) <= MaxAutoExtras, NEW n \in DOMAIN B, B[n] = new,
             \A k \in DOMAIN B \ {n} : k \in DOMAIN A /\ B[k] = A[k]
      PROVE  Distinct(B)
    <2>1. \A k \in DOMAIN B : k # n => Folded(B[k].data) # Folded(tok)
        BY <1>3, <1>5
    <2>2. \A k, m \in DOMAIN B : k # m => Folded(B[k].data) # Folded(B[m].data)
        BY <1>2, <1>5, <2>1 DEF Distinct
    <2>3. \A k \in DOMAIN B : RightLength(B[k].data)
        BY <1>2, <1>5 DEF Distinct
    <2>4. \A k \in DOMAIN B, m \in DOMAIN Extras : Folded(B[k].data) # Folded(Extras[m])
        BY <1>2, <1>4, <1>5 DEF Distinct
    <2> QED BY <1>5, <2>2, <2>3, <2>4 DEF Distinct
<1>6. ASSUME Len(A) < MaxAutoExtras PROVE Distinct(Append(A, new))
    <2>1. /\ Append(A, new) \in Seq(Token) /\ Len(Append(A, new)) = Len(A) + 1
          /\ DOMAIN Append(A, new) = 1 .. Len(A) + 1
          /\ \A k \in 1 .. Len(A) : Append(A, new)[k] = A[k]
          /\ Append(A, new)[Len(A) + 1] = new
        BY <1>1, <1>2, AppendProperties, LenProperties
    <2>2. Len(A) + 1 <= MaxAutoExtras
        BY <1>1, <1>6, DetAssumption
    <2> DEFINE B == Append(A, new)
    <2>3. B \in Seq(Token) /\ Len(B) <= MaxAutoExtras /\ Len(A) + 1 \in DOMAIN B
          /\ B[Len(A) + 1] = new /\ \A k \in DOMAIN B \ {Len(A) + 1} : k \in DOMAIN A /\ B[k] = A[k]
        BY <1>1, <2>1, <2>2
    <2> HIDE DEF new, B
    <2>4. Distinct(B)
        BY <1>5, <2>3
    <2> QED BY <2>4 DEF B
<1>7. ASSUME NEW k \in DOMAIN A PROVE Distinct([A EXCEPT ![k] = new])
    <2>1. /\ [A EXCEPT ![k] = new] \in Seq(Token) /\ Len([A EXCEPT ![k] = new]) = Len(A)
          /\ DOMAIN [A EXCEPT ![k] = new] = DOMAIN A
          /\ \A m \in DOMAIN A : [A EXCEPT ![k] = new][m] = IF m = k THEN new ELSE A[m]
        BY <1>1, <1>2, ExceptSeq
    <2>2. Len(A) <= MaxAutoExtras
        BY DEF Distinct
    <2> HIDE DEF new
    <2> QED BY <1>5, <2>1, <2>2
<1> QED BY <1>6, <1>7

\* Counting a token once more changes no token.
LEMMA CountedToken ==
    ASSUME NEW A, Distinct(A), NEW k \in DOMAIN A
    PROVE  LET B == [A EXCEPT ![k].hit_cnt = @ + 1]
           IN  Distinct(B) /\ DOMAIN B = DOMAIN A /\ \A m \in DOMAIN A : B[m].data = A[m].data
<1> DEFINE B == [A EXCEPT ![k].hit_cnt = @ + 1]
<1>1. A \in Seq(Token) /\ Len(A) \in Nat /\ DOMAIN A = 1 .. Len(A)
      /\ \A m \in DOMAIN A : A[m] \in Token
    BY LenProperties, ElementOfSeq DEF Distinct
<1>2. [A[k] EXCEPT !.hit_cnt = @ + 1] \in Token
      /\ [A[k] EXCEPT !.hit_cnt = @ + 1].data = A[k].data
    <2>1. A[k] \in [data : Seq(Byte), hit_cnt : Nat]
        BY <1>1 DEF Token
    <2>2. A[k].hit_cnt + 1 \in Nat
        BY <2>1
    <2>3. [A[k] EXCEPT !.hit_cnt = A[k].hit_cnt + 1] \in [data : Seq(Byte), hit_cnt : Nat]
        BY <2>1, <2>2
    <2> QED BY <2>1, <2>3 DEF Token
<1>3. B = [A EXCEPT ![k] = [A[k] EXCEPT !.hit_cnt = @ + 1]]
    OBVIOUS
<1>4. B \in Seq(Token) /\ Len(B) = Len(A) /\ DOMAIN B = DOMAIN A
      /\ \A m \in DOMAIN A : B[m].data = A[m].data
    BY <1>1, <1>2, <1>3, ExceptSeq
<1> HIDE DEF B
<1>5. Distinct(B)
    BY <1>4 DEF Distinct
<1> QED BY <1>4, <1>5 DEF B

\* maybe_add_auto keeps the list clean and sorted, and the tokens in use.
LEMMA AddKeeps ==
    ASSUME NEW A, DictOK(A), NEW tok \in Seq(Byte), RightLength(tok),
           NEW B \in maybe_add_auto(A, tok)
    PROVE  /\ DictOK(B)
           /\ \A k \in Used(A) : \E m \in DOMAIN B : B[m].data = A[k].data
<1> DEFINE new  == [data |-> tok, hit_cnt |-> 0]
           same == {k \in DOMAIN A : memcmp_nocase(A[k].data, tok)}
<1>1. Distinct(A) /\ A \in Seq(Token) /\ Len(A) \in Nat /\ DOMAIN A = 1 .. Len(A)
    BY LenProperties DEF DictOK, Distinct
<1>2. Used(A) \subseteq DOMAIN A /\ Used(A) \subseteq 1 .. UseAuto
    <2>1. PICK n \in Nat : Used(A) = 1 .. n /\ n <= Len(A) /\ n <= UseAuto
        BY <1>1, UsedRange
    <2> QED BY <1>1, <2>1, Limits
<1>3. CASE Unwanted(tok)
    BY <1>2, <1>3 DEF maybe_add_auto
<1>4. CASE ~Unwanted(tok) /\ same # {}
    <2>1. PICK k \in same : B \in Sorted([A EXCEPT ![k].hit_cnt = @ + 1])
        BY <1>4 DEF maybe_add_auto, First
    <2> DEFINE C == [A EXCEPT ![k].hit_cnt = @ + 1]
    <2>2. Distinct(C) /\ DOMAIN C = DOMAIN A /\ \A m \in DOMAIN A : C[m].data = A[m].data
        BY <1>1, <2>1, CountedToken
    <2>3. B \in Sorted(C)
        BY <2>1
    <2> HIDE DEF C
    <2>4. DictOK(B) /\ \A m \in DOMAIN C : \E n \in DOMAIN B : B[n] = C[m]
        BY <2>2, <2>3, SortedKeeps
    <2> QED BY <1>2, <2>2, <2>4
<1>5. CASE ~Unwanted(tok) /\ same = {} /\ Len(A) < MaxAutoExtras
    <2>1. B \in Sorted(Append(A, new))
        BY <1>5 DEF maybe_add_auto
    <2>2. Distinct(Append(A, new))
        BY <1>1, <1>5, NewToken
    <2>3. DictOK(B) /\ \A m \in DOMAIN Append(A, new) : \E n \in DOMAIN B : B[n] = Append(A, new)[m]
        BY <2>1, <2>2, SortedKeeps
    <2>4. \A m \in DOMAIN A : m \in DOMAIN Append(A, new) /\ Append(A, new)[m] = A[m]
        <3>1. new \in Token
            BY DEF Token
        <3> QED BY <1>1, <3>1, AppendProperties, LenProperties
    <2> QED BY <1>2, <2>3, <2>4
<1>6. CASE ~Unwanted(tok) /\ same = {} /\ ~(Len(A) < MaxAutoExtras)
    <2>1. PICK k \in Evictable : B \in Sorted([A EXCEPT ![k] = new])
        BY <1>6 DEF maybe_add_auto
    <2>2. Len(A) = MaxAutoExtras
        BY <1>1, <1>6, DetAssumption DEF Distinct
    <2>3. k \in DOMAIN A /\ k \notin 1 .. UseAuto
        <3>1. MaxAutoExtras \div 2 \in Nat /\ UseAuto <= MaxAutoExtras \div 2 /\ UseAuto \in Nat
            BY DetAssumption
        <3> QED BY <1>1, <2>1, <2>2, <3>1 DEF Evictable
    <2>4. Distinct([A EXCEPT ![k] = new])
        BY <1>1, <1>6, <2>3, NewToken
    <2>5. DictOK(B) /\ \A m \in DOMAIN A : \E n \in DOMAIN B : B[n] = [A EXCEPT ![k] = new][m]
        BY <2>1, <2>4, SortedKeeps
    <2>6. \A m \in Used(A) : m \in DOMAIN A /\ [A EXCEPT ![k] = new][m] = A[m]
        BY <1>2, <2>3
    <2> QED BY <2>5, <2>6
<1> QED BY <1>3, <1>4, <1>5, <1>6

-----------------------------------------------------------------------------
(* Buffers, positions and tokens.                                           *)

\* An entry is a nonempty sequence of bytes.
LEMMA EntryFacts ==
    ASSUME NEW b \in Inputs
    PROVE  b \in Seq(Byte) /\ Len(b) \in Nat \ {0} /\ DOMAIN b = 1 .. Len(b)
BY DetAssumption, LenProperties, EmptySeq

\* Division is monotonic.
LEMMA DivMonotonic ==
    ASSUME NEW a \in Nat, NEW b \in Nat, a <= b, NEW d \in Nat \ {0}
    PROVE  a \div d \in Nat /\ a \div d <= b \div d
OBVIOUS

\* The flags of the bytes of an entry lie in its effector map, in their order.
LEMMA EffectorRange ==
    ASSUME len \in Nat \ {0}
    PROVE  /\ EffLen \in Nat
           /\ \A p \in 1 .. len : EffPos(p) \in 0 .. EffLen - 1
           /\ \A p, q \in 1 .. len : p <= q => EffPos(p) <= EffPos(q)
<1>1. \A p \in 1 .. len : p - 1 \in Nat
    OBVIOUS
<1>2. ASSUME NEW p \in 1 .. len, NEW q \in 1 .. len, p <= q
      PROVE  EffPos(p) \in Nat /\ EffPos(p) <= EffPos(q)
    <2>1. p - 1 \in Nat /\ q - 1 \in Nat /\ p - 1 <= q - 1 /\ EffBlock \in Nat \ {0}
        BY <1>2, DetAssumption
    <2> QED BY <2>1, DivMonotonic DEF EffPos
<1>3. len \in 1 .. len /\ \A p \in 1 .. len : p <= len
    OBVIOUS
<1>4. \A p \in 1 .. len : EffPos(p) \in Nat /\ EffPos(p) <= EffPos(len)
    BY <1>2, <1>3
<1> QED BY <1>2, <1>3, <1>4 DEF EffLen

\* The automatic tokens in use are sequences of bytes, sorted by size.
LEMMA AutoTokenFacts ==
    ASSUME DictOK(a_extras)
    PROVE  /\ AutoTokens \in Seq(Seq(Byte))
           /\ \A k, m \in DOMAIN AutoTokens : m < k => Len(AutoTokens[m]) <= Len(AutoTokens[k])
<1>1. /\ Len(a_extras) \in Nat /\ DOMAIN a_extras = 1 .. Len(a_extras)
      /\ \A k \in DOMAIN a_extras : a_extras[k] \in Token
    BY LenProperties, ElementOfSeq DEF DictOK, Distinct
<1>2. PICK n \in Nat : Used(a_extras) = 1 .. n /\ n <= Len(a_extras)
    BY <1>1, UsedRange
<1>3. AutoTokens \in [1 .. n -> Seq(Byte)] /\ \A k \in 1 .. n : AutoTokens[k] = a_extras[k].data
    <2>1. \A k \in 1 .. n : k \in DOMAIN a_extras
        BY <1>1, <1>2
    <2>2. \A k \in 1 .. n : a_extras[k].data \in Seq(Byte)
        BY <1>1, <2>1 DEF Token
    <2> QED BY <1>2, <2>2 DEF AutoTokens
<1>4. AutoTokens \in Seq(Seq(Byte)) /\ DOMAIN AutoTokens = 1 .. n
    BY <1>3, SeqDef
<1>5. \A k, m \in 1 .. n : m < k => Len(AutoTokens[m]) <= Len(AutoTokens[k])
    BY <1>2, <1>3 DEF DictOK, InOrder
<1> QED BY <1>4, <1>5

\* The tokens of a dictionary stage are sorted by size.
LEMMA TokenFacts ==
    ASSUME DictOK(a_extras)
    PROVE  /\ Len(Tokens) \in Nat /\ DOMAIN Tokens = 1 .. Len(Tokens)
           /\ \A k \in DOMAIN Tokens : Tokens[k] \in Seq(Byte) /\ Len(Tokens[k]) \in Nat
           /\ \A k, m \in DOMAIN Tokens : m <= k => Len(Tokens[m]) <= Len(Tokens[k])
<1>1. CASE pc = "ext_UO"
    <2>1. /\ Len(Extras) \in Nat /\ DOMAIN Extras = 1 .. Len(Extras)
          /\ \A k \in DOMAIN Extras : Extras[k] \in Seq(Byte) /\ Len(Extras[k]) \in Nat
        BY DetAssumption, LenProperties, ElementOfSeq
    <2>2. \A k, m \in DOMAIN Extras : m <= k => Len(Extras[m]) <= Len(Extras[k])
        BY <2>1, DetAssumption
    <2> QED BY <1>1, <2>1, <2>2 DEF Tokens
<1>2. CASE pc # "ext_UO"
    <2>1. /\ Len(AutoTokens) \in Nat /\ DOMAIN AutoTokens = 1 .. Len(AutoTokens)
          /\ \A k \in DOMAIN AutoTokens : AutoTokens[k] \in Seq(Byte) /\ Len(AutoTokens[k]) \in Nat
        BY AutoTokenFacts, LenProperties, ElementOfSeq
    <2>2. \A k, m \in DOMAIN AutoTokens : m <= k => Len(AutoTokens[m]) <= Len(AutoTokens[k])
        BY <2>1, AutoTokenFacts
    <2> QED BY <1>2, <2>1, <2>2 DEF Tokens
<1> QED BY <1>1, <1>2

\* What TypeOK says of the dictionary.
LEMMA DictTypes ==
    ASSUME NEW A, DictOK(A)
    PROVE  /\ Len(A) <= MaxAutoExtras
           /\ \A k \in DOMAIN A : RightLength(A[k].data) /\ A[k].hit_cnt \in Nat
<1>1. \A k \in DOMAIN A : A[k] \in Token
    BY LenProperties, ElementOfSeq DEF DictOK, Distinct
<1> QED BY <1>1 DEF DictOK, Distinct, Token

-----------------------------------------------------------------------------
(* Types, and the dictionary.                                               *)

\* The first state: no entry, no tokens, an empty map.
LEMMA InitType == Init => TypeInv
<1> SUFFICES ASSUME Init PROVE TypeInv
    OBVIOUS
<1>1. <<>> \in Seq(Byte) /\ <<>> \in Seq(Token) /\ Len(<<>>) = 0 /\ DOMAIN <<>> = {}
      /\ Range(<<>>) = {}
    BY EmptySeq DEF Range
<1>2. DictOK(a_extras)
    BY <1>1, DetAssumption DEF Init, DictOK, Distinct, InOrder, Used
<1>3. TypeOK
    BY <1>1, DetAssumption DEF Init, TypeOK, WalkTypes, TokenTypes, EffectorTypes, len
<1>4. ControlOK
    BY <1>1 DEF Init, ControlOK, Between, Extending, len
<1> QED BY <1>2, <1>3, <1>4 DEF TypeInv

\* What TypeInv says of the buffers and of the place in them.
LEMMA BufferTypes ==
    ASSUME TypeInv
    PROVE  /\ len \in Nat /\ (in_buf = <<>> \/ in_buf \in Inputs)
           /\ (in_buf \in Inputs => len \in Nat \ {0})
           /\ in_buf \in Seq(Byte) /\ out_buf \in Seq(Byte) /\ Len(out_buf) = len
           /\ i \in Nat \ {0} /\ j \in Nat \ {0}
           /\ DictOK(a_extras)
<1>1. <<>> \in Seq(Byte) /\ Len(<<>>) = 0
    BY EmptySeq
<1> QED BY <1>1, EntryFacts DEF TypeInv, TypeOK, WalkTypes, ControlOK, len

\* Leaving an entry.
LEMMA BlankType ==
    ASSUME TypeInv, Blank, pc' = "pick", UNCHANGED <<no_arith, fuzzed, a_extras>>
    PROVE  TypeInv'
<1>1. <<>> \in Seq(Byte) /\ Len(<<>>) = 0 /\ Range(<<>>) = {}
    BY EmptySeq DEF Range
<1>2. TypeOK'
    BY <1>1, DetAssumption DEF Blank, TypeInv, TypeOK, WalkTypes, TokenTypes, EffectorTypes, len
<1>3. ControlOK'
    BY <1>1 DEF Blank, ControlOK, Between, Extending, len
<1>4. DictOK(a_extras)'
    BY DEF TypeInv, DictOK, Distinct, InOrder, Used
<1> QED BY <1>2, <1>3, <1>4 DEF TypeInv

\* Loading the saved tokens, and picking an entry.
LEMMA LoadType == TypeInv /\ (LoadAuto \/ Loaded \/ Pick) => TypeInv'
<1> SUFFICES ASSUME TypeInv PROVE LoadAuto \/ Loaded \/ Pick => TypeInv'
    OBVIOUS
<1>1. ASSUME LoadAuto PROVE TypeInv'
    <2>1. AutoFiles[i] \in Seq(Byte)
        <3>1. i \in 1 .. Len(AutoFiles)
            <4>1. Len(AutoFiles) \in Nat /\ i \in Nat \ {0}
                BY BufferTypes, DetAssumption, LenProperties
            <4> QED BY <1>1, <4>1 DEF LoadAuto
        <3> QED BY <3>1, DetAssumption, ElementOfSeq
    <2>2. DictOK(a_extras')
        BY <1>1, <2>1, AddKeeps DEF LoadAuto, TypeInv
    <2>3. TypeOK'
        <3>1. WalkTypes'
            BY <1>1, BufferTypes DEF LoadAuto, TypeInv, TypeOK, WalkTypes, len
        <3>2. TokenTypes'
            BY <1>1, <2>2, DictTypes DEF LoadAuto, TypeInv, TypeOK, TokenTypes, tokenVars, len
        <3>3. EffectorTypes'
            BY <1>1 DEF LoadAuto, TypeInv, TypeOK, EffectorTypes, effVars, len, EffLen, EffPos
        <3> QED BY <3>1, <3>2, <3>3 DEF TypeOK
    <2>4. ControlOK'
        BY <1>1, BufferTypes
           DEF LoadAuto, TypeInv, ControlOK, len, tokenVars, effVars, Between, Extending
    <2> QED BY <2>2, <2>3, <2>4 DEF TypeInv
<1>2. ASSUME Loaded PROVE TypeInv'
    <2>1. TypeOK'
        BY <1>2, BufferTypes DEF Loaded, TypeInv, TypeOK, WalkTypes, TokenTypes, EffectorTypes,
           len, tokenVars, effVars, EffLen, EffPos
    <2>2. ControlOK'
        BY <1>2, BufferTypes
           DEF Loaded, TypeInv, ControlOK, len, tokenVars, effVars, Between, Extending
    <2> QED BY <1>2, <2>1, <2>2 DEF Loaded, TypeInv
<1>3. ASSUME Pick PROVE TypeInv'
    <2>1. /\ in_buf' \in Inputs /\ out_buf' = in_buf' /\ fuzzed' = fuzzed + 1 /\ fuzzed < MaxFuzz
          /\ pc = "pick" /\ pc' = "flip1"
          /\ UNCHANGED <<no_arith, i, j, last_len, a_extras, tokenVars, effVars, tried>>
        BY <1>3 DEF Pick
    <2>2. /\ i = 1 /\ j = 1 /\ last_len = 0 /\ eff_map = {} /\ inert = {} /\ a_collect = <<>>
          /\ Len(<<>>) = 0 /\ <<>> \in Seq(Byte)
        BY <2>1, EmptySeq, BufferTypes DEF TypeInv, ControlOK, Between, Extending, len
    <2>3. in_buf' \in Seq(Byte) /\ Len(in_buf') \in Nat \ {0} /\ Range(in_buf') \subseteq Byte
        <3>1. in_buf' \in Seq(Byte) /\ Len(in_buf') \in Nat \ {0}
            BY <2>1, EntryFacts
        <3> QED BY <3>1, RangeOfSeq
    <2>4. TypeOK'
        <3>1. WalkTypes'
            BY <2>1, <2>2, <2>3, Limits DEF TypeInv, TypeOK, WalkTypes, len
        <3>2. TokenTypes'
            BY <2>1, <2>2, <2>3 DEF TypeInv, TypeOK, TokenTypes, tokenVars, len
        <3>3. EffectorTypes'
            BY <2>1, <2>2 DEF EffectorTypes, effVars
        <3> QED BY <3>1, <3>2, <3>3 DEF TypeOK
    <2>5. ControlOK'
        BY <2>1, <2>2, <2>3 DEF TypeInv, ControlOK, len, tokenVars, effVars, Between, Extending
    <2>6. DictOK(a_extras)'
        BY <2>1 DEF TypeInv
    <2> QED BY <2>4, <2>5, <2>6 DEF TypeInv
<1> QED BY <1>1, <1>2, <1>3

\* A token that is picked up is a sequence of bytes of the right length.
LEMMA CollectedToken ==
    ASSUME TypeInv, Flip1, a_extras' # a_extras
    PROVE  \E tok \in Seq(Byte) : RightLength(tok) /\ a_extras' \in maybe_add_auto(a_extras, tok)
<1>1. PICK c \in Cksums :
        LET tok  == IF Forced(c) THEN Append(a_collect, out_buf[i]) ELSE a_collect
        IN  RightLength(tok) /\ a_extras' \in maybe_add_auto(a_extras, tok)
    BY DEF Flip1
<1>2. a_collect \in Seq(Byte) /\ Append(a_collect, out_buf[i]) \in Seq(Byte)
    <2>1. i \in 1 .. Len(out_buf)
        BY BufferTypes DEF Flip1
    <2>2. out_buf[i] \in Byte /\ a_collect \in Seq(Byte)
        BY <2>1, BufferTypes, ElementOfSeq DEF TypeInv, ControlOK
    <2> QED BY <2>2, AppendProperties
<1> QED BY <1>1, <1>2

\* Flipping bits collects no more bytes than there are.
LEMMA Flip1Type == TypeInv /\ Flip1 => TypeInv'
<1> SUFFICES ASSUME TypeInv, Flip1 PROVE TypeInv'
    OBVIOUS
<1>1. PICK c \in Cksums :
        LET ch   == out_buf[i]
            tok  == IF Forced(c) THEN Append(a_collect, ch) ELSE a_collect
            ends == Forced(c) \/ c # prev_cksum
            kept == IF c # prev_cksum THEN <<>> ELSE tok
        IN  /\ IF ends /\ RightLength(tok)
               THEN a_extras' \in maybe_add_auto(a_extras, tok) /\ tokens' = tokens \cup {tok}
               ELSE UNCHANGED <<a_extras, tokens>>
            /\ prev_cksum' = c
            /\ a_collect' = IF c # Same THEN Append(kept, ch) ELSE kept
            /\ cksums' = Append(cksums, c)
    BY DEF Flip1
<1>2. /\ pc = "flip1" /\ pc' = pc /\ i <= len /\ i' = i + 1
      /\ UNCHANGED <<no_arith, fuzzed, in_buf, out_buf, j, last_len, effVars, tried>>
    BY DEF Flip1
<1> DEFINE tok  == IF Forced(c) THEN Append(a_collect, out_buf[i]) ELSE a_collect
           kept == IF c # prev_cksum THEN <<>> ELSE tok
<1>3. /\ len \in Nat \ {0} /\ i \in 1 .. len /\ out_buf[i] \in Byte
      /\ a_collect \in Seq(Byte) /\ Len(a_collect) \in Nat /\ Len(a_collect) < i
    <2>1. len \in Nat \ {0} /\ i \in 1 .. len
        BY <1>2, BufferTypes DEF TypeInv, ControlOK, Between
    <2>2. out_buf[i] \in Byte
        BY <2>1, BufferTypes, ElementOfSeq
    <2> QED BY <1>2, <2>1, <2>2, LenProperties DEF TypeInv, ControlOK
<1>4. tok \in Seq(Byte) /\ Len(tok) \in Nat /\ Len(tok) <= IF i = len THEN i ELSE i - 1
    <2>1. Forced(c) => i = len
        BY DEF Forced
    <2>2. Append(a_collect, out_buf[i]) \in Seq(Byte)
          /\ Len(Append(a_collect, out_buf[i])) = Len(a_collect) + 1
        BY <1>3, AppendProperties
    <2> QED BY <1>3, <2>1, <2>2
<1>5. kept \in Seq(Byte) /\ Len(kept) \in Nat /\ Len(kept) <= IF i = len THEN i ELSE i - 1
    BY <1>3, <1>4, EmptySeq
<1>6. a_collect' \in Seq(Byte) /\ Len(a_collect') \in Nat
      /\ Len(a_collect') <= IF i = len THEN i + 1 ELSE i
    <2>1. Append(kept, out_buf[i]) \in Seq(Byte) /\ Len(Append(kept, out_buf[i])) = Len(kept) + 1
        BY <1>3, <1>5, AppendProperties
    <2>2. a_collect' = IF c # Same THEN Append(kept, out_buf[i]) ELSE kept
        BY <1>1
    <2> HIDE DEF kept
    <2> QED BY <1>3, <1>5, <2>1, <2>2
<1>7. DictOK(a_extras')
    <2>1. a_extras' = a_extras \/ (RightLength(tok) /\ a_extras' \in maybe_add_auto(a_extras, tok))
        BY <1>1
    <2> HIDE DEF tok
    <2> QED BY <1>4, <2>1, AddKeeps DEF TypeInv
<1>8. prev_cksum' \in Cksums
    BY <1>1
<1>9. TypeOK'
    <2>1. WalkTypes'
        BY <1>2, <1>3 DEF TypeInv, TypeOK, WalkTypes, len
    <2>2. TokenTypes'
        BY <1>2, <1>3, <1>6, <1>7, <1>8, DictTypes DEF TokenTypes, len
    <2>3. EffectorTypes'
        BY <1>2 DEF TypeInv, TypeOK, EffectorTypes, effVars, len, EffLen, EffPos
    <2> QED BY <2>1, <2>2, <2>3 DEF TypeOK
<1>10. ControlOK'
    BY <1>2, <1>3, <1>6 DEF TypeInv, ControlOK, len, effVars, Between, Extending
<1> QED BY <1>7, <1>9, <1>10 DEF TypeInv

\* The effector map has one flag per block of the entry.
LEMMA FlipType == TypeInv /\ (Flip2And4 \/ Flip8 \/ FillMap \/ RunWordStages) => TypeInv'
<1> SUFFICES ASSUME TypeInv PROVE Flip2And4 \/ Flip8 \/ FillMap \/ RunWordStages => TypeInv'
    OBVIOUS
<1>1. ASSUME Flip2And4 PROVE TypeInv'
    <2>1. len \in Nat \ {0}
        BY <1>1, BufferTypes DEF Flip2And4, TypeInv, ControlOK, Between
    <2>2. {EffPos(1), EffPos(len)} \subseteq 0 .. EffLen - 1
        BY <2>1, EffectorRange
    <2>3. <<>> \in Seq(Byte) /\ Len(<<>>) = 0
        BY EmptySeq
    <2>4. TypeOK'
        <3>1. WalkTypes'
            BY <1>1 DEF Flip2And4, TypeInv, TypeOK, WalkTypes, len
        <3>2. TokenTypes'
            BY <1>1, <2>1, <2>3, DetAssumption DEF Flip2And4, TypeInv, TypeOK, TokenTypes, len
        <3>3. EffectorTypes'
            BY <1>1, <2>2 DEF Flip2And4, TypeInv, TypeOK, EffectorTypes, len, EffLen, EffPos
        <3> QED BY <3>1, <3>2, <3>3 DEF TypeOK
    <2>5. ControlOK'
        BY <1>1, <2>1, <2>3 DEF Flip2And4, TypeInv, ControlOK, len, Between, Extending
    <2> QED BY <1>1, <2>4, <2>5 DEF Flip2And4, TypeInv
<1>2. ASSUME Flip8 PROVE TypeInv'
    <2>1. len \in Nat \ {0} /\ i \in 1 .. len
        BY <1>2, BufferTypes DEF Flip8, TypeInv, ControlOK, Between
    <2>2. EffPos(i) \in 0 .. EffLen - 1
        BY <2>1, EffectorRange
    <2>3. inert' \subseteq 1 .. len /\ (eff_map' # {} => eff_map' \subseteq 0 .. EffLen - 1)
        BY <1>2, <2>1, <2>2 DEF Flip8, TypeInv, TypeOK, EffectorTypes
    <2>4. TypeOK'
        BY <1>2, <2>1, <2>3 DEF Flip8, TypeInv, TypeOK, WalkTypes, TokenTypes, EffectorTypes,
           len, tokenVars, EffLen, EffPos
    <2>5. ControlOK'
        BY <1>2, <2>1 DEF Flip8, TypeInv, ControlOK, len, tokenVars, Between, Extending
    <2> QED BY <1>2, <2>4, <2>5 DEF Flip8, TypeInv
<1>3. ASSUME FillMap PROVE TypeInv'
    <2>1. eff_map' # {} => eff_map' \subseteq 0 .. EffLen - 1
        BY <1>3 DEF FillMap, FullMap, TypeInv, TypeOK, EffectorTypes
    <2>2. TypeOK'
        BY <1>3, <2>1 DEF FillMap, TypeInv, TypeOK, WalkTypes, TokenTypes, EffectorTypes, len,
           tokenVars, EffLen, EffPos
    <2>3. ControlOK'
        BY <1>3, BufferTypes DEF FillMap, TypeInv, ControlOK, len, tokenVars, Between, Extending
    <2> QED BY <1>3, <2>2, <2>3 DEF FillMap, TypeInv
<1>4. ASSUME RunWordStages PROVE TypeInv'
    <2>1. TypeOK'
        BY <1>4 DEF RunWordStages, TypeInv, TypeOK, WalkTypes, TokenTypes, EffectorTypes, len,
           tokenVars, effVars, EffLen, EffPos
    <2>2. Len(Tokens') \in Nat
        <3>1. DictOK(a_extras)'
            BY <1>4 DEF RunWordStages, TypeInv
        <3> QED BY <1>4, DetAssumption, LenProperties DEF RunWordStages, Tokens
    <2>3. ControlOK'
        BY <1>4, <2>2, BufferTypes
           DEF RunWordStages, TypeInv, ControlOK, len, tokenVars, effVars, Between, Extending
    <2> QED BY <1>4, <2>1, <2>3 DEF RunWordStages, TypeInv
<1> QED BY <1>1, <1>2, <1>3, <1>4

\* Tokens overwrite, and the restoring of the buffer, change its bytes only.
LEMMA TokenType ==
    TypeInv /\ (OverwriteToken \/ RestoreBuffer \/ InsertExtras) => TypeInv'
<1> SUFFICES ASSUME TypeInv PROVE OverwriteToken \/ RestoreBuffer \/ InsertExtras => TypeInv'
    OBVIOUS
<1> DEFINE Goal == /\ out_buf' \in Seq(Byte) /\ Len(out_buf') = len
                   /\ last_len' \in 0 .. len /\ i + last_len' <= len + 1
<1>1. ASSUME OverwriteToken PROVE TypeInv'
    <2> DEFINE tok == Tokens[j]
    <2>1. /\ pc \in Extending /\ pc' = pc /\ i \in 1 .. len /\ j \in 1 .. Len(Tokens) /\ j' = j + 1
          /\ len \in Nat \ {0} /\ tok \in Seq(Byte) /\ Len(tok) \in Nat
          /\ UNCHANGED <<no_arith, fuzzed, in_buf, i, a_extras, tokenVars, effVars>>
        BY <1>1, TokenFacts, BufferTypes DEF OverwriteToken, TypeInv, ControlOK, Extending, Between
    <2>2. \/ out_buf' = out_buf /\ last_len' = last_len
          \/ Fits(tok, i) /\ out_buf' = Put(out_buf, i, tok) /\ last_len' = Len(tok)
        BY <1>1 DEF OverwriteToken
    <2>3. Goal
        <3>1. Put(out_buf, i, tok) \in Seq(Byte) /\ Len(Put(out_buf, i, tok)) = len
            BY <2>1, BufferTypes, PutType
        <3>2. Fits(tok, i) => Len(tok) \in 0 .. len /\ i + Len(tok) <= len + 1
            BY <2>1 DEF Fits
        <3>3. last_len \in 0 .. len /\ i + last_len <= len + 1
            BY <2>1 DEF TypeInv, TypeOK, WalkTypes, ControlOK
        <3> QED BY <2>2, <3>1, <3>2, <3>3, BufferTypes
    <2>4. Range(out_buf') \subseteq Byte
        BY <2>3, RangeOfSeq
    <2>5. Tokens' = Tokens
        BY <2>1 DEF Tokens, AutoTokens
    <2>6. TypeOK'
        <3>1. j' \in Nat \ {0} /\ last_len' \in 0 .. len /\ Len(out_buf') = len
            BY <2>1, <2>3, BufferTypes
        <3> QED BY <2>1, <2>4, <3>1 DEF TypeInv, TypeOK, WalkTypes, TokenTypes, EffectorTypes,
           len, tokenVars, effVars, EffLen, EffPos
    <2>7. ControlOK'
        BY <2>1, <2>3, <2>5, BufferTypes, TokenFacts
           DEF TypeInv, ControlOK, len, tokenVars, effVars, Between, Extending
    <2> QED BY <2>1, <2>6, <2>7 DEF TypeInv
<1>2. ASSUME RestoreBuffer PROVE TypeInv'
    <2>1. /\ pc \in Extending /\ pc' = pc /\ i \in 1 .. len /\ i' = i + 1 /\ j' = 1 /\ last_len' = 0
          /\ len \in Nat \ {0} /\ last_len \in 0 .. len /\ i + last_len <= len + 1
          /\ out_buf' = Put(out_buf, i, Word(in_buf, i, last_len))
          /\ UNCHANGED <<no_arith, fuzzed, in_buf, a_extras, tokenVars, effVars>>
        BY <1>2, BufferTypes DEF RestoreBuffer, TypeInv, TypeOK, WalkTypes, ControlOK,
           Extending, Between
    <2>2. Word(in_buf, i, last_len) \in Seq(Byte)
        <3>1. in_buf \in Seq(Byte) /\ i \in Nat \ {0}
              /\ last_len \in Nat /\ i + last_len - 1 <= Len(in_buf)
            BY <2>1, BufferTypes DEF len
        <3> QED BY <3>1, WordFacts
    <2>3. out_buf' \in Seq(Byte) /\ Len(out_buf') = len /\ Range(out_buf') \subseteq Byte
        <3>1. out_buf' \in Seq(Byte) /\ Len(out_buf') = len
            BY <2>1, <2>2, BufferTypes, PutType
        <3> QED BY <3>1, RangeOfSeq
    <2>4. Tokens' = Tokens /\ Len(Tokens) \in Nat
        BY <2>1, TokenFacts DEF Tokens, AutoTokens, TypeInv
    <2>5. TypeOK'
        BY <2>1, <2>3 DEF TypeInv, TypeOK, WalkTypes, TokenTypes, EffectorTypes, len, tokenVars,
           effVars, EffLen, EffPos
    <2>6. ControlOK'
        BY <2>1, <2>3, <2>4 DEF TypeInv, ControlOK, len, tokenVars, effVars, Between, Extending
    <2> QED BY <2>1, <2>5, <2>6 DEF TypeInv
<1>3. ASSUME InsertExtras PROVE TypeInv'
    <2>1. /\ pc = "ext_UO" /\ pc' = "ext_AO" /\ i' = 1 /\ len \in Nat \ {0} /\ j = 1 /\ last_len = 0
          /\ UNCHANGED <<no_arith, fuzzed, in_buf, out_buf, j, last_len, a_extras, tokenVars, effVars>>
        BY <1>3, BufferTypes DEF InsertExtras, TypeInv, ControlOK, Between, Extending
    <2>2. TypeOK'
        BY <2>1 DEF TypeInv, TypeOK, WalkTypes, TokenTypes, EffectorTypes, len, tokenVars,
           effVars, EffLen, EffPos
    <2>3. Len(AutoTokens') \in Nat
        <3>1. Used(a_extras') = Used(a_extras) /\ AutoTokens' = AutoTokens
            BY <2>1 DEF AutoTokens
        <3>2. AutoTokens \in Seq(Seq(Byte))
            BY AutoTokenFacts DEF TypeInv
        <3> QED BY <3>1, <3>2, LenProperties
    <2>4. ControlOK'
        BY <2>1, <2>3 DEF TypeInv, ControlOK, len, tokenVars, effVars, Between, Extending, Tokens
    <2> QED BY <2>1, <2>2, <2>4 DEF TypeInv
<1> QED BY <1>1, <1>2, <1>3

\* Every step preserves the types and keeps the dictionary clean and sorted.
LEMMA TypeStep == TypeInv /\ [Next]_vars => TypeInv'
<1> SUFFICES ASSUME TypeInv, [Next]_vars PROVE TypeInv'
    OBVIOUS
<1>1. CASE LoadAuto \/ Loaded \/ Pick
    BY <1>1, LoadType
<1>2. CASE Flip1
    BY <1>2, Flip1Type
<1>3. CASE Flip2And4 \/ Flip8 \/ FillMap \/ RunWordStages
    BY <1>3, FlipType
<1>4. CASE OverwriteToken \/ RestoreBuffer \/ InsertExtras
    BY <1>4, TokenType
<1>5. CASE Abandon \/ Finish
    BY <1>5, BlankType DEF Abandon, Finish
<1>6. CASE Over \/ UNCHANGED vars
    <2>1. UNCHANGED vars
        BY <1>6 DEF Over
    <2>2. TypeOK'
        BY <2>1 DEF vars, TypeInv, TypeOK, WalkTypes, TokenTypes, EffectorTypes, len, tokenVars,
           effVars, EffLen, EffPos
    <2>3. ControlOK'
        BY <2>1 DEF vars, TypeInv, ControlOK, len, tokenVars, effVars, Between, Extending, Tokens,
                    AutoTokens
    <2> QED BY <2>1, <2>2, <2>3 DEF vars, TypeInv
<1> QED BY <1>1, <1>2, <1>3, <1>4, <1>5, <1>6 DEF Next

\* The types hold in every state.
LEMMA TypeAlways == Spec => []TypeInv
BY InitType, TypeStep, PTL DEF Spec

\* Every variable has its type for every input and dictionary, and the effector map its length.
THEOREM TypeCorrect == Spec => []TypeOK
<1>1. TypeInv => TypeOK
    BY DEF TypeInv
<1> QED BY <1>1, TypeAlways, PTL

\* The dictionary never holds two tokens that differ in case only, nor one of the user's, and
\* the tokens in use have been seen at least as often as the others.
THEOREM DictionaryAlways == Spec => []DictionaryClean
<1>1. ASSUME TypeInv PROVE DictionaryClean
    <2>1. /\ Distinct(a_extras) /\ InOrder(a_extras) /\ Len(a_extras) \in Nat
          /\ DOMAIN a_extras = 1 .. Len(a_extras)
        BY <1>1, LenProperties DEF TypeInv, DictOK, Distinct
    <2>2. \A k \in Used(a_extras), m \in DOMAIN a_extras \ Used(a_extras) :
             k \in DOMAIN a_extras /\ k < m
        BY <2>1, DetAssumption DEF Used
    <2>3. \A k \in Used(a_extras), m \in DOMAIN a_extras \ Used(a_extras) :
             a_extras[k].hit_cnt >= a_extras[m].hit_cnt
        BY <2>1, <2>2 DEF InOrder
    <2> QED BY <2>1, <2>3 DEF DictionaryClean, Distinct
<1> QED BY <1>1, TypeAlways, PTL

\* Room for a new token is never made by dropping one that is in use.
THEOREM UsedAlways == Spec => UsedSurvive
<1>1. ASSUME TypeInv, [Next]_vars
      PROVE  \A k \in Used(a_extras) : \E m \in DOMAIN a_extras' : a_extras'[m].data = a_extras[k].data
    <2>1. CASE UNCHANGED a_extras
        <3>1. Used(a_extras) \subseteq DOMAIN a_extras
            BY <1>1, LenProperties, DetAssumption DEF TypeInv, DictOK, Distinct, Used
        <3> QED BY <2>1, <3>1
    <2>2. CASE LoadAuto /\ ~UNCHANGED a_extras
        <3>1. AutoFiles[i] \in Seq(Byte) /\ RightLength(AutoFiles[i])
              /\ a_extras' \in maybe_add_auto(a_extras, AutoFiles[i])
            <4>1. i \in 1 .. Len(AutoFiles)
                <5>1. Len(AutoFiles) \in Nat /\ i \in Nat \ {0}
                    BY <1>1, BufferTypes, DetAssumption, LenProperties
                <5> QED BY <2>2, <5>1 DEF LoadAuto
            <4> QED BY <2>2, <4>1, DetAssumption, ElementOfSeq DEF LoadAuto
        <3> QED BY <1>1, <3>1, AddKeeps DEF TypeInv
    <2>3. CASE Flip1 /\ ~UNCHANGED a_extras
        <3>1. PICK tok \in Seq(Byte) : RightLength(tok) /\ a_extras' \in maybe_add_auto(a_extras, tok)
            BY <1>1, <2>3, CollectedToken
        <3> QED BY <1>1, <3>1, AddKeeps DEF TypeInv
    <2>4. CASE ~LoadAuto /\ ~Flip1
        <3>1. CASE Loaded \/ Pick \/ Flip2And4 \/ Flip8 \/ FillMap \/ RunWordStages
            BY <2>1, <3>1 DEF Loaded, Pick, Flip2And4, Flip8, FillMap, RunWordStages
        <3>2. CASE OverwriteToken \/ RestoreBuffer \/ InsertExtras
            <4>1. OverwriteToken => UNCHANGED a_extras
                BY DEF OverwriteToken
            <4>2. RestoreBuffer => UNCHANGED a_extras
                BY DEF RestoreBuffer
            <4>3. InsertExtras => UNCHANGED a_extras
                BY DEF InsertExtras
            <4> QED BY <2>1, <3>2, <4>1, <4>2, <4>3
        <3>3. CASE Abandon \/ Finish \/ Over \/ UNCHANGED vars
            BY <2>1, <3>3 DEF Abandon, Finish, Over, vars
        <3> QED BY <1>1, <2>4, <3>1, <3>2, <3>3 DEF Next
    <2> QED BY <2>1, <2>2, <2>3, <2>4
<1>2. TypeInv /\ [Next]_vars =>
        [\A k \in Used(a_extras) : \E m \in DOMAIN a_extras' : a_extras'[m].data = a_extras[k].data]_vars
    BY <1>1
<1> QED BY <1>2, TypeAlways, PTL DEF Spec, UsedSurvive

-----------------------------------------------------------------------------
(* Laying tokens over the entry and taking them away again.                 *)

\* c is b but for the n bytes from p on.
AgreeBut(c, b, p, n) ==
    /\ c \in Seq(Byte) /\ Len(c) = Len(b)
    /\ \A k \in 1 .. Len(b) : k \notin p .. p + n - 1 => c[k] = b[k]

\* A word overwritten in a buffer changes the bytes it lies on only.
LEMMA PutAgrees ==
    ASSUME NEW b \in Seq(Byte), NEW p \in Nat, NEW w \in Seq(Byte)
    PROVE  AgreeBut(Put(b, p, w), b, p, Len(w))
<1>1. Put(b, p, w) \in Seq(Byte) /\ Len(Put(b, p, w)) = Len(b)
    BY PutType
<1>2. \A k \in 1 .. Len(b) : k \notin p .. p + Len(w) - 1 => Put(b, p, w)[k] = b[k]
    BY PutBytes
<1> QED BY <1>1, <1>2 DEF AgreeBut

\* A token hides what an earlier one, no longer, has left.
LEMMA PutHides ==
    ASSUME NEW b \in Seq(Byte), NEW p \in Nat, NEW w \in Seq(Byte), NEW n \in Nat, n <= Len(w),
           NEW c, AgreeBut(c, b, p, n)
    PROVE  Put(c, p, w) = Put(b, p, w)
<1>1. Len(b) \in Nat /\ Len(w) \in Nat /\ c \in Seq(Byte) /\ Len(c) = Len(b)
    BY LenProperties DEF AgreeBut
<1>2. \A k \in 1 .. Len(b) : Put(c, p, w)[k] = Put(b, p, w)[k]
    <2> TAKE k \in 1 .. Len(b)
    <2>1. /\ Put(c, p, w)[k] = IF k \in p .. p + Len(w) - 1 THEN w[k - p + 1] ELSE c[k]
          /\ Put(b, p, w)[k] = IF k \in p .. p + Len(w) - 1 THEN w[k - p + 1] ELSE b[k]
        BY <1>1, PutBytes
    <2>2. k \notin p .. p + Len(w) - 1 => c[k] = b[k]
        BY <1>1 DEF AgreeBut
    <2> QED BY <2>1, <2>2
<1> QED BY <1>1, <1>2, PutType, SeqEqual

\* Writing back what the entry has there restores it.
LEMMA PutRestores ==
    ASSUME NEW b \in Seq(Byte), NEW p \in Nat \ {0}, NEW n \in Nat, p + n - 1 <= Len(b),
           NEW c, AgreeBut(c, b, p, n)
    PROVE  Put(c, p, Word(b, p, n)) = b
<1>1. Len(b) \in Nat /\ c \in Seq(Byte) /\ Len(c) = Len(b)
    BY LenProperties DEF AgreeBut
<1>2. /\ Word(b, p, n) \in Seq(Byte) /\ Len(Word(b, p, n)) = n
      /\ \A k \in 1 .. n : Word(b, p, n)[k] = b[p + k - 1]
    BY WordFacts
<1>3. \A k \in 1 .. Len(b) : Put(c, p, Word(b, p, n))[k] = b[k]
    <2> TAKE k \in 1 .. Len(b)
    <2>1. Put(c, p, Word(b, p, n))[k] = IF k \in p .. p + n - 1 THEN Word(b, p, n)[k - p + 1] ELSE c[k]
        BY <1>1, <1>2, PutBytes
    <2>2. k \notin p .. p + n - 1 => c[k] = b[k]
        BY DEF AgreeBut
    <2>3. ASSUME k \in p .. p + n - 1 PROVE Word(b, p, n)[k - p + 1] = b[k]
        <3>1. k - p + 1 \in 1 .. n /\ p + (k - p + 1) - 1 = k
            BY <2>3
        <3> QED BY <1>2, <3>1
    <2> QED BY <2>1, <2>2, <2>3
<1> QED BY <1>1, <1>2, <1>3, PutType, SeqEqual

\* A token that is there already need not be written.
LEMMA PutThere ==
    ASSUME NEW b \in Seq(Byte), NEW p \in Nat \ {0}, NEW w \in Seq(Byte), p + Len(w) - 1 <= Len(b),
           NEW n \in Nat, n <= Len(w), NEW c, AgreeBut(c, b, p, n), Word(c, p, Len(w)) = w
    PROVE  c = Put(b, p, w)
<1>1. Len(b) \in Nat /\ Len(w) \in Nat /\ c \in Seq(Byte) /\ Len(c) = Len(b)
    BY LenProperties DEF AgreeBut
<1>2. \A k \in 1 .. Len(w) : w[k] = c[p + k - 1]
    <2>1. p + Len(w) - 1 <= Len(c)
        BY <1>1
    <2>2. \A k \in 1 .. Len(w) : Word(c, p, Len(w))[k] = c[p + k - 1]
        BY <1>1, <2>1, WordFacts
    <2> QED BY <2>2
<1>3. \A k \in 1 .. Len(b) : c[k] = Put(b, p, w)[k]
    <2> TAKE k \in 1 .. Len(b)
    <2>1. Put(b, p, w)[k] = IF k \in p .. p + Len(w) - 1 THEN w[k - p + 1] ELSE b[k]
        BY PutBytes
    <2>2. k \notin p .. p + Len(w) - 1 => c[k] = b[k]
        BY <1>1 DEF AgreeBut
    <2>3. ASSUME k \in p .. p + Len(w) - 1 PROVE w[k - p + 1] = c[k]
        <3>1. k - p + 1 \in 1 .. Len(w) /\ p + (k - p + 1) - 1 = k
            BY <1>1, <2>3
        <3> QED BY <1>2, <3>1
    <2> QED BY <2>1, <2>2, <2>3
<1> QED BY <1>1, <1>3, PutType, SeqEqual

\* In the dictionary stages out_buf differs from the entry by the last token at most, and
\* the next is no shorter.
LEMMA BufferFacts ==
    ASSUME TypeInv, BufferInv, pc \in Extending
    PROVE  /\ AgreeBut(out_buf, in_buf, i, last_len) /\ last_len \in Nat
           /\ out_buf \in tried \cup {in_buf}
           /\ (j = 1 => last_len = 0 /\ out_buf = in_buf)
           /\ (j <= Len(Tokens) => last_len <= Len(Tokens[j]))
<1>1. CASE last_len = 0 /\ out_buf = in_buf
    <2>1. j <= Len(Tokens) => j \in DOMAIN Tokens /\ Len(Tokens[j]) \in Nat
        BY BufferTypes, TokenFacts
    <2> QED BY <1>1, <2>1, BufferTypes DEF AgreeBut
<1>2. CASE \E m \in 1 .. j - 1 :
             /\ last_len = Len(Tokens[m]) /\ Fits(Tokens[m], i)
             /\ out_buf = Put(in_buf, i, Tokens[m]) /\ out_buf \in tried
    <2>1. PICK m \in 1 .. j - 1 :
             /\ last_len = Len(Tokens[m]) /\ Fits(Tokens[m], i)
             /\ out_buf = Put(in_buf, i, Tokens[m]) /\ out_buf \in tried
        BY <1>2
    <2>2. j \in Nat \ {0} /\ j <= Len(Tokens) + 1 /\ i \in Nat
          /\ in_buf \in Seq(Byte) /\ DictOK(a_extras)
        BY BufferTypes DEF TypeInv, ControlOK
    <2>3. m \in DOMAIN Tokens /\ Tokens[m] \in Seq(Byte) /\ Len(Tokens[m]) \in Nat
        BY <2>2, TokenFacts
    <2>4. j <= Len(Tokens) => Len(Tokens[m]) <= Len(Tokens[j])
        BY <2>2, <2>3, TokenFacts
    <2>5. AgreeBut(out_buf, in_buf, i, last_len)
        BY <2>1, <2>2, <2>3, PutAgrees
    <2> QED BY <2>1, <2>2, <2>3, <2>4, <2>5
<1> QED BY <1>1, <1>2 DEF BufferInv, Extending

\* What writing a token over position i does.
LEMMA OverwriteFacts ==
    ASSUME TypeInv, BufferInv, OverwriteToken
    PROVE  /\ pc \in Extending /\ pc' = pc /\ i \in 1 .. len /\ i' = i
           /\ j \in DOMAIN Tokens /\ j' = j + 1
           /\ in_buf' = in_buf /\ Tokens' = Tokens /\ inert' = inert /\ eff_map' = eff_map
           /\ tried \subseteq tried'
           /\ \/ UNCHANGED <<out_buf, last_len, tried>>
              \/ /\ Fits(Tokens[j], i) /\ last_len' = Len(Tokens[j])
                 /\ out_buf' = Put(in_buf, i, Tokens[j]) /\ out_buf' \in tried'
<1> DEFINE tok == Tokens[j]
           try == /\ Fits(tok, i) /\ Word(out_buf, i, Len(tok)) # tok
                  /\ \E e \in EffPos(i) .. EffPos(i + Len(tok) - 1) : e \in eff_map
<1>1. /\ pc \in Extending /\ pc' = pc /\ i <= len /\ j <= Len(Tokens) /\ j' = j + 1
      /\ UNCHANGED <<in_buf, i, a_extras, eff_map, inert>>
      /\ out_buf' = IF try THEN Put(out_buf, i, tok) ELSE out_buf
      /\ last_len' = IF try THEN Len(tok) ELSE last_len
      /\ tried' = IF try THEN tried \cup {out_buf'} ELSE tried
    BY DEF OverwriteToken, effVars, Extending
<1>2. /\ i \in Nat \ {0} /\ j \in DOMAIN Tokens /\ in_buf \in Seq(Byte) /\ tok \in Seq(Byte)
      /\ i \in 1 .. len
    BY <1>1, BufferTypes, TokenFacts
<1>3. Tokens' = Tokens
    BY <1>1 DEF Tokens, AutoTokens
<1>4. Put(out_buf, i, tok) = Put(in_buf, i, tok)
    BY <1>1, <1>2, BufferFacts, PutHides
<1>5. CASE try
    BY <1>1, <1>2, <1>3, <1>4, <1>5
<1>6. CASE ~try
    BY <1>1, <1>2, <1>3, <1>6
<1> QED BY <1>5, <1>6

\* What restoring the buffer does.
LEMMA RestoreFacts ==
    ASSUME TypeInv, BufferInv, RestoreBuffer
    PROVE  /\ pc \in Extending /\ pc' = pc /\ i \in 1 .. len /\ i' = i + 1
           /\ j = Len(Tokens) + 1 /\ j' = 1
           /\ in_buf' = in_buf /\ Tokens' = Tokens /\ inert' = inert /\ eff_map' = eff_map
           /\ tried' = tried /\ last_len' = 0 /\ out_buf' = in_buf
<1>1. /\ pc \in Extending /\ pc' = pc /\ i <= len /\ j = Len(Tokens) + 1 /\ i' = i + 1 /\ j' = 1
      /\ UNCHANGED <<in_buf, a_extras, eff_map, inert, tried>> /\ last_len' = 0
      /\ out_buf' = Put(out_buf, i, Word(in_buf, i, last_len))
    BY DEF RestoreBuffer, effVars, Extending
<1>2. i \in 1 .. len /\ i \in Nat \ {0} /\ in_buf \in Seq(Byte) /\ i + last_len - 1 <= Len(in_buf)
    BY <1>1, BufferTypes, BufferFacts DEF TypeInv, ControlOK, len
<1>3. out_buf' = in_buf
    BY <1>1, <1>2, BufferFacts, PutRestores
<1>4. Tokens' = Tokens
    BY <1>1 DEF Tokens, AutoTokens
<1> QED BY <1>1, <1>2, <1>3, <1>4

\* Every step keeps out_buf the entry with at most the last token over it.
LEMMA BufferStep == TypeInv /\ BufferInv /\ [Next]_vars => BufferInv'
<1> SUFFICES ASSUME TypeInv, BufferInv, [Next]_vars PROVE BufferInv'
    OBVIOUS
<1>1. CASE LoadAuto \/ Loaded \/ Abandon \/ Finish
    <2>1. pc' \in {"load", "pick"}
        BY <1>1 DEF LoadAuto, Loaded, Abandon, Finish
    <2> QED BY <2>1 DEF BufferInv, Flipping, Extending
<1>2. CASE Pick \/ Flip1 \/ Flip2And4 \/ Flip8 \/ FillMap
    <2>1. pc' \in Flipping /\ out_buf' = in_buf'
        BY <1>2 DEF Pick, Flip1, Flip2And4, Flip8, FillMap, BufferInv, Flipping
    <2> QED BY <2>1 DEF BufferInv, Flipping, Extending
<1>3. CASE RunWordStages \/ InsertExtras
    <2>1. /\ pc' \in Extending /\ UNCHANGED <<in_buf, out_buf, last_len>>
          /\ last_len = 0 /\ out_buf = in_buf
        <3>1. CASE RunWordStages
            BY <3>1 DEF RunWordStages, TypeInv, ControlOK, BufferInv, Flipping, Extending
        <3>2. CASE InsertExtras
            <4>1. pc \in Extending /\ j = 1
                BY <3>2, BufferTypes DEF InsertExtras, TypeInv, ControlOK, Extending
            <4> QED BY <3>2, <4>1, BufferFacts DEF InsertExtras, Extending
        <3> QED BY <1>3, <3>1, <3>2
    <2> QED BY <2>1 DEF BufferInv, Flipping, Extending
<1>4. CASE OverwriteToken
    <2>1. pc' \in Extending /\ pc' \notin Flipping
          /\ j \in Nat \ {0} /\ j' = j + 1 /\ i' = i /\ in_buf' = in_buf
          /\ Tokens' = Tokens
        BY <1>4, OverwriteFacts, BufferTypes DEF Flipping, Extending
    <2>2. CASE UNCHANGED <<out_buf, last_len, tried>>
        <3>1. CASE last_len = 0 /\ out_buf = in_buf
            BY <2>1, <2>2, <3>1 DEF BufferInv
        <3>2. CASE \E m \in 1 .. j - 1 :
                     /\ last_len = Len(Tokens[m]) /\ Fits(Tokens[m], i)
                     /\ out_buf = Put(in_buf, i, Tokens[m]) /\ out_buf \in tried
            <4>1. PICK m \in 1 .. j - 1 :
                     /\ last_len = Len(Tokens[m]) /\ Fits(Tokens[m], i)
                     /\ out_buf = Put(in_buf, i, Tokens[m]) /\ out_buf \in tried
                BY <3>2
            <4>2. m \in 1 .. j' - 1
                BY <2>1
            <4>3. Fits(Tokens[m], i)'
                BY <2>1, <4>1 DEF Fits, len
            <4> QED BY <2>1, <2>2, <4>1, <4>2, <4>3 DEF BufferInv
        <3>3. pc \in Extending
            BY <1>4, OverwriteFacts
        <3> QED BY <3>1, <3>2, <3>3 DEF BufferInv
    <2>3. CASE /\ Fits(Tokens[j], i) /\ last_len' = Len(Tokens[j])
               /\ out_buf' = Put(in_buf, i, Tokens[j]) /\ out_buf' \in tried'
        <3>1. j \in 1 .. j' - 1
            BY <2>1
        <3> QED BY <2>1, <2>3, <3>1 DEF BufferInv, Fits, len
    <2> QED BY <1>4, <2>2, <2>3, OverwriteFacts
<1>5. CASE RestoreBuffer
    BY <1>5, RestoreFacts DEF BufferInv, Flipping, Extending
<1>6. CASE Over \/ UNCHANGED vars
    <2>1. UNCHANGED vars
        BY <1>6 DEF Over
    <2> QED BY <2>1 DEF vars, BufferInv, Tokens, AutoTokens, Fits, len
<1> QED BY <1>1, <1>2, <1>3, <1>4, <1>5, <1>6 DEF Next

\* Every state has the entry with at most one token over it.
LEMMA BufferAlways == Spec => [](TypeInv /\ BufferInv)
<1>1. Init => BufferInv
    BY DEF Init, BufferInv, Flipping, Extending
<1>2. TypeInv /\ BufferInv /\ [Next]_vars => BufferInv'
    BY BufferStep
<1> QED BY <1>1, <1>2, TypeAlways, PTL DEF Spec

\* Before each position of the dictionary stages out_buf is the entry again, since no token
\* is shorter than the one it was written over.
THEOREM BufferAlwaysRestored == Spec => []BufferRestored
<1>1. ASSUME TypeInv, BufferInv PROVE BufferRestored
    BY <1>1, BufferFacts DEF BufferRestored, Extending
<1> QED BY <1>1, BufferAlways, PTL

-----------------------------------------------------------------------------
(* The effector map, and the tokens tried.                                  *)

\* A flag is never taken back, and a byte without one was flipped to no effect.
LEMMA EffectorStep == TypeInv /\ EffectorInv /\ [Next]_vars => EffectorInv'
<1> SUFFICES ASSUME TypeInv, EffectorInv, [Next]_vars PROVE EffectorInv'
    OBVIOUS
<1>1. CASE LoadAuto \/ Loaded \/ Pick \/ Abandon \/ Finish \/ Flip1 \/ Flip2And4
    <2>1. Asked' \in {0}
        BY <1>1 DEF LoadAuto, Loaded, Pick, Abandon, Finish, Flip1, Flip2And4, Asked, Extending
    <2> QED BY <2>1 DEF EffectorInv
<1>2. CASE Flip8
    <2>1. Asked = i - 1 /\ Asked' = i /\ i \in Nat \ {0}
          /\ eff_map \subseteq eff_map' /\ inert \subseteq inert'
          /\ (i \in inert' \/ EffPos(i) \in eff_map')
        BY <1>2, BufferTypes DEF Flip8, Asked, len
    <2>2. \A p \in 1 .. i : p \in 1 .. i - 1 \/ p = i
        BY <2>1
    <2> QED BY <2>1, <2>2 DEF EffectorInv, EffPos
<1>3. CASE FillMap
    <2>1. Asked = len /\ Asked' = len /\ inert' = inert /\ len \in Nat \ {0}
          /\ eff_map' \in {eff_map, FullMap}
        BY <1>3, BufferTypes DEF FillMap, Asked, len, TypeInv, ControlOK, Between
    <2>2. \A p \in 1 .. len : EffPos(p) \in FullMap
        BY <2>1, EffectorRange DEF FullMap
    <2> QED BY <2>1, <2>2 DEF EffectorInv, EffPos
<1>4. CASE RunWordStages \/ InsertExtras \/ OverwriteToken \/ RestoreBuffer
    <2>1. RunWordStages => UNCHANGED <<Asked, inert, eff_map>>
        BY DEF RunWordStages, Asked, Extending, len, effVars
    <2>2. InsertExtras => UNCHANGED <<Asked, inert, eff_map>>
        BY DEF InsertExtras, Asked, Extending, len, effVars
    <2>3. OverwriteToken => UNCHANGED <<Asked, inert, eff_map>>
        BY DEF OverwriteToken, Asked, Extending, len, effVars
    <2>4. RestoreBuffer => UNCHANGED <<Asked, inert, eff_map>>
        BY DEF RestoreBuffer, Asked, Extending, len, effVars
    <2> QED BY <1>4, <2>1, <2>2, <2>3, <2>4 DEF EffectorInv, EffPos
<1>5. CASE Over \/ UNCHANGED vars
    BY <1>5 DEF Over, vars, effVars, EffectorInv, Asked, len, EffPos
<1> QED BY <1>1, <1>2, <1>3, <1>4, <1>5 DEF Next

\* A token that is not written is there already, or touches no byte that matters.
LEMMA ServedNow ==
    ASSUME TypeInv, BufferInv, EffectorInv, OverwriteToken, Fits(Tokens[j], i)
    PROVE  \/ Put(in_buf, i, Tokens[j]) \in tried' \cup {in_buf}
           \/ Span(i, Tokens[j]) \subseteq inert
<1> DEFINE tok == Tokens[j]
           E   == EffPos(i) .. EffPos(i + Len(tok) - 1)
           try == /\ Fits(tok, i) /\ Word(out_buf, i, Len(tok)) # tok
                  /\ \E e \in E : e \in eff_map
<1>1. /\ pc \in Extending /\ i \in 1 .. len /\ len \in Nat \ {0}
      /\ j \in DOMAIN Tokens /\ j <= Len(Tokens)
      /\ in_buf \in Seq(Byte) /\ tok \in Seq(Byte) /\ Len(tok) \in Nat /\ i + Len(tok) - 1 <= len
      /\ tried \subseteq tried'
    BY OverwriteFacts, BufferTypes, TokenFacts DEF Fits
<1>2. /\ out_buf' = IF try THEN Put(out_buf, i, tok) ELSE out_buf
      /\ tried' = IF try THEN tried \cup {out_buf'} ELSE tried
    BY DEF OverwriteToken
<1>3. Put(out_buf, i, tok) = Put(in_buf, i, tok)
    BY <1>1, BufferFacts, PutHides
<1>4. CASE try
    BY <1>2, <1>3, <1>4
<1>5. CASE Word(out_buf, i, Len(tok)) = tok
    <2>1. i \in Nat \ {0} /\ i + Len(tok) - 1 <= Len(in_buf)
        BY <1>1 DEF len
    <2>2. out_buf = Put(in_buf, i, tok)
        BY <1>1, <1>5, <2>1, BufferFacts, PutThere
    <2> QED BY <1>1, <2>2, BufferFacts
<1>6. CASE ~ \E e \in E : e \in eff_map
    <2>1. ASSUME NEW p \in Span(i, tok) PROVE p \in inert
        <3>1. /\ p \in 1 .. len /\ i \in 1 .. len /\ i + Len(tok) - 1 \in 1 .. len
              /\ i <= p /\ p <= i + Len(tok) - 1
            BY <1>1, <2>1 DEF Span
        <3>2. /\ EffPos(i) \in Int /\ EffPos(p) \in Int /\ EffPos(i + Len(tok) - 1) \in Int
              /\ EffPos(i) <= EffPos(p) /\ EffPos(p) <= EffPos(i + Len(tok) - 1)
            BY <1>1, <3>1, EffectorRange
        <3>3. EffPos(p) \notin eff_map
            BY <1>6, <3>2
        <3> QED BY <1>1, <3>1, <3>3 DEF EffectorInv, Asked, Extending
    <2> QED BY <2>1
<1> QED BY <1>4, <1>5, <1>6

\* What was tried stays tried.
LEMMA TriedStep == TypeInv /\ BufferInv /\ EffectorInv /\ TriedInv /\ [Next]_vars => TriedInv'
<1> SUFFICES ASSUME TypeInv, BufferInv, EffectorInv, TriedInv, [Next]_vars PROVE TriedInv'
    OBVIOUS
<1>1. CASE LoadAuto \/ Loaded \/ Pick \/ Abandon \/ Finish \/ Flip1 \/ Flip2And4 \/ Flip8 \/ FillMap
    <2>1. pc' \notin Extending
        BY <1>1 DEF LoadAuto, Loaded, Pick, Abandon, Finish, Flip1, Flip2And4, Flip8, FillMap,
           Extending
    <2> QED BY <2>1 DEF TriedInv
<1>2. CASE RunWordStages \/ InsertExtras
    <2>1. i' = 1 /\ j' = 1
        <3>1. RunWordStages => i' = 1 /\ j' = 1
            BY DEF RunWordStages, TypeInv, ControlOK, Extending
        <3>2. InsertExtras => i' = 1 /\ j' = 1
            BY BufferTypes DEF InsertExtras, TypeInv, ControlOK, Extending
        <3> QED BY <1>2, <3>1, <3>2
    <2>2. DOMAIN Tokens' \subseteq Nat \ {0} /\ len' \in Nat
        <3>1. DOMAIN Extras \subseteq Nat \ {0} /\ DOMAIN AutoTokens \subseteq Nat \ {0}
            <4>1. DictOK(a_extras)
                BY DEF TypeInv
            <4>2. AutoTokens \in Seq(Seq(Byte)) /\ Extras \in Seq(Seq(Byte))
                BY <4>1, AutoTokenFacts, DetAssumption
            <4>3. ASSUME NEW T \in Seq(Seq(Byte)) PROVE DOMAIN T \subseteq Nat \ {0}
                BY LenProperties
            <4> QED BY <4>2, <4>3
        <3>2. UNCHANGED <<a_extras, len>>
            <4>1. RunWordStages => UNCHANGED <<a_extras, in_buf>>
                BY DEF RunWordStages
            <4>2. InsertExtras => UNCHANGED <<a_extras, in_buf>>
                BY DEF InsertExtras
            <4> QED BY <1>2, <4>1, <4>2 DEF len
        <3>3. AutoTokens' = AutoTokens
            BY <3>2 DEF AutoTokens
        <3> QED BY <3>1, <3>2, <3>3, BufferTypes DEF Tokens
    <2> QED BY <2>1, <2>2 DEF TriedInv
<1>3. CASE OverwriteToken
    <2>1. /\ pc' = pc /\ pc \in Extending /\ i' = i /\ j' = j + 1 /\ j \in DOMAIN Tokens
          /\ Tokens' = Tokens /\ in_buf' = in_buf /\ inert' = inert /\ tried \subseteq tried'
          /\ DOMAIN Tokens \subseteq Nat /\ len' = len
        BY <1>3, OverwriteFacts, TokenFacts, BufferTypes DEF len
    <2>2. ASSUME NEW k \in DOMAIN Tokens, NEW p \in 1 .. len, p < i \/ (p = i /\ k < j'), Fits(Tokens[k], p)
          PROVE  Put(in_buf, p, Tokens[k]) \in tried' \cup {in_buf} \/ Span(p, Tokens[k]) \subseteq inert
        <3>1. CASE p < i \/ (p = i /\ k < j)
            BY <2>1, <2>2, <3>1 DEF TriedInv, Served
        <3>2. CASE p = i /\ k = j
            BY <1>3, <2>2, <3>2, ServedNow
        <3>3. p = i => k < j \/ k = j
            BY <2>1, <2>2
        <3> QED BY <2>2, <3>1, <3>2, <3>3
    <2> QED BY <2>1, <2>2 DEF TriedInv, Served, Fits, Span
<1>4. CASE RestoreBuffer
    <2>1. /\ pc' = pc /\ pc \in Extending /\ i \in Nat /\ i' = i + 1 /\ j' = 1 /\ j = Len(Tokens) + 1
          /\ Tokens' = Tokens /\ in_buf' = in_buf /\ inert' = inert /\ tried' = tried
          /\ Len(Tokens) \in Nat /\ DOMAIN Tokens = 1 .. Len(Tokens) /\ len' = len
        BY <1>4, RestoreFacts, TokenFacts, BufferTypes DEF len
    <2>2. ASSUME NEW k \in DOMAIN Tokens, NEW p \in 1 .. len, p < i' \/ (p = i' /\ k < j')
          PROVE  p < i \/ (p = i /\ k < j)
        BY <2>1, <2>2
    <2> QED BY <2>1, <2>2 DEF TriedInv, Served, Fits, Span
<1>5. CASE Over \/ UNCHANGED vars
    <2>1. UNCHANGED vars
        BY <1>5 DEF Over
    <2>2. UNCHANGED <<pc, i, j, tried, inert, in_buf, Tokens, len>>
        BY <2>1 DEF vars, effVars, Tokens, AutoTokens, len
    <2> QED BY <2>2 DEF TriedInv, Served, Fits, Span
<1> QED BY <1>1, <1>2, <1>3, <1>4, <1>5 DEF Next

\* Every token was executed, laid purely over the entry, wherever it fits and touches a byte
\* that matters: neither the effector map nor the remains of other tokens cost one.
THEOREM TokensAlwaysTried == Spec => []TokensTried
<1> DEFINE Inv == TypeInv /\ BufferInv /\ EffectorInv /\ TriedInv
<1>1. Init => EffectorInv /\ TriedInv
    BY DEF Init, EffectorInv, Asked, TriedInv, Extending
<1>2. TypeInv /\ BufferInv /\ EffectorInv /\ TriedInv /\ [Next]_vars => (EffectorInv /\ TriedInv)'
    BY EffectorStep, TriedStep
<1>3. ASSUME TypeInv, TriedInv PROVE TokensTried
    <2> SUFFICES ASSUME pc \in Extending, i = len + 1, NEW k \in DOMAIN Tokens,
                        NEW p \in 1 .. len - Len(Tokens[k]) + 1
                 PROVE  Served(Tokens[k], p)
        BY DEF TokensTried, Extending, Served
    <2>1. len \in Nat /\ Len(Tokens[k]) \in Nat
        BY <1>3, BufferTypes, TokenFacts
    <2>2. CASE p \in 1 .. len
        <3>1. p < i /\ Fits(Tokens[k], p)
            BY <2>1, <2>2 DEF Fits
        <3> QED BY <1>3, <2>2, <3>1 DEF TriedInv
    <2>3. CASE p \notin 1 .. len
        <3>1. Len(Tokens[k]) = 0
            BY <2>1, <2>3
        <3>2. Span(p, Tokens[k]) = {}
            BY <2>1, <3>1 DEF Span
        <3> QED BY <3>2 DEF Served
    <2> QED BY <2>2, <2>3
<1> QED BY <1>1, <1>2, <1>3, BufferAlways, PTL DEF Spec

-----------------------------------------------------------------------------
(* The tokens picked up.                                                    *)

\* A token found in n bytes is the bytes of a run that ends among them.
LEMMA FoundBy ==
    ASSUME NEW ck, NEW n, NEW t
    PROVE  t \in FoundIn(ck, n) <=>
              \E a, b \in 1 .. n : TokenRun(a, b, ck, n) /\ t = SubSeq(in_buf, a, b)
<1>1. ASSUME t \in FoundIn(ck, n)
      PROVE  \E a, b \in 1 .. n : TokenRun(a, b, ck, n) /\ t = SubSeq(in_buf, a, b)
    <2>1. PICK r \in (1 .. n) \X (1 .. n) :
                 TokenRun(r[1], r[2], ck, n) /\ t = SubSeq(in_buf, r[1], r[2])
        BY <1>1 DEF FoundIn
    <2> QED BY <2>1
<1>2. ASSUME NEW a \in 1 .. n, NEW b \in 1 .. n, TokenRun(a, b, ck, n), t = SubSeq(in_buf, a, b)
      PROVE  t \in FoundIn(ck, n)
    <2>1. /\ <<a, b>> \in (1 .. n) \X (1 .. n) /\ <<a, b>>[1] = a /\ <<a, b>>[2] = b
        OBVIOUS
    <2> QED BY <1>2, <2>1 DEF FoundIn
<1> QED BY <1>1, <1>2

\* At most one run can go on.
LEMMA OneOpenRun ==
    ASSUME NEW n \in Nat, NEW s \in 1 .. n, NEW t \in 1 .. n, NEW ck,
           OpenRun(s, ck, n), OpenRun(t, ck, n)
    PROVE  s = t
<1>1. ASSUME NEW u \in 1 .. n, NEW v \in 1 .. n, OpenRun(u, ck, n), OpenRun(v, ck, n), u < v
      PROVE  FALSE
    <2>1. v - 1 \in u .. n /\ v \in u .. n /\ v > 1
        BY <1>1
    <2>2. ck[v - 1] = ck[u] /\ ck[v] = ck[u]
        BY <1>1, <2>1 DEF OpenRun
    <2> QED BY <1>1, <2>1, <2>2 DEF OpenRun
<1> QED BY <1>1

\* What the next checksum does to the runs found: those that have ended stay as they were.
LEMMA EndedRun ==
    ASSUME NEW n \in Nat, len \in Nat, n < len, NEW ck, NEW d, \A k \in 1 .. n : d[k] = ck[k],
           NEW a \in 1 .. n, NEW b \in 1 .. n, b < n
    PROVE  TokenRun(a, b, d, n + 1) <=> TokenRun(a, b, ck, n)
<1>1. d[a] = ck[a] /\ d[b + 1] = ck[b + 1] /\ (a > 1 => d[a - 1] = ck[a - 1])
    OBVIOUS
<1>2. \A k \in a .. b : d[k] = ck[k]
    OBVIOUS
<1>3. b < n /\ b < n + 1
    OBVIOUS
<1> QED BY <1>1, <1>2, <1>3 DEF TokenRun

\* The run that was open ends before a different checksum, or with the file.
LEMMA EndingRun ==
    ASSUME NEW n \in Nat, len \in Nat, n < len, NEW ck, NEW d, \A k \in 1 .. n : d[k] = ck[k],
           NEW a \in 1 .. n + 1, NEW b \in 1 .. n + 1, b >= n
    PROVE  TokenRun(a, b, d, n + 1) <=>
              /\ a \in 1 .. n /\ b - a + 1 \in MinAuto .. MaxAuto /\ OpenRun(a, ck, n)
              /\ \/ b = n /\ d[n + 1] # ck[n]
                 \/ b = n + 1 /\ n + 1 = len /\ d[n + 1] = ck[n]
<1>1. MinAuto \in Nat \ {0, 1} /\ MaxAuto \in Nat
    BY DetAssumption
<1>2. b - a + 1 \in MinAuto .. MaxAuto => a \in 1 .. n
    BY <1>1
<1> SUFFICES ASSUME a \in 1 .. n, b - a + 1 \in MinAuto .. MaxAuto
             PROVE  TokenRun(a, b, d, n + 1) <=>
                       /\ OpenRun(a, ck, n)
                       /\ \/ b = n /\ d[n + 1] # ck[n]
                          \/ b = n + 1 /\ n + 1 = len /\ d[n + 1] = ck[n]
    BY <1>2 DEF TokenRun
<1>3. d[a] = ck[a] /\ d[n] = ck[n] /\ (a > 1 => d[a - 1] = ck[a - 1]) /\ \A k \in a .. n : d[k] = ck[k]
    OBVIOUS
<1>4. n \in a .. n
    OBVIOUS
<1>5. CASE b = n
    <2>1. b < n + 1 /\ b + 1 = n + 1 /\ b # n + 1
        BY <1>5
    <2>2. (\A k \in a .. b : d[k] = d[a]) <=> (\A k \in a .. n : ck[k] = ck[a])
        BY <1>3, <1>5
    <2>3. OpenRun(a, ck, n) => ck[n] = ck[a]
        BY <1>4 DEF OpenRun
    <2>4. TokenRun(a, b, d, n + 1) => ck[n] = ck[a]
        BY <1>3, <1>4, <1>5 DEF TokenRun
    <2>5. TokenRun(a, b, d, n + 1) <=> OpenRun(a, ck, n) /\ d[n + 1] # ck[a]
        BY <1>3, <2>1, <2>2 DEF TokenRun, OpenRun
    <2> QED BY <1>5, <2>1, <2>3, <2>4, <2>5
<1>6. CASE b = n + 1
    <2>1. ~(b < n + 1) /\ b # n
        BY <1>6
    <2>2. (\A k \in a .. b : d[k] = d[a]) <=> (\A k \in a .. n : ck[k] = ck[a]) /\ d[n + 1] = ck[a]
        <3>1. a .. b = (a .. n) \cup {n + 1}
            BY <1>6
        <3> QED BY <1>3, <3>1
    <2>3. TokenRun(a, b, d, n + 1) <=> n + 1 = len /\ OpenRun(a, ck, n) /\ d[n + 1] = ck[a]
        BY <1>3, <2>1, <2>2 DEF TokenRun, OpenRun
    <2>4. OpenRun(a, ck, n) => ck[n] = ck[a]
        BY <1>4 DEF OpenRun
    <2> QED BY <1>6, <2>1, <2>3, <2>4
<1> QED BY <1>5, <1>6

\* One more byte of a run.
LEMMA LongerRun ==
    ASSUME NEW b \in Seq(Byte), NEW m \in 1 .. Len(b), NEW n \in m .. Len(b)
    PROVE  /\ SubSeq(b, m, n - 1) \in Seq(Byte) /\ Len(SubSeq(b, m, n - 1)) = n - m
           /\ Append(SubSeq(b, m, n - 1), b[n]) = SubSeq(b, m, n)
           /\ Len(SubSeq(b, m, n)) = n - m + 1
<1>1. Len(b) \in Nat /\ m \in Int /\ n \in Int /\ n - 1 \in Int
    BY LenProperties
<1>2. \A k \in m .. n : b[k] \in Byte
    BY <1>1, ElementOfSeq
<1>3. /\ SubSeq(b, m, n - 1) \in Seq(Byte)
      /\ Len(SubSeq(b, m, n - 1)) = IF m <= n - 1 THEN n - 1 - m + 1 ELSE 0
    <2>1. \A k \in m .. n - 1 : b[k] \in Byte
        BY <1>1, <1>2
    <2> QED BY <1>1, <2>1, SubSeqProperties
<1>4. Len(SubSeq(b, m, n)) = n - m + 1
    BY <1>1, <1>2, SubSeqProperties
<1>5. Append(SubSeq(b, m, n - 1), b[n]) = SubSeq(b, m, n - 1) \o <<b[n]>>
    <2>1. b[n] \in Byte
        BY <1>1, <1>2
    <2> QED BY <1>3, <2>1, AppendIsConcat
<1>6. SubSeq(b, m, n) = SubSeq(b, m, n - 1) \o <<b[n]>>
    BY SubSeqRecursiveSecond
<1> QED BY <1>1, <1>3, <1>4, <1>5, <1>6

\* The next checksum continues the run, or ends it.
LEMMA Flip1Runs == TypeInv /\ BufferInv /\ RunsInv /\ Flip1 => RunsInv'
<1> SUFFICES ASSUME TypeInv, BufferInv, RunsInv, Flip1 PROVE RunsInv'
    OBVIOUS
<1> DEFINE n    == i - 1
           Tok(c)  == IF Forced(c) THEN Append(a_collect, out_buf[i]) ELSE a_collect
           Kept(c) == IF c # prev_cksum THEN <<>> ELSE Tok(c)
           Ends(c) == (Forced(c) \/ c # prev_cksum) /\ RightLength(Tok(c))
<1>1. PICK c \in Cksums :
        /\ tokens' = IF Ends(c) THEN tokens \cup {Tok(c)} ELSE tokens
        /\ prev_cksum' = c
        /\ a_collect' = IF c # Same THEN Append(Kept(c), out_buf[i]) ELSE Kept(c)
        /\ cksums' = Append(cksums, c)
    BY DEF Flip1
<1> DEFINE d == cksums'
<1>2. /\ pc = "flip1" /\ pc' = "flip1" /\ i' = i + 1 /\ in_buf' = in_buf /\ out_buf = in_buf
      /\ i \in 1 .. len /\ len \in Nat \ {0} /\ len = Len(in_buf) /\ len' = len
      /\ in_buf \in Seq(Byte) /\ a_collect \in Seq(Byte)
    BY BufferTypes DEF Flip1, BufferInv, Flipping, TypeInv, ControlOK, Between, len
<1>3. /\ cksums \in Seq(Cksums) /\ Len(cksums) = n
      /\ prev_cksum = IF i = 1 THEN Same ELSE cksums[n]
      /\ (prev_cksum = Same => a_collect = <<>>)
      /\ (prev_cksum # Same =>
            \E s \in 1 .. n : OpenRun(s, cksums, n) /\ a_collect = SubSeq(in_buf, s, n))
      /\ tokens = FoundIn(cksums, n)
    BY <1>2 DEF RunsInv
<1>4. n \in Nat /\ n < len /\ n + 1 = i /\ i \in Nat \ {0} /\ i - 1 = n
    BY <1>2
<1>5. /\ d \in Seq(Cksums) /\ Len(d) = i /\ d[i] = c /\ \A k \in 1 .. n : d[k] = cksums[k]
    BY <1>1, <1>3, <1>4, AppendProperties
<1> HIDE DEF n, d
<1>ended. ASSUME NEW a \in 1 .. n, NEW b \in 1 .. n, b < n
          PROVE  TokenRun(a, b, d, i) <=> TokenRun(a, b, cksums, n)
    <2>1. n \in Nat /\ len \in Nat /\ n < len /\ \A k \in 1 .. n : d[k] = cksums[k]
        BY <1>2, <1>4, <1>5
    <2>2. TokenRun(a, b, d, n + 1) <=> TokenRun(a, b, cksums, n)
        BY <1>ended, <2>1, EndedRun
    <2> QED BY <1>4, <2>2
<1>ending. ASSUME NEW a \in 1 .. i, NEW b \in 1 .. i, b >= n
           PROVE  TokenRun(a, b, d, i) <=>
                     /\ a \in 1 .. n /\ b - a + 1 \in MinAuto .. MaxAuto /\ OpenRun(a, cksums, n)
                     /\ \/ b = n /\ c # cksums[n]
                        \/ b = i /\ i = len /\ c = cksums[n]
    <2>1. n \in Nat /\ len \in Nat /\ n < len /\ \A k \in 1 .. n : d[k] = cksums[k]
        BY <1>2, <1>4, <1>5
    <2>2. a \in 1 .. n + 1 /\ b \in 1 .. n + 1
        BY <1>4
    <2>3. TokenRun(a, b, d, n + 1) <=>
             /\ a \in 1 .. n /\ b - a + 1 \in MinAuto .. MaxAuto /\ OpenRun(a, cksums, n)
             /\ \/ b = n /\ d[n + 1] # cksums[n]
                \/ b = n + 1 /\ n + 1 = len /\ d[n + 1] = cksums[n]
        BY <1>ending, <2>1, <2>2, EndingRun
    <2> QED BY <1>4, <1>5, <2>3
<1>6. ASSUME NEW a \in 1 .. n, OpenRun(a, cksums, n)
      PROVE  /\ prev_cksum = cksums[n] /\ prev_cksum # Same /\ cksums[n] = cksums[a]
             /\ a_collect = SubSeq(in_buf, a, n)
    <2>1. i # 1 /\ n \in a .. n
        BY <1>4, <1>6
    <2>2. prev_cksum = cksums[n] /\ cksums[n] = cksums[a] /\ cksums[a] # Same
        BY <1>3, <1>6, <2>1 DEF OpenRun
    <2>3. PICK s \in 1 .. n : OpenRun(s, cksums, n) /\ a_collect = SubSeq(in_buf, s, n)
        BY <1>3, <2>2
    <2>4. s = a
        BY <1>4, <1>6, <2>3, OneOpenRun
    <2> QED BY <2>2, <2>3, <2>4
<1>7. ASSUME NEW a \in 1 .. n
      PROVE  /\ Len(SubSeq(in_buf, a, n)) = n - a + 1
             /\ Append(SubSeq(in_buf, a, n), in_buf[i]) = SubSeq(in_buf, a, i)
             /\ Len(SubSeq(in_buf, a, i)) = i - a + 1
    <2>1. a \in 1 .. Len(in_buf) /\ i \in a .. Len(in_buf) /\ i - a = n - a + 1
        BY <1>2, <1>4
    <2> QED BY <1>2, <1>4, <2>1, LongerRun
<1>8. i < len /\ c = Same => a_collect' = <<>>
    <2>1. i < len => ~Forced(c)
        BY <1>2 DEF Forced
    <2> QED BY <1>1, <1>3, <2>1
<1>9. ASSUME i < len, c # Same
      PROVE  \E s \in 1 .. i : OpenRun(s, d, i) /\ a_collect' = SubSeq(in_buf, s, i)
    <2>1. ~Forced(c)
        BY <1>2, <1>9 DEF Forced
    <2>2. CASE c # prev_cksum
        <3>1. a_collect' = Append(<<>>, in_buf[i])
            BY <1>1, <1>2, <1>9, <2>2
        <3>2. SubSeq(in_buf, i, i - 1) = <<>>
              /\ Append(SubSeq(in_buf, i, i - 1), in_buf[i]) = SubSeq(in_buf, i, i)
            BY <1>2, <1>4, LongerRun, SubSeqEmpty
        <3>3. OpenRun(i, d, i)
            <4>1. \A k \in i .. i : d[k] = d[i]
                BY <1>4
            <4>2. i > 1 => d[i - 1] = prev_cksum
                BY <1>3, <1>4, <1>5
            <4> QED BY <1>5, <1>9, <2>2, <4>1, <4>2 DEF OpenRun
        <3> QED BY <1>4, <3>1, <3>2, <3>3
    <2>3. CASE c = prev_cksum
        <3>1. PICK s \in 1 .. n : OpenRun(s, cksums, n) /\ a_collect = SubSeq(in_buf, s, n)
            BY <1>3, <1>9, <2>3
        <3>2. a_collect' = SubSeq(in_buf, s, i)
            BY <1>1, <1>2, <1>7, <1>9, <2>1, <2>3, <3>1
        <3>3. OpenRun(s, d, i)
            <4>1. d[s] = cksums[s] /\ (s > 1 => d[s - 1] = cksums[s - 1])
                BY <1>4, <1>5
            <4>2. cksums[s] = c
                BY <1>6, <2>3, <3>1
            <4>3. \A k \in s .. i : d[k] = d[s]
                <5>1. s .. i = (s .. n) \cup {i}
                    BY <1>4
                <5>2. \A k \in s .. n : d[k] = cksums[k]
                    BY <1>4, <1>5
                <5> QED BY <1>5, <3>1, <4>1, <4>2, <5>1, <5>2 DEF OpenRun
            <4> QED BY <3>1, <4>1, <4>3 DEF OpenRun
        <3>4. s \in 1 .. i
            BY <1>4
        <3> QED BY <3>2, <3>3, <3>4
    <2> QED BY <2>2, <2>3
<1>10. ASSUME NEW a \in 1 .. i, NEW b \in 1 .. i, TokenRun(a, b, d, i), b >= n
       PROVE  Ends(c) /\ SubSeq(in_buf, a, b) = Tok(c)
    <2>1. /\ a \in 1 .. n /\ b - a + 1 \in MinAuto .. MaxAuto /\ OpenRun(a, cksums, n)
          /\ \/ b = n /\ c # cksums[n]
             \/ b = i /\ i = len /\ c = cksums[n]
        BY <1>10, <1>ending
    <2>2. prev_cksum = cksums[n] /\ a_collect = SubSeq(in_buf, a, n)
        BY <1>6, <2>1
    <2>3. CASE b = n /\ c # cksums[n]
        <3>1. Tok(c) = a_collect /\ c # prev_cksum
            BY <2>2, <2>3 DEF Forced
        <3> QED BY <1>7, <2>1, <2>2, <2>3, <3>1 DEF RightLength
    <2>4. CASE b = i /\ i = len /\ c = cksums[n]
        <3>1. Forced(c) /\ Tok(c) = SubSeq(in_buf, a, i)
            BY <1>2, <1>7, <2>1, <2>2, <2>4 DEF Forced
        <3> QED BY <1>7, <2>1, <2>4, <3>1 DEF RightLength
    <2> QED BY <2>1, <2>3, <2>4
<1>11. ASSUME Ends(c)
       PROVE  \E a, b \in 1 .. i : TokenRun(a, b, d, i) /\ Tok(c) = SubSeq(in_buf, a, b)
    <2>1. prev_cksum # Same
        <3> SUFFICES ASSUME a_collect = <<>> PROVE FALSE
            BY <1>3
        <3>1. Len(<<>>) = 0 /\ Len(Append(<<>>, out_buf[i])) = 1
            <4>1. out_buf[i] \in Byte /\ <<>> \in Seq(Byte) /\ Len(<<>>) = 0
                BY <1>2, ElementOfSeq, EmptySeq
            <4> QED BY <4>1, AppendProperties
        <3>2. Len(Tok(c)) \in {0, 1}
            BY <3>1
        <3> QED BY <1>11, <3>2, DetAssumption DEF RightLength
    <2>2. PICK s \in 1 .. n : OpenRun(s, cksums, n) /\ a_collect = SubSeq(in_buf, s, n)
        BY <1>3, <2>1
    <2>3. prev_cksum = cksums[n]
        BY <1>6, <2>2
    <2>4. s \in 1 .. i /\ n \in 1 .. i /\ i \in 1 .. i /\ n >= n /\ i >= n
        BY <1>4
    <2>5. CASE Forced(c)
        <3>1. i = len /\ c = cksums[n] /\ Tok(c) = SubSeq(in_buf, s, i)
            BY <1>2, <1>7, <2>2, <2>3, <2>5 DEF Forced
        <3>2. i - s + 1 \in MinAuto .. MaxAuto
            BY <1>7, <1>11, <3>1 DEF RightLength
        <3>3. TokenRun(s, i, d, i)
            BY <2>2, <2>4, <3>1, <3>2, <1>ending
        <3> QED BY <2>4, <3>1, <3>3
    <2>6. CASE ~Forced(c)
        <3>1. c # cksums[n] /\ Tok(c) = SubSeq(in_buf, s, n)
            BY <1>11, <2>2, <2>3, <2>6
        <3>2. n - s + 1 \in MinAuto .. MaxAuto
            BY <1>7, <1>11, <3>1 DEF RightLength
        <3>3. TokenRun(s, n, d, i)
            BY <2>2, <2>4, <3>1, <3>2, <1>ending
        <3> QED BY <2>4, <3>1, <3>3
    <2> QED BY <2>5, <2>6
<1>12. ASSUME NEW a \in 1 .. i, NEW b \in 1 .. i, b < n
       PROVE  TokenRun(a, b, d, i) => a \in 1 .. n /\ b \in 1 .. n /\ TokenRun(a, b, cksums, n)
    <2>1. TokenRun(a, b, d, i) => a \in 1 .. n
        BY <1>4, <1>12, DetAssumption DEF TokenRun
    <2>2. b \in 1 .. n
        BY <1>4, <1>12
    <2>3. a \in 1 .. n => (TokenRun(a, b, d, i) <=> TokenRun(a, b, cksums, n))
        BY <1>12, <2>2, <1>ended
    <2> QED BY <2>1, <2>2, <2>3
<1>13. ASSUME NEW a \in 1 .. n, NEW b \in 1 .. n, TokenRun(a, b, cksums, n)
       PROVE  a \in 1 .. i /\ b \in 1 .. i /\ TokenRun(a, b, d, i)
    <2>1. b < n
        BY <1>4, <1>13 DEF TokenRun
    <2> QED BY <1>4, <1>13, <2>1, <1>ended
<1>14. tokens' = FoundIn(d, i)
    <2>1. ASSUME NEW t \in tokens' PROVE t \in FoundIn(d, i)
        <3>1. CASE t \in FoundIn(cksums, n)
            BY <1>13, <3>1, FoundBy
        <3>2. CASE Ends(c) /\ t = Tok(c)
            BY <1>11, <3>2, FoundBy
        <3> QED BY <1>1, <1>3, <2>1, <3>1, <3>2
    <2>2. ASSUME NEW t \in FoundIn(d, i) PROVE t \in tokens'
        <3>1. PICK a \in 1 .. i, b \in 1 .. i : TokenRun(a, b, d, i) /\ t = SubSeq(in_buf, a, b)
            BY <2>2, FoundBy
        <3>2. CASE b < n
            <4>1. t \in FoundIn(cksums, n)
                BY <1>12, <3>1, <3>2, FoundBy
            <4> QED BY <1>1, <1>3, <4>1
        <3>3. CASE b >= n
            BY <1>1, <1>10, <3>1, <3>3
        <3> QED BY <1>4, <3>2, <3>3
    <2> QED BY <2>1, <2>2
<1>15. tokens' = FoundIn(cksums, i - 1)'
    <2>1. UNCHANGED <<in_buf, len>> /\ i' - 1 = i
        BY <1>2, <1>4
    <2> QED BY <1>14, <2>1 DEF FoundIn, TokenRun, d
<1>16. i' # 1 /\ i' - 1 = i /\ (i' <= len' => i < len)
    BY <1>2, <1>4
<1>17. /\ cksums' \in Seq(Cksums) /\ Len(cksums') = i' - 1 /\ prev_cksum' = cksums'[i' - 1]
    BY <1>1, <1>5, <1>16 DEF d
<1>18. /\ i' <= len' /\ prev_cksum' = Same => a_collect' = <<>>
       /\ i' <= len' /\ prev_cksum' # Same =>
             \E s \in 1 .. i' - 1 : /\ OpenRun(s, cksums', i' - 1)
                                   /\ a_collect' = SubSeq(in_buf', s, i' - 1)
    BY <1>1, <1>2, <1>8, <1>9, <1>16 DEF d
<1> QED BY <1>15, <1>16, <1>17, <1>18 DEF RunsInv

\* Every step keeps the tokens picked up the runs of the bytes flipped so far.
LEMMA RunsStep == TypeInv /\ BufferInv /\ RunsInv /\ [Next]_vars => RunsInv'
<1> SUFFICES ASSUME TypeInv, BufferInv, RunsInv, [Next]_vars PROVE RunsInv'
    OBVIOUS
<1>1. CASE LoadAuto \/ Loaded \/ Abandon \/ Finish \/ Flip2And4
    <2>1. pc' \in {"load", "pick", "flip8"}
        BY <1>1 DEF LoadAuto, Loaded, Abandon, Finish, Flip2And4
    <2> QED BY <2>1 DEF RunsInv
<1>2. CASE Flip8 \/ FillMap \/ RunWordStages \/ InsertExtras
    <2>1. /\ Flip8 => pc' # "flip1"
          /\ FillMap => pc' # "flip1"
          /\ RunWordStages => pc' # "flip1"
        BY DEF Flip8, FillMap, RunWordStages
    <2>2. InsertExtras => pc' # "flip1"
        BY DEF InsertExtras
    <2> QED BY <1>2, <2>1, <2>2 DEF RunsInv
<1>3. CASE OverwriteToken \/ RestoreBuffer
    <2>1. pc' # "flip1"
        BY <1>3, OverwriteFacts, RestoreFacts DEF Extending
    <2> QED BY <2>1 DEF RunsInv
<1>4. CASE Pick
    <2>1. /\ i' = 1 /\ prev_cksum' = Same /\ a_collect' = <<>> /\ cksums' = <<>> /\ tokens' = {}
        <3>1. pc = "pick" /\ UNCHANGED <<i, prev_cksum, a_collect, cksums, tokens>>
            BY <1>4 DEF Pick, tokenVars
        <3>2. in_buf = <<>> /\ Len(<<>>) = 0
            BY <3>1, EmptySeq DEF TypeInv, ControlOK, Between
        <3>3. i = 1
            BY <3>1, <3>2, BufferTypes DEF TypeInv, ControlOK, len
        <3> QED BY <3>1, <3>3 DEF TypeInv, ControlOK, Between
    <2>2. <<>> \in Seq(Cksums) /\ Len(<<>>) = 0
        BY EmptySeq
    <2>3. FoundIn(<<>>, 0)' = {}
        BY DEF FoundIn
    <2>4. FoundIn(cksums, i - 1)' = {}
        BY <2>1, <2>3 DEF FoundIn
    <2> QED BY <2>1, <2>2, <2>4 DEF RunsInv
<1>5. CASE Flip1
    BY <1>5, Flip1Runs
<1>6. CASE Over \/ UNCHANGED vars
    <2>1. UNCHANGED vars
        BY <1>6 DEF Over
    <2>2. UNCHANGED <<pc, i, prev_cksum, a_collect, cksums, tokens, in_buf, len>>
        BY <2>1 DEF vars, tokenVars, len
    <2>3. FoundIn(cksums, i - 1)' = FoundIn(cksums, i - 1)
        BY <2>2 DEF FoundIn, TokenRun
    <2> QED BY <2>2, <2>3 DEF RunsInv
<1> QED BY <1>1, <1>2, <1>3, <1>4, <1>5, <1>6 DEF Next

\* The tokens picked up while bits are flipped are the maximal runs of bytes whose checksums
\* are equal and unusual, the run at the end of the file included.
THEOREM TokensAlwaysRuns == Spec => []TokensAreRuns
<1>1. Init => RunsInv
    BY DEF Init, RunsInv
<1>2. TypeInv /\ BufferInv /\ RunsInv /\ [Next]_vars => RunsInv'
    BY RunsStep
<1>3. ASSUME TypeInv, RunsInv PROVE TokensAreRuns
    <2> SUFFICES ASSUME pc = "flip1", i = len + 1
                 PROVE  tokens = {SubSeq(in_buf, r[1], r[2]) :
                          r \in {q \in (1 .. len) \X (1 .. len) :
                                   /\ q[2] - q[1] + 1 \in MinAuto .. MaxAuto
                                   /\ cksums[q[1]] # Same
                                   /\ \A k \in q[1] .. q[2] : cksums[k] = cksums[q[1]]
                                   /\ q[1] > 1 => cksums[q[1] - 1] # cksums[q[1]]
                                   /\ q[2] < len => cksums[q[2] + 1] # cksums[q[1]]}}
        BY DEF TokensAreRuns
    <2>1. i - 1 = len
        BY <1>3, BufferTypes
    <2>2. tokens = FoundIn(cksums, len)
        BY <1>3, <2>1 DEF RunsInv
    <2> QED BY <2>2 DEF FoundIn, TokenRun
<1> QED BY <1>1, <1>2, <1>3, BufferAlways, PTL DEF Spec

-----------------------------------------------------------------------------
(* The filters of the word stages.                                          *)

\* What the word stages leave out for the bytes of E changes bytes outside E only.
LEMMA MissedInert ==
    ASSUME NEW b \in Seq(Byte), NEW E, NEW na \in BOOLEAN, NEW c \in Missed(b, E, na)
    PROVE  Changed(b, c) \cap E = {}
<1>1. PICK n \in IF na THEN {1} ELSE {1, 2, 4} : c \in Meant(b, n, ~na)
    BY DEF Missed
<1>2. /\ c \notin AllRuns(b, E, na) /\ ~CrossingRun(b, c)
      /\ ~(na /\ \A k \in Changed(b, c) : Within(<<b[k]>>, <<c[k]>>))
    BY DEF Missed
<1> QED BY <1>1, <1>2, FiltersLoseNothing

\* No filter loses a mutation: while the word stages run, every sum and every interesting
\* value that no stage executes differs from the entry only in bytes whose flip changed
\* nothing, but for the two kinds Missed lets pass.
THEOREM FiltersAlwaysSound == Spec => []FilterSound
<1>1. Init => EffectorInv
    BY DEF Init, EffectorInv, Asked, Extending
<1>2. TypeInv /\ EffectorInv /\ [Next]_vars => EffectorInv'
    BY EffectorStep
<1>3. ASSUME TypeInv, EffectorInv PROVE FilterSound
    <2> SUFFICES ASSUME pc = "words", NEW c \in Missed(in_buf, Effective, no_arith)
                 PROVE  Changed(in_buf, c) \subseteq inert
        BY DEF FilterSound, MissedTable
    <2>1. in_buf \in Inputs /\ no_arith \in BOOLEAN
        BY <1>3 DEF TypeInv, TypeOK, WalkTypes, ControlOK, Between
    <2>2. in_buf \in Seq(Byte) /\ DOMAIN in_buf = 1 .. len
        BY <2>1, EntryFacts DEF len
    <2>3. Changed(in_buf, c) \cap Effective = {}
        BY <2>1, <2>2, MissedInert
    <2>4. Asked = len
        BY DEF Asked
    <2>5. ASSUME NEW k \in Changed(in_buf, c) PROVE k \in inert
        <3>1. k \in 1 .. len /\ k \notin Effective
            BY <2>2, <2>3 DEF Changed
        <3> QED BY <1>3, <2>4, <3>1 DEF EffectorInv, Effective
    <2> QED BY <2>5
<1> QED BY <1>1, <1>2, <1>3, TypeAlways, PTL DEF Spec

=============================================================================
