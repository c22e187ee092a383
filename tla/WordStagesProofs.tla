-------------------------- MODULE WordStagesProofs --------------------------
(* What holds of words and of the deterministic stages for every buffer:   *)
(* how words lie in buffers, what the filters accept, and that no filter   *)
(* loses a mutation.                                                       *)
EXTENDS WordStages, SequenceTheorems, TLAPS

Widths   == {1, 2, 4}
Words(n) == {w \in Seq(Byte) : Len(w) = n}

-----------------------------------------------------------------------------
(* Words, and how they lie in buffers.                                      *)

\* The bytes of a word.
LEMMA WordType ==
    ASSUME NEW n \in Nat, NEW w \in Words(n)
    PROVE  w \in Seq(Byte) /\ Len(w) = n /\ DOMAIN w = 1 .. n /\ \A k \in 1 .. n : w[k] \in Byte
BY LenProperties, ElementOfSeq DEF Words

\* Words of one width are functions.
LEMMA FunctionIsWord ==
    ASSUME NEW n \in Nat, NEW w \in [1 .. n -> Byte]
    PROVE  w \in Words(n)
<1>1. w \in Seq(Byte)
    BY SeqDef
<1>2. DOMAIN w = 1 .. Len(w) /\ Len(w) \in Nat
    BY <1>1, LenProperties
<1> QED BY <1>1, <1>2 DEF Words

\* Words with the same bytes are equal.
LEMMA SameWord ==
    ASSUME NEW n \in Nat, NEW u \in Words(n), NEW v \in Words(n), \A k \in 1 .. n : u[k] = v[k]
    PROVE  u = v
BY WordType, SeqEqual

\* A word overwritten in a buffer changes neither its length nor its type.
LEMMA PutType ==
    ASSUME NEW b \in Seq(Byte), NEW p \in Nat, NEW w \in Seq(Byte)
    PROVE  Put(b, p, w) \in Seq(Byte) /\ Len(Put(b, p, w)) = Len(b) /\ DOMAIN Put(b, p, w) = DOMAIN b
<1>1. /\ Len(b) \in Nat /\ DOMAIN b = 1 .. Len(b) /\ \A k \in 1 .. Len(b) : b[k] \in Byte
      /\ Len(w) \in Nat /\ DOMAIN w = 1 .. Len(w) /\ \A k \in 1 .. Len(w) : w[k] \in Byte
    BY LenProperties, ElementOfSeq
<1>2. \A k \in 1 .. Len(b) : k \in p .. p + Len(w) - 1 => k - p + 1 \in 1 .. Len(w)
    BY <1>1
<1>3. Put(b, p, w) \in [1 .. Len(b) -> Byte]
    BY <1>1, <1>2 DEF Put
<1> QED BY <1>1, <1>3, SeqDef

\* The bytes of an overwritten buffer.
LEMMA PutBytes ==
    ASSUME NEW b \in Seq(Byte), NEW p \in Nat, NEW w \in Seq(Byte)
    PROVE  \A k \in 1 .. Len(b) :
              Put(b, p, w)[k] = IF k \in p .. p + Len(w) - 1 THEN w[k - p + 1] ELSE b[k]
<1>1. DOMAIN b = 1 .. Len(b)
    BY LenProperties
<1> QED BY <1>1 DEF Put

\* The bytes of a word inside a buffer.
LEMMA WordFacts ==
    ASSUME NEW b \in Seq(Byte), NEW p \in Nat \ {0}, NEW n \in Nat, p + n - 1 <= Len(b)
    PROVE  /\ Word(b, p, n) \in Seq(Byte) /\ Len(Word(b, p, n)) = n
           /\ \A k \in 1 .. n : Word(b, p, n)[k] = b[p + k - 1]
<1>1. \A k \in p .. p + n - 1 : b[k] \in Byte
    <2>1. Len(b) \in Nat
        BY LenProperties
    <2> QED BY <2>1, ElementOfSeq
<1>2. p \in Int /\ p + n - 1 \in Int
    OBVIOUS
<1>3. /\ SubSeq(b, p, p + n - 1) \in Seq(Byte)
      /\ Len(SubSeq(b, p, p + n - 1)) = IF p <= p + n - 1 THEN p + n - 1 - p + 1 ELSE 0
      /\ \A k \in 1 .. p + n - 1 - p + 1 : SubSeq(b, p, p + n - 1)[k] = b[p + k - 1]
    BY <1>1, <1>2, SubSeqProperties
<1>4. p + n - 1 - p + 1 = n /\ (p <= p + n - 1 <=> n # 0)
    OBVIOUS
<1>5. Len(SubSeq(b, p, p + n - 1)) = n
    BY <1>3, <1>4
<1>6. \A k \in 1 .. n : SubSeq(b, p, p + n - 1)[k] = b[p + k - 1]
    BY <1>3, <1>4
<1> QED BY <1>3, <1>5, <1>6 DEF Word

\* Swapping the bytes twice gives the word back.
LEMMA SwapFacts ==
    ASSUME NEW n \in Nat, NEW w \in Words(n)
    PROVE  /\ Swap(w) \in Words(n) /\ Swap(Swap(w)) = w
           /\ \A k \in 1 .. n : Swap(w)[k] = w[n + 1 - k]
<1>1. ASSUME NEW v \in Words(n)
      PROVE  Swap(v) \in Words(n) /\ \A k \in 1 .. n : Swap(v)[k] = v[n + 1 - k]
    <2>1. Len(v) = n /\ DOMAIN v = 1 .. n /\ \A k \in 1 .. n : v[k] \in Byte
        BY WordType
    <2>2. \A k \in 1 .. n : n + 1 - k \in 1 .. n
        OBVIOUS
    <2>3. Swap(v) \in [1 .. n -> Byte] /\ \A k \in 1 .. n : Swap(v)[k] = v[n + 1 - k]
        BY <2>1, <2>2 DEF Swap
    <2> QED BY <2>3, FunctionIsWord
<1>2. Swap(w) \in Words(n) /\ Swap(Swap(w)) \in Words(n)
    BY <1>1
<1>3. \A k \in 1 .. n : Swap(Swap(w))[k] = w[k]
    <2> TAKE k \in 1 .. n
    <2>1. n + 1 - k \in 1 .. n /\ n + 1 - (n + 1 - k) = k
        OBVIOUS
    <2> QED BY <1>1, <1>2, <2>1
<1> QED BY <1>1, <1>2, <1>3, SameWord

\* A word inside a buffer, as a word.
LEMMA WordInside ==
    ASSUME NEW b \in Seq(Byte), NEW n \in Nat, NEW p \in 1 .. Len(b) - n + 1
    PROVE  /\ Word(b, p, n) \in Words(n) /\ p \in Nat \ {0} /\ p + n - 1 <= Len(b) /\ Len(b) \in Nat
           /\ \A k \in 1 .. n : Word(b, p, n)[k] = b[p + k - 1]
<1>1. Len(b) \in Nat
    BY LenProperties
<1>2. p \in Nat \ {0} /\ p + n - 1 <= Len(b)
    BY <1>1
<1> QED BY <1>1, <1>2, WordFacts DEF Words

\* A part of a word is a part of the buffer.
LEMMA PartOfWord ==
    ASSUME NEW b \in Seq(Byte), NEW n \in Nat, NEW p \in 1 .. Len(b) - n + 1,
           NEW m \in Nat, NEW o \in 1 .. n - m + 1
    PROVE  /\ p + o - 1 \in 1 .. Len(b) - m + 1
           /\ Word(Word(b, p, n), o, m) = Word(b, p + o - 1, m)
<1>1. /\ Word(b, p, n) \in Words(n) /\ p \in Nat \ {0} /\ p + n - 1 <= Len(b) /\ Len(b) \in Nat
      /\ \A k \in 1 .. n : Word(b, p, n)[k] = b[p + k - 1]
    BY WordInside
<1>2. Word(b, p, n) \in Seq(Byte) /\ Len(Word(b, p, n)) = n
    BY <1>1, WordType
<1>3. p + o - 1 \in 1 .. Len(b) - m + 1
    BY <1>1
<1>4. /\ Word(b, p + o - 1, m) \in Words(m)
      /\ \A k \in 1 .. m : Word(b, p + o - 1, m)[k] = b[p + o - 1 + k - 1]
    BY <1>3, WordInside
<1>5. /\ Word(Word(b, p, n), o, m) \in Words(m)
      /\ \A k \in 1 .. m : Word(Word(b, p, n), o, m)[k] = Word(b, p, n)[o + k - 1]
    BY <1>2, WordInside, SMTT(30)
<1>6. \A k \in 1 .. m : Word(b, p, n)[o + k - 1] = b[p + o - 1 + k - 1]
    <2> TAKE k \in 1 .. m
    <2>1. o + k - 1 \in 1 .. n /\ p + (o + k - 1) - 1 = p + o - 1 + k - 1
        BY <1>1
    <2> QED BY <1>1, <2>1
<1>7. \A k \in 1 .. m : Word(Word(b, p, n), o, m)[k] = Word(b, p + o - 1, m)[k]
    BY <1>4, <1>5, <1>6
<1>8. Word(Word(b, p, n), o, m) = Word(b, p + o - 1, m)
    BY <1>4, <1>5, <1>7, SameWord
<1> QED BY <1>3, <1>8

\* Overwriting a part of a word overwrites that part of the buffer.
LEMMA PutPart ==
    ASSUME NEW b \in Seq(Byte), NEW n \in Nat, NEW p \in 1 .. Len(b) - n + 1,
           NEW m \in Nat, NEW o \in 1 .. n - m + 1, NEW x \in Words(m)
    PROVE  Put(b, p, Put(Word(b, p, n), o, x)) = Put(b, p + o - 1, x)
<1> DEFINE w == Word(b, p, n)
           v == Put(w, o, x)
<1>1. /\ w \in Words(n) /\ p \in Nat \ {0} /\ p + n - 1 <= Len(b) /\ Len(b) \in Nat
      /\ \A k \in 1 .. n : w[k] = b[p + k - 1]
    BY WordInside
<1> HIDE DEF w
<1>2. w \in Seq(Byte) /\ Len(w) = n /\ x \in Seq(Byte) /\ Len(x) = m
    BY <1>1, WordType
<1>3. o \in Nat /\ p \in Nat /\ p + o - 1 \in Nat
    BY <1>1
<1>4. v \in Seq(Byte) /\ Len(v) = n
    BY <1>2, <1>3, PutType
<1>7. \A k \in 1 .. n : v[k] = IF k \in o .. o + m - 1 THEN x[k - o + 1] ELSE w[k]
    <2>1. \A k \in 1 .. Len(w) :
              Put(w, o, x)[k] = IF k \in o .. o + Len(x) - 1 THEN x[k - o + 1] ELSE w[k]
        BY <1>2, <1>3, PutBytes, ZenonT(40)
    <2> QED BY <1>2, <2>1
<1> HIDE DEF v
<1>5. /\ Put(b, p, v) \in Words(Len(b)) /\ Put(b, p + o - 1, x) \in Words(Len(b))
    BY <1>2, <1>3, <1>4, PutType DEF Words
<1>6. \A k \in 1 .. Len(b) : Put(b, p, v)[k] = Put(b, p + o - 1, x)[k]
    <2> TAKE k \in 1 .. Len(b)
    <2>1. /\ Put(b, p, v)[k] = IF k \in p .. p + n - 1 THEN v[k - p + 1] ELSE b[k]
          /\ Put(b, p + o - 1, x)[k] =
                IF k \in p + o - 1 .. p + o - 1 + m - 1 THEN x[k - (p + o - 1) + 1] ELSE b[k]
        BY <1>2, <1>3, <1>4, PutBytes, SMTT(30)
    <2>2. CASE k \in p .. p + n - 1
        <3>1. k - p + 1 \in 1 .. n
            BY <1>1, <2>2
        <3>2. v[k - p + 1] = IF k - p + 1 \in o .. o + m - 1 THEN x[k - p + 1 - o + 1]
                                                             ELSE w[k - p + 1]
            BY <1>7, <3>1
        <3>3. w[k - p + 1] = b[k]
            <4>1. p + (k - p + 1) - 1 = k
                BY <1>1
            <4> QED BY <1>1, <3>1, <4>1
        <3>4. /\ k - p + 1 \in o .. o + m - 1 <=> k \in p + o - 1 .. p + o - 1 + m - 1
              /\ k - p + 1 - o + 1 = k - (p + o - 1) + 1
            BY <1>1, <2>2
        <3> QED BY <2>1, <2>2, <3>2, <3>3, <3>4
    <2>3. CASE k \notin p .. p + n - 1
        <3>1. k \notin p + o - 1 .. p + o - 1 + m - 1
            BY <1>1, <2>3
        <3> QED BY <2>1, <2>3, <3>1
    <2> QED BY <2>2, <2>3
<1> QED BY <1>1, <1>5, <1>6, SameWord DEF v, w

-----------------------------------------------------------------------------
(* Sums and differences.                                                    *)

\* A carry or a borrow reaches byte k.
CarryInto(w, k, d)  == w[1] + d > 255 /\ \A m \in 2 .. k - 1 : w[m] = 255
BorrowInto(w, k, d) == w[1] < d /\ \A m \in 2 .. k - 1 : w[m] = 0

Plus(x, d)  == (x + d) % 256
Minus(x, d) == (x - d) % 256

\* The first bytes of a word decide whether there is a carry.
LEMMA PrefixCarry ==
    ASSUME NEW n \in Nat, NEW w \in Words(n), NEW k \in 2 .. n + 1, NEW d \in 0 .. 255
    PROVE  /\ CarryOut(SubSeq(w, 1, k - 1), d) <=> CarryInto(w, k, d)
           /\ BorrowOut(SubSeq(w, 1, k - 1), d) <=> BorrowInto(w, k, d)
<1>1. w \in Seq(Byte) /\ Len(w) = n /\ \A m \in 1 .. n : w[m] \in Byte
    BY WordType
<1>2. k - 1 \in Nat /\ 1 + (k - 1) - 1 <= Len(w) /\ 1 + (k - 1) - 1 = k - 1
    BY <1>1
<1>3. /\ Word(w, 1, k - 1) \in Seq(Byte) /\ Len(Word(w, 1, k - 1)) = k - 1
      /\ \A m \in 1 .. k - 1 : Word(w, 1, k - 1)[m] = w[1 + m - 1]
    BY <1>1, <1>2, WordFacts
<1>4. Word(w, 1, k - 1) = SubSeq(w, 1, k - 1)
    BY <1>2 DEF Word
<1>5. \A m \in 1 .. k - 1 : SubSeq(w, 1, k - 1)[m] = w[m]
    BY <1>3, <1>4
<1>6. Len(SubSeq(w, 1, k - 1)) = k - 1
    BY <1>3, <1>4
<1> DEFINE u == SubSeq(w, 1, k - 1)
<1>7. Len(u) = k - 1 /\ \A m \in 1 .. k - 1 : u[m] = w[m]
    BY <1>5, <1>6
<1> HIDE DEF u
<1>8. u[1] = w[1] /\ \A m \in 2 .. k - 1 : u[m] = w[m]
    BY <1>7
<1>9. /\ CarryOut(u, d) <=> CarryInto(w, k, d)
      /\ BorrowOut(u, d) <=> BorrowInto(w, k, d)
    BY <1>7, <1>8 DEF CarryOut, BorrowOut, CarryInto, BorrowInto
<1> QED BY <1>9 DEF u

\* A sum and a difference are words.
LEMMA AddType ==
    ASSUME NEW n \in Nat \ {0}, NEW w \in Words(n), NEW d \in 0 .. 255
    PROVE  /\ Add(w, d) \in Words(n) /\ Sub(w, d) \in Words(n)
           /\ Add(w, d)[1] = Plus(w[1], d) /\ Sub(w, d)[1] = Minus(w[1], d)
<1>1. w \in Seq(Byte) /\ DOMAIN w = 1 .. n /\ \A m \in 1 .. n : w[m] \in Byte
    BY WordType
<1>2. \A x \in Byte : /\ (x + d) % 256 \in Byte /\ (x - d) % 256 \in Byte
                      /\ (x + 1) % 256 \in Byte /\ (x - 1) % 256 \in Byte
    BY DEF Byte
<1>3. Add(w, d) \in [1 .. n -> Byte] /\ Sub(w, d) \in [1 .. n -> Byte]
    BY <1>1, <1>2 DEF Add, Sub, Plus, Minus
<1>4. Add(w, d)[1] = Plus(w[1], d) /\ Sub(w, d)[1] = Minus(w[1], d)
    BY <1>1 DEF Add, Sub, Plus, Minus
<1> QED BY <1>3, <1>4, FunctionIsWord

\* The bytes of a sum and of a difference.
LEMMA AddBytes ==
    ASSUME NEW n \in Nat \ {0}, NEW w \in Words(n), NEW d \in 0 .. 255, NEW k \in 2 .. n
    PROVE  /\ CarryInto(w, k, d) => Add(w, d)[k] = Plus(w[k], 1)
           /\ ~CarryInto(w, k, d) => Add(w, d)[k] = w[k]
           /\ BorrowInto(w, k, d) => Sub(w, d)[k] = Minus(w[k], 1)
           /\ ~BorrowInto(w, k, d) => Sub(w, d)[k] = w[k]
<1>1. k \in DOMAIN w /\ k # 1
    BY WordType
<1>2. /\ Add(w, d)[k] = IF CarryOut(SubSeq(w, 1, k - 1), d) THEN Plus(w[k], 1) ELSE w[k]
      /\ Sub(w, d)[k] = IF BorrowOut(SubSeq(w, 1, k - 1), d) THEN Minus(w[k], 1) ELSE w[k]
    BY <1>1 DEF Add, Sub, Plus, Minus
<1>3. /\ CarryOut(SubSeq(w, 1, k - 1), d) <=> CarryInto(w, k, d)
      /\ BorrowOut(SubSeq(w, 1, k - 1), d) <=> BorrowInto(w, k, d)
    BY PrefixCarry, SMTT(30)
<1> QED BY <1>2, <1>3

\* Adding nothing changes nothing.
LEMMA AddZero ==
    ASSUME NEW n \in Nat \ {0}, NEW w \in Words(n)
    PROVE  Add(w, 0) = w
<1>1. \A m \in 1 .. n : w[m] \in 0 .. 255
    BY WordType DEF Byte
<1>2. w[1] \in 0 .. 255 /\ Plus(w[1], 0) = w[1] /\ 0 \in 0 .. 255
    BY <1>1 DEF Plus
<1>3. Add(w, 0) \in Words(n) /\ Add(w, 0)[1] = w[1]
    BY <1>2, AddType
<1>4. ASSUME NEW k \in 2 .. n PROVE Add(w, 0)[k] = w[k]
    <2>1. ~CarryInto(w, k, 0)
        BY <1>2 DEF CarryInto
    <2> QED BY <1>2, <2>1, AddBytes
<1>5. \A k \in 1 .. n : Add(w, 0)[k] = w[k]
    BY <1>3, <1>4
<1> QED BY <1>3, <1>5, SameWord

\* What was added can be subtracted, in words of up to four bytes.
LEMMA SubUndoesAdd ==
    ASSUME NEW n \in 1 .. 4, NEW w \in Words(n), NEW d \in 0 .. 255
    PROVE  Sub(Add(w, d), d) = w
<1> DEFINE u == Add(w, d)
<1>0. n \in Nat \ {0}
    OBVIOUS
<1>1. \A m \in 1 .. n : w[m] \in 0 .. 255
    BY <1>0, WordType DEF Byte
<1>2. u \in Words(n) /\ u[1] = Plus(w[1], d)
    BY <1>0, AddType
<1>3. ASSUME NEW k \in 2 .. n
      PROVE  /\ CarryInto(w, k, d) => u[k] = Plus(w[k], 1)
             /\ ~CarryInto(w, k, d) => u[k] = w[k]
    BY <1>0, AddBytes
<1> HIDE DEF u
<1>4. Sub(u, d) \in Words(n) /\ Sub(u, d)[1] = Minus(u[1], d)
    BY <1>0, <1>2, AddType
<1>5. ASSUME NEW k \in 2 .. n
      PROVE  /\ BorrowInto(u, k, d) => Sub(u, d)[k] = Minus(u[k], 1)
             /\ ~BorrowInto(u, k, d) => Sub(u, d)[k] = u[k]
    BY <1>0, <1>2, AddBytes, ZenonT(40)
<1>6. w[1] \in 0 .. 255
    BY <1>1
<1>7. (u[1] < d <=> w[1] + d > 255) /\ Minus(u[1], d) = w[1]
    <2>1. \A x \in 0 .. 255 : (Plus(x, d) < d <=> x + d > 255) /\ Minus(Plus(x, d), d) = x
        BY DEF Plus, Minus
    <2> QED BY <1>2, <1>6, <2>1
<1>8. ASSUME NEW k \in 2 .. n PROVE CarryInto(w, k, d) <=> BorrowInto(u, k, d)
    <2>1. CASE k = 2
        BY <2>1, <1>7 DEF CarryInto, BorrowInto
    <2>2. CASE k = 3
        <3>1. 2 \in 2 .. n /\ w[2] \in 0 .. 255
            BY <2>2, <1>1
        <3>2. /\ CarryInto(w, 3, d) <=> w[1] + d > 255 /\ w[2] = 255
              /\ CarryInto(w, 2, d) <=> w[1] + d > 255
              /\ BorrowInto(u, 3, d) <=> u[1] < d /\ u[2] = 0
            BY DEF CarryInto, BorrowInto
        <3> QED BY <2>2, <3>1, <3>2, <1>3, <1>7 DEF Plus
    <2>3. CASE k = 4
        <3>1. 2 \in 2 .. n /\ 3 \in 2 .. n /\ w[2] \in 0 .. 255 /\ w[3] \in 0 .. 255
            BY <2>3, <1>1
        <3>2. /\ CarryInto(w, 4, d) <=> w[1] + d > 255 /\ w[2] = 255 /\ w[3] = 255
              /\ CarryInto(w, 3, d) <=> w[1] + d > 255 /\ w[2] = 255
              /\ CarryInto(w, 2, d) <=> w[1] + d > 255
              /\ BorrowInto(u, 4, d) <=> u[1] < d /\ u[2] = 0 /\ u[3] = 0
            BY DEF CarryInto, BorrowInto
        <3> QED BY <2>3, <3>1, <3>2, <1>3, <1>7 DEF Plus
    <2> QED BY <2>1, <2>2, <2>3
<1>9. ASSUME NEW k \in 2 .. n PROVE Sub(u, d)[k] = w[k]
    <2>1. w[k] \in 0 .. 255 /\ Minus(Plus(w[k], 1), 1) = w[k]
        BY <1>1 DEF Plus, Minus
    <2> QED BY <2>1, <1>3, <1>5, <1>8
<1>10. \A k \in 1 .. n : Sub(u, d)[k] = w[k]
    BY <1>4, <1>7, <1>9
<1> QED BY <1>0, <1>4, <1>10, SameWord DEF u

\* Where nothing leaves the lower half, only the lower half changes.
LEMMA LowerHalfOnly ==
    ASSUME NEW h \in Nat \ {0}, NEW w \in Words(2 * h), NEW d \in 0 .. 255
    PROVE  /\ LowerHalf(w) = Word(w, 1, h)
           /\ ~CarryOut(LowerHalf(w), d) => Add(w, d) = Put(w, 1, Add(Word(w, 1, h), d))
           /\ ~BorrowOut(LowerHalf(w), d) => Sub(w, d) = Put(w, 1, Sub(Word(w, 1, h), d))
<1> DEFINE n == 2 * h
           x == Word(w, 1, h)
<1>0. n \in Nat \ {0} /\ w \in Words(n) /\ n \in Nat
    OBVIOUS
<1>1. n \in Nat \ {0} /\ h < n /\ h + 1 \in 2 .. n + 1 /\ 1 \in 1 .. n - h + 1
    OBVIOUS
<1>2. w \in Seq(Byte) /\ Len(w) = n /\ w \in Words(n)
    BY <1>1, WordType
<1>3. LowerHalf(w) = x
    <2>1. Len(w) \div 2 = h /\ 1 + h - 1 = h
        BY <1>2
    <2> QED BY <2>1 DEF LowerHalf, Word
<1>4. x \in Words(h) /\ \A k \in 1 .. h : x[k] = w[k]
    <2>1. x \in Words(h) /\ \A k \in 1 .. h : x[k] = w[1 + k - 1]
        BY <1>1, <1>2, WordInside
    <2>2. \A k \in 1 .. h : 1 + k - 1 = k
        OBVIOUS
    <2> QED BY <2>1, <2>2
<1>5. /\ CarryOut(LowerHalf(w), d) <=> CarryInto(w, h + 1, d)
      /\ BorrowOut(LowerHalf(w), d) <=> BorrowInto(w, h + 1, d)
    <2>1. ASSUME NEW k \in 2 .. n + 1, k = h + 1
          PROVE  /\ CarryOut(LowerHalf(w), d) <=> CarryInto(w, k, d)
                 /\ BorrowOut(LowerHalf(w), d) <=> BorrowInto(w, k, d)
        <3>1. LowerHalf(w) = SubSeq(w, 1, k - 1)
            <4>1. Len(w) \div 2 = k - 1
                BY <1>2, <2>1
            <4> QED BY <4>1 DEF LowerHalf
        <3> HIDE DEF n
        <3>2. /\ CarryOut(SubSeq(w, 1, k - 1), d) <=> CarryInto(w, k, d)
              /\ BorrowOut(SubSeq(w, 1, k - 1), d) <=> BorrowInto(w, k, d)
            BY <1>0, PrefixCarry
        <3> QED BY <3>1, <3>2
    <2> QED BY <1>1, <2>1
<1> HIDE DEF x, n
<1>6. ASSUME NEW s \in Words(h), NEW t \in Words(n), s[1] = t[1],
             \A k \in 2 .. h : s[k] = t[k], \A k \in h + 1 .. n : t[k] = w[k]
      PROVE  t = Put(w, 1, s)
    <2>1. s \in Seq(Byte) /\ Len(s) = h
        BY WordType
    <2>2. Put(w, 1, s) \in Words(n)
        BY <1>2, <2>1, PutType DEF Words
    <2>3. \A k \in 1 .. n : Put(w, 1, s)[k] = t[k]
        <3> TAKE k \in 1 .. n
        <3>1. Put(w, 1, s)[k] = IF k \in 1 .. 1 + h - 1 THEN s[k - 1 + 1] ELSE w[k]
            <4>1. \A q \in 1 .. Len(w) :
                      Put(w, 1, s)[q] = IF q \in 1 .. 1 + Len(s) - 1 THEN s[q - 1 + 1] ELSE w[q]
                BY <1>2, <2>1, PutBytes, SMTT(30)
            <4> QED BY <1>2, <2>1, <4>1
        <3>2. CASE k \in 1 .. h
            <4>1. k \in 1 .. 1 + h - 1 /\ k - 1 + 1 = k
                BY <3>2
            <4>2. k = 1 \/ k \in 2 .. h
                BY <3>2
            <4> QED BY <1>6, <3>1, <4>1, <4>2
        <3>3. CASE k \notin 1 .. h
            <4>1. k \notin 1 .. 1 + h - 1 /\ k \in h + 1 .. n
                BY <3>3, <1>1
            <4> QED BY <1>6, <3>1, <4>1
        <3> QED BY <3>2, <3>3
    <2> QED BY <1>1, <2>2, <2>3, SameWord
<1>7. /\ Add(w, d) \in Words(n) /\ Sub(w, d) \in Words(n)
      /\ Add(x, d) \in Words(h) /\ Sub(x, d) \in Words(h)
    BY <1>1, <1>2, <1>4, AddType
<1>8. Add(x, d)[1] = Add(w, d)[1] /\ Sub(x, d)[1] = Sub(w, d)[1]
    <2>1. x[1] = w[1]
        BY <1>4
    <2>2. /\ Add(w, d)[1] = Plus(w[1], d) /\ Sub(w, d)[1] = Minus(w[1], d)
        BY <1>0, AddType, ZenonT(40)
    <2>3. Add(x, d)[1] = Plus(x[1], d) /\ Sub(x, d)[1] = Minus(x[1], d)
        BY <1>4, AddType
    <2> QED BY <2>1, <2>2, <2>3
<1>9. ASSUME NEW k \in 2 .. h
      PROVE  Add(x, d)[k] = Add(w, d)[k] /\ Sub(x, d)[k] = Sub(w, d)[k]
    <2>1. k \in 2 .. n /\ x[k] = w[k] /\ x[1] = w[1] /\ \A m \in 2 .. k - 1 : x[m] = w[m]
        BY <1>1, <1>4
    <2>2. /\ CarryInto(x, k, d) <=> CarryInto(w, k, d)
          /\ BorrowInto(x, k, d) <=> BorrowInto(w, k, d)
        BY <2>1 DEF CarryInto, BorrowInto
    <2>3. /\ CarryInto(w, k, d) => Add(w, d)[k] = Plus(w[k], 1)
          /\ ~CarryInto(w, k, d) => Add(w, d)[k] = w[k]
          /\ BorrowInto(w, k, d) => Sub(w, d)[k] = Minus(w[k], 1)
          /\ ~BorrowInto(w, k, d) => Sub(w, d)[k] = w[k]
        BY <1>0, <2>1, AddBytes, ZenonT(40)
    <2>4. /\ CarryInto(x, k, d) => Add(x, d)[k] = Plus(x[k], 1)
          /\ ~CarryInto(x, k, d) => Add(x, d)[k] = x[k]
          /\ BorrowInto(x, k, d) => Sub(x, d)[k] = Minus(x[k], 1)
          /\ ~BorrowInto(x, k, d) => Sub(x, d)[k] = x[k]
        BY <1>4, AddBytes
    <2> QED BY <2>1, <2>2, <2>3, <2>4
<1>10. ASSUME NEW k \in h + 1 .. n
       PROVE  /\ ~CarryInto(w, h + 1, d) => Add(w, d)[k] = w[k]
              /\ ~BorrowInto(w, h + 1, d) => Sub(w, d)[k] = w[k]
    <2>1. k \in 2 .. n /\ \A m \in 2 .. h + 1 - 1 : m \in 2 .. k - 1
        BY <1>1
    <2>2. /\ CarryInto(w, k, d) => CarryInto(w, h + 1, d)
          /\ BorrowInto(w, k, d) => BorrowInto(w, h + 1, d)
        BY <2>1 DEF CarryInto, BorrowInto
    <2>3. /\ ~CarryInto(w, k, d) => Add(w, d)[k] = w[k]
          /\ ~BorrowInto(w, k, d) => Sub(w, d)[k] = w[k]
        BY <1>0, <2>1, AddBytes, ZenonT(40)
    <2> QED BY <2>2, <2>3
<1>11. ~CarryOut(LowerHalf(w), d) => Add(w, d) = Put(w, 1, Add(x, d))
    BY <1>5, <1>6, <1>7, <1>8, <1>9, <1>10
<1>12. ~BorrowOut(LowerHalf(w), d) => Sub(w, d) = Put(w, 1, Sub(x, d))
    BY <1>5, <1>6, <1>7, <1>8, <1>9, <1>10
<1> QED BY <1>3, <1>11, <1>12 DEF x

-----------------------------------------------------------------------------
(* Bits.                                                                    *)

\* A byte is known by its bits.
LEMMA SameBits ==
    ASSUME NEW x \in Byte, NEW y \in Byte, \A t \in 0 .. 7 : Bit(x, t) = Bit(y, t)
    PROVE  x = y
<1>1. /\ 2 ^ 0 = 1 /\ 2 ^ 1 = 2 /\ 2 ^ 2 = 4 /\ 2 ^ 3 = 8
      /\ 2 ^ 4 = 16 /\ 2 ^ 5 = 32 /\ 2 ^ 6 = 64 /\ 2 ^ 7 = 128
    OBVIOUS
<1>2. /\ x % 2 = y % 2 /\ (x \div 2) % 2 = (y \div 2) % 2
      /\ (x \div 4) % 2 = (y \div 4) % 2 /\ (x \div 8) % 2 = (y \div 8) % 2
    <2>1. /\ Bit(x, 0) = Bit(y, 0) /\ Bit(x, 1) = Bit(y, 1)
          /\ Bit(x, 2) = Bit(y, 2) /\ Bit(x, 3) = Bit(y, 3)
        OBVIOUS
    <2> QED BY <1>1, <2>1 DEF Bit, Byte
<1>3. /\ (x \div 16) % 2 = (y \div 16) % 2 /\ (x \div 32) % 2 = (y \div 32) % 2
      /\ (x \div 64) % 2 = (y \div 64) % 2 /\ (x \div 128) % 2 = (y \div 128) % 2
    <2>1. /\ Bit(x, 4) = Bit(y, 4) /\ Bit(x, 5) = Bit(y, 5)
          /\ Bit(x, 6) = Bit(y, 6) /\ Bit(x, 7) = Bit(y, 7)
        OBVIOUS
    <2> QED BY <1>1, <2>1 DEF Bit, Byte
<1>4. x \div 128 = y \div 128
    BY <1>3 DEF Byte
<1>5. x \div 64 = y \div 64 /\ x \div 32 = y \div 32 /\ x \div 16 = y \div 16
    <2>1. \A z \in Byte : /\ z \div 64 = 2 * (z \div 128) + ((z \div 64) % 2)
                         /\ z \div 32 = 2 * (z \div 64) + ((z \div 32) % 2)
                         /\ z \div 16 = 2 * (z \div 32) + ((z \div 16) % 2)
        BY DEF Byte
    <2> QED BY <1>3, <1>4, <2>1
<1>6. x \div 8 = y \div 8 /\ x \div 4 = y \div 4 /\ x \div 2 = y \div 2
    <2>1. \A z \in Byte : /\ z \div 8 = 2 * (z \div 16) + ((z \div 8) % 2)
                         /\ z \div 4 = 2 * (z \div 8) + ((z \div 4) % 2)
                         /\ z \div 2 = 2 * (z \div 4) + ((z \div 2) % 2)
        BY DEF Byte
    <2> QED BY <1>2, <1>5, <2>1
<1>7. \A z \in Byte : z = 2 * (z \div 2) + (z % 2)
    BY DEF Byte
<1> QED BY <1>2, <1>6, <1>7

\* A bit is 0 or 1.
LEMMA BitIsBit ==
    ASSUME NEW x \in Byte, NEW t \in 0 .. 7
    PROVE  Bit(x, t) = 0 \/ Bit(x, t) = 1
<1>1. /\ 2 ^ 0 = 1 /\ 2 ^ 1 = 2 /\ 2 ^ 2 = 4 /\ 2 ^ 3 = 8
      /\ 2 ^ 4 = 16 /\ 2 ^ 5 = 32 /\ 2 ^ 6 = 64 /\ 2 ^ 7 = 128
    OBVIOUS
<1>2. /\ Bit(x, 0) \in 0 .. 1 /\ Bit(x, 1) \in 0 .. 1 /\ Bit(x, 2) \in 0 .. 1
      /\ Bit(x, 3) \in 0 .. 1
    BY <1>1 DEF Bit, Byte
<1>3. /\ Bit(x, 4) \in 0 .. 1 /\ Bit(x, 5) \in 0 .. 1 /\ Bit(x, 6) \in 0 .. 1
      /\ Bit(x, 7) \in 0 .. 1
    BY <1>1 DEF Bit, Byte
<1>4. t = 0 \/ t = 1 \/ t = 2 \/ t = 3 \/ t = 4 \/ t = 5 \/ t = 6 \/ t = 7
    OBVIOUS
<1>5. Bit(x, t) \in 0 .. 1
    BY <1>2, <1>3, <1>4
<1> QED BY <1>5

\* The bits of byte k in which two words differ.
LEMMA XorBitsAt ==
    ASSUME NEW n \in Nat, NEW u \in Words(n), NEW v \in Words(n), NEW k \in 1 .. n, NEW t \in 0 .. 7
    PROVE  8 * (k - 1) + t \in XorBits(u, v) <=> Bit(u[k], t) # Bit(v[k], t)
<1> DEFINE x == 8 * (k - 1) + t
<1>1. x \in 0 .. 8 * n - 1 /\ x \div 8 + 1 = k /\ x % 8 = t
    OBVIOUS
<1>2. Len(u) = n
    BY WordType
<1> HIDE DEF x
<1>3. x \in XorBits(u, v) <=> Bit(u[k], t) # Bit(v[k], t)
    BY <1>1, <1>2 DEF XorBits
<1> QED BY <1>3 DEF x

\* Words whose exclusive or is zero are equal.
LEMMA NoXorBits ==
    ASSUME NEW n \in Nat, NEW u \in Words(n), NEW v \in Words(n), XorBits(u, v) = {}
    PROVE  u = v
<1>1. ASSUME NEW k \in 1 .. n PROVE u[k] = v[k]
    <2>1. u[k] \in Byte /\ v[k] \in Byte
        BY WordType
    <2>2. \A t \in 0 .. 7 : Bit(u[k], t) = Bit(v[k], t)
        BY XorBitsAt
    <2> QED BY <2>1, <2>2, SameBits
<1> QED BY <1>1, SameWord

\* Two buffers of n bytes differ in the bits of S, as FLIP_BIT numbers them.
DifferIn(b, c, n, S) ==
    \A k \in 1 .. n : \A t \in 0 .. 7 : Bit(b[k], t) # Bit(c[k], t) <=> 8 * k - 1 - t \in S

\* What FLIP_BIT makes of a buffer is the one that differs from it in those bits.
LEMMA FlippedIs ==
    ASSUME NEW n \in Nat, NEW b \in Words(n), NEW c \in Words(n), NEW S, DifferIn(b, c, n, S)
    PROVE  Flipped(b, S) = c
<1>1. DOMAIN b = 1 .. n /\ DOMAIN c = 1 .. n /\ \A k \in 1 .. n : b[k] \in Byte /\ c[k] \in Byte
    BY WordType
<1>2. ASSUME NEW k \in 1 .. n
      PROVE  c[k] = CHOOSE y \in Byte :
                       \A t \in 0 .. 7 : Bit(y, t) # Bit(b[k], t) <=> 8 * k - 1 - t \in S
    <2> DEFINE P(y) == \A t \in 0 .. 7 : Bit(y, t) # Bit(b[k], t) <=> 8 * k - 1 - t \in S
               z == CHOOSE y \in Byte : P(y)
    <2>1. c[k] \in Byte /\ P(c[k])
        BY <1>1 DEF DifferIn
    <2>2. z \in Byte /\ P(z)
        BY <2>1
    <2>3. ASSUME NEW t \in 0 .. 7 PROVE Bit(z, t) = Bit(c[k], t)
        <3>1. Bit(z, t) # Bit(b[k], t) <=> Bit(c[k], t) # Bit(b[k], t)
            BY <2>1, <2>2
        <3>2. \A y \in Byte : Bit(y, t) = 0 \/ Bit(y, t) = 1
            BY BitIsBit
        <3>3. b[k] \in Byte
            BY <1>1
        <3> QED BY <2>1, <2>2, <3>1, <3>2, <3>3
    <2>4. z = c[k]
        BY <2>1, <2>2, <2>3, SameBits
    <2> QED BY <2>4
<1>3. Flipped(b, S) = [k \in 1 .. n |->
                          CHOOSE y \in Byte :
                             \A t \in 0 .. 7 : Bit(y, t) # Bit(b[k], t) <=> 8 * k - 1 - t \in S]
    BY <1>1 DEF Flipped
<1>4. Flipped(b, S) = [k \in 1 .. n |-> c[k]]
    BY <1>2, <1>3
<1>5. c = [k \in 1 .. n |-> c[k]]
    BY <1>1, WordType DEF Words
<1> QED BY <1>4, <1>5

-----------------------------------------------------------------------------
(* What the stages make of a buffer.                                        *)

\* No loss: c is executed, is one of the runs of bits the walking flips do not produce, or
\* changes no byte that matters.
Covered(b, c, E, na) ==
    c \in AllRuns(b, E, na) \/ CrossingRun(b, c) \/ Changed(b, c) \cap E = {}

\* What is executed whatever AFL_NO_ARITH says.
LEMMA AlwaysRun ==
    ASSUME NEW b, NEW E, NEW na \in BOOLEAN
    PROVE  /\ \A m \in Widths : BitFlips(b, m) \subseteq AllRuns(b, E, na)
           /\ ByteFlips(b, 1, DOMAIN b) \subseteq AllRuns(b, E, na)
           /\ ByteFlips(b, 2, E) \subseteq AllRuns(b, E, na)
           /\ ByteFlips(b, 4, E) \subseteq AllRuns(b, E, na)
           /\ IntRuns(b, 1, E) \subseteq AllRuns(b, E, na)
<1> DEFINE T == IF na THEN Stages \ ArithStages ELSE Stages
<1>1. \A stage \in T : Runs(stage, b, E) \subseteq AllRuns(b, E, na)
    BY DEF AllRuns
<1>2. {"flip1", "flip2", "flip4", "flip8", "flip16", "flip32", "int8"} \subseteq T
    BY DEF Stages, ArithStages
<1>3. Runs("flip1", b, E) = BitFlips(b, 1)
    BY DEF Runs
<1>4. Runs("flip2", b, E) = BitFlips(b, 2)
    BY DEF Runs
<1>5. Runs("flip4", b, E) = BitFlips(b, 4)
    BY DEF Runs
<1>6. Runs("flip8", b, E) = ByteFlips(b, 1, DOMAIN b)
    BY DEF Runs
<1>7. Runs("flip16", b, E) = ByteFlips(b, 2, E)
    BY DEF Runs
<1>8. Runs("flip32", b, E) = ByteFlips(b, 4, E)
    BY DEF Runs
<1>9. Runs("int8", b, E) = IntRuns(b, 1, E)
    BY DEF Runs
<1>10. \A m \in Widths : m = 1 \/ m = 2 \/ m = 4
    BY DEF Widths
<1> HIDE DEF T
<1> QED BY <1>1, <1>2, <1>3, <1>4, <1>5, <1>6, <1>7, <1>8, <1>9, <1>10

\* What is executed besides, when it is not set.
LEMMA ArithRun ==
    ASSUME NEW b, NEW E, NEW n \in Widths
    PROVE  /\ ArithRuns(b, n, E) \subseteq AllRuns(b, E, FALSE)
           /\ IntRuns(b, n, E) \subseteq AllRuns(b, E, FALSE)
<1>1. \A stage \in Stages : Runs(stage, b, E) \subseteq AllRuns(b, E, FALSE)
    BY DEF AllRuns
<1>2. {"arith8", "arith16", "arith32", "int8", "int16", "int32"} \subseteq Stages
    BY DEF Stages, ArithStages
<1>3. Runs("arith8", b, E) = ArithRuns(b, 1, E) /\ Runs("int8", b, E) = IntRuns(b, 1, E)
    BY DEF Runs
<1>4. Runs("arith16", b, E) = ArithRuns(b, 2, E) /\ Runs("int16", b, E) = IntRuns(b, 2, E)
    BY DEF Runs
<1>5. Runs("arith32", b, E) = ArithRuns(b, 4, E) /\ Runs("int32", b, E) = IntRuns(b, 4, E)
    BY DEF Runs
<1>6. n = 1 \/ n = 2 \/ n = 4
    BY DEF Widths
<1> QED BY <1>1, <1>2, <1>3, <1>4, <1>5, <1>6

\* A window that the effector map passes over has no byte that matters.
LEMMA NotStarted ==
    ASSUME NEW b \in Seq(Byte), NEW n \in Nat, NEW p \in 1 .. Len(b) - n + 1, NEW v \in Words(n),
           NEW E, p \notin Starts(b, n, E)
    PROVE  Changed(b, Put(b, p, v)) \cap E = {}
<1>1. Len(b) \in Nat /\ DOMAIN b = 1 .. Len(b) /\ p \in Nat /\ v \in Seq(Byte) /\ Len(v) = n
    BY LenProperties, WordType
<1>2. \A k \in p .. p + n - 1 : k \notin E
    BY <1>1 DEF Starts
<1>3. ASSUME NEW k \in Changed(b, Put(b, p, v)) PROVE k \in p .. p + n - 1
    <2>1. k \in 1 .. Len(b) /\ b[k] # Put(b, p, v)[k]
        BY <1>1, <1>3 DEF Changed
    <2>2. Put(b, p, v)[k] = IF k \in p .. p + Len(v) - 1 THEN v[k - p + 1] ELSE b[k]
        BY <1>1, <2>1, PutBytes
    <2> QED BY <1>1, <2>1, <2>2
<1> QED BY <1>2, <1>3

\* Overwriting a word by itself changes nothing.
LEMMA PutSame ==
    ASSUME NEW b \in Seq(Byte), NEW n \in Nat, NEW p \in 1 .. Len(b) - n + 1
    PROVE  Put(b, p, Word(b, p, n)) = b
<1> DEFINE w == Word(b, p, n)
<1>1. /\ w \in Words(n) /\ p \in Nat \ {0} /\ p + n - 1 <= Len(b) /\ Len(b) \in Nat
      /\ \A k \in 1 .. n : w[k] = b[p + k - 1]
    BY WordInside
<1> HIDE DEF w
<1>2. w \in Seq(Byte) /\ Len(w) = n
    BY <1>1, WordType
<1>3. Put(b, p, w) \in Words(Len(b)) /\ b \in Words(Len(b))
    BY <1>1, <1>2, PutType DEF Words
<1>4. \A k \in 1 .. Len(b) : Put(b, p, w)[k] = b[k]
    <2> TAKE k \in 1 .. Len(b)
    <2>1. Put(b, p, w)[k] = IF k \in p .. p + Len(w) - 1 THEN w[k - p + 1] ELSE b[k]
        BY <1>1, <1>2, PutBytes
    <2>2. ASSUME k \in p .. p + n - 1 PROVE w[k - p + 1] = b[k]
        <3>1. k - p + 1 \in 1 .. n /\ p + (k - p + 1) - 1 = k
            BY <1>1, <2>2
        <3> QED BY <1>1, <3>1
    <2> QED BY <1>2, <2>1, <2>2
<1>5. Put(b, p, w) = b
    BY <1>1, <1>3, <1>4, SameWord
<1> QED BY <1>5 DEF w

\* The bits in which an overwritten buffer differs are those of the word.
LEMMA PutBits ==
    ASSUME NEW b \in Seq(Byte), NEW n \in Nat, NEW p \in 1 .. Len(b) - n + 1, NEW v \in Words(n),
           NEW k \in 1 .. Len(b), NEW t \in 0 .. 7
    PROVE  Bit(b[k], t) # Bit(Put(b, p, v)[k], t) <=>
              k \in p .. p + n - 1 /\ 8 * (k - p) + t \in XorBits(Word(b, p, n), v)
<1> DEFINE w == Word(b, p, n)
<1>1. /\ w \in Words(n) /\ p \in Nat \ {0} /\ p + n - 1 <= Len(b) /\ Len(b) \in Nat
      /\ \A q \in 1 .. n : w[q] = b[p + q - 1]
    BY WordInside
<1> HIDE DEF w
<1>2. v \in Seq(Byte) /\ Len(v) = n
    BY WordType
<1>3. Put(b, p, v)[k] = IF k \in p .. p + Len(v) - 1 THEN v[k - p + 1] ELSE b[k]
    BY <1>1, <1>2, PutBytes, SMTT(30)
<1>4. CASE k \in p .. p + n - 1
    <2>1. k - p + 1 \in 1 .. n /\ p + (k - p + 1) - 1 = k
        BY <1>1, <1>4
    <2>2. ASSUME NEW q \in 1 .. n, q = k - p + 1
          PROVE  8 * (k - p) + t \in XorBits(w, v) <=> Bit(w[q], t) # Bit(v[q], t)
        <3>1. 8 * (q - 1) + t \in XorBits(w, v) <=> Bit(w[q], t) # Bit(v[q], t)
            <4>1. w \in Words(n)
                BY <1>1
            <4> QED BY <4>1, XorBitsAt, Zenon
        <3>2. q - 1 = k - p
            BY <1>1, <2>2
        <3> QED BY <3>1, <3>2
    <2>3. w[k - p + 1] = b[k] /\ Put(b, p, v)[k] = v[k - p + 1]
        BY <1>1, <1>2, <1>3, <1>4, <2>1
    <2>4. 8 * (k - p) + t \in XorBits(w, v) <=> Bit(w[k - p + 1], t) # Bit(v[k - p + 1], t)
        BY <2>1, <2>2
    <2> QED BY <1>4, <2>3, <2>4 DEF w
<1>5. CASE k \notin p .. p + n - 1
    BY <1>2, <1>3, <1>5
<1> QED BY <1>4, <1>5

\* What could_be_bitflip accepts was done by a walking bit or byte flip.
LEMMA FlipCovered ==
    ASSUME NEW b \in Seq(Byte), NEW n \in Nat, NEW p \in 1 .. Len(b) - n + 1, NEW v \in Words(n),
           could_be_bitflip(Word(b, p, n), v), NEW E, NEW na \in BOOLEAN
    PROVE  Covered(b, Put(b, p, v), E, na)
<1> DEFINE w == Word(b, p, n)
           c == Put(b, p, v)
           D == XorBits(w, v)
           L == Len(b)
<1>1. /\ w \in Words(n) /\ p \in Nat \ {0} /\ p + n - 1 <= L /\ L \in Nat
      /\ \A q \in 1 .. n : w[q] = b[p + q - 1]
    BY WordInside
<1>2. v \in Seq(Byte) /\ Len(v) = n
    BY WordType
<1>3. c \in Words(L) /\ b \in Words(L)
    BY <1>1, <1>2, PutType DEF Words
<1>4. \A k \in 1 .. L : \A t \in 0 .. 7 :
         Bit(b[k], t) # Bit(c[k], t) <=> k \in p .. p + n - 1 /\ 8 * (k - p) + t \in D
    BY PutBits
<1>5. \A x \in D : x \in 0 .. 8 * n - 1
    BY <1>1, WordType DEF XorBits
<1>6. /\ \A m \in Widths : BitFlips(b, m) \subseteq AllRuns(b, E, na)
      /\ ByteFlips(b, 1, DOMAIN b) \subseteq AllRuns(b, E, na)
      /\ ByteFlips(b, 2, E) \subseteq AllRuns(b, E, na)
      /\ ByteFlips(b, 4, E) \subseteq AllRuns(b, E, na)
    BY AlwaysRun
<1>7. \/ D = {}
      \/ \E lo \in D, m \in Widths : D = lo .. lo + m - 1
      \/ \E lo \in D, m \in {8, 16, 32} : D = lo .. lo + m - 1 /\ lo % 8 = 0
    BY DEF could_be_bitflip, Widths
<1>8. CASE D = {}
    <2>1. w = v
        BY <1>1, <1>8, NoXorBits
    <2>2. c = b
        BY <2>1, PutSame
    <2>3. Changed(b, c) = {}
        BY <2>2 DEF Changed
    <2> QED BY <2>3 DEF Covered
<1> HIDE DEF w, c, D, L
<1>9. ASSUME NEW lo \in D, NEW m \in Widths, D = lo .. lo + m - 1
      PROVE  Covered(b, c, E, na)
    <2> DEFINE q == lo \div 8
               r == lo % 8
    <2>1. /\ lo \in 0 .. 8 * n - 1 /\ m \in 1 .. 4 /\ n \in Nat
          /\ q \in Nat /\ r \in 0 .. 7 /\ lo = 8 * q + r
        <3>1. lo \in 0 .. 8 * n - 1 /\ n \in Nat /\ m \in 1 .. 4
            BY <1>5 DEF Widths
        <3> QED BY <3>1
    <2>2. lo + m - 1 \in 0 .. 8 * n - 1
        <3>1. lo + m - 1 \in D
            BY <1>9, <2>1
        <3> QED BY <1>5, <3>1
    <2> HIDE DEF q, r
    <2>3. CASE r + m <= 8
        <3> DEFINE s == 8 * (p + q) - r - m
                   S == s .. s + m - 1
        <3>1. q <= n - 1 /\ p + q \in 1 .. L /\ s \in 0 .. 8 * L - m
            BY <1>1, <2>1, <2>2, <2>3
        <3>2. ASSUME NEW k \in 1 .. L, NEW t \in 0 .. 7
              PROVE  k \in p .. p + n - 1 /\ 8 * (k - p) + t \in D <=> 8 * k - 1 - t \in S
            <4>1. 8 * (k - p) + t \in D <=> 8 * (k - p) + t \in lo .. lo + m - 1
                BY <1>9
            <4>2. 8 * (k - p) + t \in lo .. lo + m - 1 => k = p + q
                BY <1>1, <2>1, <2>3
            <4>3. 8 * k - 1 - t \in S => k = p + q
                BY <1>1, <2>1, <2>3
            <4>4. k = p + q => (8 * (k - p) + t \in lo .. lo + m - 1 <=> 8 * k - 1 - t \in S)
                BY <1>1, <2>1
            <4>5. k = p + q => k \in p .. p + n - 1
                BY <1>1, <2>1, <3>1
            <4> QED BY <4>1, <4>2, <4>3, <4>4, <4>5
        <3> HIDE DEF S
        <3>3. Flipped(b, S) = c
            <4>1. DifferIn(b, c, L, S)
                BY <1>4, <3>2 DEF DifferIn
            <4> QED BY <1>1, <1>3, <4>1, FlippedIs
        <3>4. c \in BitFlips(b, m)
            BY <3>1, <3>3 DEF BitFlips, S, L
        <3> QED BY <1>6, <3>4 DEF Covered
    <2>4. CASE r + m > 8
        <3> DEFINE l == lo + 8 * (p - 1)
        <3>1. m \in {2, 4} /\ l \in Nat /\ l \div 8 # (l + m - 1) \div 8
            <4>1. l = 8 * (q + p - 1) + r
                BY <1>1, <2>1
            <4>2. l \div 8 = q + p - 1 /\ (l + m - 1) \div 8 = q + p
                BY <1>1, <2>1, <2>4, <4>1
            <4>3. m \in {2, 4}
                BY <2>1, <2>4 DEF Widths
            <4>4. l \in Nat
                BY <1>1, <2>1
            <4>5. q + p - 1 # q + p
                BY <1>1, <2>1
            <4> QED BY <4>2, <4>3, <4>4, <4>5
        <3>2. l + m - 1 <= 8 * L - 1
            BY <1>1, <2>1, <2>2
        <3>3. ASSUME NEW x \in 0 .. 8 * L - 1
              PROVE  Bit(b[x \div 8 + 1], x % 8) # Bit(c[x \div 8 + 1], x % 8) <=> x \in l .. l + m - 1
            <4> DEFINE k == x \div 8 + 1
                       t == x % 8
            <4>1. k \in 1 .. L /\ t \in 0 .. 7 /\ x = 8 * (k - 1) + t
                BY <1>1
            <4> HIDE DEF k, t
            <4>2. Bit(b[k], t) # Bit(c[k], t) <=> k \in p .. p + n - 1 /\ 8 * (k - p) + t \in D
                BY <1>4, <4>1
            <4>3. 8 * (k - p) + t \in D <=> 8 * (k - p) + t \in lo .. lo + m - 1
                BY <1>9
            <4>4. 8 * (k - p) + t \in lo .. lo + m - 1 <=> x \in l .. l + m - 1
                BY <1>1, <2>1, <4>1
            <4>5. x \in l .. l + m - 1 => k \in p .. p + n - 1
                BY <1>1, <2>1, <2>2, <4>1
            <4> QED BY <4>2, <4>3, <4>4, <4>5 DEF k, t
        <3>4. XorBits(b, c) = l .. l + m - 1
            <4>1. XorBits(b, c) = {x \in 0 .. 8 * L - 1 :
                                     Bit(b[x \div 8 + 1], x % 8) # Bit(c[x \div 8 + 1], x % 8)}
                BY DEF XorBits, L
            <4>2. \A x \in l .. l + m - 1 : x \in 0 .. 8 * L - 1
                BY <1>1, <2>1, <3>1, <3>2
            <4> HIDE DEF l
            <4> QED BY <3>3, <4>1, <4>2
        <3>5. l \in l .. l + m - 1
            BY <2>1, <3>1
        <3> HIDE DEF l
        <3> QED BY <3>1, <3>4, <3>5 DEF CrossingRun, Covered
    <2> QED BY <2>1, <2>3, <2>4
<1>10. ASSUME NEW lo \in D, NEW m \in {8, 16, 32}, D = lo .. lo + m - 1, lo % 8 = 0
       PROVE  Covered(b, c, E, na)
    <2> DEFINE q == lo \div 8
               r == m \div 8
               P == p + q
               S == 8 * (P - 1) .. 8 * (P - 1 + r) - 1
    <2>1. /\ lo \in 0 .. 8 * n - 1 /\ r \in Widths /\ r \in Nat \ {0} /\ m = 8 * r
          /\ q \in Nat /\ lo = 8 * q /\ n \in Nat
        <3>1. lo \in 0 .. 8 * n - 1 /\ n \in Nat /\ (m = 8 \/ m = 16 \/ m = 32)
            BY <1>5
        <3>2. r \in Widths /\ r \in Nat \ {0} /\ m = 8 * r
            BY <3>1 DEF Widths
        <3>3. q \in Nat /\ lo = 8 * q
            BY <1>10, <3>1
        <3> QED BY <3>1, <3>2, <3>3
    <2>2. lo + m - 1 \in 0 .. 8 * n - 1
        <3>1. lo + m - 1 \in D
            BY <1>10, <2>1
        <3> QED BY <1>5, <3>1
    <2> HIDE DEF q, r
    <2>3. P \in 1 .. L - r + 1 /\ P + r - 1 <= p + n - 1
        BY <1>1, <2>1, <2>2
    <2>4. ASSUME NEW k \in 1 .. L, NEW t \in 0 .. 7
          PROVE  /\ k \in p .. p + n - 1 /\ 8 * (k - p) + t \in D <=> k \in P .. P + r - 1
                 /\ 8 * k - 1 - t \in S <=> k \in P .. P + r - 1
        <3>1. 8 * (k - p) + t \in D <=> 8 * (k - p) + t \in lo .. lo + m - 1
            BY <1>10
        <3>2. 8 * (k - p) + t \in lo .. lo + m - 1 <=> k \in P .. P + r - 1
            BY <1>1, <2>1
        <3>3. k \in P .. P + r - 1 => k \in p .. p + n - 1
            BY <1>1, <2>1, <2>3
        <3>4. 8 * k - 1 - t \in S <=> k \in P .. P + r - 1
            BY <1>1, <2>1
        <3> QED BY <3>1, <3>2, <3>3, <3>4
    <2> HIDE DEF S, P
    <2>5. Flipped(b, S) = c
        <3>1. DifferIn(b, c, L, S)
            BY <1>4, <2>4 DEF DifferIn
        <3> QED BY <1>1, <1>3, <3>1, FlippedIs
    <2>6. \A k \in Changed(b, c) : k \in P .. P + r - 1
        <3> SUFFICES ASSUME NEW k \in 1 .. L, b[k] # c[k] PROVE k \in P .. P + r - 1
            <4>1. DOMAIN b = 1 .. L
                BY <1>1, <1>3, WordType
            <4> QED BY <4>1 DEF Changed
        <3>1. b[k] \in Byte /\ c[k] \in Byte
            BY <1>1, <1>3, WordType
        <3>2. PICK t \in 0 .. 7 : Bit(b[k], t) # Bit(c[k], t)
            BY <3>1, SameBits
        <3> QED BY <3>2, <1>4, <2>4
    <2>7. CASE r = 1
        <3>1. P \in Starts(b, r, DOMAIN b)
            <4>1. DOMAIN b = 1 .. L
                BY <1>1, <1>3, WordType
            <4>2. P \in P .. P + r - 1 /\ P \in 1 .. L
                BY <1>1, <2>1, <2>3, <2>7
            <4> QED BY <2>3, <4>1, <4>2 DEF Starts, L
        <3>2. c \in ByteFlips(b, r, DOMAIN b)
            BY <2>5, <3>1 DEF ByteFlips, S
        <3> QED BY <1>6, <2>7, <3>2 DEF Covered
    <2>8. CASE P \in Starts(b, r, E) /\ r # 1
        <3>1. c \in ByteFlips(b, r, E)
            BY <2>5, <2>8 DEF ByteFlips, S
        <3>2. r = 2 \/ r = 4
            BY <2>1, <2>8 DEF Widths
        <3> QED BY <1>6, <3>1, <3>2 DEF Covered
    <2>9. CASE P \notin Starts(b, r, E)
        <3>1. \A k \in P .. P + r - 1 : k \notin E
            BY <2>3, <2>9 DEF Starts, L
        <3> QED BY <2>6, <3>1 DEF Covered
    <2> QED BY <2>7, <2>8, <2>9
<1> QED BY <1>7, <1>8, <1>9, <1>10 DEF w, c, D, L

-----------------------------------------------------------------------------
(* Sums, in every width and byte order.                                     *)

\* The lower half of a swapped word is the upper half, swapped.
LEMMA SwapHalf ==
    ASSUME NEW h \in Nat \ {0}, NEW w \in Words(2 * h), NEW y \in Words(h)
    PROVE  /\ Word(Swap(w), 1, h) = Swap(Word(w, h + 1, h))
           /\ Swap(Put(Swap(w), 1, y)) = Put(w, h + 1, Swap(y))
<1> DEFINE n == 2 * h
           u == Swap(w)
           x == Word(w, h + 1, h)
           z == Put(u, 1, y)
<1>1. n \in Nat \ {0} /\ n \in Nat /\ h \in Nat /\ w \in Words(n)
    OBVIOUS
<1>2. 1 \in 1 .. n - h + 1 /\ h + 1 \in 1 .. n - h + 1 /\ h + 1 \in Nat
    OBVIOUS
<1> HIDE DEF n
<1>3. u \in Words(n) /\ \A k \in 1 .. n : u[k] = w[n + 1 - k]
    BY <1>1, SwapFacts
<1>4. w \in Seq(Byte) /\ Len(w) = n
    BY <1>1, WordType
<1>5. x \in Words(h) /\ \A k \in 1 .. h : x[k] = w[h + 1 + k - 1]
    BY <1>1, <1>2, <1>4, WordInside
<1> HIDE DEF u, x
<1>6. u \in Seq(Byte) /\ Len(u) = n /\ y \in Seq(Byte) /\ Len(y) = h
    BY <1>1, <1>3, WordType
<1>7. Word(u, 1, h) \in Words(h) /\ \A k \in 1 .. h : Word(u, 1, h)[k] = u[1 + k - 1]
    BY <1>1, <1>2, <1>6, WordInside
<1>8. Swap(x) \in Words(h) /\ \A k \in 1 .. h : Swap(x)[k] = x[h + 1 - k]
    BY <1>1, <1>5, SwapFacts
<1>9. Word(u, 1, h) = Swap(x)
    <2>1. ASSUME NEW k \in 1 .. h PROVE Word(u, 1, h)[k] = Swap(x)[k]
        <3>1. /\ k \in 1 .. n /\ 1 + k - 1 = k /\ h + 1 - k \in 1 .. h
              /\ h + 1 + (h + 1 - k) - 1 = n + 1 - k
            BY DEF n
        <3>2. Word(u, 1, h)[k] = w[n + 1 - k]
            BY <1>3, <1>7, <3>1
        <3>3. Swap(x)[k] = w[n + 1 - k]
            BY <1>5, <1>8, <3>1
        <3> QED BY <3>2, <3>3
    <2> QED BY <1>1, <1>7, <1>8, <2>1, SameWord
<1>10. /\ z \in Words(n)
       /\ \A k \in 1 .. n : z[k] = IF k \in 1 .. h THEN y[k] ELSE u[k]
    <2>1. z \in Words(n)
        BY <1>6, PutType DEF Words
    <2>2. \A k \in 1 .. Len(u) : z[k] = IF k \in 1 .. 1 + Len(y) - 1 THEN y[k - 1 + 1] ELSE u[k]
        <3>1. 1 \in Nat
            OBVIOUS
        <3> QED BY <1>6, <3>1, PutBytes, Zenon
    <2>3. 1 + Len(y) - 1 = h /\ \A k \in 1 .. h : k - 1 + 1 = k
        BY <1>6
    <2> HIDE DEF z
    <2> QED BY <1>6, <2>1, <2>2, <2>3
<1> HIDE DEF z
<1>11. Swap(z) \in Words(n) /\ \A k \in 1 .. n : Swap(z)[k] = z[n + 1 - k]
    BY <1>1, <1>10, SwapFacts
<1>12. Swap(y) \in Words(h) /\ \A k \in 1 .. h : Swap(y)[k] = y[h + 1 - k]
    BY <1>1, SwapFacts
<1>13. Swap(y) \in Seq(Byte) /\ Len(Swap(y)) = h
    BY <1>1, <1>12, WordType
<1>14. Put(w, h + 1, Swap(y)) \in Words(n)
    BY <1>2, <1>4, <1>13, PutType DEF Words
<1>15. ASSUME NEW k \in 1 .. n PROVE Put(w, h + 1, Swap(y))[k] = Swap(z)[k]
    <2>1. \A q \in 1 .. Len(w) : Put(w, h + 1, Swap(y))[q] =
             IF q \in h + 1 .. h + 1 + Len(Swap(y)) - 1 THEN Swap(y)[q - (h + 1) + 1] ELSE w[q]
        BY <1>2, <1>4, <1>13, PutBytes, ZenonT(40)
    <2>2. Put(w, h + 1, Swap(y))[k] = IF k \in h + 1 .. n THEN Swap(y)[k - h] ELSE w[k]
        <3>1. h + 1 + h - 1 = n /\ k - (h + 1) + 1 = k - h
            BY <1>15 DEF n
        <3> QED BY <1>4, <1>13, <2>1, <3>1
    <2>3. n + 1 - k \in 1 .. n /\ n + 1 - (n + 1 - k) = k
        BY <1>1
    <2>4. Swap(z)[k] = IF n + 1 - k \in 1 .. h THEN y[n + 1 - k] ELSE u[n + 1 - k]
        BY <1>10, <1>11, <2>3
    <2>5. u[n + 1 - k] = w[k]
        BY <1>3, <2>3
    <2>6. CASE k \in h + 1 .. n
        <3>1. k - h \in 1 .. h /\ h + 1 - (k - h) = n + 1 - k /\ n + 1 - k \in 1 .. h
            BY <2>6 DEF n
        <3>2. Swap(y)[k - h] = y[n + 1 - k]
            BY <1>12, <3>1
        <3> QED BY <2>2, <2>4, <2>6, <3>1, <3>2
    <2>7. CASE k \notin h + 1 .. n
        <3>1. n + 1 - k \notin 1 .. h
            BY <2>7 DEF n
        <3> QED BY <2>2, <2>4, <2>5, <2>7, <3>1
    <2> QED BY <2>6, <2>7
<1>16. Swap(z) = Put(w, h + 1, Swap(y))
    BY <1>1, <1>11, <1>14, <1>15, SameWord
<1> QED BY <1>9, <1>16 DEF u, x, z

\* Sums and differences of d within the range of the stages.
LEMMA SumsAre ==
    ASSUME NEW w, NEW x
    PROVE  /\ x \in AllSums(w) <=> \E d \in 1 .. ArithMax : x = Add(w, d) \/ x = Sub(w, d)
           /\ \A d \in 1 .. ArithMax :
                 /\ Len(w) = 1 \/ CarryOut(LowerHalf(w), d) => Add(w, d) \in Sums(w)
                 /\ Len(w) = 1 \/ BorrowOut(LowerHalf(w), d) => Sub(w, d) \in Sums(w)
<1>1. x \in AllSums(w) <=> \E d \in 1 .. ArithMax : x = Add(w, d) \/ x = Sub(w, d)
    BY DEF AllSums
<1>2. ASSUME NEW d \in 1 .. ArithMax
      PROVE  /\ Len(w) = 1 \/ CarryOut(LowerHalf(w), d) => Add(w, d) \in Sums(w)
             /\ Len(w) = 1 \/ BorrowOut(LowerHalf(w), d) => Sub(w, d) \in Sums(w)
    BY DEF Sums
<1> QED BY <1>1, <1>2

\* A sum or difference is a word, d being less than 256.
LEMMA SumType ==
    ASSUME NEW n \in Nat \ {0}, NEW w \in Words(n), NEW x \in AllSums(w)
    PROVE  x \in Words(n)
<1>1. PICK d \in 1 .. ArithMax : x = Add(w, d) \/ x = Sub(w, d)
    BY SumsAre
<1>2. d \in 0 .. 255
    BY ArithAssumption
<1> QED BY <1>1, <1>2, AddType

\* What an arithmetic stage tries in one window is not lost.
LEMMA ArithTried ==
    ASSUME NEW b \in Seq(Byte), NEW n \in Widths, NEW p \in 1 .. Len(b) - n + 1, NEW v \in Words(n),
           NEW E,
           v \in Sums(Word(b, p, n)) \cup {Swap(u) : u \in Sums(Swap(Word(b, p, n)))}
    PROVE  Covered(b, Put(b, p, v), E, FALSE)
<1>1. n \in Nat
    BY DEF Widths
<1>2. CASE p \notin Starts(b, n, E)
    BY <1>1, <1>2, NotStarted DEF Covered
<1>3. CASE could_be_bitflip(Word(b, p, n), v)
    BY <1>1, <1>3, FlipCovered
<1>4. CASE p \in Starts(b, n, E) /\ ~could_be_bitflip(Word(b, p, n), v)
    <2>1. v \in ArithTries(Word(b, p, n))
        BY <1>4 DEF ArithTries
    <2>2. Put(b, p, v) \in ArithRuns(b, n, E)
        BY <1>4, <2>1 DEF ArithRuns
    <2> QED BY <2>2, ArithRun DEF Covered
<1> QED BY <1>2, <1>3, <1>4

\* All sums of one width, in both byte orders, are covered in every window.
SumsCovered(b, n, E) ==
    \A p \in 1 .. Len(b) - n + 1 :
        /\ \A x \in AllSums(Word(b, p, n)) : Covered(b, Put(b, p, x), E, FALSE)
        /\ \A x \in AllSums(Swap(Word(b, p, n))) : Covered(b, Put(b, p, Swap(x)), E, FALSE)

\* arith8.
LEMMA Sums8 ==
    ASSUME NEW b \in Seq(Byte), NEW E
    PROVE  SumsCovered(b, 1, E)
<1> SUFFICES ASSUME NEW p \in 1 .. Len(b) - 1 + 1
             PROVE  /\ \A x \in AllSums(Word(b, p, 1)) : Covered(b, Put(b, p, x), E, FALSE)
                    /\ \A x \in AllSums(Swap(Word(b, p, 1))) : Covered(b, Put(b, p, Swap(x)), E, FALSE)
    BY DEF SumsCovered
<1> DEFINE w == Word(b, p, 1)
<1>1. w \in Words(1) /\ Swap(w) \in Words(1)
    BY WordInside, SwapFacts
<1>2. 1 \in Widths
    BY DEF Widths
<1>3. ASSUME NEW u \in Words(1), NEW x \in AllSums(u)
      PROVE  x \in Words(1) /\ x \in Sums(u)
    <2>1. Len(u) = 1
        BY WordType
    <2>2. x \in Words(1)
        BY SumType
    <2>3. PICK d \in 1 .. ArithMax : x = Add(u, d) \/ x = Sub(u, d)
        BY SumsAre
    <2> QED BY <2>1, <2>2, <2>3, SumsAre
<1>4. ASSUME NEW x \in AllSums(w) PROVE Covered(b, Put(b, p, x), E, FALSE)
    <2>1. x \in Words(1) /\ x \in Sums(w)
        BY <1>1, <1>3
    <2> QED BY <1>2, <2>1, ArithTried
<1>5. ASSUME NEW x \in AllSums(Swap(w)) PROVE Covered(b, Put(b, p, Swap(x)), E, FALSE)
    <2>1. x \in Words(1) /\ x \in Sums(Swap(w))
        BY <1>1, <1>3
    <2>2. Swap(x) \in Words(1)
        BY <2>1, SwapFacts
    <2> QED BY <1>2, <2>1, <2>2, ArithTried
<1> QED BY <1>4, <1>5

\* A sum is tried in its own width, or changes the lower half alone.
LEMMA HalfSum ==
    ASSUME NEW h \in Nat \ {0}, NEW u \in Words(2 * h), NEW x \in AllSums(u)
    PROVE  x \in Sums(u) \/ \E y \in AllSums(Word(u, 1, h)) : x = Put(u, 1, y)
<1>1. PICK d \in 1 .. ArithMax : x = Add(u, d) \/ x = Sub(u, d)
    BY SumsAre
<1>2. d \in 0 .. 255
    BY ArithAssumption
<1>3. /\ CarryOut(LowerHalf(u), d) => Add(u, d) \in Sums(u)
      /\ BorrowOut(LowerHalf(u), d) => Sub(u, d) \in Sums(u)
    BY SumsAre
<1>4. /\ ~CarryOut(LowerHalf(u), d) => Add(u, d) = Put(u, 1, Add(Word(u, 1, h), d))
      /\ ~BorrowOut(LowerHalf(u), d) => Sub(u, d) = Put(u, 1, Sub(Word(u, 1, h), d))
    BY <1>2, LowerHalfOnly
<1>5. /\ Add(Word(u, 1, h), d) \in AllSums(Word(u, 1, h))
      /\ Sub(Word(u, 1, h), d) \in AllSums(Word(u, 1, h))
    BY DEF AllSums
<1> QED BY <1>1, <1>3, <1>4, <1>5

\* arith16 and arith32 leave to the shorter width what it has done.
LEMMA SumsWide ==
    ASSUME NEW b \in Seq(Byte), NEW E, NEW h \in {1, 2}, SumsCovered(b, h, E)
    PROVE  SumsCovered(b, 2 * h, E)
<1> DEFINE n == 2 * h
<1>1. h \in Nat \ {0} /\ h \in Nat /\ n \in Nat /\ n \in Nat \ {0} /\ n \in Widths
    BY DEF Widths
<1>2. 1 \in 1 .. n - h + 1 /\ h + 1 \in 1 .. n - h + 1
    BY <1>1
<1> SUFFICES ASSUME NEW p \in 1 .. Len(b) - n + 1
             PROVE  /\ \A x \in AllSums(Word(b, p, n)) : Covered(b, Put(b, p, x), E, FALSE)
                    /\ \A x \in AllSums(Swap(Word(b, p, n))) : Covered(b, Put(b, p, Swap(x)), E, FALSE)
    BY DEF SumsCovered
<1> DEFINE w == Word(b, p, n)
<1>3. w \in Words(n) /\ Swap(w) \in Words(n)
    BY <1>1, WordInside, SwapFacts
<1>4. /\ p + 1 - 1 \in 1 .. Len(b) - h + 1 /\ p + (h + 1) - 1 \in 1 .. Len(b) - h + 1
      /\ Word(w, 1, h) = Word(b, p + 1 - 1, h) /\ Word(w, h + 1, h) = Word(b, p + (h + 1) - 1, h)
    BY <1>1, <1>2, PartOfWord
<1>5. ASSUME NEW q \in 1 .. Len(b) - h + 1
      PROVE  /\ \A x \in AllSums(Word(b, q, h)) : x \in Words(h) /\ Covered(b, Put(b, q, x), E, FALSE)
             /\ \A x \in AllSums(Swap(Word(b, q, h))) :
                   x \in Words(h) /\ Swap(x) \in Words(h) /\ Covered(b, Put(b, q, Swap(x)), E, FALSE)
    <2>1. Word(b, q, h) \in Words(h) /\ Swap(Word(b, q, h)) \in Words(h)
        BY <1>1, WordInside, SwapFacts
    <2>2. /\ \A x \in AllSums(Word(b, q, h)) : x \in Words(h)
          /\ \A x \in AllSums(Swap(Word(b, q, h))) : x \in Words(h) /\ Swap(x) \in Words(h)
        BY <1>1, <2>1, SumType, SwapFacts
    <2> QED BY <2>2 DEF SumsCovered
<1>6. ASSUME NEW x \in AllSums(w) PROVE Covered(b, Put(b, p, x), E, FALSE)
    <2>1. x \in Words(n)
        BY <1>1, <1>3, SumType
    <2>2. CASE x \in Sums(w)
        BY <1>1, <2>1, <2>2, ArithTried
    <2>3. ASSUME NEW y \in AllSums(Word(w, 1, h)), x = Put(w, 1, y)
          PROVE  Covered(b, Put(b, p, x), E, FALSE)
        <3>1. y \in Words(h) /\ Covered(b, Put(b, p + 1 - 1, y), E, FALSE)
            BY <1>4, <1>5, <2>3
        <3>2. Put(b, p, Put(w, 1, y)) = Put(b, p + 1 - 1, y)
            BY <1>1, <1>2, <3>1, PutPart
        <3> QED BY <2>3, <3>1, <3>2
    <2>4. x \in Sums(w) \/ \E y \in AllSums(Word(w, 1, h)) : x = Put(w, 1, y)
        <3> HIDE DEF w
        <3> QED BY <1>1, <1>3, HalfSum
    <2> QED BY <2>2, <2>3, <2>4
<1>7. ASSUME NEW x \in AllSums(Swap(w)) PROVE Covered(b, Put(b, p, Swap(x)), E, FALSE)
    <2>1. x \in Words(n) /\ Swap(x) \in Words(n)
        BY <1>1, <1>3, SumType, SwapFacts
    <2>2. CASE x \in Sums(Swap(w))
        BY <1>1, <2>1, <2>2, ArithTried
    <2>3. ASSUME NEW y \in AllSums(Word(Swap(w), 1, h)), x = Put(Swap(w), 1, y)
          PROVE  Covered(b, Put(b, p, Swap(x)), E, FALSE)
        <3>1. Word(w, h + 1, h) \in Words(h)
            BY <1>1, <1>4, WordInside
        <3>2. Swap(Word(w, h + 1, h)) \in Words(h)
            BY <1>1, <3>1, SwapFacts
        <3>3. ASSUME NEW z \in Words(h) PROVE Word(Swap(w), 1, h) = Swap(Word(w, h + 1, h))
            BY <1>1, <1>3, SwapHalf
        <3>4. Word(Swap(w), 1, h) = Swap(Word(w, h + 1, h))
            BY <3>1, <3>3
        <3>5. /\ y \in Words(h) /\ Swap(y) \in Words(h)
              /\ Covered(b, Put(b, p + (h + 1) - 1, Swap(y)), E, FALSE)
            BY <1>4, <1>5, <2>3, <3>4
        <3>6. Swap(x) = Put(w, h + 1, Swap(y))
            BY <1>1, <1>3, <2>3, <3>5, SwapHalf
        <3>7. Put(b, p, Put(w, h + 1, Swap(y))) = Put(b, p + (h + 1) - 1, Swap(y))
            BY <1>1, <1>2, <3>5, PutPart
        <3> QED BY <3>5, <3>6, <3>7
    <2>4. x \in Sums(Swap(w)) \/ \E y \in AllSums(Word(Swap(w), 1, h)) : x = Put(Swap(w), 1, y)
        <3> HIDE DEF w
        <3> QED BY <1>1, <1>3, HalfSum
    <2> QED BY <2>2, <2>3, <2>4
<1> QED BY <1>6, <1>7

\* No sum of any width is lost.
LEMMA SumsOfAllWidths ==
    ASSUME NEW b \in Seq(Byte), NEW E, NEW n \in Widths
    PROVE  SumsCovered(b, n, E)
<1>1. SumsCovered(b, 1, E)
    BY Sums8
<1>2. SumsCovered(b, 2 * 1, E)
    BY <1>1, SumsWide
<1>3. 2 * 1 = 2 /\ 2 * 2 = 4
    OBVIOUS
<1>4. SumsCovered(b, 2 * 2, E)
    BY <1>2, <1>3, SumsWide
<1> QED BY <1>1, <1>2, <1>3, <1>4 DEF Widths

-----------------------------------------------------------------------------
(* What could_be_arith leaves out has been done.                            *)

\* Words that agree on every other aligned part: one is the other with a part replaced.
LEMMA OnePart ==
    ASSUME NEW n \in Widths, NEW m \in Widths, m <= n, NEW w \in Words(n), NEW v \in Words(n),
           NEW o \in 1 .. n, (o - 1) % m = 0,
           \A q \in 1 .. n : (q - 1) % m = 0 /\ q # o => Word(w, q, m) = Word(v, q, m)
    PROVE  o \in 1 .. n - m + 1 /\ v = Put(w, o, Word(v, o, m))
<1>1. n \in Nat /\ m \in Nat
    BY DEF Widths
<1>2. /\ w \in Seq(Byte) /\ Len(w) = n /\ \A k \in 1 .. n : w[k] \in Byte
      /\ v \in Seq(Byte) /\ Len(v) = n /\ \A k \in 1 .. n : v[k] \in Byte
    BY <1>1, WordType
<1>3. n \in {1, 2, 4} /\ m \in {1, 2, 4}
    BY DEF Widths
<1>4. \A q \in 1 .. n : (q - 1) % m = 0 => q \in 1 .. n - m + 1
    BY <1>3
<1>5. ASSUME NEW k \in 1 .. n
      PROVE  \E q \in 1 .. n : (q - 1) % m = 0 /\ k \in q .. q + m - 1
    <2> DEFINE Has(q) == q \in 1 .. n /\ (q - 1) % m = 0 /\ k \in q .. q + m - 1
    <2>1. CASE m = 1
        <3>1. Has(k)
            BY <1>3, <2>1
        <3> QED BY <3>1
    <2>2. CASE m = 2
        <3>1. Has(k) \/ Has(k - 1)
            BY <1>3, <2>2
        <3> QED BY <3>1
    <2>3. CASE m = 4
        <3>1. Has(1)
            BY <1>3, <2>3
        <3> QED BY <3>1
    <2> QED BY <1>3, <2>1, <2>2, <2>3
<1>6. ASSUME NEW k \in 1 .. n, NEW q \in 1 .. n, (q - 1) % m = 0, k \in q .. q + m - 1, q # o
      PROVE  k \notin o .. o + m - 1
    BY <1>3, <1>6
<1>7. o \in 1 .. n - m + 1
    BY <1>4
<1>8. ASSUME NEW q \in 1 .. n - m + 1
      PROVE  /\ Word(w, q, m) \in Words(m) /\ Word(v, q, m) \in Words(m)
             /\ \A j \in 1 .. m : Word(w, q, m)[j] = w[q + j - 1] /\ Word(v, q, m)[j] = v[q + j - 1]
    <2> QED BY <1>1, <1>2, WordInside
<1> DEFINE x == Word(v, o, m)
           u == Put(w, o, x)
<1>9. x \in Words(m) /\ x \in Seq(Byte) /\ Len(x) = m
    BY <1>1, <1>7, <1>8, WordType
<1>10. u \in Words(n)
    BY <1>1, <1>2, <1>9, PutType DEF Words
<1>11. \A k \in 1 .. n : u[k] = IF k \in o .. o + m - 1 THEN x[k - o + 1] ELSE w[k]
    <2>1. o \in Nat
        OBVIOUS
    <2>2. \A k \in 1 .. Len(w) : u[k] = IF k \in o .. o + Len(x) - 1 THEN x[k - o + 1] ELSE w[k]
        <3> HIDE DEF x
        <3> QED BY <1>2, <1>9, <2>1, PutBytes
    <2> HIDE DEF u, x
    <2> QED BY <1>2, <1>9, <2>2
<1>12. ASSUME NEW k \in 1 .. n PROVE u[k] = v[k]
    <2>1. PICK q \in 1 .. n : (q - 1) % m = 0 /\ k \in q .. q + m - 1
        BY <1>5
    <2>2. q \in 1 .. n - m + 1
        BY <1>4, <2>1
    <2>3. k - q + 1 \in 1 .. m /\ q + (k - q + 1) - 1 = k
        BY <1>3, <2>1
    <2>4. Word(w, q, m)[k - q + 1] = w[k] /\ Word(v, q, m)[k - q + 1] = v[k]
        BY <1>8, <2>2, <2>3
    <2>5. CASE q = o
        <3>1. k \in o .. o + m - 1 /\ x[k - o + 1] = v[k]
            BY <2>1, <2>4, <2>5
        <3> HIDE DEF u, x
        <3> QED BY <1>11, <3>1
    <2>6. CASE q # o
        <3>1. k \notin o .. o + m - 1
            BY <1>6, <2>1, <2>6
        <3>2. w[k] = v[k]
            BY <2>1, <2>4, <2>6
        <3> HIDE DEF u, x
        <3> QED BY <1>11, <3>1, <3>2
    <2> QED BY <2>5, <2>6
<1>13. u = v
    <2> HIDE DEF u
    <2> QED BY <1>1, <1>10, <1>12, SameWord
<1> QED BY <1>7, <1>13

\* A word that lies within ARITH_MAX of another is a sum or a difference of it.
LEMMA WithinIsSum ==
    ASSUME NEW n \in Widths, NEW x \in Words(n), NEW y \in Words(n), x # y, Within(x, y)
    PROVE  y \in AllSums(x)
<1>1. n \in 1 .. 4 /\ n \in Nat \ {0}
    BY DEF Widths
<1>2. PICK d \in 0 .. ArithMax : Add(x, d) = y \/ Add(y, d) = x
    BY DEF Within
<1>3. d # 0
    BY <1>1, <1>2, AddZero
<1>4. d \in 1 .. ArithMax /\ d \in 0 .. 255
    BY <1>3, ArithAssumption
<1>5. Add(y, d) = x => Sub(x, d) = y
    BY <1>1, <1>4, SubUndoesAdd
<1> QED BY <1>2, <1>4, <1>5, SumsAre

\* A sum in a part of a word, in either byte order, is not lost.
LEMMA PartCovered ==
    ASSUME NEW b \in Seq(Byte), NEW E, NEW n \in Widths, NEW p \in 1 .. Len(b) - n + 1,
           NEW v \in Words(n), NEW m \in Widths, m <= Len(Word(b, p, n)),
           PartWithin(Word(b, p, n), v, m)
    PROVE  Covered(b, Put(b, p, v), E, FALSE)
<1> DEFINE w == Word(b, p, n)
<1>1. n \in Nat /\ m \in Nat /\ m \in Nat \ {0}
    BY DEF Widths
<1>2. w \in Words(n) /\ Len(w) = n
    BY <1>1, WordInside, WordType
<1> HIDE DEF w
<1>3. PICK o \in 1 .. n :
         /\ {q \in 1 .. Len(w) : (q - 1) % m = 0 /\ Word(w, q, m) # Word(v, q, m)} = {o}
         /\ \/ Within(Word(w, o, m), Word(v, o, m))
            \/ Within(Swap(Word(w, o, m)), Swap(Word(v, o, m)))
    BY <1>2 DEF PartWithin, w
<1>4. /\ (o - 1) % m = 0 /\ Word(w, o, m) # Word(v, o, m)
      /\ \A q \in 1 .. n : (q - 1) % m = 0 /\ q # o => Word(w, q, m) = Word(v, q, m)
    BY <1>2, <1>3
<1>5. m <= n
    BY <1>2 DEF w
<1>6. o \in 1 .. n - m + 1 /\ v = Put(w, o, Word(v, o, m))
    BY <1>2, <1>4, <1>5, OnePart
<1> DEFINE x == Word(w, o, m)
           y == Word(v, o, m)
<1>7. x \in Words(m) /\ y \in Words(m)
    BY <1>1, <1>2, <1>6, WordInside, WordType
<1>8. x # y /\ Swap(x) # Swap(y) /\ Swap(x) \in Words(m) /\ Swap(y) \in Words(m) /\ Swap(Swap(y)) = y
    BY <1>1, <1>4, <1>7, SwapFacts
<1>9. p + o - 1 \in 1 .. Len(b) - m + 1 /\ x = Word(b, p + o - 1, m)
    BY <1>1, <1>6, PartOfWord DEF w
<1>10. Put(b, p, v) = Put(b, p + o - 1, y)
    <2> HIDE DEF y
    <2>1. Put(b, p, Put(w, o, y)) = Put(b, p + o - 1, y)
        BY <1>1, <1>6, <1>7, PutPart DEF w
    <2> QED BY <1>6, <2>1 DEF y
<1>11. y \in AllSums(x) \/ Swap(y) \in AllSums(Swap(x))
    BY <1>3, <1>7, <1>8, WithinIsSum
<1>12. SumsCovered(b, m, E)
    BY SumsOfAllWidths
<1> HIDE DEF x, y
<1>13. CASE y \in AllSums(x)
    BY <1>9, <1>10, <1>12, <1>13 DEF SumsCovered
<1>14. CASE Swap(y) \in AllSums(Swap(x))
    <2>1. Covered(b, Put(b, p + o - 1, Swap(Swap(y))), E, FALSE)
        BY <1>9, <1>12, <1>14 DEF SumsCovered
    <2> QED BY <1>8, <1>10, <2>1
<1> QED BY <1>11, <1>13, <1>14

\* An unchanged buffer changes no byte.
LEMMA UnchangedCovered ==
    ASSUME NEW b \in Seq(Byte), NEW n \in Nat, NEW p \in 1 .. Len(b) - n + 1, NEW E, NEW na
    PROVE  Covered(b, Put(b, p, Word(b, p, n)), E, na)
<1>1. Put(b, p, Word(b, p, n)) = b
    BY PutSame
<1>2. Changed(b, b) = {}
    BY DEF Changed
<1> QED BY <1>1, <1>2 DEF Covered

\* What could_be_arith recognises is tried, changes inert bytes only or is a run of
\* bits the walking flips leave out.
LEMMA ArithCovered ==
    ASSUME NEW b \in Seq(Byte), NEW n \in Widths, NEW p \in 1 .. Len(b) - n + 1, NEW v \in Words(n),
           could_be_arith(Word(b, p, n), v), NEW E
    PROVE  Covered(b, Put(b, p, v), E, FALSE)
<1>1. n \in Nat
    BY DEF Widths
<1>2. CASE Word(b, p, n) = v
    BY <1>1, <1>2, UnchangedCovered
<1>3. CASE \E m \in {1, 2, 4} : m <= Len(Word(b, p, n)) /\ PartWithin(Word(b, p, n), v, m)
    BY <1>3, PartCovered DEF Widths
<1> QED BY <1>2, <1>3 DEF could_be_arith

-----------------------------------------------------------------------------
(* Interesting values.                                                      *)

\* The bytes of a value are a word.
LEMMA BytesType ==
    ASSUME NEW n \in Widths, NEW x \in Int
    PROVE  Bytes(x, n) \in Words(n)
<1>1. n \in Nat /\ n \in 1 .. 4
    BY DEF Widths
<1>2. 256 ^ 0 = 1 /\ 256 ^ 1 = 256 /\ 256 ^ 2 = 65536 /\ 256 ^ 3 = 16777216
    OBVIOUS
<1>3. ASSUME NEW k \in 1 .. n PROVE (x \div 256 ^ (k - 1)) % 256 \in Byte
    <2>1. \A m \in Nat \ {0} : (x \div m) % 256 \in Byte
        BY DEF Byte
    <2>2. k = 1 \/ k = 2 \/ k = 3 \/ k = 4
        BY <1>1
    <2>3. 256 ^ (k - 1) \in Nat \ {0}
        <3>1. CASE k = 1
            <4>1. k - 1 = 0
                BY <3>1
            <4> QED BY <1>2, <4>1
        <3>2. CASE k = 2
            <4>1. k - 1 = 1
                BY <3>2
            <4> QED BY <1>2, <4>1
        <3>3. CASE k = 3
            <4>1. k - 1 = 2
                BY <3>3
            <4> QED BY <1>2, <4>1
        <3>4. CASE k = 4
            <4>1. k - 1 = 3
                BY <3>4
            <4> QED BY <1>2, <4>1
        <3> QED BY <2>2, <3>1, <3>2, <3>3, <3>4
    <2> QED BY <2>1, <2>3
<1>4. Bytes(x, n) \in [1 .. n -> Byte]
    BY <1>3 DEF Bytes
<1> QED BY <1>1, <1>4, FunctionIsWord

\* Interesting values are words, in either byte order.
LEMMA InterestingType ==
    ASSUME NEW n \in Widths, NEW v \in Interesting(n)
    PROVE  v \in Words(n) /\ Swap(v) \in Words(n) /\ Swap(Swap(v)) = v
<1>1. Ints8 \subseteq Int
    BY DEF Ints8
<1>2. Ints16 \subseteq Int
    BY <1>1 DEF Ints16
<1>3. Ints32 \subseteq Int
    BY <1>2 DEF Ints32
<1>4. Ints(n) \subseteq Int
    BY <1>1, <1>2, <1>3 DEF Ints
<1>5. PICK x \in Ints(n) : v = Bytes(x, n)
    BY DEF Interesting
<1>6. x \in Int
    BY <1>4
<1>7. v \in Words(n)
    BY <1>5, <1>6, BytesType
<1>8. n \in Nat
    BY DEF Widths
<1> QED BY <1>7, <1>8, SwapFacts

\* All interesting values of one width, least or most significant byte first, are covered
\* in every window.
LittleCovered(b, n, E) ==
    \A p \in 1 .. Len(b) - n + 1 : \A v \in Interesting(n) : Covered(b, Put(b, p, v), E, FALSE)
BigCovered(b, n, E) ==
    \A p \in 1 .. Len(b) - n + 1 :
        \A v \in Interesting(n) : Covered(b, Put(b, p, Swap(v)), E, FALSE)

\* What is tried in one window is covered.
LEMMA IntTried ==
    ASSUME NEW b \in Seq(Byte), NEW n \in Widths, NEW p \in 1 .. Len(b) - n + 1, NEW v \in Words(n),
           NEW E, NEW na \in BOOLEAN, na => n = 1, v \in IntTries(Word(b, p, n))
    PROVE  Covered(b, Put(b, p, v), E, na)
<1>1. n \in Nat
    BY DEF Widths
<1>2. CASE p \notin Starts(b, n, E)
    BY <1>1, <1>2, NotStarted DEF Covered
<1>3. CASE p \in Starts(b, n, E)
    <2>1. Put(b, p, v) \in IntRuns(b, n, E)
        BY <1>3 DEF IntRuns
    <2>2. CASE na
        BY <2>1, <2>2, AlwaysRun DEF Covered
    <2>3. CASE ~na
        <3>1. na = FALSE
            BY <2>3
        <3> QED BY <2>1, <3>1, ArithRun DEF Covered
    <2> QED BY <2>2, <2>3
<1> QED BY <1>2, <1>3

\* A narrower word put into a part of a window is put into the buffer.
LEMMA InsertedPlace ==
    ASSUME NEW b \in Seq(Byte), NEW n \in Widths, NEW p \in 1 .. Len(b) - n + 1,
           NEW m \in Widths, NEW o \in Nat \ {0}, o + m - 1 <= n, NEW x \in Words(m)
    PROVE  \E q \in 1 .. Len(b) - m + 1 : Put(b, p, Put(Word(b, p, n), o, x)) = Put(b, q, x)
<1>1. n \in Nat /\ m \in Nat
    BY DEF Widths
<1>2. o \in 1 .. n - m + 1
    BY <1>1
<1>3. Put(b, p, Put(Word(b, p, n), o, x)) = Put(b, p + o - 1, x)
    BY <1>1, <1>2, PutPart
<1>4. p + o - 1 \in 1 .. Len(b) - m + 1
    BY <1>1, <1>2, PartOfWord
<1> QED BY <1>3, <1>4

\* What could_be_interest recognises was done in a narrower width, or in the same with the
\* other byte order.
LEMMA InterestSeen ==
    ASSUME NEW b \in Seq(Byte), NEW E, NEW n \in Widths, n # 1, NEW p \in 1 .. Len(b) - n + 1, NEW v,
           NEW check_le \in BOOLEAN, could_be_interest(Word(b, p, n), v, check_le),
           \A m \in Widths : m < n \/ (m = n /\ check_le) => LittleCovered(b, m, E),
           \A m \in Widths : m < n => BigCovered(b, m, E)
    PROVE  Covered(b, Put(b, p, v), E, FALSE)
<1> DEFINE w == Word(b, p, n)
<1>1. n \in Nat /\ (n = 2 \/ n = 4) /\ 1 \in Widths /\ 2 \in Widths /\ 4 \in Widths
    BY DEF Widths
<1>2. Len(w) = n
    BY <1>1, WordInside, WordType
<1>3. CASE w = v
    BY <1>1, <1>3, UnchangedCovered
<1>4. CASE \E o \in 1 .. n - 1 + 1, x \in Interesting(1) : v = Put(w, o, x)
    <2>1. PICK o \in 1 .. n - 1 + 1, x \in Interesting(1) : v = Put(w, o, x)
        BY <1>4
    <2>2. LittleCovered(b, 1, E)
        BY <1>1
    <2>3. x \in Words(1)
        BY <1>1, InterestingType
    <2>4. o \in Nat \ {0} /\ o + 1 - 1 <= n
        BY <1>1
    <2>5. PICK q \in 1 .. Len(b) - 1 + 1 : Put(b, p, Put(w, o, x)) = Put(b, q, x)
        <3> HIDE DEF w
        <3>1. ASSUME NEW m \in Widths, m = 1
              PROVE  \E q \in 1 .. Len(b) - m + 1 : Put(b, p, Put(w, o, x)) = Put(b, q, x)
            <4>1. o + m - 1 <= n /\ x \in Words(m)
                BY <2>3, <2>4, <3>1
            <4>2. \E q \in 1 .. Len(b) - m + 1 : Put(b, p, Put(Word(b, p, n), o, x)) = Put(b, q, x)
                BY <2>4, <4>1, InsertedPlace
            <4> QED BY <4>2 DEF w
        <3> QED BY <1>1, <3>1
    <2> QED BY <2>1, <2>2, <2>5 DEF LittleCovered
<1>5. CASE /\ n > 2 \/ check_le
           /\ \E o \in 1 .. n - 2 + 1, x \in Interesting(2) : v = Put(w, o, x)
    <2>1. PICK o \in 1 .. n - 2 + 1, x \in Interesting(2) : v = Put(w, o, x)
        BY <1>5
    <2>2. LittleCovered(b, 2, E)
        BY <1>1, <1>5
    <2>3. x \in Words(2)
        BY <1>1, InterestingType
    <2>4. o \in Nat \ {0} /\ o + 2 - 1 <= n
        BY <1>1
    <2>5. PICK q \in 1 .. Len(b) - 2 + 1 : Put(b, p, Put(w, o, x)) = Put(b, q, x)
        <3> HIDE DEF w
        <3>1. ASSUME NEW m \in Widths, m = 2
              PROVE  \E q \in 1 .. Len(b) - m + 1 : Put(b, p, Put(w, o, x)) = Put(b, q, x)
            <4>1. o + m - 1 <= n /\ x \in Words(m)
                BY <2>3, <2>4, <3>1
            <4>2. \E q \in 1 .. Len(b) - m + 1 : Put(b, p, Put(Word(b, p, n), o, x)) = Put(b, q, x)
                BY <2>4, <4>1, InsertedPlace
            <4> QED BY <4>2 DEF w
        <3> QED BY <1>1, <3>1
    <2> QED BY <2>1, <2>2, <2>5 DEF LittleCovered
<1>6. CASE /\ n > 2
           /\ \E o \in 1 .. n - 2 + 1, y \in {Swap(x) : x \in Interesting(2)} : v = Put(w, o, y)
    <2>1. PICK o \in 1 .. n - 2 + 1, x \in Interesting(2) : v = Put(w, o, Swap(x))
        BY <1>6
    <2>2. BigCovered(b, 2, E)
        BY <1>1, <1>6
    <2>3. Swap(x) \in Words(2)
        BY <1>1, InterestingType
    <2>4. o \in Nat \ {0} /\ o + 2 - 1 <= n
        BY <1>1
    <2>5. PICK q \in 1 .. Len(b) - 2 + 1 : Put(b, p, Put(w, o, Swap(x))) = Put(b, q, Swap(x))
        <3> HIDE DEF w
        <3>1. ASSUME NEW m \in Widths, m = 2
              PROVE  \E q \in 1 .. Len(b) - m + 1 : Put(b, p, Put(w, o, Swap(x))) = Put(b, q, Swap(x))
            <4>1. o + m - 1 <= n /\ Swap(x) \in Words(m)
                BY <2>3, <2>4, <3>1
            <4>2. \E q \in 1 .. Len(b) - m + 1 :
                     Put(b, p, Put(Word(b, p, n), o, Swap(x))) = Put(b, q, Swap(x))
                BY <2>4, <4>1, InsertedPlace
            <4> QED BY <4>2 DEF w
        <3> QED BY <1>1, <3>1
    <2> QED BY <2>1, <2>2, <2>5 DEF BigCovered
<1>7. CASE n = 4 /\ check_le /\ v \in Interesting(4)
    <2>1. LittleCovered(b, 4, E)
        BY <1>1, <1>7
    <2> QED BY <1>7, <2>1 DEF LittleCovered
<1> QED BY <1>2, <1>3, <1>4, <1>5, <1>6, <1>7 DEF could_be_interest

\* An interesting value is tried unless a filter knows it.
LEMMA IntLittle ==
    ASSUME NEW b \in Seq(Byte), NEW E, NEW n \in Widths,
           \A m \in Widths : m < n => LittleCovered(b, m, E) /\ BigCovered(b, m, E)
    PROVE  LittleCovered(b, n, E)
<1> SUFFICES ASSUME NEW p \in 1 .. Len(b) - n + 1, NEW v \in Interesting(n)
             PROVE  Covered(b, Put(b, p, v), E, FALSE)
    BY DEF LittleCovered
<1> DEFINE w == Word(b, p, n)
<1>1. n \in Nat /\ n \in {1, 2, 4}
    BY DEF Widths
<1>2. w \in Words(n) /\ Len(w) = n /\ v \in Words(n)
    BY <1>1, WordInside, WordType, InterestingType
<1>3. CASE could_be_bitflip(w, v)
    BY <1>1, <1>2, <1>3, FlipCovered
<1>4. CASE could_be_arith(w, v)
    BY <1>2, <1>4, ArithCovered
<1>5. CASE n # 1 /\ could_be_interest(w, v, FALSE)
    BY <1>5, InterestSeen
<1>6. CASE ~could_be_bitflip(w, v) /\ ~could_be_arith(w, v) /\ (n > 1 => ~could_be_interest(w, v, FALSE))
    <2>1. v \in IntTries(w)
        BY <1>2, <1>6 DEF IntTries
    <2> QED BY <1>2, <2>1, IntTried
<1>7. n > 1 => n # 1
    OBVIOUS
<1> QED BY <1>3, <1>4, <1>5, <1>6, <1>7

\* Its bytes swapped are tried unless a filter knows them or they are the same.
LEMMA IntBig ==
    ASSUME NEW b \in Seq(Byte), NEW E, NEW n \in Widths, LittleCovered(b, n, E),
           \A m \in Widths : m < n => LittleCovered(b, m, E) /\ BigCovered(b, m, E)
    PROVE  BigCovered(b, n, E)
<1> SUFFICES ASSUME NEW p \in 1 .. Len(b) - n + 1, NEW u \in Interesting(n)
             PROVE  Covered(b, Put(b, p, Swap(u)), E, FALSE)
    BY DEF BigCovered
<1> DEFINE w == Word(b, p, n)
           v == Swap(u)
<1>1. n \in Nat /\ n \in {1, 2, 4}
    BY DEF Widths
<1>2. w \in Words(n) /\ Len(w) = n /\ v \in Words(n) /\ u \in Words(n) /\ Swap(v) = u
    BY <1>1, WordInside, WordType, InterestingType
<1>3. CASE v = u
    <2>1. Covered(b, Put(b, p, u), E, FALSE)
        BY DEF LittleCovered
    <2> QED BY <1>3, <2>1
<1>4. CASE could_be_bitflip(w, v)
    BY <1>1, <1>2, <1>4, FlipCovered
<1>5. CASE could_be_arith(w, v)
    BY <1>2, <1>5, ArithCovered
<1>6. CASE n # 1 /\ could_be_interest(w, v, TRUE)
    BY <1>1, <1>6, InterestSeen
<1>7. CASE n = 1
    <2>1. v[1] = u[1]
        BY <1>1, <1>2, <1>7, SwapFacts
    <2>2. v = u
        BY <1>1, <1>2, <1>7, <2>1, SameWord
    <2> QED BY <1>3, <2>2
<1>8. CASE /\ n # 1 /\ v # u
           /\ ~could_be_bitflip(w, v) /\ ~could_be_arith(w, v) /\ ~could_be_interest(w, v, TRUE)
    <2>1. n > 1 /\ v # Swap(v)
        BY <1>1, <1>2, <1>8
    <2>2. v \in {Swap(x) : x \in Interesting(n)}
        OBVIOUS
    <2> HIDE DEF v
    <2>3. v \in IntTries(w)
        BY <1>2, <1>8, <2>1, <2>2 DEF IntTries
    <2>4. Covered(b, Put(b, p, v), E, FALSE)
        BY <1>2, <2>3, IntTried
    <2> QED BY <2>4 DEF v
<1> QED BY <1>3, <1>4, <1>5, <1>6, <1>7, <1>8

\* No interesting value of any width is lost.
LEMMA IntsOfAllWidths ==
    ASSUME NEW b \in Seq(Byte), NEW E, NEW n \in Widths
    PROVE  LittleCovered(b, n, E) /\ BigCovered(b, n, E)
<1> DEFINE Done(m) == LittleCovered(b, m, E) /\ BigCovered(b, m, E)
<1>1. 1 \in Widths /\ 2 \in Widths /\ 4 \in Widths /\ \A m \in Widths : m \in {1, 2, 4}
    BY DEF Widths
<1>2. ASSUME NEW k \in Widths, \A m \in Widths : m < k => Done(m)
      PROVE  Done(k)
    BY <1>2, IntLittle, IntBig
<1> HIDE DEF Done
<1>3. Done(1)
    <2>1. \A m \in Widths : ~(m < 1)
        BY <1>1
    <2> QED BY <1>1, <1>2, <2>1
<1>4. Done(2)
    <2>1. \A m \in Widths : m < 2 => m = 1
        BY <1>1
    <2> QED BY <1>1, <1>2, <1>3, <2>1
<1>5. Done(4)
    <2>1. \A m \in Widths : m < 4 => m = 1 \/ m = 2
        BY <1>1
    <2> QED BY <1>1, <1>2, <1>3, <1>4, <2>1
<1>6. Done(n)
    BY <1>1, <1>3, <1>4, <1>5
<1> QED BY <1>6 DEF Done

-----------------------------------------------------------------------------
(* All that the arithmetic and interesting-value stages are for.            *)

\* With AFL_NO_ARITH the values of int8 that could_be_arith recognises are lost: every byte
\* they change lies within ARITH_MAX of what it was.
AllClose(b, c) == \A k \in Changed(b, c) : Within(<<b[k]>>, <<c[k]>>)

\* A word of one byte.
LEMMA OneByte ==
    ASSUME NEW v \in Words(1)
    PROVE  v = <<v[1]>> /\ Swap(v) = v /\ Word(v, 1, 1) = v
<1>1. v \in Seq(Byte) /\ Len(v) = 1 /\ v[1] \in Byte
    BY WordType
<1>2. Swap(v) \in Words(1) /\ Swap(v)[1] = v[1]
    BY SwapFacts
<1>3. Word(v, 1, 1) \in Words(1) /\ Word(v, 1, 1)[1] = v[1]
    <2>1. ASSUME NEW n \in Nat, n = 1
          PROVE  Word(v, n, n) \in Words(n) /\ Word(v, n, n)[n] = v[n + n - 1]
        <3>1. n \in 1 .. Len(v) - n + 1 /\ n \in 1 .. n
            BY <1>1, <2>1
        <3>2. Word(v, n, n) \in Words(n) /\ \A k \in 1 .. n : Word(v, n, n)[k] = v[n + k - 1]
            BY <1>1, <3>1, WordInside
        <3> QED BY <3>1, <3>2
    <2> QED BY <2>1
<1>4. v = <<v[1]>>
    BY <1>1
<1> QED BY <1>2, <1>3, <1>4, SameWord

\* What could_be_arith recognises in one byte is close.
LEMMA CloseByte ==
    ASSUME NEW b \in Seq(Byte), NEW p \in 1 .. Len(b) - 1 + 1, NEW v \in Words(1),
           could_be_arith(Word(b, p, 1), v)
    PROVE  AllClose(b, Put(b, p, v))
<1> DEFINE w == Word(b, p, 1)
           c == Put(b, p, v)
<1>1. w \in Words(1) /\ Len(w) = 1 /\ p \in Nat /\ w[1] = b[p + 1 - 1] /\ Len(b) \in Nat
    <2>1. w \in Words(1) /\ p \in Nat /\ w[1] = b[p + 1 - 1] /\ Len(b) \in Nat
        BY WordInside
    <2> QED BY <2>1 DEF Words
<1>2. v \in Seq(Byte) /\ Len(v) = 1 /\ DOMAIN b = 1 .. Len(b)
    BY WordType, LenProperties
<1>3. \A k \in 1 .. Len(b) : c[k] = IF k \in p .. p + Len(v) - 1 THEN v[k - p + 1] ELSE b[k]
    BY <1>1, <1>2, PutBytes
<1> SUFFICES ASSUME NEW k \in Changed(b, c) PROVE Within(<<b[k]>>, <<c[k]>>)
    BY DEF AllClose
<1>4. k \in 1 .. Len(b) /\ b[k] # c[k]
    BY <1>2 DEF Changed
<1> HIDE DEF c
<1>5. k = p /\ c[k] = v[1]
    BY <1>1, <1>2, <1>3, <1>4
<1>6. w # v
    BY <1>1, <1>4, <1>5
<1>7. w = <<b[k]>> /\ v = <<c[k]>>
    BY <1>1, <1>5, OneByte
<1> HIDE DEF w
<1>8. PICK m \in {1, 2, 4} : m <= 1 /\ PartWithin(w, v, m)
    BY <1>1, <1>6 DEF could_be_arith, w
<1>9. PICK o \in 1 .. 1 : \/ Within(Word(w, o, 1), Word(v, o, 1))
                          \/ Within(Swap(Word(w, o, 1)), Swap(Word(v, o, 1)))
    BY <1>1, <1>8 DEF PartWithin
<1>10. Within(w, v)
    BY <1>1, <1>9, OneByte
<1> QED BY <1>7, <1>10

\* int8 with AFL_NO_ARITH.
LEMMA IntWithoutArith ==
    ASSUME NEW b \in Seq(Byte), NEW E, NEW p \in 1 .. Len(b) - 1 + 1, NEW v \in Interesting(1)
    PROVE  Covered(b, Put(b, p, v), E, TRUE) \/ AllClose(b, Put(b, p, v))
<1> DEFINE w == Word(b, p, 1)
<1>1. 1 \in Widths
    BY DEF Widths
<1>2. w \in Words(1) /\ Len(w) = 1 /\ v \in Words(1)
    BY <1>1, WordInside, WordType, InterestingType
<1>3. CASE could_be_bitflip(w, v)
    BY <1>2, <1>3, FlipCovered
<1>4. CASE could_be_arith(w, v)
    BY <1>2, <1>4, CloseByte
<1>5. CASE ~could_be_bitflip(w, v) /\ ~could_be_arith(w, v)
    <2>1. v \in IntTries(w)
        <3> HIDE DEF w
        <3> QED BY <1>2, <1>5 DEF IntTries
    <2> QED BY <1>1, <1>2, <2>1, IntTried
<1> QED BY <1>3, <1>4, <1>5

\* No filter loses a mutation.  Every sum and every interesting value of every width, in both
\* byte orders and at every position (with AFL_NO_ARITH, every interesting byte) is executed
\* by some stage, is a run of bits across two bytes that could_be_bitflip takes for a walking
\* flip, or changes no byte that is flagged in the effector map; with AFL_NO_ARITH it may
\* also be one that could_be_arith takes for a sum.
THEOREM FiltersLoseNothing ==
    ASSUME NEW b \in Seq(Byte), NEW E, NEW na \in BOOLEAN,
           NEW n \in IF na THEN {1} ELSE {1, 2, 4}, NEW c \in Meant(b, n, ~na)
    PROVE  \/ c \in AllRuns(b, E, na) \/ CrossingRun(b, c) \/ Changed(b, c) \cap E = {}
           \/ na /\ \A k \in Changed(b, c) : Within(<<b[k]>>, <<c[k]>>)
<1>1. n \in Widths /\ n \in Nat /\ (na => n = 1) /\ 1 \in Widths
    BY DEF Widths
<1>2. PICK p \in Starts(b, n, DOMAIN b) :
         \/ \E v \in Wanted(Word(b, p, n), ~na) : c = Put(b, p, v)
         \/ \E v \in Wanted(Swap(Word(b, p, n)), ~na) : c = Put(b, p, Swap(v))
    BY DEF Meant
<1>3. p \in 1 .. Len(b) - n + 1
    BY DEF Starts
<1> DEFINE w == Word(b, p, n)
<1>4. w \in Words(n) /\ Len(w) = n /\ Swap(w) \in Words(n) /\ Len(Swap(w)) = n
    BY <1>1, <1>3, WordInside, SwapFacts, WordType
<1> SUFFICES Covered(b, c, E, na) \/ (na /\ AllClose(b, c))
    BY DEF Covered, AllClose
<1>5. CASE ~na
    <2>1. na = FALSE
        BY <1>5
    <2>2. /\ Wanted(w, ~na) = Interesting(n) \cup AllSums(w)
          /\ Wanted(Swap(w), ~na) = Interesting(n) \cup AllSums(Swap(w))
        BY <1>4, <1>5 DEF Wanted
    <2>3. SumsCovered(b, n, E) /\ LittleCovered(b, n, E) /\ BigCovered(b, n, E)
        BY <1>1, SumsOfAllWidths, IntsOfAllWidths
    <2>4. /\ \A v \in AllSums(w) : Covered(b, Put(b, p, v), E, FALSE)
          /\ \A v \in AllSums(Swap(w)) : Covered(b, Put(b, p, Swap(v)), E, FALSE)
        BY <1>3, <2>3 DEF SumsCovered
    <2>5. /\ \A v \in Interesting(n) : Covered(b, Put(b, p, v), E, FALSE)
          /\ \A v \in Interesting(n) : Covered(b, Put(b, p, Swap(v)), E, FALSE)
        BY <1>3, <2>3 DEF LittleCovered, BigCovered
    <2> HIDE DEF w
    <2>6. Covered(b, c, E, FALSE)
        BY <1>2, <2>2, <2>4, <2>5 DEF w
    <2> QED BY <2>1, <2>6
<1>6. CASE na
    <2>1. n = 1 /\ na = TRUE
        BY <1>1, <1>6
    <2>2. Wanted(w, ~na) = Interesting(1) /\ Wanted(Swap(w), ~na) = Interesting(1)
        BY <1>4, <1>6, <2>1 DEF Wanted
    <2>3. \A v \in Interesting(1) : Swap(v) = v
        BY <1>1, InterestingType, OneByte
    <2>4. PICK v \in Interesting(1) : c = Put(b, p, v)
        BY <1>2, <2>2, <2>3
    <2>5. Covered(b, c, E, TRUE) \/ AllClose(b, c)
        BY <1>3, <2>1, <2>4, IntWithoutArith
    <2> QED BY <2>1, <2>5
<1> QED BY <1>5, <1>6
=============================================================================
