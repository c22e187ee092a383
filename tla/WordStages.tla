----------------------------- MODULE WordStages -----------------------------
(***************************************************************************)
(* The mutations of the deterministic stages, and the filters that leave   *)
(* out what an earlier stage has done.  A buffer is a sequence of bytes,   *)
(* a word a sequence of 1, 2 or 4 bytes, least significant first.          *)
(***************************************************************************)
EXTENDS Integers, Sequences, FiniteSetsExt

CONSTANT ArithMax      \* ARITH_MAX

ASSUME ArithAssumption == ArithMax \in 1 .. 255

Byte == 0 .. 255

\* the value v in n bytes, two's complement
Bytes(v, n) == [k \in 1 .. n |-> (v \div 256 ^ (k - 1)) % 256]

\* interesting_8, interesting_16, interesting_32; the longer lists include the
\* shorter ones
Ints8  == {-128, -1, 0, 1, 16, 32, 64, 100, 127}
Ints16 == Ints8 \cup {-32768, -129, 128, 255, 256, 512, 1000, 1024, 4096, 32767}
Ints32 == Ints16 \cup {-2147483647 - 1, -100663046, -32769, 32768, 65535, 65536, 100663045,
                       2147483647}
Ints(n) == IF n = 1 THEN Ints8 ELSE IF n = 2 THEN Ints16 ELSE Ints32
Interesting(n) == {Bytes(v, n) : v \in Ints(n)}

\* SWAP16, SWAP32
Swap(w) == [k \in DOMAIN w |-> w[Len(w) + 1 - k]]

Word(b, p, n) == SubSeq(b, p, p + n - 1)
Put(b, p, w) ==
    [k \in DOMAIN b |-> IF k \in p .. p + Len(w) - 1 THEN w[k - p + 1] ELSE b[k]]

\* adding and subtracting d < 256, modulo the word's width
CarryOut(w, d) == w[1] + d > 255 /\ \A k \in 2 .. Len(w) : w[k] = 255
BorrowOut(w, d) == w[1] < d /\ \A k \in 2 .. Len(w) : w[k] = 0
Add(w, d) == [k \in DOMAIN w |-> IF k = 1 THEN (w[1] + d) % 256
                                 ELSE IF CarryOut(SubSeq(w, 1, k - 1), d) THEN (w[k] + 1) % 256
                                 ELSE w[k]]
Sub(w, d) == [k \in DOMAIN w |-> IF k = 1 THEN (w[1] - d) % 256
                                 ELSE IF BorrowOut(SubSeq(w, 1, k - 1), d) THEN (w[k] - 1) % 256
                                 ELSE w[k]]

Bit(x, t) == (x \div 2 ^ t) % 2

\* FLIP_BIT numbers the bits of a file from the top of each byte
Flipped(b, S) ==
    [k \in DOMAIN b |->
        CHOOSE y \in Byte :
            \A t \in 0 .. 7 : Bit(y, t) # Bit(b[k], t) <=> 8 * k - 1 - t \in S]

\* the bits, by significance, in which two words differ: their exclusive or
XorBits(u, v) == {x \in 0 .. 8 * Len(u) - 1 :
                     Bit(u[x \div 8 + 1], x % 8) # Bit(v[x \div 8 + 1], x % 8)}

-----------------------------------------------------------------------------
(* The filters.                                                             *)

AnyRunAnywhere(u, v) ==
    LET D == XorBits(u, v)
    IN  D = {} \/ \E lo, hi \in D : D = lo .. hi
could_be_bitflip(u, v) ==
    LET D == XorBits(u, v)
    IN  \/ D = {}
        \/ \E lo \in D, n \in {1, 2, 4} : D = lo .. lo + n - 1
        \/ \E lo \in D, n \in {8, 16, 32} : D = lo .. lo + n - 1 /\ lo % 8 = 0

Within(u, v) == \E d \in 0 .. ArithMax : Add(u, d) = v \/ Add(v, d) = u

\* one part of n bytes differs, and by little, in either byte order for n > 1
PartWithin(u, v, n) ==
    LET differ == {p \in 1 .. Len(u) : (p - 1) % n = 0 /\ Word(u, p, n) # Word(v, p, n)}
    IN  \E p \in differ : /\ differ = {p}
                          /\ \/ Within(Word(u, p, n), Word(v, p, n))
                             \/ Within(Swap(Word(u, p, n)), Swap(Word(v, p, n)))

could_be_arith(u, v) == u = v \/ \E n \in {1, 2, 4} : n <= Len(u) /\ PartWithin(u, v, n)

could_be_interest(u, v, check_le) ==
    LET Inserted(n, W) == \E p \in 1 .. Len(u) - n + 1, w \in W : v = Put(u, p, w)
    IN  \/ u = v
        \/ Inserted(1, Interesting(1))
        \/ (Len(u) > 2 \/ check_le) /\ Len(u) >= 2 /\ Inserted(2, Interesting(2))
        \/ Len(u) > 2 /\ Inserted(2, {Swap(w) : w \in Interesting(2)})
        \/ Len(u) = 4 /\ check_le /\ v \in Interesting(4)

-----------------------------------------------------------------------------
(* The stages: what is executed for buffer b if the bytes in E are flagged  *)
(* in the effector map.                                                     *)

\* the first bytes of the windows of n bytes that the effector map lets pass
Starts(b, n, E) == {p \in 1 .. Len(b) - n + 1 : \E k \in p .. p + n - 1 : k \in E}

\* walking bits, each position
BitFlips(b, n) == {Flipped(b, s .. s + n - 1) : s \in 0 .. 8 * Len(b) - n}

\* walking bytes
ByteFlips(b, n, E) ==
    {Flipped(b, 8 * (p - 1) .. 8 * (p - 1 + n) - 1) : p \in Starts(b, n, E)}

\* arith: both directions and byte orders; in words only where a carry leaves the
\* lower half, since the rest was done for the shorter width
LowerHalf(w) == SubSeq(w, 1, Len(w) \div 2)
Sums(w) ==
    {Add(w, d) : d \in {x \in 1 .. ArithMax : Len(w) = 1 \/ CarryOut(LowerHalf(w), x)}}
    \cup {Sub(w, d) : d \in {x \in 1 .. ArithMax : Len(w) = 1 \/ BorrowOut(LowerHalf(w), x)}}
ArithTries(w) ==
    {v \in Sums(w) \cup {Swap(u) : u \in Sums(Swap(w))} : ~could_be_bitflip(w, v)}

\* interest: first the value as it is, then its bytes swapped
IntTries(w) ==
    LET I == Interesting(Len(w))
        Unseen(v) == ~could_be_bitflip(w, v) /\ ~could_be_arith(w, v)
    IN  {v \in I : Unseen(v) /\ (Len(w) > 1 => ~could_be_interest(w, v, FALSE))}
        \cup {v \in {Swap(u) : u \in I} : /\ Len(w) > 1 /\ v # Swap(v) /\ Unseen(v)
                                          /\ ~could_be_interest(w, v, TRUE)}

ArithRuns(b, n, E) ==
    UNION {{Put(b, p, v) : v \in ArithTries(Word(b, p, n))} : p \in Starts(b, n, E)}
IntRuns(b, n, E) ==
    UNION {{Put(b, p, v) : v \in IntTries(Word(b, p, n))} : p \in Starts(b, n, E)}

ArithStages == {"arith8", "arith16", "arith32", "int16", "int32"}
Stages == {"flip1", "flip2", "flip4", "flip8", "flip16", "flip32", "int8"} \cup ArithStages

Runs(stage, b, E) ==
    CASE stage = "flip1"   -> BitFlips(b, 1)
      [] stage = "flip2"   -> BitFlips(b, 2)
      [] stage = "flip4"   -> BitFlips(b, 4)
      [] stage = "flip8"   -> ByteFlips(b, 1, DOMAIN b)
      [] stage = "flip16"  -> ByteFlips(b, 2, E)
      [] stage = "flip32"  -> ByteFlips(b, 4, E)
      [] stage = "arith8"  -> ArithRuns(b, 1, E)
      [] stage = "arith16" -> ArithRuns(b, 2, E)
      [] stage = "arith32" -> ArithRuns(b, 4, E)
      [] stage = "int8"    -> IntRuns(b, 1, E)
      [] stage = "int16"   -> IntRuns(b, 2, E)
      [] stage = "int32"   -> IntRuns(b, 4, E)

\* all that is executed: with no_arith everything between arith8 and int8 is left out,
\* and after int8 control goes to the dictionary
AllRuns(b, E, na) ==
    UNION {Runs(stage, b, E) : stage \in IF na THEN Stages \ ArithStages ELSE Stages}

-----------------------------------------------------------------------------
(* The reference: what the stages are for, without any filter.              *)

AllSums(w) == {Add(w, d) : d \in 1 .. ArithMax} \cup {Sub(w, d) : d \in 1 .. ArithMax}
Wanted(w, arith) == Interesting(Len(w)) \cup (IF arith THEN AllSums(w) ELSE {})

\* in both byte orders
Meant(b, n, arith) ==
    UNION {{Put(b, p, v) : v \in Wanted(Word(b, p, n), arith)}
           \cup {Put(b, p, Swap(v)) : v \in Wanted(Swap(Word(b, p, n)), arith)} :
              p \in Starts(b, n, DOMAIN b)}

Changed(b, c) == {k \in DOMAIN b : b[k] # c[k]}

\* two or four neighbouring bits of a little endian word that lie in two bytes: the
\* walking flips number bits the other way round and do not produce them
CrossingRun(b, c) ==
    LET D == XorBits(b, c)
    IN  \E lo \in D, n \in {2, 4} : D = lo .. lo + n - 1 /\ lo \div 8 # (lo + n - 1) \div 8
=============================================================================
