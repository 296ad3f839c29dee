----------------------------- MODULE RngProofs -----------------------------
(***************************************************************************)
(* A draw of xorshift64 never yields the zero word from another one: a     *)
(* shift to the left leaves the lowest one-bit alone, a shift to the right *)
(* the highest. And a number drawn from a range lies in it, so the shuffle *)
(* swaps within its queue.                                                 *)
(***************************************************************************)
EXTENDS Rng, LeastNumbers

\* The positions of bits are numbers from 0 to 63.
LEMMA BitsAreNumbers ==
  ASSUME NEW x \in Word
  PROVE  x \subseteq Nat /\ \A b \in x : b \in Nat /\ b =< 63
BY DEF Word, Bit

\* A nonzero word has a lowest one-bit.
LEMMA LowestBit ==
  ASSUME NEW x \in Word, x # Zero
  PROVE  \E low \in x : \A b \in x : low =< b
BY BitsAreNumbers, LeastNumber DEF Zero

\* A nonzero word has a highest one-bit.
LEMMA HighestBit ==
  ASSUME NEW x \in Word, x # Zero
  PROVE  \E high \in x : \A b \in x : b =< high
<1> DEFINE T == {63 - b : b \in x}
<1>1. T \subseteq Nat /\ T # {}
  BY BitsAreNumbers DEF Zero
<1>2. PICK low \in T : \A y \in T : low =< y
  BY <1>1, LeastNumber
<1>3. PICK high \in x : low = 63 - high
  BY <1>2
<1>4. \A b \in x : 63 - high =< 63 - b
  BY <1>2, <1>3
<1>5. x \subseteq Nat
  BY BitsAreNumbers
<1> QED
  BY <1>4, <1>5

\* Which bits a step of xorshift sets.
LEMMA XorShiftIsWord ==
  ASSUME NEW x \in Word, NEW k \in -63 .. 63
  PROVE  XorShift(k)[x] = {b \in Bit : (b \in x) # (b - k \in x)}
BY DEF XorShift

\* No word is its own shift, unless it is zero.
LEMMA XorShiftNotZero ==
  ASSUME NEW x \in Word, x # Zero, NEW k \in -63 .. 63, k # 0
  PROVE  XorShift(k)[x] \in Word \ {Zero}
<1>1. x \subseteq Bit /\ Bit \subseteq Int
  BY DEF Word, Bit
<1>2. \E b \in x : b - k \notin x
  <2>1. CASE k > 0
    <3>1. PICK low \in x : \A b \in x : low =< b
      BY LowestBit
    <3> QED
      BY <1>1, <2>1, <3>1
  <2>2. CASE k < 0
    <3>1. PICK high \in x : \A b \in x : b =< high
      BY HighestBit
    <3> QED
      BY <1>1, <2>2, <3>1
  <2> QED
    BY <2>1, <2>2
<1> DEFINE shifted == {b \in Bit : (b \in x) # (b - k \in x)}
<1>3. XorShift(k)[x] = shifted
  BY XorShiftIsWord
<1>4. shifted \in Word
  BY DEF Word
<1>5. shifted # Zero
  <2>1. PICK b \in x : b - k \notin x
    BY <1>2
  <2>2. b \in shifted
    BY <1>1, <2>1
  <2> QED
    BY <2>2 DEF Zero
<1> QED
  BY <1>3, <1>4, <1>5

\* xorshift never reaches zero, where it would stay for ever.
THEOREM DrawIsNotZero ==
  ASSUME NEW state \in Word \ {Zero}
  PROVE  NextU64(state) \in Word \ {Zero}
<1>1. XorShift(13)[state] \in Word \ {Zero}
  BY XorShiftNotZero
<1>2. XorShift(-7)[XorShift(13)[state]] \in Word \ {Zero}
  BY <1>1, XorShiftNotZero
<1> QED
  BY <1>2, XorShiftNotZero DEF NextU64

\* A generator is never made in state zero.
LEMMA NewIsNotZero ==
  ASSUME NEW seed \in Word
  PROVE  New(seed) \in Word \ {Zero}
<1>1. Nudge \in Word /\ Nudge # Zero
  BY DEF Nudge, Word, Bit, Zero
<1> QED
  BY <1>1 DEF New

\* Every seed, also one that is zero in its low 64 bits only, starts elsewhere.
THEOREM SeedIsNotZero ==
  ASSUME NEW seed \in Seed128
  PROVE  New(AsU64(seed)) \in Word \ {Zero}
<1>1. AsU64(seed) \in Word
  BY DEF AsU64, Word
<1> QED
  BY <1>1, NewIsNotZero

-----------------------------------------------------------------------------
(* Numbers in a range ---------------------------------------------------- *)

\* The remainder of the bits from b on, given that of the bits above b.
NextRest(word, n, b, above) == (2 * above + (IF b \in word THEN 1 ELSE 0)) % n

\* A partial remainder is below the divisor.
LEMMA NextRestInRange ==
  ASSUME NEW n \in Nat \ {0}, NEW word, NEW b, NEW above \in 0 .. n - 1
  PROVE  NextRest(word, n, b, above) \in 0 .. n - 1
<1>1. ASSUME NEW x \in Int PROVE x % n \in 0 .. n - 1
  OBVIOUS
<1>2. 2 * above + (IF b \in word THEN 1 ELSE 0) \in Int
  OBVIOUS
<1> QED
  BY <1>1, <1>2 DEF NextRest

\* The remainders of a word that Modulo defines by recursion exist.
LEMMA RestsExist ==
  ASSUME NEW n \in Nat \ {0}, NEW word
  PROVE  \E g \in [0 .. 64 -> 0 .. n - 1] :
           g[64] = 0 /\ \A b \in 0 .. 63 : g[b] = NextRest(word, n, b, g[b + 1])
<1> DEFINE Rests(m) == \E g \in [64 - m .. 64 -> 0 .. n - 1] :
                         g[64] = 0 /\ \A b \in 64 - m .. 63 : g[b] = NextRest(word, n, b, g[b + 1])
           T == {m \in Nat : m =< 64 => Rests(m)}
<1>1. 0 \in T
  <2> DEFINE g0 == [b \in 64 .. 64 |-> 0]
  <2>1. g0 \in [64 .. 64 -> 0 .. n - 1] /\ g0[64] = 0
    OBVIOUS
  <2>2. 64 - 0 = 64 /\ ~\E b \in 64 .. 63 : TRUE
    OBVIOUS
  <2> HIDE DEF g0
  <2>3. Rests(0)
    BY <2>1, <2>2
  <2> QED
    BY <2>3
<1>2. ASSUME NEW m \in Nat, m \in T PROVE m + 1 \in T
  <2> SUFFICES ASSUME m + 1 =< 64 PROVE Rests(m + 1)
    OBVIOUS
  <2>1. PICK g \in [64 - m .. 64 -> 0 .. n - 1] :
           g[64] = 0 /\ \A b \in 64 - m .. 63 : g[b] = NextRest(word, n, b, g[b + 1])
    BY <1>2
  <2> DEFINE low == 63 - m
             h == [b \in low .. 64 |-> IF b = low THEN NextRest(word, n, low, g[low + 1]) ELSE g[b]]
  <2>2. low \in 0 .. 63 /\ low + 1 = 64 - m /\ 64 - (m + 1) = low
    OBVIOUS
  <2>3. NextRest(word, n, low, g[low + 1]) \in 0 .. n - 1
    BY <2>1, <2>2, NextRestInRange
  <2>4. h \in [low .. 64 -> 0 .. n - 1]
    BY <2>1, <2>2, <2>3
  <2>5. h[64] = 0
    BY <2>1, <2>2
  <2>6. ASSUME NEW b \in low .. 63 PROVE h[b] = NextRest(word, n, b, h[b + 1])
    <3>1. h[b + 1] = g[b + 1]
      BY <2>2
    <3>2. CASE b = low
      BY <2>2, <3>1, <3>2
    <3>3. CASE b # low
      BY <2>1, <2>2, <3>1, <3>3
    <3> QED
      BY <3>2, <3>3
  <2> HIDE DEF h
  <2> QED
    BY <2>2, <2>4, <2>5, <2>6
<1>3. 64 \in T
  <2> HIDE DEF T
  <2> QED
    BY <1>1, <1>2, InductiveSet
<1> QED
  BY <1>3

\* The remainder is the last of the partial remainders, which satisfy their recursion.
LEMMA RestsDefined ==
  ASSUME NEW n \in Nat \ {0}, NEW word \in Word
  PROVE  \E g : /\ g = [b \in 0 .. 64 |-> IF b = 64 THEN 0 ELSE NextRest(word, n, b, g[b + 1])]
                /\ Modulo(n)[word] = g[0]
<1> DEFINE Rec(g) == g = [b \in 0 .. 64 |-> IF b = 64 THEN 0 ELSE NextRest(word, n, b, g[b + 1])]
<1>1. \E g : Rec(g)
  <2>1. PICK g \in [0 .. 64 -> 0 .. n - 1] :
           g[64] = 0 /\ \A b \in 0 .. 63 : g[b] = NextRest(word, n, b, g[b + 1])
    BY RestsExist
  <2>2. \A b \in 0 .. 64 : g[b] = IF b = 64 THEN 0 ELSE NextRest(word, n, b, g[b + 1])
    BY <2>1
  <2>3. Rec(g)
    BY <2>1, <2>2
  <2> QED
    BY <2>3
<1>2. Modulo(n)[word] = (CHOOSE g : Rec(g))[0]
  BY DEF Modulo, NextRest
<1>3. Rec(CHOOSE g : Rec(g))
  <2> HIDE DEF Rec
  <2> QED
    BY <1>1, Zenon
<1> QED
  BY <1>2, <1>3

\* next_range(n) is below n, whatever was drawn: the number is the remainder of
\* a division, also for the words that no signed number could hold.
THEOREM RangeInBounds ==
  ASSUME NEW n \in Nat \ {0}, NEW word \in Word
  PROVE  NextRange(word, n) \in 0 .. n - 1
<1>1. PICK g : /\ g = [b \in 0 .. 64 |-> IF b = 64 THEN 0 ELSE NextRest(word, n, b, g[b + 1])]
               /\ Modulo(n)[word] = g[0]
  BY RestsDefined
<1> DEFINE T == {m \in Nat : m =< 64 => g[64 - m] \in 0 .. n - 1}
<1>2. 0 \in T
  <2>1. g[64] = 0
    BY <1>1
  <2> QED
    BY <2>1
<1>3. ASSUME NEW m \in Nat, m \in T PROVE m + 1 \in T
  <2> SUFFICES ASSUME m + 1 =< 64 PROVE g[64 - (m + 1)] \in 0 .. n - 1
    OBVIOUS
  <2>1. g[64 - m] \in 0 .. n - 1
    BY <1>3
  <2>2. g[63 - m] = NextRest(word, n, 63 - m, g[64 - m])
    <3>1. 63 - m \in 0 .. 64 /\ 63 - m # 64 /\ (63 - m) + 1 = 64 - m
      OBVIOUS
    <3> QED
      BY <1>1, <3>1
  <2>3. 64 - (m + 1) = 63 - m
    OBVIOUS
  <2> QED
    BY <2>1, <2>2, <2>3, NextRestInRange
<1>4. 64 \in T
  <2> HIDE DEF T
  <2> QED
    BY <1>2, <1>3, InductiveSet
<1>5. g[0] \in 0 .. n - 1
  BY <1>4
<1> QED
  BY <1>1, <1>5 DEF NextRange
=============================================================================
