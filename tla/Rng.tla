-------------------------------- MODULE Rng --------------------------------
(***************************************************************************)
(* node_sim/src/rng.rs: the xorshift64 generator that shuffles queues. A   *)
(* machine word is the set of the positions of its one-bits, so that the   *)
(* width of a u64 is the bound on positions.                               *)
(***************************************************************************)
EXTENDS Integers, Sequences

Bit == 0 .. 63
Word == SUBSET Bit                  \* u64
Seed128 == SUBSET (0 .. 127)        \* the u128 seed of a scenario

Zero == {}

\* 0x9E37_79B9_7F4A_7C15
Nudge == {0, 2, 4, 10, 11, 12, 13, 14, 17, 19, 22, 24, 25, 26, 27, 28, 29, 30, 32, 35, 36, 37,
          39, 40, 43, 44, 45, 46, 48, 49, 50, 52, 53, 57, 58, 59, 60, 63}

\* `seed as u64`, made by the caller: the cast keeps the low 64 bits.
AsU64(seed) == seed \intersect Bit

\* Mutant: the seed is taken as it is.
NewUntested(seed) == seed

\* Xorshift64::new, of a word.
New(seed) == IF seed = Zero THEN Nudge ELSE seed

\* x ^ (x << k), or x ^ (x >> -k) if k is negative: bits that leave the word drop.
XorShift(k) == [x \in Word |-> {b \in Bit : (b \in x) # (b - k \in x)}]

\* The state after a draw, which is also the number drawn.
NextU64(state) == XorShift(17)[XorShift(-7)[XorShift(13)[state]]]

\* The number that the word stands for, modulo n, from the highest bit down.
Modulo(n) ==
  [word \in Word |->
     LET rest[b \in 0 .. 64] ==
           IF b = 64 THEN 0 ELSE (2 * rest[b + 1] + (IF b \in word THEN 1 ELSE 0)) % n
     IN  rest[0]]

\* Mutant: the range is one too wide.
NextRangeInclusive(word, n) == IF n = 0 THEN 0 ELSE Modulo(n + 1)[word]

\* The number next_range(n) returns when the generator draws the word.
NextRange(word, n) == IF n = 0 THEN 0 ELSE Modulo(n)[word]

\* Mutant: an item is overwritten instead of swapped.
SwapOneSided(items, i, j) == [items EXCEPT ![i + 1] = items[j + 1]]

\* items.swap(i, j), with indexes from 0.
Swap(items, i, j) == [items EXCEPT ![i + 1] = items[j + 1], ![j + 1] = items[i + 1]]
=============================================================================
