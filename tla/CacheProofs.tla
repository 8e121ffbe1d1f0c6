------------------------------- MODULE CacheProofs -------------------------------
(***************************************************************************)
(* The paged cache for every number of lanes and blocks, every block size, *)
(* window and chunk: no block is lost or shared, a held block stays, the   *)
(* pool implements the abstract ledger, and every token attends to the     *)
(* history of its own sequence.                                            *)
(***************************************************************************)
EXTENDS CacheProperties, FiniteSetTheorems, SequenceTheorems, WellFoundedInduction, TLAPS

-------------------------------------------------------------------------------
(* The inductive invariant of the ledger.                                  *)

LedgerTypes ==
  /\ free \in Seq(Usable)
  /\ tables \in [Lanes -> Seq(Usable)]
  /\ lens \in [Lanes -> 0 .. Ctx]
  /\ round \in Rounds

(* The free stack and the tables are the holders of blocks: each block has *)
(* one place in one of them.                                               *)
FreeStack == -1
Holders == Lanes \cup {FreeStack}
Stack(h) == IF h = FreeStack THEN free ELSE tables[h]

HeldOnce ==
  /\ \A h \in Holders : IsInjective(Stack(h))
  /\ \A h, g \in Holders : h # g => Range(Stack(h)) \cap Range(Stack(g)) = {}
NoneLost == \A b \in Usable : \E h \in Holders : b \in Range(Stack(h))

InProgress == round.stage \in {"Grow", "Undo"}
Computing == round.stage \in {"Forward", "Attend"}
Grown(l) == InProgress /\ \E k \in 1 .. Len(round.grown) : round.grown[k][1] = l

(* A table covers its lane's length, or the length it is about to have.    *)
Needed(l) == IF Grown(l) THEN BlocksFor(lens[l] + round.tokens) ELSE BlocksFor(lens[l])
Covered == \A l \in Lanes : Len(tables[l]) = Needed(l)

(* The call under way: its rows are distinct lanes and stay in the window; *)
(* a refusal is justified.                                                 *)
CallInv ==
  /\ InProgress \/ Computing =>
       /\ round.tokens \in 1 .. Ctx /\ round.lanes # <<>>
       /\ round.tokens = 1 \/ Len(round.lanes) = 1
       /\ \A i, k \in 1 .. Len(round.lanes) : round.lanes[i] = round.lanes[k] => i = k
  /\ InProgress => \A i \in 1 .. Len(round.lanes) : lens[round.lanes[i]] + round.tokens <= Ctx
  /\ Computing => \A i \in 1 .. Len(round.lanes) : round.tokens <= lens[round.lanes[i]]

GrownInv ==
  /\ InProgress =>
       /\ \A i, k \in 1 .. Len(round.grown) : round.grown[i][1] = round.grown[k][1] => i = k
       /\ \A i \in 1 .. Len(round.grown) :
            /\ \E k \in 1 .. Len(round.lanes) : round.lanes[k] = round.grown[i][1]
            /\ round.grown[i][2] = BlocksFor(lens[round.grown[i][1]])
  /\ round.stage = "Grow" =>
       /\ Len(round.grown) <= Len(round.lanes)
       /\ \A i \in 1 .. Len(round.grown) : round.grown[i][1] = round.lanes[i]

LedgerInv ==
  LedgerTypes /\ HeldOnce /\ NoneLost /\ Covered /\ CallInv /\ GrownInv /\ RefusedOnlyWhenShort

-------------------------------------------------------------------------------
(* The inductive invariant of the cells.                                   *)

RowOf(l) == \E i \in 1 .. Len(round.lanes) : round.lanes[i] = l
Written(l) == IF round.stage = "Forward" /\ RowOf(l) THEN lens[l] - round.tokens ELSE lens[l]

(* A cell holds a token of a live sequence just where its lane's table     *)
(* says the position lives; the sentinel's hold nobody's.                  *)
CellsInv ==
  /\ store \in [{Sentinel} \cup Usable -> [Offsets -> Contents]]
  /\ \A o \in Offsets : store[Sentinel][o] = Zero
  /\ \A b \in Usable, o \in Offsets, l \in Lanes, p \in 0 .. Ctx - 1 :
       store[b][o] = Token(l, p) <=>
         p < Written(l) /\ tables[l][p \div BlockSize + 1] = b /\ p % BlockSize = o

-------------------------------------------------------------------------------
(* Block arithmetic.                                                       *)

LEMMA BlocksForNat ==
  ASSUME NEW n \in Nat
  PROVE  BlocksFor(n) \in Nat
BY KvBudgetAssumption, Z3 DEF BlocksFor

LEMMA BlocksForMono ==
  ASSUME NEW m \in Nat, NEW n \in Nat, m <= n
  PROVE  BlocksFor(m) <= BlocksFor(n)
BY KvBudgetAssumption, Z3 DEF BlocksFor

LEMMA BlocksForZero == BlocksFor(0) = 0
BY KvBudgetAssumption, Z3 DEF BlocksFor

(* A position is a block of its lane and an offset into it.                *)
LEMMA BlockAndOffset ==
  ASSUME NEW p \in Nat
  PROVE  /\ p \div BlockSize \in Nat /\ p % BlockSize \in Offsets
         /\ p = BlockSize * (p \div BlockSize) + (p % BlockSize)
BY KvBudgetAssumption, Z3 DEF Offsets

LEMMA PositionInBlocks ==
  ASSUME NEW p \in Nat, NEW n \in Nat, p < n
  PROVE  p \div BlockSize + 1 \in 1 .. BlocksFor(n)
BY KvBudgetAssumption, Z3 DEF BlocksFor

LEMMA SameCell ==
  ASSUME NEW p \in Nat, NEW q \in Nat, p \div BlockSize = q \div BlockSize,
         p % BlockSize = q % BlockSize
  PROVE  p = q
BY BlockAndOffset

-------------------------------------------------------------------------------
(* Sequences of blocks.                                                    *)

(* The parts of an injective sequence are injective and apart; two such    *)
(* sequences that are apart make an injective one.                         *)
LEMMA ConcatInjective ==
  ASSUME NEW S, NEW s \in Seq(S), NEW t \in Seq(S)
  PROVE  IsInjective(s \o t) <=>
           IsInjective(s) /\ IsInjective(t) /\ Range(s) \cap Range(t) = {}
<1> DEFINE u == s \o t
           n == Len(s)
           m == Len(t)
<1>1. /\ n \in Nat /\ m \in Nat /\ DOMAIN s = 1 .. n /\ DOMAIN t = 1 .. m /\ DOMAIN u = 1 .. n + m
      /\ \A i \in 1 .. n : u[i] = s[i]
      /\ \A i \in 1 .. m : u[n + i] = t[i]
  <2>1. /\ u \in Seq(S) /\ Len(u) = n + m /\ n \in Nat /\ m \in Nat
        /\ DOMAIN s = 1 .. n /\ DOMAIN t = 1 .. m
    BY ConcatProperties
  <2>2. DOMAIN u = 1 .. n + m
    BY <2>1
  <2>3. \A i \in 1 .. n : u[i] = s[i]
    BY <2>1, ConcatProperties
  <2>4. ASSUME NEW i \in 1 .. m PROVE u[n + i] = t[i]
    <3>1. n + i \in 1 .. n + m /\ ~(n + i <= n) /\ (n + i) - n = i
      BY <2>1
    <3> QED
      BY <3>1, ConcatProperties
  <2> QED
    BY <2>1, <2>2, <2>3, <2>4
<1> HIDE DEF u, n, m
<1>2. ASSUME IsInjective(u) PROVE IsInjective(s) /\ IsInjective(t) /\ Range(s) \cap Range(t) = {}
  <2>1. IsInjective(s)
    BY <1>1, <1>2 DEF IsInjective
  <2>2. ASSUME NEW i \in 1 .. m, NEW k \in 1 .. m, t[i] = t[k] PROVE i = k
    <3>1. n + i \in 1 .. n + m /\ n + k \in 1 .. n + m /\ u[n + i] = u[n + k]
      BY <1>1, <2>2
    <3>2. n + i = n + k
      BY <1>1, <1>2, <3>1 DEF IsInjective
    <3> QED
      BY <1>1, <3>2
  <2>3. ASSUME NEW i \in 1 .. n, NEW k \in 1 .. m, s[i] = t[k] PROVE FALSE
    <3>1. i \in 1 .. n + m /\ n + k \in 1 .. n + m /\ u[i] = u[n + k] /\ i # n + k
      BY <1>1, <2>3
    <3> QED
      BY <1>1, <1>2, <3>1 DEF IsInjective
  <2> QED
    BY <1>1, <2>1, <2>2, <2>3 DEF IsInjective, Range
<1>3. ASSUME IsInjective(s), IsInjective(t), Range(s) \cap Range(t) = {} PROVE IsInjective(u)
  <2>1. ASSUME NEW i \in 1 .. n, NEW k \in 1 .. m PROVE u[i] # u[n + k]
    BY <1>1, <1>3, <2>1 DEF Range
  <2>2. ASSUME NEW i \in 1 .. n + m PROVE i \in 1 .. n \/ \E k \in 1 .. m : i = n + k
    <3>1. CASE i > n
      <4>1. PICK k \in 1 .. m : k = i - n
        BY <1>1, <3>1
      <4>2. i = n + k
        BY <1>1, <4>1
      <4> QED
        BY <4>2, Zenon
    <3> QED
      BY <1>1, <3>1
  <2>3. ASSUME NEW i \in 1 .. n + m, NEW k \in 1 .. n + m, u[i] = u[k] PROVE i = k
    <3>1. CASE i \in 1 .. n /\ k \in 1 .. n
      BY <1>1, <1>3, <2>3, <3>1 DEF IsInjective
    <3>2. ASSUME NEW x \in 1 .. m, NEW y \in 1 .. m, i = n + x, k = n + y PROVE i = k
      <4>1. t[x] = t[y]
        BY <1>1, <2>3, <3>2
      <4>2. x = y
        BY <1>1, <1>3, <4>1 DEF IsInjective
      <4> QED
        BY <3>2, <4>2
    <3> QED
      BY <2>1, <2>2, <2>3, <3>1, <3>2
  <2> QED
    BY <1>1, <2>3 DEF IsInjective
<1> QED
  BY <1>2, <1>3 DEF u

(* Popping turns the blocks round and loses none.                          *)
LEMMA Reversed ==
  ASSUME NEW S, NEW s \in Seq(S)
  PROVE  /\ Reverse(s) \in Seq(S) /\ Len(Reverse(s)) = Len(s) /\ Range(Reverse(s)) = Range(s)
         /\ IsInjective(s) => IsInjective(Reverse(s))
<1>1. PICK n \in Nat : n = Len(s)
  OBVIOUS
<1>2. DOMAIN s = 1 .. n /\ \A i \in 1 .. n : s[i] \in S
  BY <1>1
<1>3. ASSUME NEW i \in 1 .. n PROVE n - i + 1 \in 1 .. n /\ n - (n - i + 1) + 1 = i
  OBVIOUS
<1>4. Reverse(s) = [i \in 1 .. n |-> s[n - i + 1]]
  BY <1>1 DEF Reverse
<1>5. Reverse(s) \in [1 .. n -> S]
  BY <1>2, <1>3, <1>4
<1>6. Reverse(s) \in Seq(S) /\ Len(Reverse(s)) = n /\ DOMAIN Reverse(s) = 1 .. n
  BY <1>5
<1>7. \A i \in 1 .. n : Reverse(s)[i] = s[n - i + 1]
  BY <1>4
<1>8. Range(Reverse(s)) \subseteq Range(s)
  BY <1>2, <1>3, <1>6, <1>7 DEF Range
<1>9. ASSUME NEW i \in 1 .. n PROVE s[i] \in Range(Reverse(s))
  <2>1. PICK k \in 1 .. n : k = n - i + 1
    BY <1>3
  <2>2. Reverse(s)[k] = s[i]
    BY <1>3, <1>7, <2>1
  <2> QED
    BY <1>6, <2>2 DEF Range
<1>10. ASSUME IsInjective(s), NEW i \in 1 .. n, NEW k \in 1 .. n, Reverse(s)[i] = Reverse(s)[k]
       PROVE  i = k
  <2>1. n - i + 1 = n - k + 1
    BY <1>2, <1>3, <1>7, <1>10 DEF IsInjective
  <2> QED
    BY <2>1
<1> QED
  BY <1>1, <1>2, <1>6, <1>8, <1>9, <1>10 DEF Range, IsInjective

LEMMA CutInTwo ==
  ASSUME NEW S, NEW s \in Seq(S), NEW n \in 0 .. Len(s)
  PROVE  /\ SubSeq(s, 1, n) \in Seq(S) /\ Len(SubSeq(s, 1, n)) = n
         /\ SubSeq(s, n + 1, Len(s)) \in Seq(S) /\ Len(SubSeq(s, n + 1, Len(s))) = Len(s) - n
         /\ s = SubSeq(s, 1, n) \o SubSeq(s, n + 1, Len(s))
<1>1. PICK m \in Nat : m = Len(s)
  OBVIOUS
<1>2. \A i \in 1 .. m : s[i] \in S
  BY <1>1
<1>3. SubSeq(s, 1, n) \in Seq(S) /\ Len(SubSeq(s, 1, n)) = n
  BY <1>1, <1>2, SubSeqProperties
<1>4. SubSeq(s, n + 1, m) \in Seq(S) /\ Len(SubSeq(s, n + 1, m)) = m - n
  <2>1. n + 1 \in Int /\ m \in Int /\ \A i \in n + 1 .. m : s[i] \in S
    BY <1>1, <1>2
  <2> QED
    BY <1>1, <2>1, SubSeqProperties
<1>5. SubSeq(s, 1, n) \o SubSeq(s, n + 1, m) = SubSeq(s, 1, m)
  <2>1. /\ 1 \in 1 .. Len(s) + 1 /\ n \in 1 - 1 .. Len(s) /\ m \in n .. Len(s)
    BY <1>1
  <2> QED
    BY <2>1, ConcatAdjacentSubSeq
<1>6. SubSeq(s, 1, m) = s
  BY <1>1, SubSeqFull
<1> QED
  BY <1>1, <1>3, <1>4, <1>5, <1>6

-------------------------------------------------------------------------------
(* Blocks in their places.                                                 *)

LEMMA StackTypes ==
  ASSUME LedgerTypes, NEW h \in Holders
  PROVE  Stack(h) \in Seq(Usable)
BY DEF LedgerTypes, Holders, Stack

(* Holder a keeps some of its blocks; the others go to holder c, in some   *)
(* order.                                                                  *)
LEMMA BlocksMoved ==
  ASSUME LedgerTypes, HeldOnce, NoneLost,
         NEW a \in Holders, NEW c \in Holders, a # c,
         NEW kept \in Seq(Usable), NEW moved \in Seq(Usable), NEW given \in Seq(Usable),
         Stack(a) = kept \o moved, Range(given) = Range(moved), IsInjective(moved) => IsInjective(given),
         Stack(a)' = kept, Stack(c)' = Stack(c) \o given,
         \A h \in Holders \ {a, c} : Stack(h)' = Stack(h)
  PROVE  HeldOnce' /\ NoneLost'
<1>1. /\ Range(Stack(a)) = Range(kept) \cup Range(moved)
      /\ IsInjective(kept) /\ IsInjective(moved) /\ Range(kept) \cap Range(moved) = {}
  <2>1. IsInjective(kept \o moved)
    BY DEF HeldOnce
  <2>2. Range(kept \o moved) = Range(kept) \cup Range(moved)
    BY RangeConcatenation
  <2>3. IsInjective(kept) /\ IsInjective(moved) /\ Range(kept) \cap Range(moved) = {}
    BY <2>1, ConcatInjective
  <2> QED
    BY <2>2, <2>3
<1>2. Range(Stack(a)) \cap Range(Stack(c)) = {} /\ IsInjective(Stack(c))
  BY DEF HeldOnce
<1>3. Range(Stack(c)') = Range(Stack(c)) \cup Range(moved) /\ IsInjective(Stack(c)')
  BY <1>1, <1>2, ConcatInjective, RangeConcatenation, StackTypes
<1>4. \A h \in Holders \ {a, c} : Range(Stack(h)') = Range(Stack(h)) /\ IsInjective(Stack(h)')
  BY DEF HeldOnce
<1>5. \A h \in Holders : IsInjective(Stack(h)')
  BY <1>1, <1>3, <1>4
<1>6. ASSUME NEW h \in Holders, NEW g \in Holders, h # g
      PROVE  Range(Stack(h)') \cap Range(Stack(g)') = {}
  <2>1. /\ Range(Stack(h)) \cap Range(Stack(g)) = {}
        /\ \A f \in Holders \ {a, c} : /\ Range(Stack(f)) \cap Range(Stack(a)) = {}
                                       /\ Range(Stack(f)) \cap Range(Stack(c)) = {}
    BY <1>6 DEF HeldOnce
  <2>2. CASE h \notin {a, c} /\ g \notin {a, c}
    BY <1>4, <2>1, <2>2
  <2>3. ASSUME NEW f \in Holders \ {a, c}
        PROVE  Range(Stack(f)') \cap Range(Stack(a)') = {} /\ Range(Stack(f)') \cap Range(Stack(c)') = {}
    BY <1>1, <1>3, <1>4, <2>1
  <2>4. Range(Stack(a)') \cap Range(Stack(c)') = {}
    BY <1>1, <1>2, <1>3
  <2> QED
    BY <1>6, <2>2, <2>3, <2>4
<1>7. ASSUME NEW b \in Usable PROVE \E h \in Holders : b \in Range(Stack(h)')
  <2>1. PICK h \in Holders : b \in Range(Stack(h))
    BY DEF NoneLost
  <2> QED
    BY <1>1, <1>3, <1>4, <2>1
<1> QED
  BY <1>5, <1>6, <1>7 DEF HeldOnce, NoneLost

(* The three ways a table changes: it takes blocks from the stack, gives   *)
(* some back, or gives all back.                                           *)
LEMMA GrowingMoves ==
  ASSUME LedgerTypes, HeldOnce, NoneLost, NEW l \in Lanes, NEW n \in 0 .. Len(free), Grows(l, n)
  PROVE  /\ HeldOnce' /\ NoneLost' /\ free' \in Seq(Usable) /\ tables' \in [Lanes -> Seq(Usable)]
         /\ Len(tables'[l]) = Len(tables[l]) + n
         /\ IsPrefix(tables[l], tables'[l])
         /\ \A g \in Lanes \ {l} : tables'[g] = tables[g]
<1> DEFINE top == SubSeq(free, Len(free) - n + 1, Len(free))
<1>1. free \in Seq(Usable) /\ tables[l] \in Seq(Usable) /\ tables \in [Lanes -> Seq(Usable)]
      /\ Len(free) - n \in 0 .. Len(free)
  BY DEF LedgerTypes
<1>2. /\ Without(n) \in Seq(Usable) /\ top \in Seq(Usable) /\ Len(top) = n
      /\ free = Without(n) \o top
  <2>1. PICK k \in 0 .. Len(free) : k = Len(free) - n
    BY <1>1
  <2>2. Len(free) - k = n
    BY <1>1, <2>1
  <2> QED
    BY <1>1, <2>1, <2>2, CutInTwo DEF Without
<1>3. /\ Popped(n) = Reverse(top) /\ Popped(n) \in Seq(Usable) /\ Len(Popped(n)) = n
      /\ Range(Popped(n)) = Range(top) /\ (IsInjective(top) => IsInjective(Popped(n)))
  BY <1>2, Reversed DEF Popped
<1>4. free' = Without(n) /\ tables'[l] = tables[l] \o Popped(n)
      /\ \A g \in Lanes \ {l} : tables'[g] = tables[g]
  BY <1>1 DEF Grows
<1>5. /\ tables[l] \o Popped(n) \in Seq(Usable)
      /\ Len(tables[l] \o Popped(n)) = Len(tables[l]) + n
  <2>1. PICK s \in Seq(Usable) : s = tables[l]
    BY <1>1
  <2>2. PICK t \in Seq(Usable) : t = Popped(n)
    BY <1>3
  <2>3. s \o t \in Seq(Usable) /\ Len(s \o t) = Len(s) + Len(t)
    BY ConcatProperties
  <2> QED
    BY <1>3, <2>1, <2>2, <2>3
<1>6. tables' \in [Lanes -> Seq(Usable)]
  <2>1. tables' = [tables EXCEPT ![l] = tables[l] \o Popped(n)]
    BY DEF Grows
  <2>2. PICK t \in Seq(Usable) : t = tables[l] \o Popped(n)
    BY <1>5
  <2> QED
    BY <1>1, <2>1, <2>2
<1>7. HeldOnce' /\ NoneLost'
  <2> HIDE DEF top
  <2>1. FreeStack \in Holders /\ l \in Holders /\ FreeStack # l /\ \A g \in Lanes : g # FreeStack
    BY DEF Holders, FreeStack, Lanes
  <2>2. /\ Stack(FreeStack) = Without(n) \o top /\ Stack(FreeStack)' = Without(n)
        /\ Stack(l)' = Stack(l) \o Popped(n)
        /\ \A h \in Holders \ {FreeStack, l} : Stack(h)' = Stack(h)
    BY <1>2, <1>4, <2>1 DEF Stack, Holders
  <2> QED
    BY <1>2, <1>3, <2>1, <2>2, BlocksMoved
<1>8. IsPrefix(tables[l], tables'[l])
  <2>1. PICK s \in Seq(Usable) : s = tables[l]
    BY <1>1
  <2>2. PICK t \in Seq(Usable) : t = Popped(n)
    BY <1>3
  <2>3. s \o t \in Seq(Usable) /\ Len(s \o t) = Len(s) + Len(t) /\ Len(s) \in Nat /\ Len(t) \in Nat
    BY ConcatProperties
  <2>4. SubSeq(s \o t, 1, Len(s)) = SubSeq(s, 1, Len(s))
    <3>1. CASE Len(s) = 0
      BY <2>3, <3>1, SubSeqEmpty
    <3>2. CASE Len(s) # 0
      <4>1. 1 \in 1 .. Len(s) /\ Len(s) \in 1 .. Len(s)
        BY <2>3, <3>2
      <4> QED
        BY <4>1, SubSeqOfConcat1
    <3> QED
      BY <3>1, <3>2
  <2> QED
    BY <1>4, <2>1, <2>2, <2>3, <2>4 DEF IsPrefix
<1> QED
  BY <1>2, <1>4, <1>5, <1>6, <1>7, <1>8

LEMMA CuttingMoves ==
  ASSUME LedgerTypes, HeldOnce, NoneLost, NEW l \in Lanes, NEW keep \in 0 .. Len(tables[l]),
         free' = free \o Excess(l, keep), tables' = [tables EXCEPT ![l] = Kept(l, keep)]
  PROVE  /\ HeldOnce' /\ NoneLost' /\ free' \in Seq(Usable) /\ tables' \in [Lanes -> Seq(Usable)]
         /\ Len(free') = Len(free) + (Len(tables[l]) - keep)
         /\ Len(tables'[l]) = keep
         /\ SubSeq(tables[l], 1, keep) = tables'[l]
         /\ \A g \in Lanes \ {l} : tables'[g] = tables[g]
<1>1. free \in Seq(Usable) /\ tables[l] \in Seq(Usable) /\ tables \in [Lanes -> Seq(Usable)]
  BY DEF LedgerTypes
<1>2. /\ Kept(l, keep) \in Seq(Usable) /\ Excess(l, keep) \in Seq(Usable)
      /\ Len(Kept(l, keep)) = keep /\ Len(Excess(l, keep)) = Len(tables[l]) - keep
      /\ tables[l] = Kept(l, keep) \o Excess(l, keep)
  <2>1. PICK s \in Seq(Usable) : s = tables[l]
    BY <1>1
  <2>2. /\ SubSeq(s, 1, keep) \in Seq(Usable) /\ Len(SubSeq(s, 1, keep)) = keep
        /\ SubSeq(s, keep + 1, Len(s)) \in Seq(Usable) /\ Len(SubSeq(s, keep + 1, Len(s))) = Len(s) - keep
        /\ s = SubSeq(s, 1, keep) \o SubSeq(s, keep + 1, Len(s))
    <3>1. keep \in 0 .. Len(s)
      BY <2>1
    <3> QED
      BY <3>1, CutInTwo, Zenon
  <2> QED
    BY <2>1, <2>2 DEF Kept, Excess
<1>3. tables'[l] = Kept(l, keep) /\ \A g \in Lanes \ {l} : tables'[g] = tables[g]
  BY <1>1
<1>4. /\ free \o Excess(l, keep) \in Seq(Usable)
      /\ Len(free \o Excess(l, keep)) = Len(free) + (Len(tables[l]) - keep)
  BY <1>1, <1>2, ConcatProperties
<1>5. HeldOnce' /\ NoneLost'
  <2>1. FreeStack \in Holders /\ l \in Holders /\ FreeStack # l /\ \A g \in Lanes : g # FreeStack
    BY DEF Holders, FreeStack, Lanes
  <2>2. /\ Stack(l) = Kept(l, keep) \o Excess(l, keep) /\ Stack(l)' = Kept(l, keep)
        /\ Stack(FreeStack)' = Stack(FreeStack) \o Excess(l, keep)
        /\ \A h \in Holders \ {FreeStack, l} : Stack(h)' = Stack(h)
    BY <1>2, <1>3, <2>1 DEF Stack, Holders
  <2> QED
    BY <1>2, <2>1, <2>2, BlocksMoved
<1> QED
  BY <1>1, <1>2, <1>3, <1>4, <1>5 DEF Kept

LEMMA EmptyingMoves ==
  ASSUME LedgerTypes, HeldOnce, NoneLost, NEW l \in Lanes, Empty(l)
  PROVE  /\ HeldOnce' /\ NoneLost' /\ free' \in Seq(Usable) /\ tables' \in [Lanes -> Seq(Usable)]
         /\ Len(tables'[l]) = 0 /\ \A g \in Lanes \ {l} : tables'[g] = tables[g]
         /\ lens' \in [Lanes -> 0 .. Ctx] /\ lens'[l] = 0 /\ \A g \in Lanes \ {l} : lens'[g] = lens[g]
<1>1. tables[l] \in Seq(Usable) /\ tables \in [Lanes -> Seq(Usable)] /\ 0 \in 0 .. Len(tables[l])
  BY DEF LedgerTypes
<1>2. Excess(l, 0) = tables[l] /\ Kept(l, 0) = <<>>
  BY <1>1, SubSeqFull, SubSeqEmpty DEF Excess, Kept
<1>3. free' = free \o Excess(l, 0) /\ tables' = [tables EXCEPT ![l] = Kept(l, 0)]
  BY <1>2 DEF Empty
<1>4. /\ lens' \in [Lanes -> 0 .. Ctx] /\ lens'[l] = 0
      /\ \A g \in Lanes \ {l} : lens'[g] = lens[g]
  BY BlockPoolAssumption DEF Empty, LedgerTypes
<1> QED
  BY <1>1, <1>3, <1>4, CuttingMoves

-------------------------------------------------------------------------------
(* The steps of the ledger.                                                *)

LEMMA BlocksUnmoved ==
  ASSUME LedgerTypes, HeldOnce, NoneLost, UNCHANGED <<free, tables>>
  PROVE  /\ HeldOnce' /\ NoneLost' /\ free' \in Seq(Usable) /\ tables' \in [Lanes -> Seq(Usable)]
         /\ \A l \in Lanes : tables'[l] = tables[l]
<1>1. \A h \in Holders : Stack(h)' = Stack(h)
  BY DEF Stack
<1> QED
  BY <1>1 DEF HeldOnce, NoneLost, LedgerTypes

LEMMA CoveredAtRest ==
  ASSUME LedgerInv, ~InProgress, NEW l \in Lanes
  PROVE  Len(tables[l]) = BlocksFor(lens[l])
BY DEF LedgerInv, Covered, Needed, Grown

(* A new round, or none.                                                   *)
LEMMA RoundStarts ==
  ASSUME NEW lanes \in Seq(Lanes), NEW tokens \in 1 .. Ctx, Start(lanes, tokens),
         lanes # <<>>, tokens = 1 \/ Len(lanes) = 1,
         \A i, k \in 1 .. Len(lanes) : lanes[i] = lanes[k] => i = k,
         \A i \in 1 .. Len(lanes) : lens'[lanes[i]] + tokens <= Ctx,
         free' \in Seq(Usable), tables' \in [Lanes -> Seq(Usable)], lens' \in [Lanes -> 0 .. Ctx],
         HeldOnce', NoneLost', \A l \in Lanes : Len(tables'[l]) = BlocksFor(lens'[l])
  PROVE  LedgerInv'
<1>1. /\ round'.stage = "Grow" /\ round'.lanes = lanes /\ round'.tokens = tokens
      /\ round'.grown = <<>> /\ round'.shortBy = 0
  BY DEF Start, NoRound
<1>2. round' \in Rounds
  <2>1. tokens \in Nat /\ <<>> \in Seq(Lanes \X Nat) /\ "Grow" \in Stages /\ 0 \in Nat
    BY BlockPoolAssumption DEF Stages
  <2>2. round' = [stage |-> "Grow", lanes |-> lanes, tokens |-> tokens, grown |-> <<>>, shortBy |-> 0]
    BY DEF Start, NoRound
  <2> QED
    BY <2>1, <2>2 DEF Rounds
<1>3. Len(<<>>) = 0
  OBVIOUS
<1>4. Covered'
  BY <1>1, <1>3 DEF Covered, Needed, Grown
<1>5. CallInv' /\ GrownInv'
  BY <1>1, <1>3 DEF CallInv, GrownInv, InProgress, Computing
<1> QED
  BY <1>1, <1>2, <1>4, <1>5 DEF LedgerInv, LedgerTypes, RefusedOnlyWhenShort

LEMMA RoundRests ==
  ASSUME round' \in Rounds, round'.stage \in {"Idle", "Reset"},
         free' \in Seq(Usable), tables' \in [Lanes -> Seq(Usable)], lens' \in [Lanes -> 0 .. Ctx],
         HeldOnce', NoneLost', \A l \in Lanes : Len(tables'[l]) = BlocksFor(lens'[l])
  PROVE  LedgerInv'
<1>1. ~InProgress' /\ ~Computing' /\ round'.stage # "Grow" /\ round'.stage # "Undo"
  BY DEF InProgress, Computing
<1>2. Covered' /\ CallInv' /\ GrownInv' /\ RefusedOnlyWhenShort'
  BY <1>1 DEF Covered, Needed, Grown, CallInv, GrownInv, RefusedOnlyWhenShort
<1> QED
  BY <1>2 DEF LedgerInv, LedgerTypes

LEMMA NoRoundType == NoRound \in Rounds /\ NoRound.stage = "Idle"
<1>1. "Idle" \in Stages /\ <<>> \in Seq(Lanes) /\ <<>> \in Seq(Lanes \X Nat) /\ 0 \in Nat
  BY DEF Stages
<1> QED
  BY <1>1 DEF NoRound, Rounds

LEMMA LedgerStarts ==
  ASSUME Init
  PROVE  LedgerInv
<1>1. PICK n \in Nat : n = TotalBlocks
  BY KvBudgetAssumption
<1>2. free = [i \in 1 .. n |-> i] /\ tables = [l \in Lanes |-> <<>>] /\ lens = [l \in Lanes |-> 0]
      /\ round = NoRound
  BY <1>1 DEF Init, PoolInit, Usable
<1>3. /\ free \in Seq(Usable) /\ tables \in [Lanes -> Seq(Usable)] /\ lens \in [Lanes -> 0 .. Ctx]
      /\ round \in Rounds
  <2>1. free \in [1 .. n -> 1 .. n]
    BY <1>2
  <2>2. free \in Seq(Usable)
    BY <1>1, <2>1 DEF Usable
  <2>3. <<>> \in Seq(Usable)
    OBVIOUS
  <2>4. tables \in [Lanes -> Seq(Usable)]
    BY <1>2, <2>3
  <2>5. lens \in [Lanes -> 0 .. Ctx]
    BY <1>2, BlockPoolAssumption
  <2> QED
    BY <1>2, <2>2, <2>4, <2>5, NoRoundType
<1>4. DOMAIN free = 1 .. n /\ (\A i \in 1 .. n : free[i] = i) /\ \A l \in Lanes : tables[l] = <<>>
  BY <1>2
<1>5. DOMAIN <<>> = {}
  OBVIOUS
<1>6. HeldOnce
  <2>1. \A h \in Holders : h = FreeStack \/ (h \in Lanes /\ Stack(h) = <<>>)
    BY <1>4 DEF Holders, Stack
  <2>2. IsInjective(Stack(FreeStack))
    BY <1>4 DEF Stack, IsInjective
  <2>3. \A h \in Holders : IsInjective(Stack(h)) /\ (h = FreeStack \/ Range(Stack(h)) = {})
    BY <1>5, <2>1, <2>2 DEF IsInjective, Range
  <2> QED
    BY <2>3 DEF HeldOnce
<1>7. NoneLost
  <2>1. FreeStack \in Holders /\ Stack(FreeStack) = free
    BY DEF Holders, Stack
  <2>2. \A b \in 1 .. n : b \in Range(free)
    BY <1>4 DEF Range
  <2> QED
    BY <1>1, <2>1, <2>2 DEF NoneLost, Usable
<1>8. round.stage = "Idle"
  BY <1>2, NoRoundType
<1>9. \A l \in Lanes : Len(tables[l]) = BlocksFor(lens[l])
  <2>1. Len(<<>>) = 0
    OBVIOUS
  <2> QED
    BY <1>2, <2>1, BlocksForZero
<1> QED
  BY <1>3, <1>6, <1>7, <1>8, <1>9
  DEF LedgerInv, LedgerTypes, Covered, Needed, Grown, CallInv, GrownInv, InProgress, Computing,
      RefusedOnlyWhenShort

(* A lane that is freed leaves the ledger covered.                         *)
LEMMA EmptyCovers ==
  ASSUME LedgerInv, ~InProgress, NEW l \in Lanes, Empty(l)
  PROVE  /\ free' \in Seq(Usable) /\ tables' \in [Lanes -> Seq(Usable)]
         /\ lens' \in [Lanes -> 0 .. Ctx] /\ lens'[l] = 0 /\ HeldOnce' /\ NoneLost'
         /\ \A g \in Lanes : Len(tables'[g]) = BlocksFor(lens'[g])
BY EmptyingMoves, CoveredAtRest, BlocksForZero DEF LedgerInv

LEMMA CallsKeepLedger ==
  ASSUME LedgerInv, Calls
  PROVE  LedgerInv'
<1>1. ASSUME Idle PROVE ~InProgress
  BY <1>1 DEF Idle, InProgress
<1>2. /\ LedgerTypes /\ HeldOnce /\ NoneLost /\ lens \in [Lanes -> 0 .. Ctx] /\ Ctx \in Nat
  BY BlockPoolAssumption DEF LedgerInv, LedgerTypes
<1>3. ASSUME NEW l \in Lanes, NEW n \in 1 .. MaxChunk, InWindow(lens'[l], n), lens'[l] \in 0 .. Ctx,
             Start(<<l>>, n),
             free' \in Seq(Usable), tables' \in [Lanes -> Seq(Usable)], lens' \in [Lanes -> 0 .. Ctx],
             HeldOnce', NoneLost', \A g \in Lanes : Len(tables'[g]) = BlocksFor(lens'[g])
      PROVE  LedgerInv'
  <2>1. n \in 1 .. Ctx /\ lens'[l] + n <= Ctx
    BY <1>2, <1>3, LlamaDecoderAssumption DEF InWindow
  <2>0. <<l>> \in Seq(Lanes)
    OBVIOUS
  <2>2. PICK ls \in Seq(Lanes) : ls = <<l>>
    BY <2>0, Zenon
  <2>3. Len(ls) = 1 /\ ls[1] = l /\ ls # <<>>
    BY <2>2
  <2>4. /\ \A i, k \in 1 .. Len(ls) : ls[i] = ls[k] => i = k
        /\ \A i \in 1 .. Len(ls) : lens'[ls[i]] + n <= Ctx
    BY <2>1, <2>3
  <2>5. Start(ls, n)
    BY <1>3, <2>2
  <2> QED
    BY <1>3, <2>1, <2>3, <2>4, <2>5, RoundStarts
<1>4. ASSUME NEW l \in Lanes, NEW n \in 1 .. MaxChunk, PrefillFresh(l, n) PROVE LedgerInv'
  <2>1. /\ free' \in Seq(Usable) /\ tables' \in [Lanes -> Seq(Usable)]
        /\ lens' \in [Lanes -> 0 .. Ctx] /\ lens'[l] = 0 /\ HeldOnce' /\ NoneLost'
        /\ \A g \in Lanes : Len(tables'[g]) = BlocksFor(lens'[g])
    BY <1>1, <1>4, EmptyCovers DEF PrefillFresh, ResetOne
  <2>2. CASE InWindow(0, n)
    BY <1>2, <1>3, <1>4, <2>1, <2>2 DEF PrefillFresh
  <2>3. CASE ~InWindow(0, n)
    BY <1>4, <2>1, <2>3, NoRoundType, RoundRests DEF PrefillFresh
  <2> QED
    BY <2>2, <2>3
<1>5. ASSUME NEW l \in Lanes, NEW n \in 1 .. MaxChunk, PrefillMore(l, n) PROVE LedgerInv'
  <2>1. /\ UNCHANGED <<free, tables, lens>> /\ Idle /\ InWindow(lens[l], n) /\ Start(<<l>>, n)
    BY <1>5 DEF PrefillMore
  <2>2. \A g \in Lanes : Len(tables'[g]) = BlocksFor(lens'[g])
    BY <1>1, <2>1, CoveredAtRest
  <2> QED
    BY <1>2, <1>3, <2>1, <2>2, BlocksUnmoved
<1>6. ASSUME NEW lanes \in Batches, Decode(lanes) PROVE LedgerInv'
  <2>1. /\ UNCHANGED <<free, tables, lens>> /\ Idle /\ Start(lanes, 1)
        /\ \A i \in 1 .. Len(lanes) : lens[lanes[i]] + 1 <= Ctx
    BY <1>6 DEF Decode, InWindow
  <2>2. \A g \in Lanes : Len(tables'[g]) = BlocksFor(lens'[g])
    BY <1>1, <2>1, CoveredAtRest
  <2>3. PICK n \in 1 .. LaneCount : lanes \in [1 .. n -> Lanes] /\ IsInjective(lanes)
    BY DEF Batches
  <2>4. n \in Nat /\ n >= 1
    BY BlockPoolAssumption
  <2>5. lanes \in Seq(Lanes) /\ Len(lanes) = n /\ DOMAIN lanes = 1 .. n /\ lanes # <<>>
    BY <2>3, <2>4
  <2>6. 1 \in 1 .. Ctx
    <3>1. lanes[1] \in Lanes /\ lens[lanes[1]] + 1 <= Ctx
      BY <2>1, <2>3, <2>4, <2>5
    <3> QED
      BY <1>2, <3>1
  <2>7. \A i, k \in 1 .. Len(lanes) : lanes[i] = lanes[k] => i = k
    BY <2>3, <2>5 DEF IsInjective
  <2> QED
    BY <1>2, <2>1, <2>2, <2>5, <2>6, <2>7, BlocksUnmoved, RoundStarts
<1>7. ASSUME NEW l \in Lanes, Release(l) PROVE LedgerInv'
  <2>1. Idle /\ Empty(l) /\ round' = round
    BY <1>7 DEF Release, ResetOne
  <2>2. round' \in Rounds /\ round'.stage = "Idle"
    BY <1>2, <2>1 DEF LedgerTypes, Idle
  <2> QED
    BY <1>1, <2>1, <2>2, EmptyCovers, RoundRests
<1>8. ASSUME Reset PROVE LedgerInv'
  <2>1. Idle /\ UNCHANGED <<free, tables, lens>>
    BY <1>8 DEF Reset
  <2>2. [i \in 1 .. LaneCount |-> i - 1] \in Seq(Lanes)
    <3>1. PICK n \in Nat : n = LaneCount
      BY BlockPoolAssumption
    <3>2. \A i \in 1 .. n : i - 1 \in Lanes
      BY <3>1 DEF Lanes
    <3>3. [i \in 1 .. n |-> i - 1] \in [1 .. n -> Lanes]
      BY <3>2
    <3> QED
      BY <3>1, <3>3
  <2>3. round' = [stage |-> "Reset", lanes |-> [i \in 1 .. LaneCount |-> i - 1], tokens |-> 0,
                  grown |-> <<>>, shortBy |-> 0]
    BY <1>8 DEF Reset, NoRound
  <2>4. "Reset" \in Stages /\ <<>> \in Seq(Lanes \X Nat) /\ 0 \in Nat
    BY DEF Stages
  <2>5. round' \in Rounds /\ round'.stage = "Reset"
    BY <2>2, <2>3, <2>4 DEF Rounds
  <2>6. \A g \in Lanes : Len(tables'[g]) = BlocksFor(lens'[g])
    BY <1>1, <2>1, CoveredAtRest
  <2> QED
    BY <1>2, <2>1, <2>5, <2>6, BlocksUnmoved, RoundRests
<1> QED
  BY <1>4, <1>5, <1>6, <1>7, <1>8 DEF Calls

LEMMA RoundFields ==
  ASSUME LedgerTypes
  PROVE  /\ round.stage \in Stages /\ round.lanes \in Seq(Lanes) /\ round.tokens \in Nat
         /\ round.grown \in Seq(Lanes \X Nat) /\ round.shortBy \in Nat
         /\ round = [stage |-> round.stage, lanes |-> round.lanes, tokens |-> round.tokens,
                     grown |-> round.grown, shortBy |-> round.shortBy]
BY DEF LedgerTypes, Rounds

(* The lane whose turn it is has not grown yet.                            *)
LEMMA TurnFacts ==
  ASSUME LedgerInv, Growing
  PROVE  /\ Len(round.grown) + 1 \in 1 .. Len(round.lanes) /\ Turn \in Lanes
         /\ Turn = round.lanes[Len(round.grown) + 1]
         /\ \A i \in 1 .. Len(round.grown) : round.lanes[i] # Turn /\ round.grown[i][1] # Turn
         /\ Len(tables[Turn]) = BlocksFor(lens[Turn]) /\ Len(tables[Turn]) \in Nat
         /\ lens[Turn] \in Nat /\ round.tokens \in Nat /\ lens[Turn] + round.tokens <= Ctx
         /\ Len(tables[Turn]) <= BlocksFor(lens[Turn] + round.tokens)
         /\ BlocksFor(lens[Turn] + round.tokens) \in Nat
<1>1. PICK k \in Nat : k = Len(round.grown)
  BY RoundFields DEF LedgerInv
<1>2. PICK m \in Nat : m = Len(round.lanes)
  BY RoundFields DEF LedgerInv
<1>3. PICK j \in 1 .. m : j = k + 1
  BY <1>1, <1>2 DEF Growing
<1>4. Turn = round.lanes[j] /\ Turn \in Lanes /\ j \notin 1 .. k /\ 1 .. k \subseteq 1 .. m
  BY <1>1, <1>2, <1>3, RoundFields DEF Turn, LedgerInv
<1>5. InProgress /\ round.stage = "Grow"
  BY DEF Growing, InProgress
<1>6. ASSUME NEW i \in 1 .. k PROVE round.lanes[i] # Turn /\ round.grown[i][1] # Turn
  <2>1. round.lanes[i] # round.lanes[j]
    BY <1>2, <1>3, <1>4, <1>5 DEF LedgerInv, CallInv
  <2>2. round.grown[i][1] = round.lanes[i]
    BY <1>1, <1>5 DEF LedgerInv, GrownInv
  <2> QED
    BY <1>4, <2>1, <2>2
<1>7. ~Grown(Turn)
  BY <1>1, <1>6 DEF Grown
<1>8. Len(tables[Turn]) = BlocksFor(lens[Turn])
  BY <1>4, <1>7 DEF LedgerInv, Covered, Needed
<1>9. lens[Turn] + round.tokens <= Ctx
  BY <1>2, <1>4, <1>5 DEF LedgerInv, CallInv
<1>10. /\ lens[Turn] \in Nat /\ round.tokens \in Nat
       /\ BlocksFor(lens[Turn]) \in Nat /\ BlocksFor(lens[Turn] + round.tokens) \in Nat
       /\ BlocksFor(lens[Turn]) <= BlocksFor(lens[Turn] + round.tokens)
  <2>1. lens[Turn] \in Nat /\ round.tokens \in Nat
    BY <1>4, RoundFields, BlockPoolAssumption DEF LedgerInv, LedgerTypes
  <2>2. PICK x \in Nat : x = lens[Turn]
    BY <2>1
  <2>3. PICK y \in Nat : y = x + round.tokens
    BY <2>1
  <2>4. x <= y /\ BlocksFor(x) \in Nat /\ BlocksFor(y) \in Nat
    BY <2>1, <2>3, BlocksForNat
  <2>5. BlocksFor(x) <= BlocksFor(y)
    BY <2>4, BlocksForMono
  <2> QED
    BY <2>1, <2>2, <2>3, <2>4, <2>5
<1> QED
  BY <1>1, <1>2, <1>3, <1>4, <1>6, <1>8, <1>9, <1>10

(* The lane takes what it lacks, and the others' tables stay.              *)
LEMMA TurnGrows ==
  ASSUME LedgerInv, GrowTable
  PROVE  /\ free' \in Seq(Usable) /\ tables' \in [Lanes -> Seq(Usable)] /\ HeldOnce' /\ NoneLost'
         /\ Len(tables'[Turn]) = BlocksFor(lens[Turn] + round.tokens)
         /\ IsPrefix(tables[Turn], tables'[Turn])
         /\ \A g \in Lanes \ {Turn} : tables'[g] = tables[g]
<1>1. Growing /\ ~Exhausted
  BY DEF GrowTable
<1>2. LedgerTypes /\ HeldOnce /\ NoneLost /\ Turn \in Lanes /\ tables[Turn] \in Seq(Usable)
      /\ Len(free) \in Nat
  BY <1>1, TurnFacts DEF LedgerInv, LedgerTypes
<1>3. PICK n \in Int : n = Shortfall(Turn)
  BY <1>1, TurnFacts DEF Shortfall
<1>4. n >= 0 /\ n <= Len(free) /\ BlocksFor(lens[Turn] + round.tokens) = Len(tables[Turn]) + n
  BY <1>1, <1>2, <1>3, TurnFacts DEF Shortfall, Exhausted
<1>5. CASE n = 0
  <2>1. UNCHANGED <<free, tables>>
    BY <1>3, <1>5 DEF GrowTable
  <2>2. IsPrefix(tables[Turn], tables[Turn])
    BY <1>2 DEF IsPrefix
  <2> QED
    BY <1>1, <1>2, <1>4, <1>5, <2>1, <2>2, BlocksUnmoved, TurnFacts
<1>6. CASE n > 0
  <2>1. Grows(Turn, n) /\ n \in 0 .. Len(free)
    BY <1>2, <1>3, <1>4, <1>6 DEF GrowTable
  <2> QED
    BY <1>2, <1>4, <2>1, GrowingMoves
<1> QED
  BY <1>4, <1>5, <1>6

LEMMA GrowTableKeepsLedger ==
  ASSUME LedgerInv, GrowTable
  PROVE  LedgerInv'
<1>1. /\ Growing /\ lens' = lens
      /\ round' = [round EXCEPT !.grown = Append(@, <<Turn, Len(tables[Turn])>>)]
  BY DEF GrowTable
<1>2. LedgerTypes /\ CallInv /\ GrownInv /\ Covered
  BY DEF LedgerInv
<1>3. PICK T \in Lanes : T = Turn
  BY <1>1, TurnFacts
<1>4. PICK d \in Nat : d = Len(tables[T]) /\ d = BlocksFor(lens[T])
  BY <1>1, <1>3, TurnFacts
<1>5. <<T, d>> \in Lanes \X Nat /\ <<T, d>>[1] = T /\ <<T, d>>[2] = d
  OBVIOUS
<1>6. PICK g \in Seq(Lanes \X Nat) : g = round.grown
  BY <1>2, RoundFields
<1>7. PICK k \in Nat : k = Len(g)
  OBVIOUS
<1>8. PICK w \in Seq(Lanes \X Nat) : w = Append(g, <<T, d>>)
  <2>1. Append(g, <<T, d>>) \in Seq(Lanes \X Nat)
    BY <1>5, AppendProperties
  <2> QED
    BY <2>1, Zenon
<1>9. Len(w) = k + 1 /\ w[k + 1] = <<T, d>> /\ \A i \in 1 .. k : w[i] = g[i]
  BY <1>5, <1>7, <1>8, AppendProperties
<1>10. /\ round'.stage = "Grow" /\ round.stage = "Grow" /\ round'.lanes = round.lanes
       /\ round'.tokens = round.tokens /\ round'.grown = w /\ round' \in Rounds
  BY <1>1, <1>2, <1>3, <1>4, <1>6, <1>8, RoundFields DEF Growing, Rounds
<1>11. /\ k + 1 \in 1 .. Len(round.lanes) /\ round.lanes[k + 1] = T /\ Len(round.lanes) \in Nat
       /\ \A i \in 1 .. k : g[i][1] # T
  BY <1>1, <1>2, <1>3, <1>6, <1>7, TurnFacts, RoundFields
<1>12. PICK j \in 1 .. Len(round.lanes) : j = k + 1
  BY <1>11
<1>13. \A i \in 1 .. k + 1 : i \in 1 .. k \/ i = j
  BY <1>7, <1>12
<1>14. InProgress /\ InProgress' /\ ~Computing /\ ~Computing'
  BY <1>10 DEF InProgress, Computing
<1>15. CallInv'
  BY <1>1, <1>2, <1>10, <1>14 DEF CallInv
<1>16. GrownInv'
  <2>1. /\ \A i, m \in 1 .. k : g[i][1] = g[m][1] => i = m
        /\ \A i \in 1 .. k : (\E m \in 1 .. Len(round.lanes) : round.lanes[m] = g[i][1])
                             /\ g[i][2] = BlocksFor(lens[g[i][1]]) /\ g[i][1] = round.lanes[i]
    BY <1>2, <1>6, <1>7, <1>10, <1>14 DEF GrownInv
  <2>2. w[j][1] = T /\ w[j][2] = d /\ round.lanes[j] = T
    BY <1>5, <1>9, <1>11, <1>12
  <2>3. \A i \in 1 .. k : w[i][1] = g[i][1] /\ w[i][2] = g[i][2]
    BY <1>9
  <2>4. ASSUME NEW i \in 1 .. k + 1, NEW m \in 1 .. k + 1, w[i][1] = w[m][1] PROVE i = m
    <3>1. CASE i \in 1 .. k /\ m \in 1 .. k
      BY <2>1, <2>3, <2>4, <3>1
    <3>2. CASE i \in 1 .. k /\ m = j
      BY <1>11, <2>2, <2>3, <2>4, <3>2
    <3>3. CASE i = j /\ m \in 1 .. k
      BY <1>11, <2>2, <2>3, <2>4, <3>3
    <3> QED
      BY <1>13, <3>1, <3>2, <3>3
  <2>5. ASSUME NEW i \in 1 .. k + 1
        PROVE  (\E m \in 1 .. Len(round.lanes) : round.lanes[m] = w[i][1])
               /\ w[i][2] = BlocksFor(lens[w[i][1]]) /\ w[i][1] = round.lanes[i]
    <3>1. CASE i \in 1 .. k
      <4>1. PICK v : v = w[i] /\ v[1] = g[i][1] /\ v[2] = g[i][2]
        BY <2>3, <3>1
      <4>2. /\ \E m \in 1 .. Len(round.lanes) : round.lanes[m] = g[i][1]
            /\ g[i][2] = BlocksFor(lens[g[i][1]]) /\ g[i][1] = round.lanes[i]
        BY <2>1, <3>1
      <4>3. /\ \E m \in 1 .. Len(round.lanes) : round.lanes[m] = v[1]
            /\ v[2] = BlocksFor(lens[v[1]]) /\ v[1] = round.lanes[i]
        BY <4>1, <4>2, Zenon
      <4> QED
        BY <4>1, <4>3, Zenon
    <3>2. CASE i = j
      BY <1>4, <2>2, <3>2
    <3> QED
      BY <1>13, <3>1, <3>2
  <2>6. Len(w) = k + 1 /\ k + 1 <= Len(round.lanes)
    BY <1>9, <1>11
  <2>7. /\ round'.stage = "Grow" /\ lens' = lens /\ round'.lanes = round.lanes /\ round'.grown = w
    BY <1>1, <1>10
  <2> QED
    <3>1. \A i, m \in 1 .. Len(w) : w[i][1] = w[m][1] => i = m
      BY <2>4, <2>6
    <3>2. \A i \in 1 .. Len(w) : /\ \E m \in 1 .. Len(round.lanes) : round.lanes[m] = w[i][1]
                                 /\ w[i][2] = BlocksFor(lens[w[i][1]])
      BY <2>5, <2>6
    <3>3. Len(w) <= Len(round.lanes) /\ \A i \in 1 .. Len(w) : w[i][1] = round.lanes[i]
      BY <2>5, <2>6
    <3> QED
      BY <2>7, <3>1, <3>2, <3>3 DEF GrownInv
<1>17. \A l \in Lanes : Grown(l)' <=> Grown(l) \/ l = T
  <2>1. ASSUME NEW l \in Lanes PROVE (\E i \in 1 .. k + 1 : w[i][1] = l) <=> (\E i \in 1 .. k : g[i][1] = l) \/ l = T
    <3>1. j \in 1 .. k + 1 /\ w[j][1] = T /\ 1 .. k \subseteq 1 .. k + 1
      BY <1>5, <1>7, <1>9, <1>12
    <3> QED
      BY <1>5, <1>9, <1>13, <3>1
  <2> QED
    <3>1. \A l \in Lanes : Grown(l) <=> \E i \in 1 .. k : g[i][1] = l
      BY <1>6, <1>7, <1>14 DEF Grown
    <3>2. \A l \in Lanes : Grown(l)' <=> \E i \in 1 .. k + 1 : w[i][1] = l
      BY <1>9, <1>10, <1>14 DEF Grown
    <3> QED
      BY <2>1, <3>1, <3>2
<1>18. Covered'
  <2>1. ASSUME NEW l \in Lanes PROVE Len(tables'[l]) = IF Grown(l)' THEN BlocksFor(lens[l] + round.tokens) ELSE BlocksFor(lens[l])
    <3>1. CASE l = T
      BY <1>3, <1>17, <3>1, TurnGrows
    <3>2. CASE l # T
      BY <1>2, <1>3, <1>17, <3>2, TurnGrows DEF Covered, Needed
    <3> QED
      BY <3>1, <3>2
  <2> QED
    BY <1>1, <1>10, <2>1 DEF Covered, Needed
<1>19. LedgerTypes' /\ RefusedOnlyWhenShort'
  BY <1>1, <1>2, <1>10, TurnGrows DEF LedgerTypes, RefusedOnlyWhenShort
<1> QED
  BY <1>15, <1>16, <1>18, <1>19, TurnGrows DEF LedgerInv

(* What a round wants and has taken, pair by pair.                         *)
Wanted(l) == BlocksFor(lens[l] + round.tokens) - BlocksFor(lens[l])
TookAt(i) == Len(tables[round.grown[i][1]]) - round.grown[i][2]

LEMMA InWants ==
  ASSUME LedgerTypes, NEW x
  PROVE  x \in Wants <=> \E i \in 1 .. Len(round.lanes) : x \in {round.lanes[i]} \X (1 .. Wanted(round.lanes[i]))
<1>1. Range(round.lanes) = {round.lanes[i] : i \in 1 .. Len(round.lanes)}
  BY RoundFields, RangeEquality
<1> QED
  BY <1>1, Zenon DEF Wants, Wanted

LEMMA InTaken ==
  ASSUME LedgerTypes, NEW x
  PROVE  x \in Taken <=> \E i \in 1 .. Len(round.grown) : x \in {round.grown[i][1]} \X (1 .. TookAt(i))
<1>1. Range(round.grown) = {round.grown[i] : i \in 1 .. Len(round.grown)}
  BY RoundFields, RangeEquality
<1> QED
  BY <1>1, Zenon DEF Taken, TookAt

LEMMA ColumnSize ==
  ASSUME NEW l, NEW n \in Nat
  PROVE  IsFiniteSet({l} \X (1 .. n)) /\ Cardinality({l} \X (1 .. n)) = n
<1>1. IsFiniteSet({l}) /\ Cardinality({l}) = 1
  BY FS_Singleton
<1>2. IsFiniteSet(1 .. n) /\ Cardinality(1 .. n) = n
  BY FS_Interval
<1>3. /\ IsFiniteSet({l} \X (1 .. n))
      /\ Cardinality({l} \X (1 .. n)) = Cardinality({l}) * Cardinality(1 .. n)
  BY <1>1, <1>2, FS_Product, Zenon
<1> QED
  BY <1>1, <1>2, <1>3

(* A lane of the round lacks at most the blocks of its window.             *)
LEMMA WantedBound ==
  ASSUME LedgerInv, InProgress, NEW i \in 1 .. Len(round.lanes)
  PROVE  /\ round.lanes[i] \in Lanes /\ Wanted(round.lanes[i]) \in Nat
         /\ BlocksFor(lens[round.lanes[i]]) \in Nat
         /\ Wanted(round.lanes[i]) <= BlocksFor(Ctx) /\ BlocksFor(Ctx) \in Nat
<1>1. PICK l \in Lanes : l = round.lanes[i]
  BY RoundFields DEF LedgerInv
<1>2. /\ lens[l] \in Nat /\ round.tokens \in Nat /\ lens[l] + round.tokens \in Nat
      /\ lens[l] + round.tokens <= Ctx /\ Ctx \in Nat
  <2>1. lens[l] \in Nat /\ round.tokens \in Nat /\ Ctx \in Nat
    BY BlockPoolAssumption, RoundFields DEF LedgerInv, LedgerTypes
  <2>2. lens[l] + round.tokens <= Ctx
    BY <1>1 DEF LedgerInv, CallInv
  <2> QED
    BY <2>1, <2>2
<1>3. PICK x \in Nat : x = lens[l]
  BY <1>2
<1>4. PICK y \in Nat : y = lens[l] + round.tokens
  BY <1>2
<1>5. BlocksFor(x) \in Nat /\ BlocksFor(y) \in Nat /\ BlocksFor(Ctx) \in Nat
  BY <1>2, BlocksForNat
<1>6. x <= y /\ y <= Ctx
  BY <1>2, <1>3, <1>4
<1>7. BlocksFor(x) <= BlocksFor(y) /\ BlocksFor(y) <= BlocksFor(Ctx)
  BY <1>2, <1>6, BlocksForMono
<1>8. Wanted(l) = BlocksFor(y) - BlocksFor(x)
  BY <1>3, <1>4 DEF Wanted
<1>9. PICK a, b, c \in Nat : a = BlocksFor(x) /\ b = BlocksFor(y) /\ c = BlocksFor(Ctx)
  BY <1>5
<1>10. b - a \in Nat /\ b - a <= c
  BY <1>7, <1>9
<1> QED
  BY <1>1, <1>3, <1>8, <1>9, <1>10

(* A lane that has grown took what it wanted.                              *)
LEMMA TookWanted ==
  ASSUME LedgerInv, InProgress, NEW i \in 1 .. Len(round.grown)
  PROVE  \E k \in 1 .. Len(round.lanes) :
           round.lanes[k] = round.grown[i][1] /\ TookAt(i) = Wanted(round.lanes[k])
<1>1. PICK k \in 1 .. Len(round.lanes) : round.lanes[k] = round.grown[i][1]
  BY DEF LedgerInv, GrownInv
<1>2. round.lanes[k] \in Lanes
  BY RoundFields DEF LedgerInv
<1>3. Grown(round.lanes[k])
  BY <1>1 DEF Grown
<1>4. Len(tables[round.lanes[k]]) = BlocksFor(lens[round.lanes[k]] + round.tokens)
  BY <1>2, <1>3 DEF LedgerInv, Covered, Needed
<1>5. round.grown[i][2] = BlocksFor(lens[round.grown[i][1]])
  BY DEF LedgerInv, GrownInv
<1> QED
  BY <1>1, <1>4, <1>5 DEF TookAt, Wanted

LEMMA TakenFromWants ==
  ASSUME LedgerInv, InProgress
  PROVE  Taken \subseteq Wants /\ IsFiniteSet(Wants) /\ IsFiniteSet(Taken)
<1>1. LedgerTypes
  BY DEF LedgerInv
<1>2. Taken \subseteq Wants
  <2>1. ASSUME NEW x \in Taken PROVE x \in Wants
    <3>1. PICK i \in 1 .. Len(round.grown) : x \in {round.grown[i][1]} \X (1 .. TookAt(i))
      BY <1>1, <2>1, InTaken
    <3>2. PICK k \in 1 .. Len(round.lanes) :
            round.lanes[k] = round.grown[i][1] /\ TookAt(i) = Wanted(round.lanes[k])
      BY TookWanted
    <3>3. x \in {round.lanes[k]} \X (1 .. Wanted(round.lanes[k]))
      BY <3>1, <3>2
    <3> QED
      BY <1>1, <3>3, InWants
  <2> QED
    BY <2>1
<1>3. Wants \subseteq Lanes \X (1 .. BlocksFor(Ctx))
  <2>1. ASSUME NEW x \in Wants PROVE x \in Lanes \X (1 .. BlocksFor(Ctx))
    <3>1. PICK i \in 1 .. Len(round.lanes) : x \in {round.lanes[i]} \X (1 .. Wanted(round.lanes[i]))
      BY <1>1, <2>1, InWants
    <3>2. 1 .. Wanted(round.lanes[i]) \subseteq 1 .. BlocksFor(Ctx) /\ round.lanes[i] \in Lanes
      BY WantedBound
    <3> QED
      BY <3>1, <3>2
  <2> QED
    BY <2>1
<1>4. IsFiniteSet(Lanes \X (1 .. BlocksFor(Ctx)))
  <2>1. BlocksFor(Ctx) \in Nat /\ 0 \in Int /\ LaneCount - 1 \in Int
    BY BlocksForNat, BlockPoolAssumption
  <2>2. IsFiniteSet(Lanes) /\ IsFiniteSet(1 .. BlocksFor(Ctx))
    BY <2>1, FS_Interval DEF Lanes
  <2> QED
    BY <2>2, FS_Product
<1>5. IsFiniteSet(Wants)
  BY <1>3, <1>4, FS_Subset
<1> QED
  BY <1>2, <1>5, FS_Subset

(* The lane that is refused wants, on top of what was taken, more than is  *)
(* left.                                                                   *)
LEMMA GrowFailsKeepsLedger ==
  ASSUME LedgerInv, GrowFails
  PROVE  LedgerInv'
<1>1. /\ Growing /\ Exhausted /\ UNCHANGED <<free, tables, lens>>
      /\ round' = [round EXCEPT !.stage = "Undo", !.shortBy = Shortfall(Turn) - Len(free)]
  BY DEF GrowFails
<1>2. LedgerTypes /\ CallInv /\ GrownInv /\ Covered /\ HeldOnce /\ NoneLost /\ Len(free) \in Nat
  BY DEF LedgerInv, LedgerTypes
<1>3. InProgress
  BY <1>1 DEF Growing, InProgress
<1>4. PICK m \in Nat : m = Shortfall(Turn) /\ m = Wanted(Turn)
  BY <1>1, TurnFacts DEF Shortfall, Wanted
<1>5. m > Len(free) /\ m - Len(free) \in Nat
  BY <1>1, <1>2, <1>4 DEF Exhausted
<1>6. /\ round'.stage = "Undo" /\ round'.lanes = round.lanes /\ round'.tokens = round.tokens
      /\ round'.grown = round.grown /\ round' \in Rounds
  <2>1. "Undo" \in Stages
    BY DEF Stages
  <2> QED
    BY <1>1, <1>2, <1>4, <1>5, <2>1, RoundFields DEF Rounds
<1>7. Wants' = Wants /\ Taken' = Taken /\ free' = free
  BY <1>1, <1>6 DEF Wants, Taken
<1>8. Cardinality(Wants) > FreeAtStart
  <2> DEFINE C == {Turn} \X (1 .. m)
  <2>1. IsFiniteSet(C) /\ Cardinality(C) = m
    BY ColumnSize
  <2>2. PICK j \in 1 .. Len(round.lanes) : Turn = round.lanes[j]
    BY <1>1, TurnFacts
  <2>3. C \subseteq Wants
    BY <1>2, <1>4, <2>2, InWants
  <2>4. C \cap Taken = {}
    <3>1. ASSUME NEW x \in Taken PROVE x \notin C
      <4>1. PICK i \in 1 .. Len(round.grown) : x \in {round.grown[i][1]} \X (1 .. TookAt(i))
        BY <1>2, <3>1, InTaken
      <4>2. round.grown[i][1] # Turn
        BY <1>1, TurnFacts
      <4> QED
        BY <4>1, <4>2
    <3> QED
      BY <3>1
  <2> HIDE DEF C
  <2>5. /\ IsFiniteSet(Taken) /\ IsFiniteSet(Wants) /\ Taken \subseteq Wants
        /\ Taken \cup C \subseteq Wants
    BY <1>3, <2>3, TakenFromWants
  <2>6. Cardinality(Taken \cup C) <= Cardinality(Wants)
    BY <2>5, FS_Subset
  <2>7. /\ Cardinality(Taken) \in Nat /\ Cardinality(Wants) \in Nat /\ Taken \cap C = {}
        /\ Cardinality({}) = 0
    BY <2>4, <2>5, FS_CardinalityType, FS_EmptySet
  <2>8. Cardinality(Taken \cup C) = Cardinality(Taken) + m
    <3>1. Cardinality(Taken \cup C) = Cardinality(Taken) + Cardinality(C) - Cardinality(Taken \cap C)
      BY <2>1, <2>5, FS_Union, Zenon
    <3>2. Cardinality(Taken \cap C) = 0
      BY <2>7
    <3> QED
      BY <2>1, <2>7, <3>1, <3>2
  <2> QED
    BY <1>2, <1>5, <2>6, <2>7, <2>8 DEF FreeAtStart
<1>9. RefusedOnlyWhenShort'
  BY <1>7, <1>8 DEF RefusedOnlyWhenShort, FreeAtStart
<1>10. InProgress' /\ ~Computing' /\ \A l \in Lanes : Grown(l)' <=> Grown(l)
  BY <1>3, <1>6 DEF InProgress, Computing, Grown
<1>11. Covered'
  BY <1>1, <1>2, <1>6, <1>10 DEF Covered, Needed
<1>12. CallInv'
  BY <1>1, <1>2, <1>3, <1>6, <1>10 DEF CallInv
<1>13. GrownInv'
  BY <1>1, <1>2, <1>3, <1>6 DEF GrownInv
<1> QED
  BY <1>1, <1>2, <1>6, <1>9, <1>11, <1>12, <1>13, BlocksUnmoved DEF LedgerInv, LedgerTypes

(* The lane grown first gives back just what it took.                      *)
LEMMA UndoKeepsLedger ==
  ASSUME LedgerInv, Undo
  PROVE  /\ LedgerInv'
         /\ \A l \in Lanes : Len(tables'[l]) >= BlocksFor(lens[l])
              /\ (tables'[l] = tables[l] \/ tables'[l] = SubSeq(tables[l], 1, BlocksFor(lens[l])))
<1>1. LedgerTypes /\ CallInv /\ GrownInv /\ Covered /\ HeldOnce /\ NoneLost
  BY DEF LedgerInv
<1>2. round.stage = "Undo" /\ round.grown # <<>> /\ lens' = lens
      /\ round' = [round EXCEPT !.grown = Tail(@)] /\ InProgress /\ ~Computing
  BY DEF Undo, InProgress, Computing
<1>3. PICK g \in Seq(Lanes \X Nat) : g = round.grown
  BY <1>1, RoundFields
<1>4. PICK k \in Nat : k = Len(g)
  OBVIOUS
<1>5. k >= 1 /\ Head(g) = g[1]
  BY <1>2, <1>3, <1>4
<1>6. PICK w \in Seq(Lanes \X Nat) : w = Tail(g)
  <2>1. Tail(g) \in Seq(Lanes \X Nat)
    BY <1>2, <1>3, HeadTailProperties
  <2> QED
    BY <2>1, Zenon
<1>7. Len(w) = k - 1 /\ \A j \in 1 .. Len(w) : w[j] = g[j + 1]
  BY <1>2, <1>3, <1>4, <1>6, HeadTailProperties
<1>8. PICK n \in Nat : n = k - 1
  BY <1>5
<1>9. /\ \A j \in 1 .. n : \E i \in 1 .. k : i = j + 1 /\ i # 1 /\ w[j] = g[i]
      /\ \A i \in 1 .. k : i = 1 \/ \E j \in 1 .. n : i = j + 1 /\ w[j] = g[i]
  <2>1. ASSUME NEW j \in 1 .. n PROVE \E i \in 1 .. k : i = j + 1 /\ i # 1 /\ w[j] = g[i]
    <3>1. j + 1 \in 1 .. k /\ j + 1 # 1 /\ w[j] = g[j + 1]
      BY <1>7, <1>8
    <3> QED
      BY <3>1, Zenon
  <2>2. ASSUME NEW i \in 1 .. k, i # 1 PROVE \E j \in 1 .. n : i = j + 1 /\ w[j] = g[i]
    <3>1. PICK j \in 1 .. n : j = i - 1
      BY <1>8, <2>2
    <3>2. i = j + 1 /\ w[j] = g[j + 1]
      BY <1>7, <1>8, <3>1
    <3> QED
      BY <3>2
  <2> QED
    BY <2>1, <2>2
<1>10. PICK lane \in Lanes : lane = g[1][1]
  BY <1>4, <1>5
<1>11. PICK keep \in Nat : keep = g[1][2]
  BY <1>4, <1>5
<1>12. /\ \A i, m \in 1 .. k : g[i][1] = g[m][1] => i = m
       /\ \A i \in 1 .. k : (\E m \in 1 .. Len(round.lanes) : round.lanes[m] = g[i][1])
                            /\ g[i][2] = BlocksFor(lens[g[i][1]])
  BY <1>1, <1>2, <1>3, <1>4 DEF GrownInv
<1>13. InProgress /\ lens' = lens
  BY <1>2
<1>14. keep = BlocksFor(lens[lane]) /\ \E m \in 1 .. Len(round.lanes) : round.lanes[m] = lane
  <2>1. 1 \in 1 .. k
    BY <1>5
  <2> QED
    BY <1>10, <1>11, <1>12, <2>1
<1>15. Grown(lane)
  <2>1. 1 \in 1 .. k
    BY <1>5
  <2> QED
    BY <1>3, <1>4, <1>10, <1>13, <2>1 DEF Grown
<1>16. PICK t \in Nat : t = Len(tables[lane])
  BY <1>1 DEF LedgerTypes
<1>17. t = BlocksFor(lens[lane] + round.tokens) /\ keep <= t
  <2>1. t = BlocksFor(lens[lane] + round.tokens)
    BY <1>1, <1>15, <1>16 DEF Covered, Needed
  <2>0. lens[lane] \in Nat /\ round.tokens \in Nat
    BY <1>1, RoundFields DEF LedgerTypes
  <2>2. PICK x, y \in Nat : x = lens[lane] /\ y = lens[lane] + round.tokens
    BY <2>0
  <2>3. x <= y
    BY <1>1, <2>2, RoundFields
  <2> QED
    BY <1>14, <2>1, <2>2, <2>3, BlocksForMono
<1>18. /\ HeldOnce' /\ NoneLost' /\ free' \in Seq(Usable) /\ tables' \in [Lanes -> Seq(Usable)]
       /\ Len(free') = Len(free) + (t - keep) /\ Len(tables'[lane]) = keep
       /\ tables'[lane] = SubSeq(tables[lane], 1, keep)
       /\ \A l \in Lanes \ {lane} : tables'[l] = tables[l]
  <2>1. keep \in 0 .. Len(tables[lane])
    BY <1>16, <1>17
  <2>2. free' = free \o Excess(lane, keep) /\ tables' = [tables EXCEPT ![lane] = Kept(lane, keep)]
    BY <1>3, <1>5, <1>10, <1>11 DEF Undo
  <2> QED
    BY <1>1, <1>16, <2>1, <2>2, CuttingMoves
<1>19. /\ round'.stage = "Undo" /\ round'.lanes = round.lanes /\ round'.tokens = round.tokens
       /\ round'.grown = w /\ round' \in Rounds
  BY <1>1, <1>2, <1>3, <1>6, RoundFields DEF Rounds
<1>20. InProgress' /\ ~Computing'
  BY <1>19 DEF InProgress, Computing
<1>21. \A j \in 1 .. n : w[j][1] # lane
  <2>1. ASSUME NEW j \in 1 .. n PROVE w[j][1] # lane
    <3>1. PICK i \in 1 .. k : i # 1 /\ w[j] = g[i]
      BY <1>9
    <3>2. 1 \in 1 .. k
      BY <1>5
    <3> QED
      BY <1>10, <1>12, <3>1, <3>2
  <2> QED
    BY <2>1
<1>22. \A l \in Lanes : Grown(l)' <=> Grown(l) /\ l # lane
  <2>1. ASSUME NEW l \in Lanes
        PROVE  (\E j \in 1 .. n : w[j][1] = l) <=> (\E i \in 1 .. k : g[i][1] = l) /\ l # lane
    <3>1. ASSUME NEW j \in 1 .. n, w[j][1] = l PROVE (\E i \in 1 .. k : g[i][1] = l) /\ l # lane
      BY <1>9, <1>21, <3>1
    <3>2. ASSUME NEW i \in 1 .. k, g[i][1] = l, l # lane PROVE \E j \in 1 .. n : w[j][1] = l
      <4>1. PICK j \in 1 .. n : w[j] = g[i]
        BY <1>9, <1>10, <3>2
      <4> QED
        BY <3>2, <4>1
    <3> QED
      BY <3>1, <3>2
  <2>2. Len(w) = n
    BY <1>7, <1>8
  <2> QED
    <3>1. \A l \in Lanes : Grown(l) <=> \E i \in 1 .. k : g[i][1] = l
      BY <1>3, <1>4, <1>13 DEF Grown
    <3>2. \A l \in Lanes : Grown(l)' <=> \E j \in 1 .. n : w[j][1] = l
      BY <1>19, <1>20, <2>2 DEF Grown
    <3> QED
      BY <2>1, <3>1, <3>2
<1>23. Covered'
  <2>1. ASSUME NEW l \in Lanes PROVE Len(tables'[l]) = IF Grown(l)' THEN BlocksFor(lens[l] + round.tokens) ELSE BlocksFor(lens[l])
    <3>1. CASE l = lane
      BY <1>14, <1>18, <1>22, <3>1
    <3>2. CASE l # lane
      BY <1>1, <1>18, <1>22, <3>2 DEF Covered, Needed
    <3> QED
      BY <3>1, <3>2
  <2> QED
    BY <1>2, <1>19, <2>1 DEF Covered, Needed
<1>24. CallInv'
  BY <1>1, <1>2, <1>19, <1>20 DEF CallInv
<1>25. GrownInv'
  <2>1. Len(w) = n
    BY <1>7, <1>8
  <2>2. ASSUME NEW i \in 1 .. n, NEW m \in 1 .. n, w[i][1] = w[m][1] PROVE i = m
    <3>1. PICK a \in 1 .. k : a = i + 1 /\ w[i] = g[a]
      BY <1>9
    <3>2. PICK b \in 1 .. k : b = m + 1 /\ w[m] = g[b]
      BY <1>9
    <3>3. a = b
      BY <1>12, <2>2, <3>1, <3>2
    <3> QED
      BY <3>1, <3>2, <3>3
  <2>3. ASSUME NEW i \in 1 .. n
        PROVE  (\E m \in 1 .. Len(round.lanes) : round.lanes[m] = w[i][1])
               /\ w[i][2] = BlocksFor(lens[w[i][1]])
    <3>1. PICK a \in 1 .. k : w[i] = g[a]
      BY <1>9
    <3>2. (\E m \in 1 .. Len(round.lanes) : round.lanes[m] = g[a][1]) /\ g[a][2] = BlocksFor(lens[g[a][1]])
      BY <1>12
    <3> QED
      BY <3>1, <3>2, Zenon
  <2>4. /\ \A i, m \in 1 .. Len(w) : w[i][1] = w[m][1] => i = m
        /\ \A i \in 1 .. Len(w) : /\ \E m \in 1 .. Len(round.lanes) : round.lanes[m] = w[i][1]
                                  /\ w[i][2] = BlocksFor(lens[w[i][1]])
    BY <2>1, <2>2, <2>3
  <2> QED
    BY <1>19, <1>13, <2>4 DEF GrownInv
<1>26. FreeAtStart' = FreeAtStart /\ Wants' = Wants
  <2> DEFINE C == {lane} \X (1 .. t - keep)
  <2>1. t - keep \in Nat
    BY <1>17
  <2>2. IsFiniteSet(C) /\ Cardinality(C) = t - keep
    BY <2>1, ColumnSize
  <2>3. \A x : x \in Taken <=> \E i \in 1 .. k : x \in {g[i][1]} \X (1 .. Len(tables[g[i][1]]) - g[i][2])
    BY <1>1, <1>3, <1>4, InTaken DEF TookAt
  <2>4. \A x : x \in Taken' <=> \E j \in 1 .. n : x \in {w[j][1]} \X (1 .. Len(tables'[w[j][1]]) - w[j][2])
    <3>1. Range(w) = {w[j] : j \in 1 .. Len(w)} /\ Len(w) = n
      BY <1>7, <1>8, RangeEquality
    <3>2. Taken' = UNION {{p[1]} \X (1 .. Len(tables'[p[1]]) - p[2]) : p \in Range(w)}
      BY <1>19 DEF Taken
    <3> QED
      BY <3>1, <3>2, Zenon
  <2>5. ASSUME NEW j \in 1 .. n, NEW i \in 1 .. k, w[j] = g[i]
        PROVE  {w[j][1]} \X (1 .. Len(tables'[w[j][1]]) - w[j][2])
                 = {g[i][1]} \X (1 .. Len(tables[g[i][1]]) - g[i][2])
    <3>1. w[j][1] \in Lanes \ {lane}
      <4>1. w[j] \in Lanes \X Nat
        BY <1>7, <1>8
      <4> QED
        BY <1>21, <4>1
    <3> QED
      BY <1>18, <2>5, <3>1
  <2>6. C = {g[1][1]} \X (1 .. Len(tables[g[1][1]]) - g[1][2])
    BY <1>10, <1>11, <1>16
  <2> HIDE DEF C
  <2>7. Taken = Taken' \cup C
    <3>1. ASSUME NEW x \in Taken PROVE x \in Taken' \cup C
      <4>1. PICK i \in 1 .. k : x \in {g[i][1]} \X (1 .. Len(tables[g[i][1]]) - g[i][2])
        BY <2>3, <3>1
      <4>2. CASE i = 1
        BY <2>6, <4>1, <4>2
      <4>3. ASSUME NEW j \in 1 .. n, w[j] = g[i] PROVE x \in Taken'
        BY <2>4, <2>5, <4>1, <4>3
      <4> QED
        BY <1>9, <4>2, <4>3
    <3>2. ASSUME NEW x \in Taken' PROVE x \in Taken
      <4>1. PICK j \in 1 .. n : x \in {w[j][1]} \X (1 .. Len(tables'[w[j][1]]) - w[j][2])
        BY <2>4, <3>2
      <4>2. PICK i \in 1 .. k : w[j] = g[i]
        BY <1>9
      <4> QED
        BY <2>3, <2>5, <4>1, <4>2
    <3>3. C \subseteq Taken
      <4>1. 1 \in 1 .. k
        BY <1>5
      <4> QED
        BY <2>3, <2>6, <4>1
    <3> QED
      BY <3>1, <3>2, <3>3
  <2>8. Taken' \cap C = {}
    <3>1. ASSUME NEW x \in Taken', x \in C PROVE FALSE
      <4>1. PICK j \in 1 .. n : x \in {w[j][1]} \X (1 .. Len(tables'[w[j][1]]) - w[j][2])
        BY <2>4, <3>1
      <4> QED
        BY <1>10, <1>21, <2>6, <3>1, <4>1
    <3> QED
      BY <3>1
  <2>9. PICK T : T = Taken'
    OBVIOUS
  <2>10. IsFiniteSet(Taken) /\ IsFiniteSet(T)
    BY <1>2, <2>7, <2>9, TakenFromWants, FS_Subset
  <2>11. Cardinality(T \cup C) = Cardinality(T) + Cardinality(C) - Cardinality(T \cap C)
    BY <2>2, <2>10, FS_Union, Zenon
  <2>12. Cardinality(T \cap C) = 0 /\ Cardinality(T) \in Nat
    BY <2>8, <2>9, <2>10, FS_EmptySet, FS_CardinalityType
  <2>13. Cardinality(Taken) = Cardinality(T) + (t - keep)
    BY <2>1, <2>2, <2>7, <2>9, <2>11, <2>12
  <2>14. Len(free) \in Nat
    BY <1>1 DEF LedgerTypes
  <2>15. FreeAtStart' = Len(free') + Cardinality(T)
    BY <2>9 DEF FreeAtStart
  <2>16. FreeAtStart' = FreeAtStart
    BY <1>17, <1>18, <2>12, <2>13, <2>14, <2>15 DEF FreeAtStart
  <2> QED
    BY <1>2, <1>19, <2>16 DEF Wants
<1>27. RefusedOnlyWhenShort'
  BY <1>2, <1>19, <1>26 DEF RefusedOnlyWhenShort, LedgerInv
<1>28. ASSUME NEW l \in Lanes
       PROVE  Len(tables'[l]) >= BlocksFor(lens[l])
              /\ (tables'[l] = tables[l] \/ tables'[l] = SubSeq(tables[l], 1, BlocksFor(lens[l])))
  <2>0. lens[l] \in Nat /\ round.tokens \in Nat
    BY <1>1, RoundFields DEF LedgerTypes
  <2>1. PICK x, y \in Nat : x = lens[l] /\ y = lens[l] + round.tokens
    BY <2>0
  <2>2. x <= y
    BY <1>1, <2>1, RoundFields
  <2>3. BlocksFor(x) <= BlocksFor(y) /\ BlocksFor(x) \in Nat /\ BlocksFor(y) \in Nat
    BY <2>1, <2>2, BlocksForNat, BlocksForMono
  <2>4. CASE l = lane
    <3>1. keep = BlocksFor(lens[l]) /\ Len(tables'[l]) = keep /\ tables'[l] = SubSeq(tables[l], 1, keep)
      BY <1>14, <1>18, <2>4
    <3> QED
      BY <3>1
  <2>5. CASE l # lane
    <3>1. tables'[l] = tables[l]
      BY <1>18, <2>5
    <3>2. Len(tables[l]) = BlocksFor(x) \/ Len(tables[l]) = BlocksFor(y)
      BY <1>1, <2>1 DEF Covered, Needed
    <3>3. Len(tables[l]) >= BlocksFor(x)
      BY <2>3, <3>2
    <3> QED
      BY <2>1, <3>1, <3>3
  <2> QED
    BY <2>4, <2>5
<1> QED
  BY <1>2, <1>18, <1>19, <1>23, <1>24, <1>25, <1>27, <1>28, BlockPoolAssumption DEF LedgerInv, LedgerTypes

LEMMA RefuseKeepsLedger ==
  ASSUME LedgerInv, Refuse
  PROVE  LedgerInv'
<1>1. /\ round.stage = "Undo" /\ round.grown = <<>> /\ UNCHANGED <<free, tables, lens>>
      /\ round' = [NoRound EXCEPT !.shortBy = round.shortBy]
  BY DEF Refuse
<1>2. LedgerTypes /\ HeldOnce /\ NoneLost
  BY DEF LedgerInv
<1>3. round' = [stage |-> "Idle", lanes |-> <<>>, tokens |-> 0, grown |-> <<>>, shortBy |-> round.shortBy]
  BY <1>1 DEF NoRound
<1>4. "Idle" \in Stages /\ <<>> \in Seq(Lanes) /\ <<>> \in Seq(Lanes \X Nat) /\ 0 \in Nat
  BY DEF Stages
<1>5. round' \in Rounds /\ round'.stage = "Idle"
  BY <1>2, <1>3, <1>4, RoundFields DEF Rounds
<1>6. Len(<<>>) = 0
  OBVIOUS
<1>7. \A l \in Lanes : Len(tables'[l]) = BlocksFor(lens'[l])
  BY <1>1, <1>6 DEF LedgerInv, Covered, Needed, Grown
<1> QED
  BY <1>1, <1>2, <1>5, <1>7, BlocksUnmoved, RoundRests DEF LedgerTypes

LEMMA CommitFacts ==
  ASSUME LedgerInv, Commit
  PROVE  /\ InProgress /\ round.tokens \in Nat /\ UNCHANGED <<free, tables>>
         /\ \A l \in Lanes : /\ lens[l] \in Nat /\ lens'[l] = (IF RowOf(l) THEN lens[l] + round.tokens ELSE lens[l])
                             /\ lens'[l] \in 0 .. Ctx /\ (Grown(l) <=> RowOf(l))
         /\ DOMAIN lens' = Lanes /\ lens' \in [Lanes -> 0 .. Ctx]
<1>1. LedgerTypes /\ CallInv /\ GrownInv
  BY DEF LedgerInv
<1>2. round.stage = "Grow" /\ Len(round.grown) = Len(round.lanes) /\ lens' = Advanced /\ UNCHANGED <<free, tables>>
  BY DEF Commit
<1>3. InProgress /\ round.tokens \in Nat /\ Ctx \in Nat
  BY <1>1, <1>2, RoundFields, BlockPoolAssumption DEF InProgress
<1>4. \A l : l \in Range(round.lanes) <=> RowOf(l)
  <2>1. Range(round.lanes) = {round.lanes[i] : i \in 1 .. Len(round.lanes)}
    BY <1>1, RoundFields, RangeEquality
  <2> QED
    BY <2>1, Zenon DEF RowOf
<1>5. \A l \in Lanes : /\ lens[l] \in 0 .. Ctx
                       /\ lens'[l] = (IF RowOf(l) THEN lens[l] + round.tokens ELSE lens[l])
  BY <1>1, <1>2, <1>4 DEF Advanced, LedgerTypes
<1>6. \A l \in Lanes : RowOf(l) => lens[l] + round.tokens <= Ctx
  BY <1>1, <1>3 DEF CallInv, RowOf
<1>7. \A l \in Lanes : lens'[l] \in 0 .. Ctx
  BY <1>3, <1>5, <1>6
<1>8. \A l \in Lanes : Grown(l) <=> RowOf(l)
  BY <1>1, <1>2, <1>3 DEF GrownInv, Grown, RowOf
<1>9. lens' \in [Lanes -> 0 .. Ctx]
  BY <1>2, <1>7 DEF Advanced
<1> QED
  BY <1>2, <1>3, <1>5, <1>7, <1>8, <1>9

LEMMA CommitKeepsLedger ==
  ASSUME LedgerInv, Commit
  PROVE  LedgerInv'
<1>1. LedgerTypes /\ CallInv /\ Covered /\ HeldOnce /\ NoneLost
  BY DEF LedgerInv
<1>2. round.stage = "Grow" /\ round' = [round EXCEPT !.stage = "Forward"]
  BY DEF Commit
<1>3. /\ round'.stage = "Forward" /\ round'.lanes = round.lanes /\ round'.tokens = round.tokens
      /\ round'.grown = round.grown /\ round' \in Rounds
  <2>1. "Forward" \in Stages
    BY DEF Stages
  <2> QED
    BY <1>1, <1>2, <2>1, RoundFields DEF Rounds
<1>4. ~InProgress' /\ Computing' /\ round'.stage # "Grow" /\ round'.stage # "Undo"
  BY <1>3 DEF InProgress, Computing
<1>5. Covered'
  <2>1. \A l \in Lanes : Len(tables'[l]) = BlocksFor(lens'[l])
    BY <1>1, CommitFacts DEF Covered, Needed
  <2> QED
    BY <1>4, <2>1 DEF Covered, Needed, Grown
<1>6. CallInv'
  <2>1. \A i \in 1 .. Len(round.lanes) : round.tokens <= lens'[round.lanes[i]]
    <3>1. ASSUME NEW i \in 1 .. Len(round.lanes) PROVE round.tokens <= lens'[round.lanes[i]]
      <4>1. PICK l \in Lanes : l = round.lanes[i]
        BY <1>1, RoundFields
      <4>2. RowOf(l)
        BY <4>1 DEF RowOf
      <4> QED
        BY <4>1, <4>2, CommitFacts
    <3> QED
      BY <3>1
  <2> QED
    BY <1>1, <1>3, <1>4, <2>1, CommitFacts DEF CallInv
<1>7. GrownInv' /\ RefusedOnlyWhenShort'
  BY <1>4 DEF GrownInv, RefusedOnlyWhenShort
<1> QED
  BY <1>1, <1>3, <1>5, <1>6, <1>7, CommitFacts, BlocksUnmoved DEF LedgerInv, LedgerTypes

LEMMA StepsKeepLedger ==
  ASSUME LedgerInv, Steps
  PROVE  LedgerInv'
<1>1. LedgerTypes /\ HeldOnce /\ NoneLost
  BY DEF LedgerInv
<1>2. ASSUME ResetNext PROVE LedgerInv'
  <2>1. round.stage = "Reset" /\ round.lanes # <<>> /\ Empty(Head(round.lanes))
        /\ round' = [round EXCEPT !.lanes = Tail(@)]
    BY <1>2 DEF ResetNext, ResetOne
  <2>2. Head(round.lanes) \in Lanes /\ Tail(round.lanes) \in Seq(Lanes)
    BY <1>1, <2>1, RoundFields, HeadTailProperties
  <2>3. round'.stage = "Reset" /\ round' \in Rounds /\ ~InProgress
    BY <1>1, <2>1, <2>2, RoundFields DEF Rounds, InProgress
  <2> QED
    BY <2>1, <2>2, <2>3, EmptyCovers, RoundRests
<1>3. ASSUME ~InProgress, UNCHANGED <<free, tables, lens>>, round' = NoRound PROVE LedgerInv'
  BY <1>1, <1>3, CoveredAtRest, NoRoundType, BlocksUnmoved, RoundRests DEF LedgerTypes
<1>4. ASSUME ResetEnds \/ Attend PROVE LedgerInv'
  BY <1>3, <1>4 DEF ResetEnds, Attend, InProgress
<1>5. ASSUME Write PROVE LedgerInv'
  <2>1. UNCHANGED <<free, tables, lens>> /\ round.stage = "Forward" /\ round' = [round EXCEPT !.stage = "Attend"]
    BY <1>5 DEF Write
  <2>2. /\ round'.stage = "Attend" /\ round'.lanes = round.lanes /\ round'.tokens = round.tokens
        /\ round' \in Rounds
    <3>1. "Attend" \in Stages
      BY DEF Stages
    <3> QED
      BY <1>1, <2>1, <3>1, RoundFields DEF Rounds
  <2>3. ~InProgress /\ ~InProgress' /\ Computing /\ Computing' /\ round'.stage # "Grow" /\ round'.stage # "Undo"
    BY <2>1, <2>2 DEF InProgress, Computing
  <2>4. Covered'
    <3>1. \A l \in Lanes : Len(tables'[l]) = BlocksFor(lens'[l])
      BY <2>1, <2>3, CoveredAtRest
    <3> QED
      BY <2>3, <3>1 DEF Covered, Needed, Grown
  <2>5. CallInv'
    BY <2>1, <2>2, <2>3 DEF CallInv, LedgerInv
  <2> QED
    BY <1>1, <2>1, <2>2, <2>3, <2>4, <2>5, BlocksUnmoved
    DEF LedgerInv, LedgerTypes, GrownInv, RefusedOnlyWhenShort
<1> QED
  BY <1>2, <1>4, <1>5, GrowTableKeepsLedger, GrowFailsKeepsLedger, UndoKeepsLedger,
     RefuseKeepsLedger, CommitKeepsLedger
  DEF Steps, BeginRound, ForwardLanes

(* No block is lost or has two places, a table covers its lane, half way   *)
(* through a round as well, and a refused round was short of blocks.       *)
THEOREM LedgerHolds == Spec => []LedgerInv
<1>1. Init => LedgerInv
  BY LedgerStarts
<1>2. LedgerInv /\ [Next]_vars => LedgerInv'
  <2>1. ASSUME LedgerInv, Next PROVE LedgerInv'
    BY <2>1, CallsKeepLedger, StepsKeepLedger DEF Next
  <2>2. ASSUME LedgerInv, UNCHANGED vars PROVE LedgerInv'
    <3>1. UNCHANGED <<free, tables, lens, round>>
      BY <2>2 DEF vars
    <3>2. HeldOnce' /\ NoneLost' /\ LedgerTypes'
      BY <2>2, <3>1, BlocksUnmoved DEF LedgerInv, LedgerTypes
    <3>3. Covered'
      BY <2>2, <3>1 DEF LedgerInv, Covered, Needed, Grown, InProgress
    <3>4. CallInv' /\ GrownInv'
      BY <2>2, <3>1 DEF LedgerInv, CallInv, GrownInv, InProgress, Computing
    <3>5. RefusedOnlyWhenShort'
      BY <2>2, <3>1 DEF LedgerInv, RefusedOnlyWhenShort, Wants, Taken, FreeAtStart
    <3> QED
      BY <3>2, <3>3, <3>4, <3>5 DEF LedgerInv
  <2> QED
    BY <2>1, <2>2
<1> QED
  BY <1>1, <1>2, PTL DEF Spec

(* Every usable block is on the free stack or in one table, once.          *)
LEMMA OnePlace ==
  ASSUME LedgerInv, NEW b \in Usable
  PROVE  Cardinality(InFree(b)) + Cardinality(InTables(b)) = 1
<1>1. LedgerTypes /\ HeldOnce /\ NoneLost
  BY DEF LedgerInv
<1>2. PICK h \in Holders : b \in Range(Stack(h))
  BY <1>1 DEF NoneLost
<1>3. PICK i \in DOMAIN Stack(h) : Stack(h)[i] = b
  BY <1>2 DEF Range
<1>4. \A k \in DOMAIN Stack(h) : Stack(h)[k] = b => k = i
  BY <1>1, <1>3 DEF HeldOnce, IsInjective
<1>5. \A g \in Holders : g # h => \A k \in DOMAIN Stack(g) : Stack(g)[k] # b
  BY <1>1, <1>2 DEF HeldOnce, Range
<1>6. FreeStack \in Holders /\ Stack(FreeStack) = free
      /\ \A l \in Lanes : l # FreeStack /\ l \in Holders /\ Stack(l) = tables[l]
  BY DEF Holders, FreeStack, Stack, Lanes
<1>7. CASE h = FreeStack
  <2>1. InFree(b) = {i}
    BY <1>3, <1>4, <1>6, <1>7 DEF InFree
  <2>2. \A l \in Lanes : \A k \in DOMAIN tables[l] : tables[l][k] # b
    BY <1>5, <1>6, <1>7
  <2>3. InTables(b) = {}
    BY <2>2 DEF InTables
  <2> QED
    BY <2>1, <2>3, FS_Singleton, FS_EmptySet
<1>8. CASE h \in Lanes
  <2>1. InFree(b) = {}
    BY <1>5, <1>6, <1>8 DEF InFree
  <2>2. \A l \in Lanes : \A k \in DOMAIN tables[l] : tables[l][k] = b <=> l = h /\ k = i
    BY <1>3, <1>4, <1>5, <1>6, <1>8
  <2>3. i \in DOMAIN tables[h]
    BY <1>3, <1>6, <1>8
  <2>4. \A x : x \in InTables(b) <=> \E l \in Lanes : \E k \in DOMAIN tables[l] : tables[l][k] = b /\ x = <<l, k>>
    <3> DEFINE S(l) == {<<l, k>> : k \in {j \in DOMAIN tables[l] : tables[l][j] = b}}
    <3>1. \A l, x : x \in S(l) <=> \E k \in DOMAIN tables[l] : tables[l][k] = b /\ x = <<l, k>>
      OBVIOUS
    <3>2. InTables(b) = UNION {S(l) : l \in Lanes}
      BY Zenon DEF InTables
    <3> HIDE DEF S
    <3> QED
      BY <3>1, <3>2
  <2>5. \A x : x \in InTables(b) <=> x = <<h, i>>
    BY <1>8, <2>2, <2>3, <2>4
  <2>6. InTables(b) = {<<h, i>>}
    BY <2>5
  <2>7. Cardinality(InFree(b)) = 0 /\ Cardinality(InTables(b)) = 1
    BY <2>1, <2>6, FS_Singleton, FS_EmptySet
  <2> QED
    BY <2>7
<1> QED
  BY <1>7, <1>8 DEF Holders

(* No two lanes share a block, and a lane has each of its blocks once.     *)
LEMMA OneOwner ==
  ASSUME LedgerInv, NEW l \in Lanes, NEW m \in Lanes,
         NEW i \in 1 .. Len(tables[l]), NEW k \in 1 .. Len(tables[m]), tables[l][i] = tables[m][k]
  PROVE  l = m /\ i = k
<1>1. /\ l \in Holders /\ m \in Holders /\ Stack(l) = tables[l] /\ Stack(m) = tables[m]
      /\ tables[l] \in Seq(Usable) /\ tables[m] \in Seq(Usable)
  BY DEF LedgerInv, LedgerTypes, Holders, FreeStack, Stack, Lanes
<1>2. DOMAIN tables[l] = 1 .. Len(tables[l]) /\ DOMAIN tables[m] = 1 .. Len(tables[m])
  BY <1>1
<1>3. l = m
  <2>1. tables[l][i] \in Range(tables[l]) /\ tables[m][k] \in Range(tables[m])
    BY <1>2 DEF Range
  <2>2. Range(tables[l]) \cap Range(tables[m]) # {}
    BY <2>1
  <2> QED
    BY <1>1, <2>2 DEF LedgerInv, HeldOnce
<1>4. IsInjective(tables[l])
  BY <1>1 DEF LedgerInv, HeldOnce
<1> QED
  BY <1>2, <1>3, <1>4 DEF IsInjective

-------------------------------------------------------------------------------
(* The cells.                                                              *)

LEMMA ContentsDiffer ==
  ASSUME NEW l, NEW p
  PROVE  /\ Token(l, p) \notin {Unwritten, Departed, Zero}
         /\ \A m, q : Token(l, p) = Token(m, q) => l = m /\ p = q
         /\ Unwritten # Departed /\ Unwritten # Zero /\ Departed # Zero
<1>1. DOMAIN Token(l, p) = {"lane", "pos"}
  BY DEF Token
<1>2. DOMAIN Unwritten = {"bytes"} /\ DOMAIN Departed = {"bytes"} /\ DOMAIN Zero = {"bytes"}
  BY DEF Unwritten, Departed, Zero
<1>3. ASSUME NEW m, NEW q, Token(l, p) = Token(m, q) PROVE l = m /\ p = q
  BY <1>3 DEF Token
<1>4. Unwritten # Departed /\ Unwritten # Zero /\ Departed # Zero
  BY DEF Unwritten, Departed, Zero
<1>5. {"lane", "pos"} # {"bytes"}
  OBVIOUS
<1>6. Token(l, p) \notin {Unwritten, Departed, Zero}
  BY <1>1, <1>2, <1>5
<1> QED
  BY <1>3, <1>4, <1>6

(* A lane's tokens are in the blocks it has.                               *)
LEMMA WrittenCovered ==
  ASSUME LedgerInv, NEW l \in Lanes
  PROVE  /\ lens[l] \in 0 .. Ctx /\ BlocksFor(lens[l]) \in Nat /\ BlocksFor(lens[l]) <= Len(tables[l])
         /\ Written(l) \in 0 .. lens[l]
         /\ \A p \in Nat : p < lens[l] => p \div BlockSize + 1 \in 1 .. BlocksFor(lens[l])
<1>1. PICK x \in 0 .. Ctx : x = lens[l]
  BY DEF LedgerInv, LedgerTypes
<1>2. x \in Nat /\ BlocksFor(x) \in Nat
  BY BlockPoolAssumption, BlocksForNat
<1>3. BlocksFor(x) <= Len(tables[l])
  <2>1. PICK y \in Nat : y = x + round.tokens
    BY <1>2, RoundFields DEF LedgerInv
  <2>2. x <= y
    BY <1>2, <2>1, RoundFields DEF LedgerInv
  <2>3. BlocksFor(x) <= BlocksFor(y) /\ BlocksFor(y) \in Nat
    BY <1>2, <2>2, BlocksForMono, BlocksForNat
  <2>4. Len(tables[l]) = BlocksFor(x) \/ Len(tables[l]) = BlocksFor(y)
    BY <1>1, <2>1 DEF LedgerInv, Covered, Needed
  <2> QED
    BY <1>2, <2>3, <2>4
<1>4. Written(l) \in 0 .. x
  <2>1. CASE round.stage = "Forward" /\ RowOf(l)
    <3>1. round.tokens <= lens[l] /\ round.tokens \in Nat
      BY <2>1, RoundFields DEF LedgerInv, CallInv, Computing, RowOf
    <3> QED
      BY <1>1, <1>2, <2>1, <3>1 DEF Written
  <2>2. CASE ~(round.stage = "Forward" /\ RowOf(l))
    BY <1>1, <1>2, <2>2 DEF Written
  <2> QED
    BY <2>1, <2>2
<1>5. \A p \in Nat : p < x => p \div BlockSize + 1 \in 1 .. BlocksFor(x)
  BY <1>2, PositionInBlocks
<1> QED
  BY <1>1, <1>2, <1>3, <1>4, <1>5

(* Bytes, lengths and the mapping of written positions stay.               *)
LEMMA CellsStay ==
  ASSUME LedgerInv, CellsInv, store' = store,
         \A l \in Lanes : Written(l)' = Written(l),
         \A l \in Lanes : \A i \in 1 .. BlocksFor(lens[l]) : tables'[l][i] = tables[l][i]
  PROVE  CellsInv'
<1>1. ASSUME NEW l \in Lanes, NEW p \in 0 .. Ctx - 1, p < Written(l)
      PROVE  tables'[l][p \div BlockSize + 1] = tables[l][p \div BlockSize + 1]
  <2>1. p \in Nat /\ p < lens[l]
    BY <1>1, WrittenCovered, BlockPoolAssumption
  <2>2. PICK i \in 1 .. BlocksFor(lens[l]) : i = p \div BlockSize + 1
    BY <2>1, WrittenCovered
  <2>3. tables'[l][i] = tables[l][i]
    OBVIOUS
  <2> QED
    BY <2>2, <2>3
<1> QED
  BY <1>1 DEF CellsInv

(* A lane that is not emptied keeps the blocks its tokens live in.         *)
KeepsBacking(l) ==
  /\ Len(tables'[l]) >= BlocksFor(lens[l])
  /\ \A i \in 1 .. BlocksFor(lens[l]) : tables'[l][i] = tables[l][i]

LEMMA BeginRoundKeepsBacking ==
  ASSUME LedgerInv, BeginRound, NEW l \in Lanes
  PROVE  KeepsBacking(l)
<1>1. PICK n \in Nat : n = BlocksFor(lens[l]) /\ n <= Len(tables[l])
  BY WrittenCovered
<1>2. PICK s \in Seq(Usable) : s = tables[l]
  BY DEF LedgerInv, LedgerTypes
<1>3. CASE GrowTable
  <2>1. CASE l = Turn
    <3>1. IsPrefix(s, tables'[l]) /\ tables'[l] \in Seq(Usable)
      BY <1>2, <1>3, <2>1, TurnGrows
    <3>2. PICK t \in Seq(Usable) : t = tables'[l]
      BY <3>1
    <3>3. Len(s) <= Len(t) /\ SubSeq(s, 1, Len(s)) = SubSeq(t, 1, Len(s))
      BY <3>1, <3>2 DEF IsPrefix
    <3>4. ASSUME NEW i \in 1 .. n PROVE t[i] = s[i]
      <4>1. PICK k \in Nat : k = Len(s)
        OBVIOUS
      <4>2. i \in 1 .. k /\ k <= Len(t) /\ Len(t) \in Nat
        BY <1>1, <1>2, <3>3, <4>1
      <4>3. SubSeq(s, 1, k)[i] = s[i] /\ SubSeq(t, 1, k)[i] = t[i]
        BY <4>1, <4>2
      <4> QED
        BY <3>3, <4>1, <4>3
    <3>5. Len(t) >= n
      BY <1>1, <1>2, <3>3
    <3> QED
      BY <1>1, <1>2, <3>2, <3>4, <3>5 DEF KeepsBacking
  <2>2. CASE l # Turn
    <3>1. tables'[l] = tables[l]
      BY <1>3, <2>2, TurnGrows
    <3> QED
      BY <1>1, <3>1 DEF KeepsBacking
  <2> QED
    BY <2>1, <2>2
<1>4. CASE Undo
  <2>1. CASE tables'[l] = tables[l]
    BY <1>1, <2>1 DEF KeepsBacking
  <2>2. CASE tables'[l] = SubSeq(tables[l], 1, BlocksFor(lens[l]))
    <3>1. \A i \in 1 .. n : SubSeq(s, 1, n)[i] = s[i]
      <4>1. n <= Len(s) /\ Len(s) \in Nat
        BY <1>1, <1>2
      <4> QED
        BY <4>1
    <3>2. tables'[l] = SubSeq(s, 1, n) /\ Len(tables'[l]) >= n
      BY <1>1, <1>2, <1>4, <2>2, UndoKeepsLedger
    <3> QED
      BY <1>1, <1>2, <3>1, <3>2 DEF KeepsBacking
  <2> QED
    BY <1>4, <2>1, <2>2, UndoKeepsLedger
<1>5. CASE GrowFails \/ Refuse \/ Commit
  <2>1. tables' = tables
    BY <1>5 DEF GrowFails, Refuse, Commit
  <2> QED
    BY <1>1, <2>1 DEF KeepsBacking
<1> QED
  BY <1>3, <1>4, <1>5 DEF BeginRound

(* Nobody's tokens are written while a round begins.                       *)
LEMMA BeginRoundKeepsCells ==
  ASSUME LedgerInv, CellsInv, BeginRound, store' = store
  PROVE  CellsInv'
<1>1. \A l \in Lanes : \A i \in 1 .. BlocksFor(lens[l]) : tables'[l][i] = tables[l][i]
  BY BeginRoundKeepsBacking DEF KeepsBacking
<1>2. CASE Commit
  <2>1. /\ round.stage = "Grow" /\ round' = [round EXCEPT !.stage = "Forward"]
        /\ round'.stage = "Forward" /\ round'.lanes = round.lanes /\ round'.tokens = round.tokens
    BY <1>2, RoundFields DEF Commit, LedgerInv
  <2>2. ASSUME NEW l \in Lanes PROVE Written(l)' = Written(l)
    <3>1. Written(l) = lens[l] /\ (RowOf(l)' <=> RowOf(l))
      BY <2>1 DEF Written, RowOf
    <3>2. lens[l] \in Nat /\ round.tokens \in Nat
          /\ lens'[l] = IF RowOf(l) THEN lens[l] + round.tokens ELSE lens[l]
      BY <1>2, CommitFacts
    <3>3. Written(l)' = IF RowOf(l) THEN lens'[l] - round.tokens ELSE lens'[l]
      BY <2>1, <3>1 DEF Written
    <3> QED
      BY <3>1, <3>2, <3>3
  <2> QED
    BY <1>1, <2>2, CellsStay
<1>3. CASE ~Commit
  <2>1. lens' = lens /\ round.stage \in {"Grow", "Undo"} /\ round'.stage \in {"Grow", "Undo", "Idle"}
    BY <1>3, RoundFields, NoRoundType
    DEF BeginRound, GrowTable, Growing, GrowFails, Undo, Refuse, LedgerInv, NoRound
  <2>2. \A l \in Lanes : Written(l)' = Written(l)
    BY <2>1 DEF Written
  <2> QED
    BY <1>1, <2>2, CellsStay
<1> QED
  BY <1>2, <1>3

(* A lane's tokens become nobody's when it is emptied.                     *)
LEMMA ResetOneKeepsCells ==
  ASSUME LedgerInv, CellsInv, NEW l \in Lanes, ResetOne(l),
         round.stage # "Forward", round'.stage # "Forward"
  PROVE  CellsInv'
<1>1. /\ \A m \in Lanes : Written(m) = lens[m] /\ Written(m)' = lens'[m]
      /\ lens'[l] = 0 /\ \A m \in Lanes \ {l} : lens'[m] = lens[m] /\ tables'[m] = tables[m]
  BY EmptyingMoves DEF Written, ResetOne, LedgerInv
<1>2. /\ store \in [{Sentinel} \cup Usable -> [Offsets -> Contents]]
      /\ \A o \in Offsets : store[Sentinel][o] = Zero
      /\ Departed \in Contents
  BY DEF CellsInv, Contents
<1>3. /\ store' = [b \in {Sentinel} \cup Usable |->
                     [o \in Offsets |-> IF store[b][o] \in TokensOf(l) THEN Departed ELSE store[b][o]]]
  BY <1>2 DEF ResetOne, Vacated
<1>4. store' \in [{Sentinel} \cup Usable -> [Offsets -> Contents]]
  BY <1>2, <1>3
<1>5. \A b \in {Sentinel} \cup Usable, o \in Offsets :
        store'[b][o] = IF store[b][o] \in TokensOf(l) THEN Departed ELSE store[b][o]
  BY <1>3
<1>6. Zero \notin TokensOf(l) /\ \A m \in Lanes, p \in 0 .. Ctx - 1 : Token(m, p) # Departed
      /\ (Token(m, p) \in TokensOf(l) <=> m = l)
  BY ContentsDiffer DEF TokensOf
<1>7. \A o \in Offsets : store'[Sentinel][o] = Zero
  BY <1>2, <1>5, <1>6
<1>8. ASSUME NEW b \in Usable, NEW o \in Offsets, NEW m \in Lanes, NEW p \in 0 .. Ctx - 1
      PROVE  store'[b][o] = Token(m, p) <=>
               p < lens'[m] /\ tables'[m][p \div BlockSize + 1] = b /\ p % BlockSize = o
  <2>1. store[b][o] = Token(m, p) <=>
          p < lens[m] /\ tables[m][p \div BlockSize + 1] = b /\ p % BlockSize = o
    BY <1>1 DEF CellsInv
  <2>2. CASE m = l
    <3>1. store'[b][o] # Token(m, p)
      BY <1>5, <1>6, <2>2
    <3>2. ~(p < lens'[m])
      BY <1>1, <2>2
    <3> QED
      BY <3>1, <3>2
  <2>3. CASE m # l
    <3>1. store'[b][o] = Token(m, p) <=> store[b][o] = Token(m, p)
      BY <1>5, <1>6, <2>3
    <3> QED
      BY <1>1, <2>1, <2>3, <3>1
  <2> QED
    BY <2>2, <2>3
<1> QED
  BY <1>1, <1>4, <1>7, <1>8 DEF CellsInv

LEMMA BlockOf ==
  ASSUME LedgerInv, NEW l \in Lanes, NEW p \in Nat, p < lens[l]
  PROVE  \E k \in 1 .. Len(tables[l]) : k = p \div BlockSize + 1
<1>1. PICK n \in Nat : n = Len(tables[l])
  BY DEF LedgerInv, LedgerTypes
<1>2. PICK m \in Nat : m = BlocksFor(lens[l])
  BY WrittenCovered
<1>3. PICK k \in 1 .. m : k = p \div BlockSize + 1
  BY <1>2, WrittenCovered
<1>4. k \in 1 .. n
  BY <1>1, <1>2, WrittenCovered
<1> QED
  BY <1>1, <1>3, <1>4, Zenon

(* Where position p of lane l lives.                                       *)
LivesAt(l, p, b, o) == tables[l][p \div BlockSize + 1] = b /\ p % BlockSize = o

LEMMA OneCell ==
  ASSUME LedgerInv, NEW l \in Lanes, NEW m \in Lanes, NEW p \in Nat, NEW q \in Nat,
         p < lens[l], q < lens[m], NEW b, NEW o, LivesAt(l, p, b, o), LivesAt(m, q, b, o)
  PROVE  l = m /\ p = q
<1>1. PICK i \in 1 .. Len(tables[l]) : i = p \div BlockSize + 1
  BY BlockOf
<1>2. PICK k \in 1 .. Len(tables[m]) : k = q \div BlockSize + 1
  BY BlockOf
<1>3. tables[l][i] = tables[m][k]
  BY <1>1, <1>2 DEF LivesAt
<1>4. l = m /\ i = k
  BY <1>3, OneOwner
<1>5. p \div BlockSize = q \div BlockSize
  BY <1>1, <1>2, <1>4, BlockAndOffset
<1> QED
  BY <1>4, <1>5, SameCell DEF LivesAt

(* A row of the round is a lane, its new tokens the positions it gained.   *)
LEMMA RowFacts ==
  ASSUME LedgerInv, Computing, NEW i \in Rows
  PROVE  /\ round.lanes[i] \in Lanes /\ i \in 1 .. Len(round.lanes)
         /\ Length(i) = lens[round.lanes[i]] /\ Length(i) \in Nat /\ Length(i) <= Ctx
         /\ round.tokens \in Nat /\ round.tokens >= 1 /\ round.tokens <= Length(i)
         /\ StartOf(i) = Length(i) - round.tokens /\ StartOf(i) \in Nat
<1>1. i \in 1 .. Len(round.lanes) /\ round.lanes[i] \in Lanes
  BY RoundFields DEF LedgerInv, Rows
<1>2. lens[round.lanes[i]] \in 0 .. Ctx /\ Ctx \in Nat
  BY <1>1, BlockPoolAssumption DEF LedgerInv, LedgerTypes
<1>3. round.tokens \in 1 .. Ctx /\ round.tokens <= lens[round.lanes[i]]
  BY <1>1 DEF LedgerInv, CallInv
<1> QED
  BY <1>1, <1>2, <1>3 DEF Length, StartOf

LEMMA LandingIs ==
  ASSUME LedgerInv, Computing, NEW b, NEW o, NEW x
  PROVE  x \in Landing(b, o) <=>
           \E i \in Rows : \E p \in Nat :
             /\ StartOf(i) <= p /\ p < Length(i)
             /\ LivesAt(round.lanes[i], p, b, o) /\ x = Token(round.lanes[i], p)
<1>1. ASSUME x \in Landing(b, o)
      PROVE  \E i \in Rows : \E p \in Nat :
               /\ StartOf(i) <= p /\ p < Length(i)
               /\ LivesAt(round.lanes[i], p, b, o) /\ x = Token(round.lanes[i], p)
  <2>1. PICK w \in Rows \X NewTokens : WriteIdx(w[1], w[2]) = <<b, o>>
                                       /\ x = Token(round.lanes[w[1]], RotatedAt(w[1], w[2]))
    BY <1>1 DEF Landing
  <2>2. PICK i \in Rows : i = w[1]
    OBVIOUS
  <2>3. PICK r \in NewTokens : r = w[2]
    OBVIOUS
  <2>4. /\ r \in Nat /\ r < round.tokens /\ StartOf(i) \in Nat
        /\ round.tokens \in Nat /\ Length(i) \in Nat /\ StartOf(i) = Length(i) - round.tokens
    BY RowFacts, <2>3 DEF NewTokens
  <2>5. PICK p \in Nat : p = StartOf(i) + r
    BY <2>4
  <2>6. StartOf(i) <= p /\ p < Length(i)
    BY <2>4, <2>5
  <2>7. <<tables[round.lanes[i]][p \div BlockSize + 1], p % BlockSize>> = <<b, o>>
    BY <2>1, <2>2, <2>3, <2>5 DEF WriteIdx, Table
  <2>8. LivesAt(round.lanes[i], p, b, o)
    BY <2>7 DEF LivesAt
  <2>9. x = Token(round.lanes[i], p)
    BY <2>1, <2>2, <2>3, <2>5 DEF RotatedAt
  <2> QED
    BY <2>6, <2>8, <2>9
<1>2. ASSUME NEW i \in Rows, NEW p \in Nat, StartOf(i) <= p, p < Length(i),
             LivesAt(round.lanes[i], p, b, o), x = Token(round.lanes[i], p)
      PROVE  x \in Landing(b, o)
  <2>1. /\ StartOf(i) \in Nat /\ round.tokens \in Nat /\ Length(i) \in Nat
        /\ StartOf(i) = Length(i) - round.tokens
    BY RowFacts
  <2>2. PICK r \in NewTokens : r = p - StartOf(i)
    BY <1>2, <2>1 DEF NewTokens
  <2>3. p = StartOf(i) + r
    BY <2>1, <2>2 DEF NewTokens
  <2>4. PICK w \in Rows \X NewTokens : w = <<i, r>>
    OBVIOUS
  <2>5. w[1] = i /\ w[2] = r
    BY <2>4
  <2>6. WriteIdx(i, r) = <<b, o>> /\ x = Token(round.lanes[i], RotatedAt(i, r))
    BY <1>2, <2>3 DEF WriteIdx, Table, LivesAt, RotatedAt
  <2>7. WriteIdx(w[1], w[2]) = <<b, o>> /\ x = Token(round.lanes[w[1]], RotatedAt(w[1], w[2]))
    BY <2>5, <2>6
  <2> QED
    BY <2>7 DEF Landing
<1> QED
  BY <1>1, <1>2

(* At most one token of the round lands in a cell.                         *)
LEMMA OneLands ==
  ASSUME LedgerInv, Computing, NEW b, NEW o, NEW x \in Landing(b, o), NEW y \in Landing(b, o)
  PROVE  x = y
<1>1. PICK i \in Rows : \E p \in Nat : /\ StartOf(i) <= p /\ p < Length(i)
             /\ LivesAt(round.lanes[i], p, b, o) /\ x = Token(round.lanes[i], p)
  BY LandingIs
<1>2. PICK p \in Nat : p < Length(i) /\ LivesAt(round.lanes[i], p, b, o) /\ x = Token(round.lanes[i], p)
  BY <1>1
<1>3. PICK k \in Rows : \E q \in Nat : /\ StartOf(k) <= q /\ q < Length(k)
             /\ LivesAt(round.lanes[k], q, b, o) /\ y = Token(round.lanes[k], q)
  BY LandingIs
<1>4. PICK q \in Nat : q < Length(k) /\ LivesAt(round.lanes[k], q, b, o) /\ y = Token(round.lanes[k], q)
  BY <1>3
<1>5. p < lens[round.lanes[i]] /\ q < lens[round.lanes[k]] /\ round.lanes[i] \in Lanes /\ round.lanes[k] \in Lanes
  BY <1>2, <1>4, RowFacts
<1>6. round.lanes[i] = round.lanes[k] /\ p = q
  BY <1>2, <1>4, <1>5, OneCell
<1> QED
  BY <1>2, <1>4, <1>6

LEMMA WriteKeepsCells ==
  ASSUME LedgerInv, CellsInv, Write
  PROVE  CellsInv'
<1>1. /\ round.stage = "Forward" /\ UNCHANGED <<free, tables, lens>> /\ Computing
      /\ round' = [round EXCEPT !.stage = "Attend"]
  BY DEF Write, Computing
<1>2. round'.stage = "Attend"
  BY <1>1, RoundFields DEF LedgerInv
<1>3. \A l \in Lanes : Written(l)' = lens[l]
  BY <1>1, <1>2 DEF Written
<1>4. /\ store \in [{Sentinel} \cup Usable -> [Offsets -> Contents]]
      /\ \A o \in Offsets : store[Sentinel][o] = Zero
  BY DEF CellsInv
<1>5. /\ store' = [b \in {Sentinel} \cup Usable |-> [o \in Offsets |->
                    IF Landing(b, o) = {} THEN store[b][o] ELSE CHOOSE t \in Landing(b, o) : TRUE]]
  BY <1>4 DEF Write
<1>6. \A b \in {Sentinel} \cup Usable, o \in Offsets :
        store'[b][o] = IF Landing(b, o) = {} THEN store[b][o] ELSE CHOOSE t \in Landing(b, o) : TRUE
  BY <1>5
<1>7. ASSUME NEW b, NEW o, NEW x \in Landing(b, o) PROVE (CHOOSE t \in Landing(b, o) : TRUE) = x
  <2>1. (CHOOSE t \in Landing(b, o) : TRUE) \in Landing(b, o)
    OBVIOUS
  <2> QED
    BY <1>1, <2>1, OneLands
<1>8. ASSUME NEW b, NEW o, NEW i \in Rows, NEW p \in Nat, p < Length(i), LivesAt(round.lanes[i], p, b, o)
      PROVE  b \in Usable /\ Token(round.lanes[i], p) \in Contents
  <2>1. PICK l \in Lanes : l = round.lanes[i] /\ p < lens[l]
    BY <1>1, <1>8, RowFacts
  <2>2. PICK k \in 1 .. Len(tables[l]) : k = p \div BlockSize + 1
    BY <2>1, BlockOf
  <2>3. tables[l] \in Seq(Usable) /\ tables[l][k] = b
    BY <1>8, <2>1, <2>2 DEF LivesAt, LedgerInv, LedgerTypes
  <2>4. p \in 0 .. Ctx - 1
    BY <2>1, WrittenCovered, BlockPoolAssumption
  <2>5. Token(l, p) \in TokensOf(l)
    BY <2>4 DEF TokensOf
  <2>6. Token(l, p) \in Contents
    BY <2>5, Zenon DEF Contents
  <2> QED
    BY <2>1, <2>3, <2>6
<1>9. ASSUME NEW b, NEW o, NEW x \in Landing(b, o) PROVE b \in Usable /\ x \in Contents
  <2>1. PICK i \in Rows : \E p \in Nat : /\ StartOf(i) <= p /\ p < Length(i)
           /\ LivesAt(round.lanes[i], p, b, o) /\ x = Token(round.lanes[i], p)
    BY <1>1, LandingIs
  <2> QED
    BY <1>8, <2>1
<1>10. store' \in [{Sentinel} \cup Usable -> [Offsets -> Contents]]
  <2>1. ASSUME NEW b \in {Sentinel} \cup Usable, NEW o \in Offsets PROVE store'[b][o] \in Contents
    <3>1. CASE Landing(b, o) = {}
      BY <1>4, <1>6, <3>1
    <3>2. CASE Landing(b, o) # {}
      BY <1>6, <1>7, <1>9, <3>2
    <3> QED
      BY <3>1, <3>2
  <2>2. ASSUME NEW b \in {Sentinel} \cup Usable, NEW o \in Offsets
        PROVE  (IF Landing(b, o) = {} THEN store[b][o] ELSE CHOOSE t \in Landing(b, o) : TRUE) \in Contents
    BY <1>6, <2>1
  <2> QED
    BY <1>5, <2>2
<1>11. \A o \in Offsets : store'[Sentinel][o] = Zero
  <2>1. Sentinel \notin Usable
    BY DEF Sentinel, Usable
  <2>2. \A o \in Offsets : Landing(Sentinel, o) = {}
    BY <1>9, <2>1
  <2> QED
    BY <1>4, <1>6, <2>2
<1>12. ASSUME NEW b \in Usable, NEW o \in Offsets, NEW l \in Lanes, NEW p \in 0 .. Ctx - 1
       PROVE  store'[b][o] = Token(l, p) <=> p < lens[l] /\ LivesAt(l, p, b, o)
  <2>1. store[b][o] = Token(l, p) <=> p < Written(l) /\ LivesAt(l, p, b, o)
    BY DEF CellsInv, LivesAt
  <2>2. p \in Nat /\ Written(l) \in 0 .. lens[l] /\ lens[l] \in Nat
    BY WrittenCovered, BlockPoolAssumption
  <2>3. ASSUME NEW i \in Rows, l = round.lanes[i]
        PROVE  Written(l) = StartOf(i) /\ Length(i) = lens[l]
    <3>1. i \in 1 .. Len(round.lanes) /\ StartOf(i) = Length(i) - round.tokens /\ Length(i) = lens[l]
      BY <1>1, <2>3, RowFacts
    <3>2. RowOf(l)
      BY <2>3, <3>1 DEF RowOf
    <3> QED
      BY <1>1, <3>1, <3>2 DEF Written
  <2>4. CASE Landing(b, o) = {}
    <3>1. store'[b][o] = store[b][o]
      BY <1>6, <2>4
    <3>2. ASSUME p < lens[l], LivesAt(l, p, b, o) PROVE p < Written(l)
      <4>1. CASE RowOf(l)
        <5>1. PICK i \in Rows : l = round.lanes[i]
          BY <4>1, RoundFields DEF RowOf, Rows, LedgerInv
        <5>2. ~(StartOf(i) <= p /\ p < Length(i))
          <6>1. ASSUME StartOf(i) <= p, p < Length(i) PROVE Token(l, p) \in Landing(b, o)
            BY <1>1, <2>2, <3>2, <5>1, <6>1, LandingIs
          <6> QED
            BY <2>4, <6>1
        <5>3. StartOf(i) \in Nat
          BY <1>1, RowFacts
        <5> QED
          BY <2>2, <2>3, <3>2, <5>1, <5>2, <5>3
      <4>2. CASE ~RowOf(l)
        BY <3>2, <4>2 DEF Written
      <4> QED
        BY <4>1, <4>2
    <3> QED
      BY <2>1, <2>2, <3>1, <3>2
  <2>5. CASE Landing(b, o) # {}
    <3>1. PICK x : x \in Landing(b, o)
      BY <2>5
    <3>2. store'[b][o] = x
      BY <1>6, <1>7, <3>1
    <3>3. PICK i \in Rows : \E q \in Nat : /\ StartOf(i) <= q /\ q < Length(i)
             /\ LivesAt(round.lanes[i], q, b, o) /\ x = Token(round.lanes[i], q)
      BY <1>1, <3>1, LandingIs
    <3>4. PICK q \in Nat : q < Length(i) /\ LivesAt(round.lanes[i], q, b, o) /\ x = Token(round.lanes[i], q)
      BY <3>3
    <3>5. round.lanes[i] \in Lanes /\ q < lens[round.lanes[i]]
      BY <1>1, <3>4, RowFacts
    <3>6. x = Token(l, p) <=> round.lanes[i] = l /\ q = p
      BY <3>4, ContentsDiffer
    <3>7. ASSUME p < lens[l], LivesAt(l, p, b, o) PROVE round.lanes[i] = l /\ q = p
      BY <2>2, <3>4, <3>5, <3>7, OneCell
    <3> QED
      BY <3>2, <3>4, <3>5, <3>6, <3>7
  <2> QED
    BY <2>4, <2>5
<1>13. \A b \in Usable, o \in Offsets, l \in Lanes, p \in 0 .. Ctx - 1 :
         store'[b][o] = Token(l, p) <=>
           p < lens[l] /\ tables'[l][p \div BlockSize + 1] = b /\ p % BlockSize = o
  BY <1>1, <1>12 DEF LivesAt
<1> QED
  BY <1>3, <1>10, <1>11, <1>13 DEF CellsInv

LEMMA CellsStart ==
  ASSUME Init
  PROVE  CellsInv
<1>1. /\ round = NoRound /\ lens = [l \in Lanes |-> 0]
      /\ store = [b \in {Sentinel} \cup Usable |->
                    [o \in Offsets |-> IF b = Sentinel THEN Zero ELSE Unwritten]]
  BY DEF Init, PoolInit
<1>2. \A l \in Lanes : Written(l) = 0
  BY <1>1, NoRoundType DEF Written
<1>3. Zero \in Contents /\ Unwritten \in Contents /\ Sentinel \notin Usable
  BY DEF Contents, Sentinel, Usable
<1>4. store \in [{Sentinel} \cup Usable -> [Offsets -> Contents]]
  BY <1>1, <1>3
<1>5. \A b \in Usable, o \in Offsets : store[b][o] = Unwritten
  BY <1>1, <1>3
<1>6. \A o \in Offsets : store[Sentinel][o] = Zero
  BY <1>1
<1>7. \A l \in Lanes, p \in 0 .. Ctx - 1 : Unwritten # Token(l, p) /\ ~(p < Written(l))
  BY <1>2, ContentsDiffer, BlockPoolAssumption
<1> QED
  BY <1>4, <1>5, <1>6, <1>7 DEF CellsInv

LEMMA StepKeepsCells ==
  ASSUME LedgerInv, CellsInv, Next
  PROVE  CellsInv'
<1>1. ASSUME UNCHANGED <<tables, lens, store>>, round.stage # "Forward", round'.stage # "Forward"
      PROVE  CellsInv'
  <2>1. \A l \in Lanes : Written(l)' = Written(l)
    BY <1>1 DEF Written
  <2> QED
    BY <1>1, <2>1, CellsStay
<1>2. \A lanes, tokens : Start(lanes, tokens) => round'.stage = "Grow"
  BY DEF Start, NoRound
<1>3. ASSUME NEW l \in Lanes, NEW n \in 1 .. MaxChunk, PrefillFresh(l, n) PROVE CellsInv'
  <2>1. ResetOne(l) /\ round.stage = "Idle" /\ (round' = NoRound \/ Start(<<l>>, n))
    BY <1>3 DEF PrefillFresh, Idle
  <2>2. round'.stage # "Forward"
    BY <1>2, <2>1, NoRoundType
  <2> QED
    BY <2>1, <2>2, ResetOneKeepsCells
<1>4. ASSUME NEW l \in Lanes, NEW n \in 1 .. MaxChunk, PrefillMore(l, n) PROVE CellsInv'
  BY <1>1, <1>2, <1>4 DEF PrefillMore, Idle
<1>5. ASSUME NEW lanes \in Batches, Decode(lanes) PROVE CellsInv'
  BY <1>1, <1>2, <1>5 DEF Decode, Idle
<1>6. ASSUME NEW l \in Lanes, Release(l) PROVE CellsInv'
  BY <1>6, ResetOneKeepsCells DEF Release, Idle
<1>7. ASSUME Reset PROVE CellsInv'
  BY <1>1, <1>7 DEF Reset, NoRound, Idle
<1>8. ASSUME ResetNext PROVE CellsInv'
  <2>1. round.stage = "Reset" /\ round.lanes # <<>> /\ ResetOne(Head(round.lanes))
        /\ round' = [round EXCEPT !.lanes = Tail(@)]
    BY <1>8 DEF ResetNext
  <2>2. Head(round.lanes) \in Lanes
    BY <2>1, RoundFields, HeadTailProperties DEF LedgerInv
  <2>3. round'.stage = "Reset"
    BY <2>1, RoundFields DEF LedgerInv
  <2> QED
    BY <2>1, <2>2, <2>3, ResetOneKeepsCells
<1>9. ASSUME ResetEnds \/ Attend PROVE CellsInv'
  BY <1>1, <1>9, NoRoundType DEF ResetEnds, Attend
<1>10. Calls => CellsInv'
  BY <1>3, <1>4, <1>5, <1>6, <1>7 DEF Calls
<1>11. Steps => CellsInv'
  BY <1>8, <1>9, BeginRoundKeepsCells, WriteKeepsCells DEF Steps, ForwardLanes
<1> QED
  BY <1>10, <1>11 DEF Next

(* Every cell of the store holds what the ledger says of it: a token of a  *)
(* live sequence lies just where its lane's table puts its position.       *)
THEOREM CellsHold == Spec => []CellsInv
<1>1. Init => CellsInv
  BY CellsStart
<1>2. LedgerInv /\ CellsInv /\ [Next]_vars => CellsInv'
  <2>1. ASSUME CellsInv, UNCHANGED vars PROVE CellsInv'
    <3>1. store' = store /\ tables' = tables /\ lens' = lens /\ round' = round
      BY <2>1 DEF vars
    <3>2. \A l \in Lanes : Written(l)' = Written(l)
      BY <3>1 DEF Written, RowOf
    <3> QED
      BY <2>1, <3>1, <3>2 DEF CellsInv
  <2> QED
    BY <2>1, StepKeepsCells
<1> QED
  BY <1>1, <1>2, LedgerHolds, PTL DEF Spec

(* Every usable block has one place, between rounds a table covers its     *)
(* lane exactly, and a round is refused only when the pool was short.      *)
THEOREM OwnedOnceAlways == Spec => []OwnedOnce
<1>1. LedgerInv /\ CellsInv => OwnedOnce
  <2>1. ASSUME LedgerInv, CellsInv PROVE OwnedOnce
    <3>1. TypeOK
      BY <2>1 DEF LedgerInv, LedgerTypes, CellsInv, TypeOK
    <3>2. \A b \in Usable : Cardinality(InFree(b)) + Cardinality(InTables(b)) = 1
      BY <2>1, OnePlace
    <3>3. ASSUME round.stage \notin {"Grow", "Undo"} PROVE \A l \in Lanes : Len(tables[l]) = BlocksFor(lens[l])
      BY <2>1, <3>3, CoveredAtRest DEF InProgress
    <3>4. RefusedOnlyWhenShort
      BY <2>1 DEF LedgerInv
    <3> QED
      BY <3>1, <3>2, <3>3, <3>4 DEF OwnedOnce
  <2> QED
    BY <2>1
<1> QED
  BY <1>1, LedgerHolds, CellsHold, PTL

-------------------------------------------------------------------------------
(* What a step may never do.                                               *)

(* A lane that is not emptied keeps the blocks of its tokens.              *)
LEMMA StepKeepsBacking ==
  ASSUME LedgerInv, Next, NEW l \in Lanes, lens'[l] # 0
  PROVE  KeepsBacking(l)
<1>1. ASSUME tables'[l] = tables[l] PROVE KeepsBacking(l)
  BY <1>1, WrittenCovered DEF KeepsBacking, LedgerInv, LedgerTypes
<1>2. ASSUME NEW m \in Lanes, ResetOne(m) PROVE tables'[l] = tables[l]
  BY <1>2, EmptyingMoves DEF ResetOne, LedgerInv
<1>3. CASE Calls
  <2>1. (\E m \in Lanes : ResetOne(m)) \/ UNCHANGED tables
    BY <1>3 DEF Calls, PrefillFresh, PrefillMore, Decode, Release, Reset
  <2> QED
    BY <1>1, <1>2, <2>1
<1>4. CASE BeginRound
  BY <1>4, BeginRoundKeepsBacking
<1>5. CASE ResetNext
  <2>1. round.lanes # <<>> /\ ResetOne(Head(round.lanes))
    BY <1>5 DEF ResetNext
  <2>2. Head(round.lanes) \in Lanes
    BY <2>1, RoundFields, HeadTailProperties DEF LedgerInv
  <2> QED
    BY <1>1, <1>2, <2>1, <2>2
<1>6. CASE ResetEnds \/ ForwardLanes
  <2>1. UNCHANGED tables
    BY <1>6 DEF ResetEnds, ForwardLanes, Write, Attend
  <2> QED
    BY <1>1, <2>1
<1> QED
  BY <1>3, <1>4, <1>5, <1>6 DEF Next, Steps

LEMMA PrefixStays ==
  ASSUME NEW S, NEW s \in Seq(S), NEW t \in Seq(S), NEW n \in Nat, n <= Len(s), n <= Len(t),
         \A i \in 1 .. n : t[i] = s[i]
  PROVE  IsPrefix(SubSeq(s, 1, n), t)
<1>1. Len(s) \in Nat /\ Len(t) \in Nat /\ 1 \in Int /\ n \in Int
  OBVIOUS
<1>2. \A i \in 1 .. n : s[i] \in S /\ t[i] \in S
  BY <1>1
<1>3. PICK a \in Seq(S) : a = SubSeq(s, 1, n)
  <2>1. SubSeq(s, 1, n) \in Seq(S)
    BY <1>1, <1>2, SubSeqProperties
  <2> QED
    BY <2>1, Zenon
<1>4. Len(a) = n /\ \A i \in 1 .. n : a[i] = s[i]
  BY <1>1, <1>3
<1>5. SubSeq(a, 1, n) = a
  BY <1>4, SubSeqFull
<1>6. SubSeq(t, 1, n) = [i \in 1 .. n |-> t[i]] /\ a = [i \in 1 .. n |-> s[i]]
  BY <1>1, <1>3
<1>7. SubSeq(t, 1, n) = a
  BY <1>6
<1> QED
  BY <1>3, <1>4, <1>5, <1>7 DEF IsPrefix

(* The blocks a lane's tokens live in never change under it.               *)
THEOREM HeldBlocksAlwaysStay == Spec => HeldBlocksStay
<1>1. LedgerInv /\ LedgerInv' /\ [Next]_vars => [\A l \in Lanes : lens'[l] # 0 => IsPrefix(Backing(l), tables'[l])]_vars
  <2>1. ASSUME LedgerInv, LedgerInv', Next, NEW l \in Lanes, lens'[l] # 0
        PROVE  IsPrefix(Backing(l), tables'[l])
    <3>1. PICK s \in Seq(Usable) : s = tables[l]
      BY <2>1 DEF LedgerInv, LedgerTypes
    <3>2. PICK t \in Seq(Usable) : t = tables'[l]
      BY <2>1 DEF LedgerInv, LedgerTypes
    <3>3. PICK n \in Nat : n = BlocksFor(lens[l]) /\ n <= Len(s)
      BY <2>1, <3>1, WrittenCovered
    <3>4. n <= Len(t) /\ \A i \in 1 .. n : t[i] = s[i]
      BY <2>1, <3>1, <3>2, <3>3, StepKeepsBacking DEF KeepsBacking
    <3>5. IsPrefix(SubSeq(s, 1, n), t)
      BY <3>3, <3>4, PrefixStays
    <3> QED
      BY <3>1, <3>2, <3>3, <3>5 DEF Backing
  <2> QED
    BY <2>1
<1> QED
  BY <1>1, LedgerHolds, PTL DEF Spec, HeldBlocksStay

-------------------------------------------------------------------------------
(* What attention reads.                                                   *)

LEMMA LeastNumber ==
  ASSUME NEW T, T \subseteq Nat, T # {}
  PROVE  \E m \in T : \A n \in T : m <= n
<1> DEFINE R == {ss \in Nat \X Nat : ss[1] < ss[2]}
<1>1. IsWellFoundedOn(R, Nat)
  BY NatLessThanWellFounded DEF OpToRel
<1>2. PICK m \in T : \A n \in T : <<n, m>> \notin R
  <2> HIDE DEF R
  <2> QED
    BY <1>1, WFMin
<1>3. ASSUME NEW n \in T PROVE m <= n
  <2>1. <<n, m>> \in Nat \X Nat /\ <<n, m>>[1] = n /\ <<n, m>>[2] = m
    OBVIOUS
  <2>2. ~(n < m)
    BY <1>2, <2>1
  <2> QED
    BY <2>2
<1> QED
  BY <1>3

(* The plan's widest row: the least bound of the lengths is one of them.   *)
LEMMA WidestRow ==
  ASSUME LedgerInv, Computing
  PROVE  LMax \in 0 .. Ctx /\ IsLMax(LMax)
<1>1. PICK i0 \in Rows : TRUE
  <2>1. round.lanes \in Seq(Lanes) /\ round.lanes # <<>>
    BY RoundFields DEF LedgerInv, CallInv
  <2>2. 1 \in DOMAIN round.lanes
    BY <2>1
  <2> QED
    BY <2>2 DEF Rows
<1> DEFINE T == {m \in Nat : \A i \in Rows : Length(i) <= m}
<1>2. Ctx \in T
  BY RowFacts, BlockPoolAssumption
<1>3. PICK m \in T : \A n \in T : m <= n
  BY <1>2, LeastNumber
<1>4. m \in 0 .. Ctx /\ \A i \in Rows : Length(i) <= m
  BY <1>2, <1>3, BlockPoolAssumption
<1>5. \E i \in Rows : Length(i) = m
  <2>1. SUFFICES ASSUME \A i \in Rows : Length(i) # m PROVE FALSE
    OBVIOUS
  <2>2. \A i \in Rows : Length(i) \in Nat /\ Length(i) < m
    BY <1>4, <2>1, RowFacts
  <2>3. PICK n \in Nat : n = m - 1
    BY <1>1, <1>4, <2>2
  <2>4. n \in T
    BY <2>2, <2>3
  <2> QED
    BY <1>3, <2>3, <2>4
<1>6. IsLMax(m)
  BY <1>4, <1>5 DEF IsLMax
<1> QED
  BY <1>4, <1>6 DEF LMax

LEMMA ColumnsReach ==
  ASSUME LedgerInv, Computing, NEW i \in Rows
  PROVE  Columns \subseteq Nat /\ \A c \in Nat : c < Length(i) => c \in Columns
<1>1. PICK m \in Nat : m = LMax /\ Length(i) <= m
  BY WidestRow, BlockPoolAssumption DEF IsLMax
<1> QED
  BY <1>1, RowFacts DEF Columns

(* The cell of a position of the row holds that position's token.          *)
LEMMA HistoryInCells ==
  ASSUME LedgerInv, CellsInv, Attending, NEW i \in Rows, NEW c \in Nat, c < Length(i)
  PROVE  store[GatherIdx(i, c \div BlockSize)][c % BlockSize] = Token(round.lanes[i], c)
<1>1. Computing
  BY DEF Attending, Computing
<1>2. PICK l \in Lanes : l = round.lanes[i] /\ Length(i) = lens[l]
  BY <1>1, RowFacts
<1>3. PICK d \in Nat : d = c \div BlockSize
  BY BlockAndOffset
<1>4. PICK n \in Nat : n = Len(tables[l])
  BY DEF LedgerInv, LedgerTypes
<1>5. PICK k \in 1 .. Len(tables[l]) : k = c \div BlockSize + 1
  BY <1>2, BlockOf
<1>6. k \in 1 .. n /\ k = d + 1 /\ d < n
  BY <1>3, <1>4, <1>5
<1>7. GatherIdx(i, d) = tables[l][k]
  BY <1>2, <1>4, <1>6 DEF GatherIdx, Table
<1>8. tables[l][k] \in Usable /\ c % BlockSize \in Offsets
  BY <1>4, <1>6, BlockAndOffset DEF LedgerInv, LedgerTypes
<1>9. c \in 0 .. Ctx - 1 /\ c < Written(l)
  <2>1. Length(i) <= Ctx /\ Length(i) \in Nat /\ Ctx \in Nat
    BY <1>1, RowFacts, BlockPoolAssumption
  <2>2. Written(l) = lens[l]
    BY DEF Written, Attending
  <2> QED
    BY <1>2, <2>1, <2>2
<1>10. PICK b \in Usable, o \in Offsets : b = tables[l][k] /\ o = c % BlockSize
  BY <1>8
<1>11. store[b][o] = Token(l, c)
  BY <1>5, <1>9, <1>10 DEF CellsInv
<1> QED
  BY <1>2, <1>3, <1>7, <1>10, <1>11

(* No cell a row gathers holds a neighbour's token.                        *)
LEMMA NoNeighbour ==
  ASSUME LedgerInv, CellsInv, Attending, NEW i \in Rows, NEW c \in Nat, NEW m \in Lanes \ {round.lanes[i]}
  PROVE  Gathered(i, c) \notin TokensOf(m)
<1>1. SUFFICES ASSUME NEW p \in 0 .. Ctx - 1, Gathered(i, c) = Token(m, p) PROVE FALSE
  BY DEF TokensOf
<1>2. Computing
  BY DEF Attending, Computing
<1>3. PICK l \in Lanes : l = round.lanes[i]
  BY <1>2, RowFacts
<1>4. PICK d \in Nat : d = c \div BlockSize
  BY BlockAndOffset
<1>5. PICK o \in Offsets : o = c % BlockSize
  BY BlockAndOffset
<1>6. Gathered(i, c) = store[GatherIdx(i, d)][o]
  BY <1>4, <1>5 DEF Gathered
<1>7. CASE ~(d < Len(tables[l]))
  <2>1. GatherIdx(i, d) = Sentinel
    BY <1>3, <1>7 DEF GatherIdx, Table
  <2>2. Gathered(i, c) = Zero
    BY <1>6, <2>1 DEF CellsInv
  <2> QED
    BY <1>1, <2>2, ContentsDiffer
<1>8. CASE d < Len(tables[l])
  <2>1. PICK n \in Nat : n = Len(tables[l])
    BY DEF LedgerInv, LedgerTypes
  <2>2. PICK k \in 1 .. n : k = d + 1
    BY <1>8, <2>1
  <2>3. GatherIdx(i, d) = tables[l][k]
    BY <1>3, <1>8, <2>2 DEF GatherIdx, Table
  <2>4. PICK b \in Usable : b = tables[l][k]
    BY <2>1 DEF LedgerInv, LedgerTypes
  <2>5. store[b][o] = Token(m, p)
    BY <1>1, <1>6, <2>3, <2>4
  <2>6. p < Written(m) /\ tables[m][p \div BlockSize + 1] = b
    BY <2>5 DEF CellsInv
  <2>7. p \in Nat /\ p < lens[m]
    BY <2>6, WrittenCovered, BlockPoolAssumption
  <2>8. PICK j \in 1 .. Len(tables[m]) : j = p \div BlockSize + 1
    BY <2>7, BlockOf
  <2>9. tables[m][j] = tables[l][k]
    BY <2>4, <2>6, <2>8
  <2>10. m = l
    BY <2>1, <2>9, OneOwner
  <2> QED
    BY <1>3, <2>10
<1> QED
  BY <1>7, <1>8

(* The planes of the kernel share out the positions of a row.              *)
LEMMA PlanesVisitHistory ==
  ASSUME LedgerInv, CellsInv, Attending, NEW i \in Rows
  PROVE  /\ UNION {Visits(i, p) : p \in 0 .. Planes - 1} = 0 .. Length(i) - 1
         /\ \A p \in 0 .. Planes - 1, q \in Columns : q \in Visits(i, p) => Loaded(i, q) = Token(round.lanes[i], q)
<1>1. Computing
  BY DEF Attending, Computing
<1>2. PICK n \in Nat : n = Length(i)
  BY <1>1, RowFacts
<1>3. BlockSize \in Nat \ {0} /\ Planes \in Nat \ {0}
  BY KvBudgetAssumption, LlamaDecoderAssumption
<1>4. ASSUME NEW p, NEW q \in Visits(i, p) PROVE q \in Columns /\ q \in Nat /\ q < n
  <2>1. q \in Columns /\ q % BlockSize < Smaller(BlockSize, n - BlockSize * (q \div BlockSize))
    BY <1>2, <1>4 DEF Visits
  <2>2. q \in Nat
    BY <1>1, <2>1, ColumnsReach
  <2>3. PICK d \in Nat, o \in Nat : d = q \div BlockSize /\ o = q % BlockSize
    BY <2>2, BlockAndOffset DEF Offsets
  <2>4. PICK e \in Nat : e = BlockSize * d
    BY <1>3
  <2>5. q = e + o
    BY <2>2, <2>3, <2>4, BlockAndOffset
  <2>6. o < n - e
    BY <1>3, <2>1, <2>3, <2>4 DEF Smaller
  <2> QED
    BY <2>1, <2>2, <2>5, <2>6
<1>5. ASSUME NEW q \in Nat, q < n PROVE \E p \in 0 .. Planes - 1 : q \in Visits(i, p)
  <2>1. PICK d \in Nat, o \in Offsets : d = q \div BlockSize /\ o = q % BlockSize
    BY BlockAndOffset
  <2>2. PICK p \in 0 .. Planes - 1 : p = d % Planes
    BY <1>3
  <2>3. q \in Columns
    BY <1>1, <1>2, <1>5, ColumnsReach
  <2>4. d < BlocksFor(n)
    <3>1. q \div BlockSize + 1 \in 1 .. BlocksFor(n) /\ BlocksFor(n) \in Nat
      BY <1>5, PositionInBlocks, BlocksForNat
    <3> QED
      BY <2>1, <3>1
  <2>5. PICK e \in Nat : e = BlockSize * d
    BY <1>3
  <2>6. q = e + o
    BY <2>1, <2>5, BlockAndOffset
  <2>7. o < Smaller(BlockSize, n - e)
    BY <1>3, <1>5, <2>6 DEF Smaller, Offsets
  <2> QED
    BY <1>2, <2>1, <2>2, <2>3, <2>4, <2>5, <2>7 DEF Visits
<1>6. \A q : q \in 0 .. n - 1 <=> q \in Nat /\ q < n
  OBVIOUS
<1>7. UNION {Visits(i, p) : p \in 0 .. Planes - 1} = 0 .. n - 1
  BY <1>4, <1>5, <1>6
<1>8. ASSUME NEW p, NEW q \in Visits(i, p) PROVE Loaded(i, q) = Token(round.lanes[i], q)
  BY <1>2, <1>4, <1>8, HistoryInCells DEF Loaded
<1> QED
  BY <1>2, <1>7, <1>8

(* Every token attends to exactly the history of its own sequence.         *)
THEOREM AttendsOwnHistoryAlways == Spec => []AttendsOwnHistory
<1>1. ASSUME LedgerInv, CellsInv, Attending, NEW i \in Rows, NEW r \in NewTokens
      PROVE  /\ {c \in Columns : ~Masked(i, r, c)} = 0 .. StartOf(i) + r
             /\ \A c \in 0 .. StartOf(i) + r : Neutralized(i, c) = Token(round.lanes[i], c)
  <2>1. Computing
    BY <1>1 DEF Attending, Computing
  <2>2. /\ StartOf(i) \in Nat /\ r \in Nat /\ StartOf(i) + r < Length(i) /\ Length(i) \in Nat
        /\ round.tokens \in Nat /\ StartOf(i) + (round.tokens - 1) < Length(i)
        /\ StartOf(i) + r <= StartOf(i) + (round.tokens - 1)
    BY <1>1, <2>1, RowFacts DEF NewTokens
  <2>3. \A c : c \in 0 .. StartOf(i) + r <=> c \in Nat /\ ~(c > StartOf(i) + r)
    BY <2>2
  <2>4. \A c \in Nat : ~(c > StartOf(i) + r) => c < Length(i)
    BY <2>2
  <2>5. {c \in Columns : ~Masked(i, r, c)} = 0 .. StartOf(i) + r
    BY <1>1, <2>1, <2>3, <2>4, ColumnsReach DEF Masked
  <2>6. ASSUME NEW c \in 0 .. StartOf(i) + r PROVE Neutralized(i, c) = Token(round.lanes[i], c)
    <3>1. c \in Nat /\ c < Length(i) /\ ~(c > StartOf(i) + (round.tokens - 1))
      BY <2>2
    <3>2. Gathered(i, c) = Token(round.lanes[i], c)
      BY <1>1, <3>1, HistoryInCells DEF Gathered
    <3> QED
      BY <3>1, <3>2 DEF Neutralized, Masked
  <2> QED
    BY <2>5, <2>6
<1>2. ASSUME LedgerInv, CellsInv, Attending, NEW i \in Rows, NEW c \in Columns
      PROVE  Neutralized(i, c) # Unwritten
  <2>1. Computing
    BY <1>2 DEF Attending, Computing
  <2>2. c \in Nat
    BY <1>2, <2>1, ColumnsReach
  <2>3. CASE Masked(i, round.tokens - 1, c)
    BY <2>3, ContentsDiffer DEF Neutralized
  <2>4. CASE ~Masked(i, round.tokens - 1, c)
    <3>1. c < Length(i)
      BY <1>2, <2>1, <2>2, <2>4, RowFacts DEF Masked
    <3>2. Gathered(i, c) = Token(round.lanes[i], c)
      BY <1>2, <2>2, <3>1, HistoryInCells DEF Gathered
    <3> QED
      BY <2>4, <3>2, ContentsDiffer DEF Neutralized
  <2> QED
    BY <2>3, <2>4
<1>3. ASSUME LedgerInv, CellsInv, Attending, NEW i \in Rows, NEW c \in Columns,
             NEW l \in Lanes \ {round.lanes[i]}
      PROVE  Gathered(i, c) \notin TokensOf(l)
  <2>1. c \in Nat
    BY <1>3, ColumnsReach DEF Attending, Computing
  <2> QED
    BY <1>3, <2>1, NoNeighbour
<1>4. LedgerInv /\ CellsInv => KernelWalksHistory
  BY PlanesVisitHistory DEF KernelWalksHistory
<1>5. LedgerInv /\ CellsInv => AttendsOwnHistory
  BY <1>1, <1>2, <1>3, <1>4 DEF AttendsOwnHistory
<1> QED
  BY <1>5, LedgerHolds, CellsHold, PTL

-------------------------------------------------------------------------------
(* The pool implements the abstract ledger.                                *)

(* Between rounds the blocks the lanes need are blocks the tables have:    *)
(* they map one to one into the pool.                                      *)
LEMMA FitsAtRest == LedgerInv /\ ~InProgress => Ledger!Fits
<1> SUFFICES ASSUME LedgerInv, ~InProgress PROVE Ledger!Fits
  OBVIOUS
<1> DEFINE B == Ledger!Blocks
<1>1. \A x : x \in B <=> \E l \in Lanes : \E k \in 1 .. Len(tables[l]) : x = <<l, k>>
  <2> DEFINE S(l) == {l} \X (1 .. Ledger!BlocksFor(lens[l]))
  <2>1. B = UNION {S(l) : l \in Lanes}
    BY Zenon DEF Ledger!Blocks
  <2>2. ASSUME NEW l \in Lanes PROVE Ledger!BlocksFor(lens[l]) = Len(tables[l])
    BY CoveredAtRest DEF Ledger!BlocksFor, BlocksFor
  <2>3. \A l \in Lanes : \A x : x \in S(l) <=> \E k \in 1 .. Len(tables[l]) : x = <<l, k>>
    BY <2>2
  <2> HIDE DEF S, B
  <2> QED
    BY <2>1, <2>3
<1> HIDE DEF B
<1> DEFINE f == [x \in B |-> tables[x[1]][x[2]]]
<1>2. ASSUME NEW x \in B PROVE \E l \in Lanes : \E k \in 1 .. Len(tables[l]) : x = <<l, k>> /\ f[x] = tables[l][k]
  BY <1>1
<1>3. f \in [B -> Usable]
  <2>1. ASSUME NEW x \in B PROVE tables[x[1]][x[2]] \in Usable
    <3>1. PICK l \in Lanes : \E k \in 1 .. Len(tables[l]) : x = <<l, k>>
      BY <1>1
    <3>2. PICK k \in 1 .. Len(tables[l]) : x = <<l, k>>
      BY <3>1
    <3>3. tables[l] \in Seq(Usable)
      BY DEF LedgerInv, LedgerTypes
    <3> QED
      BY <3>2, <3>3
  <2> QED
    BY <2>1
<1> HIDE DEF f
<1>4. ASSUME NEW x \in B, NEW y \in B, f[x] = f[y] PROVE x = y
  <2>1. PICK l \in Lanes : \E k \in 1 .. Len(tables[l]) : x = <<l, k>> /\ f[x] = tables[l][k]
    BY <1>2
  <2>2. PICK k \in 1 .. Len(tables[l]) : x = <<l, k>> /\ f[x] = tables[l][k]
    BY <2>1
  <2>3. PICK m \in Lanes : \E j \in 1 .. Len(tables[m]) : y = <<m, j>> /\ f[y] = tables[m][j]
    BY <1>2
  <2>4. PICK j \in 1 .. Len(tables[m]) : y = <<m, j>> /\ f[y] = tables[m][j]
    BY <2>3
  <2>5. l = m /\ k = j
    BY <1>4, <2>2, <2>4, OneOwner
  <2> QED
    BY <2>2, <2>4, <2>5
<1>5. IsFiniteSet(Usable) /\ Cardinality(Usable) = TotalBlocks
  BY KvBudgetAssumption, FS_Interval DEF Usable
<1>6. f \in Injection(B, Usable)
  BY <1>3, <1>4 DEF Injection, IsInjective
<1>7. Cardinality(B) <= TotalBlocks
  BY <1>5, <1>6, FS_Injection
<1>8. \A l \in Lanes : lens[l] <= Ctx
  BY BlockPoolAssumption DEF LedgerInv, LedgerTypes
<1>9. Ledger!Cardinality(B) = Cardinality(B)
  BY DEF Ledger!Cardinality, Cardinality
<1> QED
  BY <1>7, <1>8, <1>9 DEF B, Ledger!Fits

LEMMA EmptyVacates ==
  ASSUME LedgerInv, NEW l \in Lanes, Empty(l)
  PROVE  Ledger!Next
<1>1. lens' \in [Lanes -> 0 .. Ctx] /\ lens'[l] = 0 /\ \A g \in Lanes \ {l} : lens'[g] = lens[g]
  BY EmptyingMoves DEF LedgerInv
<1>2. lens' = [g \in Lanes |-> IF g \in {l} THEN 0 ELSE lens[g]]
  BY <1>1
<1>3. {l} \in SUBSET Lanes
  OBVIOUS
<1> QED
  BY <1>2, <1>3 DEF Ledger!Next, Ledger!Vacate

LEMMA CommitAdvances ==
  ASSUME LedgerInv, Commit, Ledger!Fits'
  PROVE  Ledger!Next
<1>1. lens' = [g \in Lanes |-> IF RowOf(g) THEN lens[g] + round.tokens ELSE lens[g]]
  BY CommitFacts
<1>2. /\ round.tokens \in 1 .. Ctx /\ (round.tokens = 1 \/ Len(round.lanes) = 1)
      /\ round.lanes # <<>> /\ round.lanes \in Seq(Lanes)
  BY CommitFacts, RoundFields DEF LedgerInv, CallInv
<1>3. CASE round.tokens = 1
  <2>1. PICK rows \in SUBSET Lanes : rows = {g \in Lanes : RowOf(g)}
    OBVIOUS
  <2>2. lens' = [g \in Lanes |-> IF g \in rows THEN lens[g] + 1 ELSE lens[g]]
    BY <1>1, <1>3, <2>1
  <2>3. Ledger!Advance(rows, 1)
    BY <2>2 DEF Ledger!Advance
  <2> QED
    BY <2>3 DEF Ledger!Next
<1>4. CASE Len(round.lanes) = 1
  <2>1. PICK l \in Lanes : l = round.lanes[1]
    BY <1>2, <1>4
  <2>2. \A g : RowOf(g) <=> g = l
    BY <1>4, <2>1 DEF RowOf
  <2>3. lens' = [g \in Lanes |-> IF g \in {l} THEN lens[g] + round.tokens ELSE lens[g]]
    BY <1>1, <2>2
  <2>4. Ledger!Advance({l}, round.tokens)
    BY <2>3 DEF Ledger!Advance
  <2> QED
    BY <1>2, <2>4 DEF Ledger!Next
<1> QED
  BY <1>2, <1>3, <1>4

(* A round advances all its lanes or none, a freed lane is empty, and the  *)
(* lanes never need more than the pool has: the ledger callers rely on.    *)
THEOREM PoolImplementsLedger == Spec => ImplementsLedger
<1>1. Init => Ledger!Init
  BY DEF Init, PoolInit, Ledger!Init
<1>2. LedgerInv /\ LedgerInv' /\ (LedgerInv /\ ~InProgress => Ledger!Fits)' /\ [Next]_vars => [Ledger!Next]_lens
  <2>1. ASSUME LedgerInv, LedgerInv', (LedgerInv /\ ~InProgress => Ledger!Fits)', Next, lens' # lens
        PROVE  Ledger!Next
    <3>1. CASE \E l \in Lanes : Empty(l)
      BY <2>1, <3>1, EmptyVacates
    <3>2. CASE Commit
      <4>1. round'.stage = "Forward"
        BY <2>1, <3>2, RoundFields DEF Commit, LedgerInv
      <4>2. Ledger!Fits'
        BY <2>1, <4>1 DEF InProgress
      <4> QED
        BY <2>1, <3>2, <4>2, CommitAdvances
    <3>3. CASE ResetNext
      <4>1. round.lanes # <<>> /\ Empty(Head(round.lanes))
        BY <3>3 DEF ResetNext, ResetOne
      <4>2. Head(round.lanes) \in Lanes
        BY <2>1, <4>1, RoundFields, HeadTailProperties DEF LedgerInv
      <4> QED
        BY <3>1, <4>1, <4>2
    <3>4. Calls => (\E l \in Lanes : Empty(l)) \/ lens' = lens
      BY DEF Calls, PrefillFresh, PrefillMore, Decode, Release, Reset, ResetOne
    <3>5. Steps => Commit \/ ResetNext \/ lens' = lens
      BY DEF Steps, BeginRound, GrowTable, GrowFails, Undo, Refuse, ResetEnds, ForwardLanes, Write, Attend
    <3> QED
      BY <2>1, <3>1, <3>2, <3>3, <3>4, <3>5 DEF Next
  <2>2. ASSUME UNCHANGED vars PROVE lens' = lens
    BY <2>2 DEF vars
  <2> QED
    BY <2>1, <2>2
<1> QED
  BY <1>1, <1>2, FitsAtRest, LedgerHolds, PTL DEF Spec, ImplementsLedger, Ledger!Spec
===============================================================================
