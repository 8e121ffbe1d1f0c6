------------------------------- MODULE BlockPool -------------------------------
(***************************************************************************)
(* The host-side ledger of the paged KV cache: a LIFO stack of free blocks *)
(* and, per lane, its length and the table of blocks its tokens live in.   *)
(* A round grows one lane after another; when the stack runs out half way  *)
(* the lanes already grown give their blocks back before the error is      *)
(* reported. Each loop iteration of begin_round is a step of its own.      *)
(***************************************************************************)
EXTENDS KvBudget, Sequences, FiniteSets, SequencesExt

CONSTANTS LaneCount,    \* how many lanes the pool keeps ledgers for
          Ctx           \* KvLayout.max_seq_len, the ceiling of every lane

ASSUME BlockPoolAssumption == LaneCount \in Nat /\ Ctx \in Nat

Lanes == 0 .. LaneCount - 1

VARIABLES
  free,     \* the free stack; its last element is popped first
  tables,   \* per lane, the blocks covering its tokens, in position order
  lens,     \* per lane, its sequence length
  round     \* the call that is under way

poolVars == <<free, tables, lens, round>>

Sentinel == 0
Usable == 1 .. TotalBlocks

(* `grown` pairs every lane grown so far with the length its table had;    *)
(* `shortBy` is what the last refusal reported.                            *)
Stages == {"Idle", "Grow", "Undo", "Forward", "Attend", "Reset"}
Rounds == [stage : Stages, lanes : Seq(Lanes), tokens : Nat,
           grown : Seq(Lanes \X Nat), shortBy : Nat]

NoRound == [stage |-> "Idle", lanes |-> <<>>, tokens |-> 0, grown |-> <<>>, shortBy |-> 0]

PoolInit ==
  /\ free = [i \in Usable |-> i]
  /\ tables = [l \in Lanes |-> <<>>]
  /\ lens = [l \in Lanes |-> 0]
  /\ round = NoRound

-------------------------------------------------------------------------------
(* begin_round                                                             *)

Idle == round.stage = "Idle"

Start(lanes, tokens) ==
  round' = [NoRound EXCEPT !.stage = "Grow", !.lanes = lanes, !.tokens = tokens]

(* The lane whose turn it is, and the blocks its new length lacks.         *)
Turn == round.lanes[Len(round.grown) + 1]
Growing == round.stage = "Grow" /\ Len(round.grown) < Len(round.lanes)

Shortfall(l) == BlocksFor(lens[l] + round.tokens) - Len(tables[l])

Without(n) == SubSeq(free, 1, Len(free) - n)

(* The n blocks on top of the stack, in the order they are popped.         *)
Popped(n) == Reverse(SubSeq(free, Len(free) - n + 1, Len(free)))

Grows(l, n) ==
  /\ free' = Without(n)
  /\ tables' = [tables EXCEPT ![l] = @ \o Popped(n)]

Exhausted == Shortfall(Turn) > Len(free)

GrowTable ==
  /\ Growing
  /\ ~Exhausted
  /\ IF Shortfall(Turn) <= 0 THEN UNCHANGED <<free, tables>> ELSE Grows(Turn, Shortfall(Turn))
  /\ round' = [round EXCEPT !.grown = Append(@, <<Turn, Len(tables[Turn])>>)]
  /\ UNCHANGED lens

GrowFails ==
  /\ Growing
  /\ Exhausted
  /\ round' = [round EXCEPT !.stage = "Undo", !.shortBy = Shortfall(Turn) - Len(free)]
  /\ UNCHANGED <<free, tables, lens>>

(* The blocks a lane gives back when its table is cut to `keep`.           *)
Excess(lane, keep) == SubSeq(tables[lane], keep + 1, Len(tables[lane]))

(* Mutants: the blocks go back and stay in the table; the whole table goes. *)
KeptWhole(lane, keep) == tables[lane]
KeptNone(lane, keep) == <<>>

Kept(lane, keep) == SubSeq(tables[lane], 1, keep)

(* Roll back the lane that was grown first.                                *)
Undo ==
  /\ round.stage = "Undo" /\ round.grown # <<>>
  /\ LET lane == Head(round.grown)[1]
         keep == Head(round.grown)[2] IN
     /\ free' = free \o Excess(lane, keep)
     /\ tables' = [tables EXCEPT ![lane] = Kept(lane, keep)]
  /\ round' = [round EXCEPT !.grown = Tail(@)]
  /\ UNCHANGED lens

Refuse ==
  /\ round.stage = "Undo" /\ round.grown = <<>>
  /\ round' = [NoRound EXCEPT !.shortBy = round.shortBy]
  /\ UNCHANGED <<free, tables, lens>>

(* Mutant: every lane of the ledger advances.                              *)
AdvancedAll == [l \in Lanes |-> lens[l] + round.tokens]

(* Every table has grown: now every length advances.                       *)
Advanced == [l \in Lanes |-> IF l \in Range(round.lanes) THEN lens[l] + round.tokens ELSE lens[l]]

Commit ==
  /\ round.stage = "Grow" /\ Len(round.grown) = Len(round.lanes)
  /\ lens' = Advanced
  /\ round' = [round EXCEPT !.stage = "Forward"]
  /\ UNCHANGED <<free, tables>>

BeginRound == GrowTable \/ GrowFails \/ Undo \/ Refuse \/ Commit

-------------------------------------------------------------------------------
(* free_lane                                                               *)

Empty(l) ==
  /\ free' = free \o tables[l]
  /\ tables' = [tables EXCEPT ![l] = <<>>]
  /\ lens' = [lens EXCEPT ![l] = 0]
===============================================================================
