------------------------------ MODULE LlamaDecoder ------------------------------
(***************************************************************************)
(* The decoder of burn-lm-llama over the paged KV cache: what a prefill, a *)
(* fused decode, a release and a reset do to the ledger, where a forward   *)
(* writes each new token and which cells its attention reads back.         *)
(*                                                                         *)
(* A cell holds the token written to it, [lane, pos], pos being where its  *)
(* key was rotated for. One store stands for the K and the V store of      *)
(* every layer: all of them are addressed by the one plan of the round.    *)
(* The worker's thread makes one call at a time.                           *)
(***************************************************************************)
EXTENDS BlockPool

CONSTANTS MaxChunk,     \* longest prefill chunk a caller passes
          Planes        \* planes per cube of the decode kernel

ASSUME LlamaDecoderAssumption == MaxChunk \in Nat /\ Planes \in Nat \ {0}

VARIABLE store          \* the cells of every block

vars == <<free, tables, lens, round, store>>

Offsets == 0 .. BlockSize - 1

(* Besides tokens a cell may hold arbitrary bytes (nobody has written it   *)
(* yet), the token of a sequence that has left its lane, or a zero.        *)
Unwritten == [bytes |-> "unwritten"]
Departed == [bytes |-> "departed"]
Zero == [bytes |-> "zero"]
Token(l, p) == [lane |-> l, pos |-> p]
TokensOf(l) == {Token(l, p) : p \in 0 .. Ctx - 1}
Contents == {Unwritten, Departed, Zero} \cup UNION {TokensOf(l) : l \in Lanes}

Init ==
  /\ PoolInit
  /\ store = [b \in {Sentinel} \cup Usable |->
                [o \in Offsets |-> IF b = Sentinel THEN Zero ELSE Unwritten]]

-------------------------------------------------------------------------------
(* The decoder's calls.                                                    *)

(* The cells keep their bytes when lane l is freed; its tokens are nobody's *)
(* from then on.                                                           *)
Vacated(l) ==
  [b \in DOMAIN store |->
     [o \in Offsets |-> IF store[b][o] \in TokensOf(l) THEN Departed ELSE store[b][o]]]

ResetOne(l) == Empty(l) /\ store' = Vacated(l)

(* Mutant: a lane may pass the window by one.                              *)
InWindowByOne(len, tokens) == len + tokens <= Ctx + 1

(* prepare_lanes refuses a lane past the window before touching anything.  *)
InWindow(len, tokens) == len + tokens <= Ctx

(* A prompt at position 0 is a new sequence: the lane is reset first.      *)
PrefillFresh(l, tokens) ==
  /\ Idle
  /\ ResetOne(l)
  /\ IF InWindow(0, tokens) THEN Start(<<l>>, tokens) ELSE round' = NoRound

(* A later chunk continues at the lane's length.                           *)
PrefillMore(l, tokens) ==
  /\ Idle
  /\ lens[l] > 0 /\ InWindow(lens[l], tokens)
  /\ Start(<<l>>, tokens)
  /\ UNCHANGED <<free, tables, lens, store>>

(* One token for every row; the rows are distinct lanes in batch order.    *)
Decode(lanes) ==
  /\ Idle
  /\ \A i \in 1 .. Len(lanes) : InWindow(lens[lanes[i]], 1)
  /\ Start(lanes, 1)
  /\ UNCHANGED <<free, tables, lens, store>>

Release(l) ==
  /\ Idle
  /\ ResetOne(l)
  /\ UNCHANGED round

(* reset frees the lanes one after another, from lane 0.                   *)
Reset ==
  /\ Idle
  /\ round' = [NoRound EXCEPT !.stage = "Reset", !.lanes = [i \in 1 .. LaneCount |-> i - 1]]
  /\ UNCHANGED <<free, tables, lens, store>>

ResetNext ==
  /\ round.stage = "Reset" /\ round.lanes # <<>>
  /\ ResetOne(Head(round.lanes))
  /\ round' = [round EXCEPT !.lanes = Tail(@)]

ResetEnds ==
  /\ round.stage = "Reset" /\ round.lanes = <<>>
  /\ round' = NoRound
  /\ UNCHANGED <<free, tables, lens, store>>

-------------------------------------------------------------------------------
(* The round's LanePlan. It is a snapshot taken when begin_round returns;  *)
(* the ledger does not move until the forward is over, so it is read off   *)
(* the ledger. Row i of the forward is lane round.lanes[i], and its new    *)
(* tokens are 0 .. round.tokens - 1.                                       *)

Rows == DOMAIN round.lanes
NewTokens == 0 .. round.tokens - 1
Table(i) == tables[round.lanes[i]]
Length(i) == lens[round.lanes[i]]
StartOf(i) == Length(i) - round.tokens
IsLMax(m) == (\E i \in Rows : Length(i) = m) /\ \A i \in Rows : Length(i) <= m
LMax == CHOOSE m \in 0 .. Ctx : IsLMax(m)
Columns == 0 .. LMax - 1

Masked(i, r, c) == c > StartOf(i) + r

(* Entry k of row i in the gather index; short lanes are padded.           *)
GatherIdx(i, k) == IF k < Len(Table(i)) THEN Table(i)[k + 1] ELSE Sentinel

(* The cell new token r of row i is written to.                            *)
WriteIdx(i, r) ==
  LET p == StartOf(i) + r IN <<Table(i)[p \div BlockSize + 1], p % BlockSize>>

-------------------------------------------------------------------------------
(* The forward: every layer writes the new tokens, then attends.           *)

(* Row r of lane i is rotated for its own position, whatever the others'   *)
(* are. The table of rotations is never shifted.                           *)
RotatedAt(i, r) == StartOf(i) + r

(* The tokens of this round that land in one cell.                         *)
Landing(b, o) ==
  {Token(round.lanes[w[1]], RotatedAt(w[1], w[2])) :
     w \in {v \in Rows \X NewTokens : WriteIdx(v[1], v[2]) = <<b, o>>}}

Write ==
  /\ round.stage = "Forward"
  /\ store' = [b \in DOMAIN store |-> [o \in Offsets |->
                 IF Landing(b, o) = {} THEN store[b][o] ELSE CHOOSE t \in Landing(b, o) : TRUE]]
  /\ round' = [round EXCEPT !.stage = "Attend"]
  /\ UNCHANGED <<free, tables, lens>>

(* The reference path: column c of row i in the gathered scratch ...       *)
Gathered(i, c) == store[GatherIdx(i, c \div BlockSize)][c % BlockSize]

(* Mutant: the first row's mask is used.                                   *)
NeutralizedEarly(i, c) == IF Masked(i, 0, c) THEN Zero ELSE Gathered(i, c)

(* ... and after the dead columns were overwritten with zeros.             *)
Neutralized(i, c) == IF Masked(i, round.tokens - 1, c) THEN Zero ELSE Gathered(i, c)

(* Mutant: the kernel walks whole blocks.                                  *)
VisitsBlocks(i, p) ==
  {q \in Columns : (q \div BlockSize) % Planes = p /\ q \div BlockSize < BlocksFor(Length(i))}

(* The kernel path, for a single new token: the positions of row i that    *)
(* plane p visits, and the cell it loads for one.                          *)
Visits(i, p) ==
  {q \in Columns : /\ (q \div BlockSize) % Planes = p
                   /\ q \div BlockSize < BlocksFor(Length(i))
                   /\ q % BlockSize < Smaller(BlockSize, Length(i) - BlockSize * (q \div BlockSize))}
Loaded(i, q) == store[GatherIdx(i, q \div BlockSize)][q % BlockSize]

Attend ==
  /\ round.stage = "Attend"
  /\ round' = NoRound
  /\ UNCHANGED <<free, tables, lens, store>>

(* A layer rotates and writes before it attends, and the next layer is the *)
(* same over its own store.                                                *)
ForwardLanes == Write \/ Attend

-------------------------------------------------------------------------------
(* The rows of a decode round: distinct lanes, in any order.               *)
Batches == {s \in UNION {[1 .. n -> Lanes] : n \in 1 .. LaneCount} : IsInjective(s)}

Calls ==
  \/ \E l \in Lanes, n \in 1 .. MaxChunk : PrefillFresh(l, n) \/ PrefillMore(l, n)
  \/ \E lanes \in Batches : Decode(lanes)
  \/ \E l \in Lanes : Release(l)
  \/ Reset

Steps == (BeginRound /\ UNCHANGED store) \/ ResetNext \/ ResetEnds \/ ForwardLanes

Next == Calls \/ Steps

Spec == Init /\ [][Next]_vars
===============================================================================
