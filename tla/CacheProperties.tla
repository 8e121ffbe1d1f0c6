----------------------------- MODULE CacheProperties -----------------------------
(***************************************************************************)
(* What the paged cache must guarantee: no block is lost or shared, a      *)
(* refused round leaves no trace, and every token attends to exactly the   *)
(* history of its own sequence, wherever churn has scattered it.           *)
(***************************************************************************)
EXTENDS LlamaDecoder

(* Types of the ledger, the call under way and the cells.                  *)
TypeOK ==
  /\ free \in Seq(Usable)
  /\ tables \in [Lanes -> Seq(Usable)]
  /\ lens \in [Lanes -> 0 .. Ctx]
  /\ round \in Rounds
  /\ store \in [{Sentinel} \cup Usable -> [Offsets -> Contents]]

-------------------------------------------------------------------------------
(* The ledger.                                                             *)

(* What a round that is refused asked for, what it took so far, and what   *)
(* was free when it began.                                                 *)
Wants == UNION {{l} \X (1 .. BlocksFor(lens[l] + round.tokens) - BlocksFor(lens[l]))
                  : l \in Range(round.lanes)}
Taken == UNION {{g[1]} \X (1 .. Len(tables[g[1]]) - g[2]) : g \in Range(round.grown)}
FreeAtStart == Len(free) + Cardinality(Taken)
RefusedOnlyWhenShort ==
  round.stage = "Undo" => Cardinality(Wants) > FreeAtStart

(* Every usable block is in exactly one place, the free stack or one       *)
(* table, also half way through a round or its rollback (check_invariants: *)
(* "no leaks, no double ownership"); between rounds a table covers its     *)
(* lane's length exactly: a round that was refused gave back all it took,  *)
(* one that went through took enough; and a round is refused only if it    *)
(* truly needs more blocks than were free when it began, whatever the      *)
(* order of its lanes. Every id and length is in its range.                *)
InFree(b) == {i \in DOMAIN free : free[i] = b}
InTables(b) == UNION {{<<l, i>> : i \in {k \in DOMAIN tables[l] : tables[l][k] = b}} : l \in Lanes}
OwnedOnce ==
  /\ TypeOK
  /\ \A b \in Usable : Cardinality(InFree(b)) + Cardinality(InTables(b)) = 1
  /\ round.stage \notin {"Grow", "Undo"} =>
       \A l \in Lanes : Len(tables[l]) = BlocksFor(lens[l])
  /\ RefusedOnlyWhenShort

(* The blocks a lane's tokens live in never change under it: other lanes'  *)
(* rounds, refusals and releases leave its mapping alone until the lane    *)
(* itself is emptied.                                                      *)
Backing(l) == SubSeq(tables[l], 1, BlocksFor(lens[l]))
HeldBlocksStay == [][\A l \in Lanes : lens'[l] # 0 => IsPrefix(Backing(l), tables'[l])]_vars

(* The pool implements the ledger its callers are promised.                *)
Ledger == INSTANCE KvLedger WITH len <- lens
ImplementsLedger == Ledger!Spec

-------------------------------------------------------------------------------
(* The cells.                                                              *)

Attending == round.stage = "Attend"

(* The kernel has no mask: its planes together must visit each position of *)
(* a row once, find its token there and touch nothing else.                *)
KernelWalksHistory ==
  Attending /\ round.tokens = 1 => \A i \in Rows :
    /\ UNION {Visits(i, p) : p \in 0 .. Planes - 1} = 0 .. Length(i) - 1
    /\ \A p \in 0 .. Planes - 1, q \in Columns :
         q \in Visits(i, p) => Loaded(i, q) = Token(round.lanes[i], q)

(* Through the mask a new token sees the tokens of its own sequence, all   *)
(* of them up to itself, in order, and nothing else: not the tail of a     *)
(* reused block, not a neighbour. Even the columns the mask hides never    *)
(* hold a token of another live sequence, short lanes being padded with a  *)
(* block that belongs to no one, nor anything unwritten: a zero weight     *)
(* times a NaN is a NaN (RaggedKv). The kernel reads the same history.     *)
AttendsOwnHistory ==
  /\ KernelWalksHistory
  /\ Attending => \A i \in Rows :
    /\ \A r \in NewTokens :
         /\ {c \in Columns : ~Masked(i, r, c)} = 0 .. StartOf(i) + r
         /\ \A c \in 0 .. StartOf(i) + r : Neutralized(i, c) = Token(round.lanes[i], c)
    /\ \A c \in Columns :
         /\ Neutralized(i, c) # Unwritten
         /\ \A l \in Lanes \ {round.lanes[i]} : Gathered(i, c) \notin TokensOf(l)
===============================================================================
