------------------------------- MODULE KvBudget -------------------------------
(***************************************************************************)
(* The block arithmetic both sides of the batching seam share: the worker  *)
(* reserves blocks with it and the paged cache allocates them.             *)
(***************************************************************************)
EXTENDS Integers

CONSTANTS BlockSize,    \* tokens per KV block
          TotalBlocks   \* usable blocks in the pool (the sentinel excluded)

ASSUME KvBudgetAssumption ==
  /\ BlockSize \in Nat \ {0}
  /\ TotalBlocks \in Nat

Smaller(m, n) == IF m <= n THEN m ELSE n

(* How many blocks a sequence of `tokens` tokens occupies.                 *)
BlocksFor(tokens) == (tokens + BlockSize - 1) \div BlockSize
===============================================================================
