-------------------------------- MODULE KvLedger --------------------------------
(***************************************************************************)
(* What the KV cache promises its callers, without blocks or tables: every *)
(* lane has a length, a round advances all its lanes or none, a lane that  *)
(* is freed is empty, and the lanes together never need more blocks than   *)
(* the pool has. The block pool implements it, and the worker's use of its *)
(* decoder stays within it.                                                *)
(***************************************************************************)
EXTENDS KvBudget, FiniteSets

CONSTANTS Lanes,    \* the lanes of the cache
          Ctx       \* the longest a lane may become

VARIABLE len        \* tokens in each lane

Blocks == UNION {{l} \X (1 .. BlocksFor(len[l])) : l \in Lanes}
Fits == Cardinality(Blocks) <= TotalBlocks /\ \A l \in Lanes : len[l] <= Ctx

Init == len = [l \in Lanes |-> 0]

(* One round: n more tokens in each of the lanes.                          *)
Advance(lanes, n) ==
  /\ len' = [l \in Lanes |-> IF l \in lanes THEN len[l] + n ELSE len[l]]
  /\ Fits'

Vacate(lanes) == len' = [l \in Lanes |-> IF l \in lanes THEN 0 ELSE len[l]]

(* A prompt goes into one lane, a token into several.                      *)
Next ==
  \/ \E l \in Lanes, n \in 1 .. Ctx : Advance({l}, n)
  \/ \E lanes \in SUBSET Lanes : Advance(lanes, 1)
  \/ \E lanes \in SUBSET Lanes : Vacate(lanes)

Spec == Init /\ [][Next]_len
===============================================================================
