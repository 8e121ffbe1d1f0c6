----------------------------- MODULE MCBatchWorker -----------------------------
(***************************************************************************)
(* Small instances of the worker: three or four jobs, two or three lanes,  *)
(* and a pool that cannot hold everybody's worst case at once.             *)
(***************************************************************************)
EXTENDS WorkerProperties, TLC

CONSTANTS a, b, c, d

Jobs3(x, y, z) == (a :> x) @@ (b :> y) @@ (c :> z)

(* One block per token, seven blocks. Whoever is admitted second grows     *)
(* until it pauses, and whoever is third is evicted when the second is     *)
(* promoted while short of its worst case.                                 *)
TightPrompt == Jobs3(1, 1, 2)
TightRequest == Jobs3(3, 5, 5)

(* Three lanes, prompts longer than a chunk, and a round's prefill budget  *)
(* too small for two prompts beside a decode.                              *)
LongPrompt == Jobs3(1, 3, 2)
LongRequest == Jobs3(2, 6, 3)

(* A request with no limit on its answer, an empty prompt and no tokens    *)
(* asked for, and one that never fits the pool.                            *)
OddPrompt == (a :> 1) @@ (b :> 0) @@ (d :> 9)
OddRequest == (a :> NoRequest) @@ (b :> 0) @@ (d :> 1)
===============================================================================
