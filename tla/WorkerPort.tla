------------------------------ MODULE WorkerPort ------------------------------
(***************************************************************************)
(* What the batching worker may tell a request, and in which order: it is  *)
(* refused, or admitted, streamed tokens and retired. A request answered   *)
(* with its failure is retired a second time by the sweep that drops it.   *)
(* The worker keeps to it, the emission thread is built to serve it.       *)
(***************************************************************************)
EXTENDS Naturals, Sequences, SequencesExt

CONSTANT Jobs

VARIABLE told       \* per request, what the worker has said of it

PortEvents == {"Admitted", "Token", "Done", "Error", "WorkerDied"}

Queued(j) == told[j] = <<>>
Streaming(j) == told[j] # <<>> /\ Last(told[j]) \in {"Admitted", "Token"}
FailedOnce(j) == told[j] # <<>> /\ Head(told[j]) = "Admitted" /\ Last(told[j]) = "Error"

Sayable(j) ==
  {e \in PortEvents :
     \/ Queued(j) /\ e \in {"Admitted", "Error", "WorkerDied"}
     \/ Streaming(j) /\ e # "Admitted"
     \/ FailedOnce(j) /\ e = "Done"}

PortInit == told = [j \in Jobs |-> <<>>]

(* One step of the worker may tell several requests something, each at     *)
(* most one thing.                                                         *)
Says(j) == \E e \in Sayable(j) : told'[j] = Append(told[j], e)
PortNext == \A j \in Jobs : told'[j] = told[j] \/ Says(j)

PortSpec == PortInit /\ [][PortNext]_told
===============================================================================
