--------------------------- MODULE DeliveryProperties ---------------------------
(***************************************************************************)
(* What a caller may rely on once its request is in the worker's hands.    *)
(***************************************************************************)
EXTENDS Delivery

(* What the worker's last word on a request may be, and its first of them. *)
Verdicts == {"Done", "Error", "WorkerDied"}
Decided(j) == \E i \in DOMAIN told[j] : told[j][i] \in Verdicts
FirstVerdict(j, v) ==
  \E i \in DOMAIN told[j] :
    /\ v \in Verdicts /\ told[j][i] = v
    /\ \A k \in 1 .. i - 1 : told[j][k] \notin Verdicts

(* join returns what was generated, whole and in order: the held-back      *)
(* bytes are flushed before the reply fires, and the reply precedes the    *)
(* caller's Finished, so no text is queued behind it (emission.rs, finish  *)
(* and JobHandle::join).                                                   *)
JoinReturnsEverything ==
  \A j \in Jobs : caller[j] = "Returned" => heard[j] = [i \in 1 .. Produced(j) |-> i]

(* The reply is sent once, into a channel nobody has used and somebody is  *)
(* waiting on: the send can neither block the emission thread nor vanish,  *)
(* although the worker retires a failed request twice (emission.rs:43-46). *)
(* And it is the worker's first word on the request: an error is not       *)
(* overwritten by the retirement that follows it, and a request retired    *)
(* before the worker went is not reported lost with it.                    *)
ReplyOnceAndAwaited ==
  /\ \A f \in Range(finishing) : completion[f.job] = None /\ caller[f.job] = "Waiting"
  /\ \A j \in Jobs : answer[j] # None => FirstVerdict(j, answer[j])

(* Every answered request's caller wakes up, whatever its listener and the *)
(* listeners of the others do: a listener blocked on its client stalls     *)
(* nobody (job.rs:117-122, a_blocking_listener_must_not_stall_other_jobs). *)
RepliesReachCallers ==
  \A j \in Jobs : Decided(j) ~> caller[j] # "Waiting"
===============================================================================
