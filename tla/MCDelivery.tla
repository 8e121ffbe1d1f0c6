------------------------------- MODULE MCDelivery -------------------------------
(***************************************************************************)
(* Two requests, one of them with a listener that may panic.               *)
(***************************************************************************)
EXTENDS DeliveryProperties

CONSTANTS a, b

MCJobs == {a, b}
MCMortal == {b}
===============================================================================
