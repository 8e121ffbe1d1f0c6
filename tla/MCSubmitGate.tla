------------------------------ MODULE MCSubmitGate ------------------------------
(***************************************************************************)
(* Three submitters race for a queue of two, beside one other request;     *)
(* one worker dies and is replaced, and the second may die as well.        *)
(***************************************************************************)
EXTENDS SubmitGate

CONSTANTS a, b, d, r

MCSubmitters == {a, b, d}
MCRequesters == {r}
===============================================================================
