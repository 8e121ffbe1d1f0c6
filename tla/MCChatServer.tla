------------------------------ MODULE MCChatServer ------------------------------
(***************************************************************************)
(* Two models, B behind a batching channel and T behind a mutex. s1        *)
(* streams from B, to a client that may go away or stop reading; s2        *)
(* streams from either; p is a plain request for either, for a model that  *)
(* is not registered, or for the list of models. p, q and o together are   *)
(* two jobs in B's batch and a switch to T, which may come while one of    *)
(* them is evicted and the other has ended.                                *)
(***************************************************************************)
EXTENDS ChatProperties

CONSTANTS B, T, s1, s2, p, q, o

Nothing == [r \in Requests |-> Absent]
Ask3(x, y, z) == [Nothing EXCEPT ![s1] = x, ![s2] = y, ![p] = z]

Pairs ==
  {Ask3(B, Absent, T), Ask3(B, Absent, B), Ask3(Absent, T, B), Ask3(Absent, T, T),
   Ask3(Absent, T, Catalogue), Ask3(Absent, B, Nowhere), Ask3(Absent, B, B)}

Trio == [Nothing EXCEPT ![p] = B, ![q] = B, ![o] = T]

SomeRequests == Pairs \cup {Trio}
===============================================================================
