---------------------------- MODULE MCLlamaDecoder ----------------------------
(***************************************************************************)
(* A small instance of the decoder: a few lanes over a pool that cannot    *)
(* hold a full window for each.                                            *)
(***************************************************************************)
EXTENDS CacheProperties, TLC
===============================================================================
