------------------------------ MODULE MCDispatcher ------------------------------
(****************************************************************************)
(* Instances of Dispatcher for TLC: three calls of wait_for_response, two   *)
(* of dispatch, and a map of two entries, so that the third waiter can find *)
(* it full, two answers can reach one call, and one can come for an id that *)
(* nobody waits for any more.                                               *)
(****************************************************************************)
EXTENDS Dispatcher, TLC

CONSTANTS w1, w2, w3, i1, i2, i3

MCIdOf == w1 :> i1 @@ w2 :> i2 @@ w3 :> i3
================================================================================
