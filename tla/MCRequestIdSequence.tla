-------------------------- MODULE MCRequestIdSequence --------------------------
(* Two servers for RequestIdSequence, the first with two sessions.           *)
EXTENDS RequestIdSequence, TLC

CONSTANTS http, raw, c1, c2, c3

MCServerOf == (c1 :> http) @@ (c2 :> raw) @@ (c3 :> http)
================================================================================
