---------------------------- MODULE MCConfigPipeline ----------------------------
(****************************************************************************)
(* Instances of ConfigPipeline for TLC.  Both requests are about the same   *)
(* sensor, so that they can meet in every queue.                            *)
(****************************************************************************)
EXTENDS ConfigPipeline, TLC

CONSTANTS s1

MCTarget == 1 :> s1 @@ 2 :> s1
MCTarget1 == 1 :> s1
================================================================================
