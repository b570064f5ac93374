---------------------------- MODULE RequestResponse ----------------------------
(****************************************************************************)
(* What server/src/dispatcher promises to its callers, with no mutex, no    *)
(* map and no condition variable: a call is either refused because too many *)
(* are open, or it is opened; while it is open an answer for its id sticks  *)
(* to it, the last one winning; and it is closed with that answer, or with  *)
(* TIMEOUT when there was none.                                             *)
(****************************************************************************)
EXTENDS Naturals, FiniteSets

CONSTANTS Waits,        \* the calls of wait_for_response
          Ids,          \* request ids
          IdOf,         \* IdOf[w]: the id that call w waits for
          MAX_PENDING   \* how many calls may be open at once

Replies == {"SUCCESS", "DB_ERROR"}

VARIABLES phase,   \* phase[w]: "new", "open" or "closed"
          answer,  \* answer[w]: what the call has been told so far, or "PENDING"
          result   \* result[w]: what the call returned, or "PENDING"

vars == <<phase, answer, result>>

Init == /\ phase  = [w \in Waits |-> "new"]
        /\ answer = [w \in Waits |-> "PENDING"]
        /\ result = [w \in Waits |-> "PENDING"]

Opened == {w \in Waits : phase[w] = "open"}

Open(w) == /\ phase[w] = "new"
           /\ Cardinality(Opened) < MAX_PENDING
           /\ phase' = [phase EXCEPT ![w] = "open"]
           /\ UNCHANGED <<answer, result>>

Refuse(w) == /\ phase[w] = "new"
             /\ Cardinality(Opened) >= MAX_PENDING
             /\ phase'  = [phase EXCEPT ![w] = "closed"]
             /\ result' = [result EXCEPT ![w] = "SYSTEM_FULL"]
             /\ UNCHANGED answer

\* Every open call with this id hears the answer; an id nobody waits for is
\* dropped.
Answer(id, s) ==
    /\ answer' = [w \in Waits |-> IF w \in Opened /\ IdOf[w] = id
                                  THEN s ELSE answer[w]]
    /\ UNCHANGED <<phase, result>>

Close(w) == /\ phase[w] = "open"
            /\ phase'  = [phase EXCEPT ![w] = "closed"]
            /\ result' = [result EXCEPT ![w] = IF answer[w] = "PENDING"
                                               THEN "TIMEOUT" ELSE answer[w]]
            /\ UNCHANGED answer

Next == \/ \E w \in Waits : Open(w) \/ Refuse(w) \/ Close(w)
        \/ \E id \in Ids, s \in Replies : Answer(id, s)

SafetySpec == Init /\ [][Next]_vars

\* An open call is closed one day: the wait is bounded by its timeout.
Spec == SafetySpec /\ \A w \in Waits : WF_vars(Close(w))
================================================================================
