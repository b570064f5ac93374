------------------------------- MODULE Dispatcher -------------------------------
(****************************************************************************)
(* server/src/dispatcher: the rendezvous between the I/O threads of the     *)
(* server, which block in wait_for_response until the answer to their       *)
(* request arrives, and the thread that listens to the database, which      *)
(* calls dispatch when it does.                                             *)
(*                                                                          *)
(* The waiting thread keeps a RequestContext (a condition variable, a       *)
(* status and a flag) on its own stack and puts a pointer to it into the    *)
(* map pending_requests under map_mtx.  A step here is what a thread does   *)
(* between two points where another thread can intervene: taking the mutex, *)
(* blocking on the condition variable, waking up, and the writes dispatch   *)
(* makes through the pointer it found.                                      *)
(*                                                                          *)
(* Each member of Waits is one call of wait_for_response and each member    *)
(* of Notices one call of dispatch, so there is no bound on how many calls  *)
(* a thread makes other than the size of these sets.                        *)
(****************************************************************************)
EXTENDS Naturals, FiniteSets

CONSTANTS Waits,        \* the calls of wait_for_response
          Notices,      \* the calls of dispatch
          Ids,          \* request ids
          IdOf,         \* IdOf[w]: the argument id of call w
          MAX_PENDING,  \* capacity of the map (500 in the code)
          NoThread,     \* map_mtx is free
          NoCtx         \* the map has no entry for an id

ASSUME DispatcherAssumption ==
    /\ IsFiniteSet(Waits) /\ IsFiniteSet(Ids)
    /\ Waits \cap Notices = {}
    /\ IdOf \in [Waits -> Ids]
    /\ MAX_PENDING \in Nat \ {0}
    /\ NoThread \notin Waits \cup Notices
    /\ NoCtx \notin Waits

\* The ids of concurrent calls come from one database sequence (see
\* RequestIdSequence): where uniqueness matters it is assumed by this name.
IdsDistinct == \A v, w \in Waits : IdOf[v] = IdOf[w] => v = w

\* Statuses that callers of dispatch pass on.
Replies == {"SUCCESS", "DB_ERROR"}
ResponseStatus == Replies \cup {"PENDING", "TIMEOUT", "SYSTEM_FULL"}

VARIABLES
    mtx,               \* the holder of map_mtx, or NoThread
    pending_requests,  \* pending_requests[id]: the call whose ctx the entry
                       \* points to, or NoCtx
    pc,                \* where each call stands
    status, ready,     \* the fields of the ctx of each call of wait_for_response
    expired,           \* the deadline given to cv.wait_for has passed
    it,                \* it[d]: the ctx that the dispatch call d found
    result             \* what each call of wait_for_response returned

vars == <<mtx, pending_requests, pc, status, ready, expired, it, result>>
ctxVars == <<status, ready>>

WaitPC   == {"idle", "entry", "check", "blocked", "woken", "resumed",
             "leaving", "done"}
NoticePC == {"idle", "find", "notify", "unlock", "done"}

Init == /\ mtx = NoThread
        /\ pending_requests = [id \in Ids |-> NoCtx]
        /\ pc = [t \in Waits \cup Notices |-> "idle"]
        /\ status = [w \in Waits |-> "PENDING"]
        /\ ready = [w \in Waits |-> FALSE]
        /\ expired = [w \in Waits |-> FALSE]
        /\ it = [d \in Notices |-> NoCtx]
        /\ result = [w \in Waits |-> "PENDING"]

Registered == {id \in Ids : pending_requests[id] # NoCtx}

Goto(t, from, to) == /\ pc[t] = from
                     /\ pc' = [pc EXCEPT ![t] = to]

Lock(t)   == mtx = NoThread /\ mtx' = t
Unlock(t) == mtx = t /\ mtx' = NoThread

--------------------------------------------------------------------------------
(* Slips: each is an action below with a mistake one could make in the C++   *)
(* code.  They are in no specification; replacing the action by its slip     *)
(* must break the property named.                                            *)

\* ctx without default member initialisers (TypeOK)
Enter_Uninitialised(w) ==
    /\ Goto(w, "idle", "entry")
    /\ status' = [status EXCEPT ![w] = NoCtx]
    /\ UNCHANGED <<mtx, pending_requests, ready, expired, it, result>>

\* > instead of >= in the capacity test (CapacityRespected)
Register_OffByOne(w) ==
    /\ Goto(w, "check", "blocked")
    /\ Cardinality(Registered) <= MAX_PENDING
    /\ pending_requests' = [pending_requests EXCEPT ![IdOf[w]] = w]
    /\ Unlock(w)
    /\ UNCHANGED <<ctxVars, expired, it, result>>

\* the entry erased whenever the wait wakes up (WaiterReachable)
WaitAgain_Erasing(w) ==
    /\ Goto(w, "resumed", "blocked")
    /\ ~ready[w] /\ ~expired[w]
    /\ pending_requests' = [pending_requests EXCEPT ![IdOf[w]] = NoCtx]
    /\ Unlock(w)
    /\ UNCHANGED <<ctxVars, expired, it, result>>

\* cv.wait instead of cv.wait_for (EveryCallReturns)
WakeTimeout_Never(w) == expired[w] /\ Goto(w, "blocked", "woken") /\ UNCHANGED vars

\* the deadline tested before the flag (KeepsPromise)
Finish_DeadlineFirst(w) ==
    /\ Goto(w, "resumed", "leaving")
    /\ ready[w] \/ expired[w]
    /\ result' = [result EXCEPT ![w] = IF expired[w] THEN "TIMEOUT" ELSE status[w]]
    /\ pending_requests' = [pending_requests EXCEPT ![IdOf[w]] = NoCtx]
    /\ Unlock(w)
    /\ UNCHANGED <<ctxVars, expired, it>>

\* the erase left out on the way out (NoDanglingContext)
Finish_NoErase(w) ==
    /\ Goto(w, "resumed", "leaving")
    /\ ready[w] \/ expired[w]
    /\ result' = [result EXCEPT ![w] = IF ready[w] THEN status[w] ELSE "TIMEOUT"]
    /\ Unlock(w)
    /\ UNCHANGED <<pending_requests, ctxVars, expired, it>>

\* the mutex released before notify_one (NoDanglingContext)
Store_Unlocking(d, id, s) == LET w == pending_requests[id] IN
    /\ Goto(d, "find", "notify")
    /\ w # NoCtx
    /\ it' = [it EXCEPT ![d] = w]
    /\ status' = [status EXCEPT ![w] = s]
    /\ ready' = [ready EXCEPT ![w] = TRUE]
    /\ Unlock(d)
    /\ UNCHANGED <<pending_requests, expired, result>>

\* notify_one left out (NoLostWakeup)
Store_Silent(d, id, s) == LET w == pending_requests[id] IN
    /\ Goto(d, "find", "unlock")
    /\ w # NoCtx
    /\ it' = [it EXCEPT ![d] = w]
    /\ status' = [status EXCEPT ![w] = s]
    /\ ready' = [ready EXCEPT ![w] = TRUE]
    /\ UNCHANGED <<mtx, pending_requests, expired, result>>

--------------------------------------------------------------------------------
(* wait_for_response *)

\* The call starts: ctx is constructed on the stack of the caller.
Enter(w) == /\ Goto(w, "idle", "entry")
            /\ status' = [status EXCEPT ![w] = "PENDING"]
            /\ ready' = [ready EXCEPT ![w] = FALSE]
            /\ UNCHANGED <<mtx, pending_requests, expired, it, result>>

Acquire(w) == /\ Goto(w, "entry", "check")
              /\ Lock(w)
              /\ UNCHANGED <<pending_requests, ctxVars, expired, it, result>>

\* The early return when the map is full.
SystemFull(w) == /\ Goto(w, "check", "leaving")
                 /\ Cardinality(Registered) >= MAX_PENDING
                 /\ result' = [result EXCEPT ![w] = "SYSTEM_FULL"]
                 /\ Unlock(w)
                 /\ UNCHANGED <<pending_requests, ctxVars, expired, it>>

\* The entry is written (over an older one with the same id, if any) and
\* cv.wait_for, whose predicate is still false, releases the mutex and blocks.
Register(w) == /\ Goto(w, "check", "blocked")
               /\ Cardinality(Registered) < MAX_PENDING
               /\ pending_requests' = [pending_requests EXCEPT ![IdOf[w]] = w]
               /\ Unlock(w)
               /\ UNCHANGED <<ctxVars, expired, it, result>>

\* The deadline of the wait passes, whatever the thread is doing.
Expire(w) == /\ pc[w] \in {"blocked", "woken", "resumed"}
             /\ ~expired[w]
             /\ expired' = [expired EXCEPT ![w] = TRUE]
             /\ UNCHANGED <<mtx, pending_requests, pc, ctxVars, it, result>>

WakeTimeout(w) == /\ expired[w]
                  /\ Goto(w, "blocked", "woken")
                  /\ UNCHANGED <<mtx, pending_requests, ctxVars, expired, it, result>>

\* A condition variable may wake its waiter for no reason.
WakeSpurious(w) == /\ ~expired[w]
                   /\ Goto(w, "blocked", "woken")
                   /\ UNCHANGED <<mtx, pending_requests, ctxVars, expired, it, result>>

\* wait_for returns to its caller's code only after it holds the mutex again.
Reacquire(w) == /\ Goto(w, "woken", "resumed")
                /\ Lock(w)
                /\ UNCHANGED <<pending_requests, ctxVars, expired, it, result>>

\* Neither answered nor expired: the loop inside wait_for blocks again.
WaitAgain(w) == /\ Goto(w, "resumed", "blocked")
                /\ ~ready[w] /\ ~expired[w]
                /\ Unlock(w)
                /\ UNCHANGED <<pending_requests, ctxVars, expired, it, result>>

\* final_status is chosen, the entry erased by its key, and the mutex
\* released when the function returns.
Finish(w) == /\ Goto(w, "resumed", "leaving")
             /\ ready[w] \/ expired[w]
             /\ result' = [result EXCEPT ![w] = IF ready[w] THEN status[w]
                                                            ELSE "TIMEOUT"]
             /\ pending_requests' = [pending_requests EXCEPT ![IdOf[w]] = NoCtx]
             /\ Unlock(w)
             /\ UNCHANGED <<ctxVars, expired, it>>

\* ctx, declared before the lock, is destroyed after it.
Leave(w) == /\ Goto(w, "leaving", "done")
            /\ UNCHANGED <<mtx, pending_requests, ctxVars, expired, it, result>>

--------------------------------------------------------------------------------
(* dispatch *)

AcquireD(d) == /\ Goto(d, "idle", "find")
               /\ Lock(d)
               /\ UNCHANGED <<pending_requests, ctxVars, expired, it, result>>

\* find has no entry for the id: nothing happens.
NotFound(d, id) == /\ Goto(d, "find", "unlock")
                   /\ pending_requests[id] = NoCtx
                   /\ UNCHANGED <<mtx, pending_requests, ctxVars, expired, it, result>>

\* find succeeds: the status and the flag are stored through the pointer.
Store(d, id, s) == LET w == pending_requests[id] IN
                   /\ Goto(d, "find", "notify")
                   /\ w # NoCtx
                   /\ it' = [it EXCEPT ![d] = w]
                   /\ status' = [status EXCEPT ![w] = s]
                   /\ ready' = [ready EXCEPT ![w] = TRUE]
                   /\ UNCHANGED <<mtx, pending_requests, expired, result>>

\* cv.notify_one moves the thread out of the wait if it still is in it.
Notify(d) == /\ pc[d] = "notify"
             /\ pc' = [pc EXCEPT ![d] = "unlock",
                                 ![it[d]] = IF @ = "blocked" THEN "woken" ELSE @]
             /\ UNCHANGED <<mtx, pending_requests, ctxVars, expired, it, result>>

ReleaseD(d) == /\ Goto(d, "unlock", "done")
               /\ Unlock(d)
               /\ it' = [it EXCEPT ![d] = NoCtx]
               /\ UNCHANGED <<pending_requests, ctxVars, expired, result>>

--------------------------------------------------------------------------------
WaitStep(w) == \/ Acquire(w) \/ SystemFull(w) \/ Register(w) \/ WakeTimeout(w)
               \/ Reacquire(w) \/ WaitAgain(w) \/ Finish(w) \/ Leave(w)

NoticeStep(d) == \/ \E id \in Ids : NotFound(d, id)
                 \/ \E id \in Ids, s \in Replies : Store(d, id, s)
                 \/ Notify(d) \/ ReleaseD(d)

\* Every call has been made and has returned.
Terminated == /\ \A t \in Waits \cup Notices : pc[t] = "done"
              /\ UNCHANGED vars

Next == \/ \E w \in Waits : Enter(w) \/ Expire(w) \/ WakeSpurious(w) \/ WaitStep(w)
        \/ \E d \in Notices : AcquireD(d) \/ NoticeStep(d)
        \/ Terminated

Spec == Init /\ [][Next]_vars

\* Threads that can run do run and clocks advance; nothing makes a call start.
Fairness == /\ \A w \in Waits : WF_vars(WaitStep(w)) /\ WF_vars(Expire(w))
            /\ \A d \in Notices : WF_vars(NoticeStep(d))

FairSpec == Spec /\ Fairness

--------------------------------------------------------------------------------
(* Properties *)

TypeOK == /\ mtx \in Waits \cup Notices \cup {NoThread}
          /\ pending_requests \in [Ids -> Waits \cup {NoCtx}]
          /\ pc \in [Waits \cup Notices -> WaitPC \cup NoticePC]
          /\ \A w \in Waits : pc[w] \in WaitPC
          /\ \A d \in Notices : pc[d] \in NoticePC
          /\ status \in [Waits -> ResponseStatus]
          /\ ready \in [Waits -> BOOLEAN]
          /\ expired \in [Waits -> BOOLEAN]
          /\ it \in [Notices -> Waits \cup {NoCtx}]
          /\ result \in [Waits -> ResponseStatus]

\* The calls whose ctx exists: constructed and not yet destroyed.
Alive == {w \in Waits : pc[w] \notin {"idle", "done"}}

\* The comment at Dispatcher.cpp:31-35: no pointer to a ctx, neither one in
\* the map nor one dispatch is writing through, outlives that ctx, although
\* it lives on the stack of another thread.  Ids may collide.
NoDanglingContext == /\ \A id \in Registered : pending_requests[id] \in Alive
                     /\ \A d \in Notices : pc[d] = "notify" => it[d] \in Alive

\* No more than MAX_PENDING entries, whatever the order in which calls check
\* the size, register and leave (Dispatcher.cpp:39-45).
CapacityRespected == Cardinality(Registered) <= MAX_PENDING

\* As long as ids are distinct an answer can reach every call that waits: a
\* call between registering and finishing has its own entry in the map, which
\* nobody else overwrites or erases.
WaiterReachable == \A w \in Waits : pc[w] \in {"blocked", "woken", "resumed"}
                                      => pending_requests[IdOf[w]] = w

\* An answer is never stored without the wake-up that goes with it: a call
\* that is blocked with its flag set is about to be notified by the call of
\* dispatch that set it (Dispatcher.cpp:66-68).
NoLostWakeup == \A w \in Waits : pc[w] = "blocked" /\ ready[w]
                   => \E d \in Notices : pc[d] = "notify" /\ it[d] = w

\* Each call that starts returns, answered or not: no order of the locks,
\* the wake-ups and the deadline leaves it blocked for ever.
EveryCallReturns == \A w \in Waits : pc[w] = "entry" ~> pc[w] = "done"

\* The map, the mutex and the condition variable implement the promise of
\* RequestResponse: opening is the registration, an answer is heard when it
\* is stored, closing is the erasure.
PhaseOf(w) == CASE pc[w] \in {"idle", "entry", "check"}      -> "new"
                [] pc[w] \in {"blocked", "woken", "resumed"} -> "open"
                [] pc[w] \in {"leaving", "done"}             -> "closed"
AnswerOf(w) == IF ready[w] THEN status[w] ELSE "PENDING"

Promise == INSTANCE RequestResponse WITH
    phase  <- [w \in Waits |-> PhaseOf(w)],
    answer <- [w \in Waits |-> AnswerOf(w)]
KeepsPromise == Promise!Spec
================================================================================
