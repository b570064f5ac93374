--------------------------- MODULE Dispatcher_proofs ---------------------------
(****************************************************************************)
(* Proofs about Dispatcher, for any number of calls, any ids and any        *)
(* capacity of the map.                                                     *)
(****************************************************************************)
EXTENDS Dispatcher, FiniteSetTheorems, FunctionTheorems, TLAPS

\* A call is between taking and releasing map_mtx exactly when it holds it.
MutexInv == /\ \A w \in Waits   : pc[w] \in {"check", "resumed"} <=> mtx = w
            /\ \A d \in Notices : pc[d] \in {"find", "notify", "unlock"} <=> mtx = d

Waiting(w) == pc[w] \in {"blocked", "woken", "resumed"}

\* An entry points to a call that waits for this very id.
EntryInv == \A id \in Registered : /\ IdOf[pending_requests[id]] = id
                                   /\ Waiting(pending_requests[id])

\* While a call of dispatch is at notify_one, the entry it found is still there.
IteratorInv == \A d \in Notices : pc[d] = "notify" =>
                  /\ it[d] \in Waits
                  /\ pending_requests[IdOf[it[d]]] = it[d]

\* The inductive invariant that holds whether or not ids collide.
IInv == TypeOK /\ MutexInv /\ EntryInv /\ IteratorInv

USE DEF WaitPC, NoticePC, Replies, ResponseStatus, ctxVars, Goto, Lock, Unlock

--------------------------------------------------------------------------------
(* The type invariant.                                                      *)

\* Every step of a call of wait_for_response keeps every variable in its range.
LEMMA WaitTypes ==
  ASSUME TypeOK, NEW w \in Waits, Enter(w) \/ Expire(w) \/ WakeSpurious(w) \/ WaitStep(w)
  PROVE  TypeOK'
<1>. USE DispatcherAssumption DEF TypeOK
<1>1. CASE Enter(w)        BY <1>1 DEF Enter
<1>2. CASE Expire(w)       BY <1>2 DEF Expire
<1>3. CASE WakeSpurious(w) BY <1>3 DEF WakeSpurious
<1>4. CASE Acquire(w)      BY <1>4 DEF Acquire
<1>5. CASE SystemFull(w)   BY <1>5 DEF SystemFull
<1>6. CASE Register(w)     BY <1>6 DEF Register
<1>7. CASE WakeTimeout(w)  BY <1>7 DEF WakeTimeout
<1>8. CASE Reacquire(w)    BY <1>8 DEF Reacquire
<1>9. CASE WaitAgain(w)    BY <1>9 DEF WaitAgain
<1>10. CASE Finish(w)      BY <1>10 DEF Finish
<1>11. CASE Leave(w)       BY <1>11 DEF Leave
<1>. QED BY <1>1, <1>2, <1>3, <1>4, <1>5, <1>6, <1>7, <1>8, <1>9, <1>10, <1>11
         DEF WaitStep

\* So does every step of a call of dispatch.
LEMMA NoticeTypes ==
  ASSUME TypeOK, IteratorInv, NEW d \in Notices, AcquireD(d) \/ NoticeStep(d)
  PROVE  TypeOK'
<1>. USE DispatcherAssumption DEF TypeOK
<1>1. CASE AcquireD(d) BY <1>1 DEF AcquireD
<1>2. ASSUME NEW id \in Ids, NotFound(d, id) PROVE TypeOK'
  BY <1>2 DEF NotFound
<1>3. ASSUME NEW id \in Ids, NEW s \in Replies, Store(d, id, s) PROVE TypeOK'
  BY <1>3 DEF Store
<1>4. CASE Notify(d)   BY <1>4 DEF Notify, IteratorInv
<1>5. CASE ReleaseD(d) BY <1>5 DEF ReleaseD
<1>. QED BY <1>1, <1>2, <1>3, <1>4, <1>5 DEF NoticeStep

--------------------------------------------------------------------------------
(* The inductive invariant.                                                 *)

\* IInv holds at the start: the mutex is free and the map is empty.
LEMMA InitIInv == Init => IInv
  BY DispatcherAssumption
  DEF Init, IInv, TypeOK, MutexInv, EntryInv, IteratorInv, Registered

\* The mutex is exclusive, and the entries and iterators it protects stay
\* valid, when a call of wait_for_response takes a step.
LEMMA WaitIInv ==
  ASSUME IInv, NEW w \in Waits, Enter(w) \/ Expire(w) \/ WakeSpurious(w) \/ WaitStep(w)
  PROVE  IInv'
<1>. USE DispatcherAssumption
         DEF IInv, TypeOK, MutexInv, EntryInv, IteratorInv, Registered, Waiting
<1>. TypeOK' BY WaitTypes
<1>1. CASE Enter(w)        BY <1>1 DEF Enter
<1>2. CASE Expire(w)       BY <1>2 DEF Expire
<1>3. CASE WakeSpurious(w) BY <1>3 DEF WakeSpurious
<1>4. CASE Acquire(w)      BY <1>4 DEF Acquire
<1>5. CASE SystemFull(w)   BY <1>5 DEF SystemFull
<1>6. CASE Register(w)
  <2>1. MutexInv'    BY <1>6 DEF Register
  <2>2. EntryInv'    BY <1>6 DEF Register
  <2>3. IteratorInv' BY <1>6 DEF Register
  <2>. QED BY <2>1, <2>2, <2>3
<1>7. CASE WakeTimeout(w)  BY <1>7 DEF WakeTimeout
<1>8. CASE Reacquire(w)    BY <1>8 DEF Reacquire
<1>9. CASE WaitAgain(w)    BY <1>9 DEF WaitAgain
<1>10. CASE Finish(w)
  <2>1. MutexInv'    BY <1>10 DEF Finish
  <2>2. EntryInv'    BY <1>10 DEF Finish
  <2>3. IteratorInv' BY <1>10 DEF Finish
  <2>. QED BY <2>1, <2>2, <2>3
<1>11. CASE Leave(w)       BY <1>11 DEF Leave
<1>. QED BY <1>1, <1>2, <1>3, <1>4, <1>5, <1>6, <1>7, <1>8, <1>9, <1>10, <1>11
         DEF WaitStep

\* The same for a step of a call of dispatch.
LEMMA NoticeIInv ==
  ASSUME IInv, NEW d \in Notices, AcquireD(d) \/ NoticeStep(d)
  PROVE  IInv'
<1>. USE DispatcherAssumption
         DEF IInv, TypeOK, MutexInv, EntryInv, IteratorInv, Registered, Waiting
<1>. TypeOK' BY NoticeTypes
<1>1. CASE AcquireD(d) BY <1>1 DEF AcquireD
<1>2. ASSUME NEW id \in Ids, NotFound(d, id) PROVE IInv'
  BY <1>2 DEF NotFound
<1>3. ASSUME NEW id \in Ids, NEW s \in Replies, Store(d, id, s) PROVE IInv'
  <2>1. MutexInv'    BY <1>3 DEF Store
  <2>2. EntryInv'    BY <1>3 DEF Store
  <2>3. IteratorInv' BY <1>3 DEF Store
  <2>. QED BY <2>1, <2>2, <2>3
<1>4. CASE Notify(d)
  <2>1. it[d] \in Waits BY <1>4 DEF Notify
  <2>2. MutexInv'    BY <1>4, <2>1 DEF Notify
  <2>3. EntryInv'    BY <1>4, <2>1 DEF Notify
  <2>4. IteratorInv' BY <1>4, <2>1 DEF Notify
  <2>. QED BY <2>2, <2>3, <2>4
<1>5. CASE ReleaseD(d) BY <1>5 DEF ReleaseD
<1>. QED BY <1>1, <1>2, <1>3, <1>4, <1>5 DEF NoticeStep

\* Every step, and every step that changes nothing, keeps IInv.
LEMMA NextIInv == IInv /\ [Next]_vars => IInv'
<1>. SUFFICES ASSUME IInv, [Next]_vars PROVE IInv'
  OBVIOUS
<1>1. CASE UNCHANGED vars
  BY <1>1 DEF vars, IInv, TypeOK, MutexInv, EntryInv, IteratorInv, Registered, Waiting
<1>2. CASE Terminated BY <1>1, <1>2 DEF Terminated
<1>. QED BY <1>1, <1>2, WaitIInv, NoticeIInv DEF Next

\* Every reachable state satisfies the inductive invariant.
THEOREM Invariance == Spec => []IInv
  BY InitIInv, NextIInv, PTL DEF Spec

\* Every variable stays in its range, the fields of a ctx included.
THEOREM TypeCorrect == Spec => []TypeOK
  BY Invariance, PTL DEF IInv

\* The claim of the comment at Dispatcher.cpp:31-35, for every number of
\* threads and even for colliding ids: no pointer to a ctx outlives it.
THEOREM ContextSafety == Spec => []NoDanglingContext
<1>1. IInv => NoDanglingContext
  <2>. SUFFICES ASSUME IInv PROVE NoDanglingContext
    OBVIOUS
  <2>. USE DispatcherAssumption DEF IInv, TypeOK, Waiting
  <2>1. \A id \in Registered : pending_requests[id] \in Alive
    BY DEF EntryInv, Registered, Alive
  <2>2. ASSUME NEW d \in Notices, pc[d] = "notify" PROVE it[d] \in Alive
    BY <2>2 DEF IteratorInv, EntryInv, Registered, Alive
  <2>. QED BY <2>1, <2>2 DEF NoDanglingContext
<1>. QED BY <1>1, Invariance, PTL

--------------------------------------------------------------------------------
(* Capacity and wake-ups.                                                   *)

\* The map only ever holds entries of the finitely many calls.
LEMMA RegisteredFinite == /\ IsFiniteSet(Registered)
                          /\ Cardinality(Registered) \in Nat
  BY DispatcherAssumption, FS_Subset, FS_CardinalityType DEF Registered

\* Removing entries, or leaving the map alone, cannot exceed the capacity.
LEMMA ShrinkingIsSafe ==
  ASSUME CapacityRespected, Registered' \subseteq Registered
  PROVE  CapacityRespected'
<1>1. Cardinality(Registered') <= Cardinality(Registered)
  BY RegisteredFinite, FS_Subset
<1>2. Cardinality(Registered') \in Nat
  BY RegisteredFinite, FS_Subset, FS_CardinalityType
<1>. QED BY <1>1, <1>2, RegisteredFinite, DispatcherAssumption DEF CapacityRespected

\* The size test and the insertion are one critical section, so the bound of
\* Dispatcher.cpp:39 holds whatever the interleaving.
THEOREM CapacityBound == Spec => []CapacityRespected
<1>. USE DispatcherAssumption
<1>1. Init => CapacityRespected
  <2>1. Init => Registered = {} BY DEF Init, Registered
  <2>. QED BY <2>1, FS_EmptySet DEF CapacityRespected
<1>2. TypeOK /\ CapacityRespected /\ [Next]_vars => CapacityRespected'
  <2>. SUFFICES ASSUME TypeOK, CapacityRespected, [Next]_vars
                PROVE  CapacityRespected'
    OBVIOUS
  <2>1. ASSUME NEW w \in Waits, Register(w) PROVE CapacityRespected'
    <3>1. Registered' = Registered \cup {IdOf[w]}
      BY <2>1 DEF Register, Registered, TypeOK
    <3>2. Cardinality(Registered \cup {IdOf[w]}) =
            IF IdOf[w] \in Registered THEN Cardinality(Registered)
                                     ELSE Cardinality(Registered) + 1
      BY RegisteredFinite, FS_AddElement, Zenon
    <3>3. Cardinality(Registered \cup {IdOf[w]}) <= Cardinality(Registered) + 1
      BY <3>2, RegisteredFinite
    <3>4. Cardinality(Registered) < MAX_PENDING BY <2>1 DEF Register
    <3>. QED BY <3>1, <3>2, <3>3, <3>4, RegisteredFinite DEF CapacityRespected
  <2>2. ASSUME NEW w \in Waits, Finish(w) PROVE CapacityRespected'
    BY <2>2, ShrinkingIsSafe DEF Finish, Registered, TypeOK
  <2>3. CASE UNCHANGED pending_requests
    BY <2>3, ShrinkingIsSafe DEF Registered
  <2>. QED
    BY <2>1, <2>2, <2>3 DEF Next, vars, Terminated, WaitStep, NoticeStep,
       Enter, Expire, WakeSpurious, Acquire, SystemFull, WakeTimeout, Reacquire,
       WaitAgain, Leave, AcquireD, NotFound, Store, Notify, ReleaseD
<1>. QED BY <1>1, <1>2, TypeCorrect, PTL DEF Spec

\* A ctx has no answer before its call is registered, and an answer is one of
\* the statuses that callers of dispatch pass.
AnswerInv == \A w \in Waits :
                /\ pc[w] \in {"idle", "entry", "check"} => ~ready[w]
                /\ ready[w] => status[w] \in Replies

\* Every step keeps the wake-ups and the answers paired: a flag that is set
\* comes with a status, and with a notification to a call that is blocked.
LEMMA NextAnswerInv ==
  IInv /\ NoLostWakeup /\ AnswerInv /\ [Next]_vars => NoLostWakeup' /\ AnswerInv'
<1>. SUFFICES ASSUME IInv, NoLostWakeup, AnswerInv, [Next]_vars
              PROVE  NoLostWakeup' /\ AnswerInv'
  OBVIOUS
<1>. USE DispatcherAssumption DEF NoLostWakeup, AnswerInv, IInv, TypeOK, MutexInv
<1>1. ASSUME NEW w \in Waits, Enter(w) PROVE NoLostWakeup' /\ AnswerInv'
  BY <1>1 DEF Enter
<1>2. ASSUME NEW w \in Waits, Expire(w) PROVE NoLostWakeup' /\ AnswerInv'
  BY <1>2 DEF Expire
<1>3. ASSUME NEW w \in Waits, WakeSpurious(w) PROVE NoLostWakeup' /\ AnswerInv'
  BY <1>3 DEF WakeSpurious
<1>4. ASSUME NEW w \in Waits, WaitStep(w) PROVE NoLostWakeup' /\ AnswerInv'
  <2>1. CASE Acquire(w)     BY <2>1 DEF Acquire
  <2>2. CASE SystemFull(w)  BY <2>2 DEF SystemFull
  <2>3. CASE Register(w)    BY <2>3 DEF Register
  <2>4. CASE WakeTimeout(w) BY <2>4 DEF WakeTimeout
  <2>5. CASE Reacquire(w)   BY <2>5 DEF Reacquire
  <2>6. CASE WaitAgain(w)   BY <2>6 DEF WaitAgain
  <2>7. CASE Finish(w)      BY <2>7 DEF Finish
  <2>8. CASE Leave(w)       BY <2>8 DEF Leave
  <2>. QED BY <1>4, <2>1, <2>2, <2>3, <2>4, <2>5, <2>6, <2>7, <2>8 DEF WaitStep
<1>5. ASSUME NEW d \in Notices, AcquireD(d) PROVE NoLostWakeup' /\ AnswerInv'
  BY <1>5 DEF AcquireD
<1>6. ASSUME NEW d \in Notices, NEW id \in Ids, NotFound(d, id)
      PROVE  NoLostWakeup' /\ AnswerInv'
  BY <1>6 DEF NotFound
<1>7. ASSUME NEW d \in Notices, NEW id \in Ids, NEW s \in Replies, Store(d, id, s)
      PROVE  NoLostWakeup' /\ AnswerInv'
  <2>1. Waiting(pending_requests[id]) /\ pending_requests[id] \in Waits
    BY <1>7 DEF Store, EntryInv, Registered
  <2>2. NoLostWakeup' BY <1>7, <2>1 DEF Store
  <2>3. AnswerInv'    BY <1>7, <2>1 DEF Store, Waiting
  <2>. QED BY <2>2, <2>3
<1>8. ASSUME NEW d \in Notices, Notify(d) PROVE NoLostWakeup' /\ AnswerInv'
  <2>1. it[d] \in Waits /\ Waiting(it[d])
    BY <1>8 DEF Notify, IteratorInv, EntryInv, Registered
  <2>2. NoLostWakeup' BY <1>8, <2>1 DEF Notify
  <2>3. AnswerInv'    BY <1>8, <2>1 DEF Notify, Waiting
  <2>. QED BY <2>2, <2>3
<1>9. ASSUME NEW d \in Notices, ReleaseD(d) PROVE NoLostWakeup' /\ AnswerInv'
  BY <1>9 DEF ReleaseD
<1>10. CASE UNCHANGED vars
  BY <1>10 DEF vars
<1>. QED BY <1>1, <1>2, <1>3, <1>4, <1>5, <1>6, <1>7, <1>8, <1>9, <1>10
         DEF Next, NoticeStep, Terminated

\* The pairing above in every reachable state (Dispatcher.cpp:60-68).
LEMMA AnswersSound == Spec => [](NoLostWakeup /\ AnswerInv)
<1>1. Init => NoLostWakeup /\ AnswerInv
  BY DispatcherAssumption DEF Init, NoLostWakeup, AnswerInv
<1>. QED BY <1>1, NextAnswerInv, Invariance, PTL DEF Spec

\* Setting the flag and notifying are not separable by a waiter: a call that
\* is blocked with its flag set is about to be woken (Dispatcher.cpp:66-68).
THEOREM WakeupNotLost == Spec => []NoLostWakeup
  BY AnswersSound, PTL

--------------------------------------------------------------------------------
(* Distinct ids: every waiter is reachable, and the promise is kept.        *)

\* With distinct ids nobody overwrites or erases the entry of another call, so
\* an answer can reach every call that waits (Dispatcher.cpp:45, 51).
THEOREM Reachability ==
  ASSUME IdsDistinct
  PROVE  Spec => []WaiterReachable
<1>. USE DispatcherAssumption DEF WaiterReachable, IInv, TypeOK, Waiting
<1>1. Init => WaiterReachable
  BY DEF Init
<1>2. IInv /\ WaiterReachable /\ [Next]_vars => WaiterReachable'
  <2>. SUFFICES ASSUME IInv, WaiterReachable, [Next]_vars PROVE WaiterReachable'
    OBVIOUS
  <2>1. ASSUME NEW w \in Waits, WaitStep(w) PROVE WaiterReachable'
    <3>1. CASE Acquire(w)     BY <3>1 DEF Acquire
    <3>2. CASE SystemFull(w)  BY <3>2 DEF SystemFull
    <3>3. CASE Register(w)    BY <3>3, IdsDistinct DEF Register, IdsDistinct
    <3>4. CASE WakeTimeout(w) BY <3>4 DEF WakeTimeout
    <3>5. CASE Reacquire(w)   BY <3>5 DEF Reacquire
    <3>6. CASE WaitAgain(w)   BY <3>6 DEF WaitAgain
    <3>7. CASE Finish(w)      BY <3>7, IdsDistinct DEF Finish, IdsDistinct
    <3>8. CASE Leave(w)       BY <3>8 DEF Leave
    <3>. QED BY <2>1, <3>1, <3>2, <3>3, <3>4, <3>5, <3>6, <3>7, <3>8 DEF WaitStep
  <2>2. ASSUME NEW w \in Waits, Enter(w) \/ Expire(w) \/ WakeSpurious(w)
        PROVE  WaiterReachable'
    BY <2>2 DEF Enter, Expire, WakeSpurious
  <2>3. ASSUME NEW d \in Notices, Notify(d) PROVE WaiterReachable'
    <3>1. it[d] \in Waits /\ pending_requests[IdOf[it[d]]] = it[d]
      BY <2>3 DEF Notify, IteratorInv
    <3>. QED BY <2>3, <3>1 DEF Notify
  <2>4. ASSUME NEW d \in Notices, AcquireD(d) \/ NoticeStep(d), ~Notify(d)
        PROVE  WaiterReachable'
    BY <2>4 DEF AcquireD, NoticeStep, NotFound, Store, ReleaseD
  <2>5. CASE UNCHANGED vars BY <2>5 DEF vars
  <2>. QED BY <2>1, <2>2, <2>3, <2>4, <2>5 DEF Next, Terminated
<1>. QED BY <1>1, <1>2, Invariance, PTL DEF Spec

\* What the phase of the abstract call tells of the place of the real one.
LEMMA PhaseFacts ==
  ASSUME TypeOK, NEW w \in Waits
  PROVE  /\ PhaseOf(w) = "new"    <=> pc[w] \in {"idle", "entry", "check"}
         /\ PhaseOf(w) = "open"   <=> Waiting(w)
         /\ PhaseOf(w) = "closed" <=> pc[w] \in {"leaving", "done"}
<1>1. pc[w] \in WaitPC BY DEF TypeOK
<1>2. CASE pc[w] \in {"idle", "entry", "check"} BY <1>2 DEF PhaseOf, Waiting
<1>3. CASE Waiting(w) BY <1>3 DEF PhaseOf, Waiting
<1>4. CASE pc[w] \in {"leaving", "done"} BY <1>4 DEF PhaseOf, Waiting
<1>. QED BY <1>1, <1>2, <1>3, <1>4 DEF Waiting

\* The map has one entry for each open call.
LEMMA OneEntryPerOpenCall ==
  ASSUME IdsDistinct, IInv, WaiterReachable
  PROVE  Cardinality(Promise!Opened) = Cardinality(Registered)
<1>. DEFINE f == [id \in Registered |-> pending_requests[id]]
<1>1. Promise!Opened = {w \in Waits : Waiting(w)}
  BY PhaseFacts DEF Promise!Opened, IInv
<1>2. f \in [Registered -> Promise!Opened]
  BY <1>1, DispatcherAssumption DEF IInv, TypeOK, EntryInv, Registered
<1>3. \A i, j \in Registered : f[i] = f[j] => i = j
  BY DEF IInv, EntryInv
<1>4. \A w \in Promise!Opened : \E id \in Registered : f[id] = w
  BY <1>1, DispatcherAssumption DEF WaiterReachable, Waiting, Registered
<1>5. f \in Bijection(Registered, Promise!Opened)
  BY <1>2, <1>3, <1>4 DEF Bijection, Injection, Surjection, IsInjective
<1>6. ExistsBijection(Registered, Promise!Opened)
  BY <1>5 DEF ExistsBijection
<1>. QED BY <1>6, RegisteredFinite, FS_Bijection

\* The initial states of the dispatcher are initial states of the promise.
LEMMA InitRefines == Init => Promise!Init
  BY DispatcherAssumption DEF Init, Promise!Init, PhaseOf, AnswerOf

\* Every step of the dispatcher is a step of the promise or leaves it alone.
LEMMA StepRefines ==
  ASSUME IdsDistinct, IInv, AnswerInv, WaiterReachable, [Next]_vars
  PROVE  [Promise!Next]_(Promise!vars)
<1>. DEFINE Stutter == /\ \A v \in Waits : PhaseOf(v)' = PhaseOf(v)
                       /\ \A v \in Waits : AnswerOf(v)' = AnswerOf(v)
                       /\ result' = result
<1>1. Stutter => UNCHANGED Promise!vars
  BY DEF Promise!vars
<1>. HIDE DEF Stutter
<1>. USE DispatcherAssumption DEF IInv, TypeOK, Waiting, PhaseOf, AnswerOf
<1>2. ASSUME NEW w \in Waits, Register(w) PROVE Promise!Open(w)
  <2>1. \A v \in Waits : AnswerOf(v)' = AnswerOf(v) BY <1>2 DEF Register
  <2>2. PhaseOf(w) = "new" /\ PhaseOf(w)' = "open" BY <1>2 DEF Register
  <2>3. \A v \in Waits : v # w => PhaseOf(v)' = PhaseOf(v) BY <1>2 DEF Register
  <2>4. Promise!Cardinality(Promise!Opened) < MAX_PENDING
    BY <1>2, OneEntryPerOpenCall DEF Register, Cardinality, Promise!Cardinality
  <2>5. result' = result BY <1>2 DEF Register
  <2>. HIDE DEF PhaseOf, AnswerOf
  <2>. QED BY <2>1, <2>2, <2>3, <2>4, <2>5 DEF Promise!Open
<1>3. ASSUME NEW w \in Waits, SystemFull(w) PROVE Promise!Refuse(w)
  <2>1. \A v \in Waits : AnswerOf(v)' = AnswerOf(v) BY <1>3 DEF SystemFull
  <2>2. PhaseOf(w) = "new" /\ PhaseOf(w)' = "closed" BY <1>3 DEF SystemFull
  <2>3. \A v \in Waits : v # w => PhaseOf(v)' = PhaseOf(v) BY <1>3 DEF SystemFull
  <2>4. Promise!Cardinality(Promise!Opened) >= MAX_PENDING
    BY <1>3, OneEntryPerOpenCall DEF SystemFull, Cardinality, Promise!Cardinality
  <2>5. result' = [result EXCEPT ![w] = "SYSTEM_FULL"] BY <1>3 DEF SystemFull
  <2>. HIDE DEF PhaseOf, AnswerOf
  <2>. QED BY <2>1, <2>2, <2>3, <2>4, <2>5 DEF Promise!Refuse
<1>4. ASSUME NEW w \in Waits, Finish(w) PROVE Promise!Close(w)
  <2>1. \A v \in Waits : AnswerOf(v)' = AnswerOf(v) BY <1>4 DEF Finish
  <2>2. PhaseOf(w) = "open" /\ PhaseOf(w)' = "closed" BY <1>4 DEF Finish
  <2>3. \A v \in Waits : v # w => PhaseOf(v)' = PhaseOf(v) BY <1>4 DEF Finish
  <2>4. result' = [result EXCEPT ![w] = IF AnswerOf(w) = "PENDING"
                                        THEN "TIMEOUT" ELSE AnswerOf(w)]
    BY <1>4 DEF Finish, AnswerInv
  <2>. HIDE DEF PhaseOf, AnswerOf
  <2>. QED BY <2>1, <2>2, <2>3, <2>4 DEF Promise!Close
<1>5. ASSUME NEW d \in Notices, NEW id \in Ids, NEW s \in Replies, Store(d, id, s)
      PROVE  Promise!Answer(id, s)
  <2>. DEFINE w == pending_requests[id]
  <2>1. w \in Waits /\ IdOf[w] = id /\ Waiting(w)
    BY <1>5 DEF Store, EntryInv, Registered
  <2>2. \A v \in Waits : PhaseOf(v) = "open" /\ IdOf[v] = id <=> v = w
    BY <2>1, PhaseFacts DEF WaiterReachable
  <2>3. \A v \in Waits : PhaseOf(v)' = PhaseOf(v) BY <1>5 DEF Store
  <2>4. \A v \in Waits : AnswerOf(v)' = IF v = w THEN s ELSE AnswerOf(v)
    BY <1>5, <2>1 DEF Store
  <2>5. result' = result BY <1>5 DEF Store
  <2>6. \A v \in Waits : v \in Promise!Opened /\ IdOf[v] = id <=> v = w
    BY <2>2 DEF Promise!Opened
  <2>. HIDE DEF PhaseOf, AnswerOf, w
  <2>. QED BY <2>3, <2>4, <2>5, <2>6 DEF Promise!Answer
<1>6. ASSUME NEW w \in Waits, Enter(w) PROVE Stutter
  BY <1>6 DEF Enter, Stutter, AnswerInv
<1>7. ASSUME NEW w \in Waits,
             Expire(w) \/ WakeSpurious(w) \/ Acquire(w) \/ WakeTimeout(w)
               \/ Reacquire(w) \/ WaitAgain(w) \/ Leave(w)
      PROVE  Stutter
  BY <1>7 DEF Expire, WakeSpurious, Acquire, WakeTimeout, Reacquire, WaitAgain,
              Leave, Stutter
<1>8. ASSUME NEW d \in Notices, AcquireD(d) \/ ReleaseD(d) PROVE Stutter
  BY <1>8 DEF AcquireD, ReleaseD, Stutter
<1>9. ASSUME NEW d \in Notices, NEW id \in Ids, NotFound(d, id) PROVE Stutter
  BY <1>9 DEF NotFound, Stutter
<1>10. ASSUME NEW d \in Notices, Notify(d) PROVE Stutter
  <2>1. it[d] \in Waits BY <1>10 DEF Notify, IteratorInv
  <2>. QED BY <1>10, <2>1 DEF Notify, Stutter
<1>11. CASE UNCHANGED vars
  BY <1>11, <1>1 DEF vars, Stutter
<1>. QED
  BY <1>1, <1>2, <1>3, <1>4, <1>5, <1>6, <1>7, <1>8, <1>9, <1>10, <1>11
  DEF Next, WaitStep, NoticeStep, Terminated, Promise!Next, Promise!Replies

\* With distinct ids the dispatcher implements RequestResponse: an answer that
\* arrives while a call is open is what the call returns, TIMEOUT means there
\* was none, and SYSTEM_FULL that MAX_PENDING calls were open.
THEOREM Implementation ==
  ASSUME IdsDistinct
  PROVE  Spec => Promise!SafetySpec
<1>1. IInv /\ AnswerInv /\ WaiterReachable /\ [Next]_vars => [Promise!Next]_(Promise!vars)
  BY IdsDistinct, StepRefines
<1>. QED BY <1>1, InitRefines, Invariance, AnswersSound, Reachability, IdsDistinct, PTL
         DEF Spec, Promise!SafetySpec
================================================================================
