------------------------ MODULE RequestIdSequence_proofs ------------------------
(****************************************************************************)
(* Proofs about RequestIdSequence, for any number of servers and sessions.  *)
(****************************************************************************)
EXTENDS RequestIdSequence, TLAPS

Typed == /\ server \in [Servers -> {"down", "connected", "blocked", "created", "read",
                                    "ready", "failed"}]
         /\ snap \in [Servers -> Nat]
         /\ seq \in Nat /\ rows \subseteq Nat
         /\ stage \in [Sessions -> {"idle", "drawn", "waiting", "done"}]
         /\ id \in [Sessions -> Nat]

\* No persisted id and no id under way is above n.
Bound(n) == /\ \A r \in rows : r <= n
            /\ \A c \in Sessions : Live(c) => id[c] <= n

\* Once a server is ready, the sequence has passed every id in use; a server
\* that is about to set it will not set it back.
Passed == \A s \in Servers : /\ server[s] = "ready" => Bound(seq)
                             /\ server[s] = "read" => Bound(snap[s])

IInv == Typed /\ Passed /\ UniqueInFlight /\ DrawnIsFree

--------------------------------------------------------------------------------
\* IInv holds before any server has started.
LEMMA InitIInv == Init => IInv
  BY SequenceAssumption
  DEF Init, IInv, Typed, Passed, UniqueInFlight, DrawnIsFree, Live

\* Start steps and faults draw nothing and insert nothing.
LEMMA ServerIInv ==
  ASSUME IInv, NEW s \in Servers, StartStep(s) \/ (Quiet /\ ReadMax(s)) \/ FaultStep(s)
  PROVE  IInv'
<1>. USE SequenceAssumption DEF startVars, sessionVars, Move, Live
<1>. Typed /\ Passed /\ UniqueInFlight /\ DrawnIsFree
  BY DEF IInv
<1>1. CASE Connect(s) \/ CreateSequence(s) \/ CreateResumes(s) \/ SetvalFails(s) \/ LinkBreaks(s)
  <2>1. /\ UNCHANGED <<snap, seq, rows, stage, id>>
        /\ \E to \in {"connected", "created", "blocked", "failed"} :
              server' = [server EXCEPT ![s] = to] \/ UNCHANGED server
    BY <1>1 DEF Connect, CreateSequence, CreateResumes, SetvalFails, LinkBreaks
  <2>2. Typed' BY <2>1 DEF Typed
  <2>3. Passed' BY <2>1 DEF Passed, Bound, Typed
  <2>4. UniqueInFlight' /\ DrawnIsFree' BY <2>1 DEF UniqueInFlight, DrawnIsFree
  <2>. QED BY <2>2, <2>3, <2>4 DEF IInv
<1>2. CASE Setval(s)
  <2>1. /\ server[s] = "read" /\ seq' = snap[s]
        /\ server' = [server EXCEPT ![s] = "ready"]
        /\ UNCHANGED <<snap, rows, stage, id>>
    BY <1>2 DEF Setval
  <2>2. Typed' BY <2>1 DEF Typed
  <2>3. Bound(seq)' BY <2>1 DEF Passed, Bound
  <2>4. Passed' BY <2>1, <2>3 DEF Passed, Bound, Typed
  <2>5. UniqueInFlight' /\ DrawnIsFree' BY <2>1 DEF UniqueInFlight, DrawnIsFree
  <2>. QED BY <2>2, <2>4, <2>5 DEF IInv
<1>3. CASE Quiet /\ ReadMax(s)
  <2>1. PICK m \in rows \cup {0} : /\ IsMaximum(m)
                                   /\ server' = [server EXCEPT ![s] = "read"]
                                   /\ snap' = [snap EXCEPT ![s] = m]
                                   /\ UNCHANGED <<seq, rows, stage, id>>
    BY <1>3 DEF ReadMax
  <2>2. m \in Nat /\ Bound(m)
    BY <1>3, <2>1 DEF Quiet, IsMaximum, Bound, Typed
  <2>3. Typed' BY <2>1, <2>2 DEF Typed
  <2>4. Passed' BY <2>1, <2>2 DEF Passed, Bound, Typed
  <2>5. UniqueInFlight' /\ DrawnIsFree' BY <2>1 DEF UniqueInFlight, DrawnIsFree
  <2>. QED BY <2>3, <2>4, <2>5 DEF IInv
<1>4. CASE Crash(s)
  <2>1. /\ server' = [server EXCEPT ![s] = "down"]
        /\ stage' = [c \in Sessions |->
              IF ServerOf[c] = s /\ stage[c] # "idle" THEN "done" ELSE stage[c]]
        /\ UNCHANGED <<snap, seq, rows, id>>
    BY <1>4 DEF Crash
  <2>2. Typed' BY <2>1 DEF Typed
  <2>3. Passed' BY <2>1 DEF Passed, Bound, Typed
  <2>4. UniqueInFlight' /\ DrawnIsFree' BY <2>1 DEF UniqueInFlight, DrawnIsFree
  <2>. QED BY <2>2, <2>3, <2>4 DEF IInv
<1>. QED BY <1>1, <1>2, <1>3, <1>4 DEF StartStep, FaultStep

\* A draw goes past every id in use; an insertion adds an id that is live.
LEMMA SessionIInv ==
  ASSUME IInv, NEW c \in Sessions, (NoReader /\ Draw(c)) \/ SessionStep(c)
  PROVE  IInv'
<1>. USE SequenceAssumption DEF startVars, Go, Live
<1>. Typed /\ Passed /\ UniqueInFlight /\ DrawnIsFree
  BY DEF IInv
<1>1. CASE NoReader /\ Draw(c)
  <2>1. /\ Bound(seq) /\ seq' = seq + 1
        /\ id' = [id EXCEPT ![c] = seq + 1]
        /\ stage' = [stage EXCEPT ![c] = "drawn"]
        /\ UNCHANGED <<server, snap, rows>>
    BY <1>1 DEF Draw, Linked, Serving, Passed
  <2>2. Typed' BY <2>1 DEF Typed
  <2>3. Bound(seq)' BY <2>1 DEF Bound, Typed
  <2>4. Passed' BY <1>1, <2>1, <2>3 DEF Passed, NoReader
  <2>5. UniqueInFlight' BY <2>1 DEF UniqueInFlight, Bound, Typed
  <2>6. DrawnIsFree' BY <2>1 DEF DrawnIsFree, Bound, Typed
  <2>. QED BY <2>2, <2>4, <2>5, <2>6 DEF IInv
<1>2. CASE Insert(c)
  <2>1. /\ stage[c] = "drawn" /\ stage' = [stage EXCEPT ![c] = "waiting"]
        /\ rows' = rows \cup {id[c]}
        /\ UNCHANGED <<server, snap, seq, id>>
    BY <1>2 DEF Insert
  <2>2. Typed' BY <2>1 DEF Typed
  <2>3. Passed' BY <2>1 DEF Passed, Bound, Typed
  <2>4. UniqueInFlight' BY <2>1 DEF UniqueInFlight, Typed
  <2>5. DrawnIsFree' BY <2>1 DEF DrawnIsFree, UniqueInFlight, Typed
  <2>. QED BY <2>2, <2>3, <2>4, <2>5 DEF IInv
<1>3. CASE DrawFails(c) \/ InsertFails(c) \/ InsertSwallowed(c) \/ Reply(c)
  <2>1. /\ UNCHANGED <<server, snap, seq, rows, id>>
        /\ \/ stage' = [stage EXCEPT ![c] = "done"]
           \/ stage[c] = "drawn" /\ stage' = [stage EXCEPT ![c] = "waiting"]
    BY <1>3 DEF DrawFails, InsertFails, InsertSwallowed, Reply
  <2>2. Typed' BY <2>1 DEF Typed
  <2>3. Passed' BY <2>1 DEF Passed, Bound, Typed
  <2>4. UniqueInFlight' BY <2>1 DEF UniqueInFlight, Typed
  <2>5. DrawnIsFree' BY <2>1 DEF DrawnIsFree, Typed
  <2>. QED BY <2>2, <2>3, <2>4, <2>5 DEF IInv
<1>. QED BY <1>1, <1>2, <1>3 DEF SessionStep

\* The steps together; a step that changes nothing keeps IInv as well.
LEMMA NextIInv == IInv /\ [QuietNext]_vars => IInv'
<1>1. IInv /\ UNCHANGED vars => IInv'
  BY DEF vars, startVars, sessionVars, IInv, Typed, Passed, Bound, UniqueInFlight,
         DrawnIsFree, Live
<1>. QED BY <1>1, ServerIInv, SessionIInv DEF QuietNext

\* The invariant holds as long as servers are only started when nothing is
\* under way.
THEOREM Invariance == QuietSpec => []IInv
  BY InitIInv, NextIInv, PTL DEF QuietSpec

\* No two sessions under way share an id (README.md:260-261), for any number of
\* servers, if servers start only when nothing is under way.
THEOREM UniqueIds == QuietSpec => []UniqueInFlight
  BY Invariance, PTL DEF IInv

\* The primary key rejects no request for its id, nor can an event of an earlier
\* request answer a later one.
THEOREM FreshIds == QuietSpec => []DrawnIsFree
  BY Invariance, PTL DEF IInv

\* Every id drawn is above every persisted one and every one under way
\* (DatabaseManager.hpp:201).
THEOREM GrowingIds == QuietSpec => DrawsGrow
<1>1. ASSUME IInv, [QuietNext]_vars, NEW c \in Sessions, stage[c] = "idle", stage'[c] = "drawn"
      PROVE  /\ \A r \in rows : r < id'[c]
             /\ \A d \in Sessions : Live(d) => id[d] < id'[c]
  <2>. USE SequenceAssumption DEF startVars, sessionVars, Go
  <2>1. Typed /\ Passed BY <1>1 DEF IInv
  <2>2. ASSUME NEW s \in Servers,
               StartStep(s) \/ ReadMax(s) \/ FaultStep(s)
        PROVE  FALSE
    BY <1>1, <2>1, <2>2
    DEF StartStep, FaultStep, Connect, CreateSequence, CreateResumes, ReadMax, Setval,
        SetvalFails, LinkBreaks, Crash, Typed
  <2>3. ASSUME NEW d \in Sessions, SessionStep(d) PROVE FALSE
    BY <1>1, <2>1, <2>3
    DEF SessionStep, DrawFails, Insert, InsertFails, InsertSwallowed, Reply, Typed
  <2>4. PICK d \in Sessions : Draw(d)
    BY <1>1, <2>2, <2>3 DEF QuietNext, vars
  <2>5. d = c BY <1>1, <2>1, <2>4 DEF Draw, Typed
  <2>6. Bound(seq) /\ id'[c] = seq + 1
    BY <2>1, <2>4, <2>5 DEF Draw, Linked, Serving, Passed, Typed
  <2>. QED BY <2>1, <2>6 DEF Bound, Typed
<1>2. IInv /\ [QuietNext]_vars =>
        [\A c \in Sessions : stage[c] = "idle" /\ stage'[c] = "drawn" =>
            /\ \A r \in rows : r < id'[c]
            /\ \A d \in Sessions : Live(d) => id[d] < id'[c]]_vars
  BY <1>1
<1>. QED BY Invariance, <1>2, PTL DEF QuietSpec, DrawsGrow

--------------------------------------------------------------------------------
(* One server needs no discipline: its sessions die with it, so that nothing is *)
(* under way when it starts.                                                    *)

\* A session is under way only while its server is ready.
LiveServed == /\ Typed
              /\ \A c \in Sessions : Live(c) => Serving(c)

\* Every step keeps LiveServed: a session under way belongs to a server that
\* has started.
LEMMA NextLiveServed == LiveServed /\ [Next]_vars => LiveServed'
<1>. SUFFICES ASSUME LiveServed, [Next]_vars PROVE LiveServed'
  OBVIOUS
<1>. USE SequenceAssumption DEF startVars, sessionVars, Live, Serving, Move, Go
<1>. Typed BY DEF LiveServed
<1>1. CASE UNCHANGED vars
  BY <1>1 DEF vars, LiveServed, Typed
<1>2. ASSUME NEW s \in Servers, StartStep(s) \/ ReadMax(s) \/ LinkBreaks(s) PROVE LiveServed'
  <2>1. /\ UNCHANGED <<rows, stage, id>>
        /\ seq' \in Nat /\ snap' \in [Servers -> Nat]
        /\ \/ UNCHANGED server
           \/ /\ server[s] # "ready"
              /\ \E to \in {"connected", "created", "blocked", "read", "ready", "failed"} :
                    server' = [server EXCEPT ![s] = to]
    BY <1>2 DEF StartStep, Connect, CreateSequence, CreateResumes, ReadMax, Setval,
                SetvalFails, LinkBreaks, Typed
  <2>2. Typed' BY <2>1 DEF Typed
  <2>3. ASSUME NEW c \in Sessions, Live(c)' PROVE Serving(c)'
    <3>1. Serving(c) BY <2>1, <2>3 DEF LiveServed
    <3>. QED BY <2>1, <3>1 DEF Typed
  <2>. QED BY <2>2, <2>3 DEF LiveServed
<1>3. ASSUME NEW s \in Servers, Crash(s) PROVE LiveServed'
  BY <1>3 DEF Crash, LiveServed, Typed
<1>4. ASSUME NEW c \in Sessions, Draw(c) \/ SessionStep(c) PROVE LiveServed'
  <2>1. UNCHANGED <<server, snap>>
    BY <1>4 DEF SessionStep, Draw, DrawFails, Insert, InsertFails, InsertSwallowed, Reply
  <2>2. CASE Draw(c)
    BY <2>1, <2>2 DEF Draw, Linked, LiveServed, Typed
  <2>3. CASE SessionStep(c)
    <3>1. rows' \subseteq Nat /\ UNCHANGED <<seq, id>>
      BY <2>3 DEF SessionStep, DrawFails, Insert, InsertFails, InsertSwallowed, Reply, Typed
    <3>2. \/ stage' = [stage EXCEPT ![c] = "done"]
          \/ stage[c] = "drawn" /\ stage' = [stage EXCEPT ![c] = "waiting"]
      BY <2>3 DEF SessionStep, DrawFails, Insert, InsertFails, InsertSwallowed, Reply
    <3>. QED BY <2>1, <3>1, <3>2 DEF LiveServed, Typed
  <2>. QED BY <1>4, <2>2, <2>3
<1>. QED BY <1>1, <1>2, <1>3, <1>4 DEF Next, FaultStep

\* A single server reads the maximum while no session has an id, whenever it
\* starts: it cannot leave the deployments of QuietSpec.
LEMMA SingleServerIsQuiet ==
  ASSUME \A s, t \in Servers : s = t
  PROVE  Spec => QuietSpec
<1>1. Init => LiveServed
  BY SequenceAssumption DEF Init, LiveServed, Typed, Live
<1>2. LiveServed /\ [Next]_vars => [QuietNext]_vars
  BY SequenceAssumption
  DEF Next, QuietNext, LiveServed, Quiet, NoReader, ReadMax, Draw, Linked, Serving
<1>. QED BY <1>1, <1>2, NextLiveServed, PTL DEF Spec, QuietSpec

\* With a single server, and without any assumption on when it starts, no two
\* sessions under way share an id, the primary key rejects none and ids grow
\* (DatabaseManager.hpp:201): the hazard is the second instance.
THEOREM SingleServer ==
  ASSUME \A s, t \in Servers : s = t
  PROVE  Spec => []UniqueInFlight /\ []DrawnIsFree /\ DrawsGrow
BY SingleServerIsQuiet, UniqueIds, FreshIds, GrowingIds

--------------------------------------------------------------------------------
(* Types, with no assumption on when servers start.                         *)

\* Every step of a server keeps every variable in its range.
LEMMA ServerTypes ==
  ASSUME TypeOK, NEW s \in Servers, StartStep(s) \/ ReadMax(s) \/ FaultStep(s)
  PROVE  TypeOK'
<1>. USE SequenceAssumption DEF TypeOK, startVars, sessionVars, Move
<1>1. CASE Connect(s)        BY <1>1 DEF Connect
<1>2. CASE CreateSequence(s) BY <1>2 DEF CreateSequence
<1>3. CASE CreateResumes(s)  BY <1>3 DEF CreateResumes
<1>4. CASE Setval(s)         BY <1>4 DEF Setval
<1>5. CASE SetvalFails(s)    BY <1>5 DEF SetvalFails
<1>6. CASE ReadMax(s)        BY <1>6 DEF ReadMax
<1>7. CASE LinkBreaks(s)     BY <1>7 DEF LinkBreaks
<1>8. CASE Crash(s)          BY <1>8 DEF Crash
<1>. QED BY <1>1, <1>2, <1>3, <1>4, <1>5, <1>6, <1>7, <1>8 DEF StartStep, FaultStep

\* So does every step of a session.
LEMMA SessionTypes ==
  ASSUME TypeOK, NEW c \in Sessions, Draw(c) \/ SessionStep(c)
  PROVE  TypeOK'
<1>. USE SequenceAssumption DEF TypeOK, startVars, sessionVars, Go
<1>1. CASE Draw(c)
  BY <1>1 DEF Draw
<1>2. CASE Insert(c)
  BY <1>2 DEF Insert
<1>3. CASE DrawFails(c) \/ InsertFails(c) \/ InsertSwallowed(c) \/ Reply(c)
  BY <1>3 DEF DrawFails, InsertFails, InsertSwallowed, Reply
<1>. QED BY <1>1, <1>2, <1>3 DEF SessionStep

\* Ids, maxima and the sequence are never negative, and no row but those of
\* sessions enters the tables, whenever servers start.
THEOREM TypeCorrect == Spec => []TypeOK
<1>1. Init => TypeOK
  <2>1. MaxCrashes \in Nat /\ \A R \in SUBSET Seeded : R \subseteq Nat
    BY SequenceAssumption
  <2>2. 0 \in 0 .. MaxCrashes
    BY <2>1
  <2>. SUFFICES ASSUME Init
                PROVE  TypeOK
    OBVIOUS
  <2>3. rows \subseteq Nat /\ crashes \in 0 .. MaxCrashes
    BY <2>1, <2>2 DEF Init
  <2>4. exists \in BOOLEAN
    BY Zenon DEF Init
  <2>. QED BY <2>3, <2>4 DEF Init, TypeOK
<1>2. TypeOK /\ [Next]_vars => TypeOK'
  <2>1. TypeOK /\ UNCHANGED vars => TypeOK'
    BY DEF TypeOK, vars, startVars, sessionVars
  <2>. QED BY <2>1, ServerTypes, SessionTypes DEF Next
<1>. QED BY <1>1, <1>2, PTL DEF Spec
================================================================================
