---------------------------- MODULE RequestIdSequence ----------------------------
(****************************************************************************)
(* Where request ids come from: the PostgreSQL sequence request_id_seq,     *)
(* shared by every server instance.  A server that starts runs              *)
(* init_request_id_sequence, one transaction of two statements:             *)
(*                                                                          *)
(*   CREATE SEQUENCE IF NOT EXISTS request_id_seq;                          *)
(*   SELECT setval('request_id_seq', COALESCE(GREATEST(MAX ...), 0));       *)
(*                                                                          *)
(* CREATE is transactional; setval, like nextval, takes effect at once and  *)
(* is not undone.  The second statement reads the tables in a snapshot and  *)
(* sets the sequence afterwards: two steps, between which others may run.   *)
(* A session draws an id and inserts its row in two further transactions.   *)
(****************************************************************************)
EXTENDS Naturals, FiniteSets

CONSTANTS Servers, Sessions,
          ServerOf,   \* ServerOf[c]: the server that serves session c
          Seeded,     \* ids of the rows that db.sql may have inserted
          NoServer,   \* nobody has an uncommitted CREATE SEQUENCE
          MaxCrashes  \* how many servers may crash: a bound for TLC

ASSUME SequenceAssumption ==
    /\ ServerOf \in [Sessions -> Servers]
    /\ Seeded \subseteq Nat \ {0} /\ IsFiniteSet(Seeded)
    /\ NoServer \notin Servers
    /\ MaxCrashes \in Nat

VARIABLES
    server,  \* server[s]: how far the start of s has come
    link,    \* link[s]: the query connection of s is alive
    snap,    \* snap[s]: the maximum that the setval of s has read
    exists,  \* a committed transaction created the sequence
    creator, \* the server that has created it but not committed yet
    seq,     \* the last value of the sequence
    rows,    \* request ids in sensor_config_pending and sensor_config
    stage,   \* stage[c]: where the session stands
    id,      \* id[c]: the id that it has drawn
    crashes  \* how many servers have crashed

startVars   == <<server, snap, exists, creator>>
sessionVars == <<rows, stage, id>>
vars == <<startVars, link, seq, sessionVars, crashes>>

Init == /\ server = [s \in Servers |-> "down"]
        /\ link = [s \in Servers |-> FALSE]
        /\ snap = [s \in Servers |-> 0]
        /\ exists = FALSE /\ creator = NoServer
        /\ seq = 0
        /\ rows \in SUBSET Seeded
        /\ stage = [c \in Sessions |-> "idle"]
        /\ id = [c \in Sessions |-> 0]
        /\ crashes = 0

--------------------------------------------------------------------------------
(* Starting a server: connect and init_request_id_sequence *)

Move(s, to) == server' = [server EXCEPT ![s] = to]

\* Slip: a server that failed to start is not started again (EveryServerServes).
Connect_Once(s) == /\ server[s] = "down"
                   /\ Move(s, "connected")
                   /\ link' = [link EXCEPT ![s] = TRUE]
                   /\ UNCHANGED <<snap, exists, creator, seq, sessionVars, crashes>>

Connect(s) == /\ server[s] \in {"down", "failed"}
              /\ Move(s, "connected")
              /\ link' = [link EXCEPT ![s] = TRUE]
              /\ UNCHANGED <<snap, exists, creator, seq, sessionVars, crashes>>

\* CREATE SEQUENCE does nothing if the sequence exists, and otherwise creates it
\* or waits for the end of the transaction that is creating it.
CreateSequence(s) ==
    /\ server[s] = "connected"
    /\ \/ exists /\ Move(s, "created") /\ UNCHANGED creator
       \/ ~exists /\ creator = NoServer /\ creator' = s /\ Move(s, "created")
       \/ ~exists /\ creator # NoServer /\ Move(s, "blocked") /\ UNCHANGED creator
    /\ UNCHANGED <<snap, exists, link, seq, sessionVars, crashes>>

\* The wait is over.  If the other server committed, the name is taken and the
\* statement fails on the unique index of the catalogue, in spite of its IF NOT
\* EXISTS.  If it rolled back, this one creates the sequence.
CreateResumes(s) ==
    /\ server[s] = "blocked"
    /\ creator = NoServer
    /\ IF exists THEN Move(s, "failed") /\ UNCHANGED creator
                 ELSE Move(s, "created") /\ creator' = s
    /\ UNCHANGED <<snap, exists, link, seq, sessionVars, crashes>>

IsMaximum(m) == /\ \A r \in rows : r <= m
                /\ m \in rows \/ (rows = {} /\ m = 0)

\* Slip: one table left out of GREATEST, so that the maximum may be too small
\* (UniqueInFlight).
ReadMax_OneTable(s) == \E m \in rows \cup {0} :
                          /\ server[s] = "created"
                          /\ Move(s, "read")
                          /\ snap' = [snap EXCEPT ![s] = m]
                          /\ UNCHANGED <<exists, creator, link, seq, sessionVars, crashes>>

\* The snapshot of SELECT setval(... MAX(request_id) ...).
ReadMax(s) == \E m \in rows \cup {0} :
                 /\ server[s] = "created"
                 /\ IsMaximum(m)
                 /\ Move(s, "read")
                 /\ snap' = [snap EXCEPT ![s] = m]
                 /\ UNCHANGED <<exists, creator, link, seq, sessionVars, crashes>>

\* Slip: the sequence set to its start instead of the maximum (DrawsGrow).
Setval_Start(s) == /\ server[s] = "read"
                   /\ snap[s] # 0
                   /\ seq' = 0
                   /\ exists' = TRUE /\ creator' = IF creator = s THEN NoServer ELSE creator
                   /\ Move(s, "ready")
                   /\ UNCHANGED <<snap, link, sessionVars, crashes>>

\* setval, and the commit that publishes a sequence created by s.
Setval(s) == /\ server[s] = "read"
             /\ snap[s] # 0
             /\ seq' = snap[s]
             /\ exists' = TRUE /\ creator' = IF creator = s THEN NoServer ELSE creator
             /\ Move(s, "ready")
             /\ UNCHANGED <<snap, link, sessionVars, crashes>>

\* 0 is below the minimum value of a sequence: the statement fails, the
\* transaction rolls back, and the exception ends main.
SetvalFails(s) == /\ server[s] = "read"
                  /\ snap[s] = 0
                  /\ creator' = IF creator = s THEN NoServer ELSE creator
                  /\ Move(s, "failed")
                  /\ UNCHANGED <<snap, exists, link, seq, sessionVars, crashes>>

--------------------------------------------------------------------------------
(* A session: generate_request_id, add_pending_config, wait_for_response *)

Serving(c) == server[ServerOf[c]] = "ready"
Linked(c)  == Serving(c) /\ link[ServerOf[c]]
Go(c, from, to) == stage[c] = from /\ stage' = [stage EXCEPT ![c] = to]

\* Slip: the id returned is the last one instead of the next one (DrawnIsFree).
Draw_LastValue(c) == /\ Linked(c)
                     /\ Go(c, "idle", "drawn")
                     /\ seq' = seq + 1
                     /\ id' = [id EXCEPT ![c] = seq]
                     /\ UNCHANGED <<startVars, link, rows, crashes>>

\* nextval, atomic over all connections.
Draw(c) == /\ Linked(c)
           /\ Go(c, "idle", "drawn")
           /\ seq' = seq + 1
           /\ id' = [id EXCEPT ![c] = seq']
           /\ UNCHANGED <<startVars, link, rows, crashes>>

\* generate_request_id throws: the session ends without an id.
DrawFails(c) == /\ Serving(c) /\ ~Linked(c)
                /\ Go(c, "idle", "done")
                /\ UNCHANGED <<startVars, link, seq, rows, id, crashes>>

\* Slip: the session bound to the column of the id (TypeOK).
Insert_Swapped(c) == /\ Linked(c)
                     /\ Go(c, "drawn", "waiting")
                     /\ rows' = rows \cup {c}
                     /\ UNCHANGED <<startVars, link, seq, id, crashes>>

\* request_id is the primary key.
Insert(c) == /\ Linked(c)
             /\ id[c] \notin rows
             /\ Go(c, "drawn", "waiting")
             /\ rows' = rows \cup {id[c]}
             /\ UNCHANGED <<startVars, link, seq, id, crashes>>

\* An sql_error (the key is taken, or the sensor is unknown) or a connection
\* known to be closed ends the session.
InsertFails(c) == /\ Go(c, "drawn", "done")
                  /\ UNCHANGED <<startVars, link, seq, rows, id, crashes>>

\* A connection found broken during the statement is swallowed: the session
\* waits for the answer to a row that does not exist.
InsertSwallowed(c) == /\ ~Linked(c)
                      /\ Go(c, "drawn", "waiting")
                      /\ UNCHANGED <<startVars, link, seq, rows, id, crashes>>

Reply(c) == /\ Go(c, "waiting", "done")
            /\ UNCHANGED <<startVars, link, seq, rows, id, crashes>>

--------------------------------------------------------------------------------
(* Faults *)

LinkBreaks(s) == /\ server[s] = "ready" /\ link[s]
                 /\ link' = [link EXCEPT ![s] = FALSE]
                 /\ UNCHANGED <<startVars, seq, sessionVars, crashes>>

\* Its sessions die with the process, and its transaction is rolled back.
Crash(s) == /\ server[s] \notin {"down", "failed"}
            /\ crashes < MaxCrashes /\ crashes' = crashes + 1
            /\ Move(s, "down")
            /\ creator' = IF creator = s THEN NoServer ELSE creator
            /\ stage' = [c \in Sessions |->
                  IF ServerOf[c] = s /\ stage[c] # "idle" THEN "done" ELSE stage[c]]
            /\ UNCHANGED <<snap, exists, link, seq, rows, id>>

--------------------------------------------------------------------------------
StartStep(s) == Connect(s) \/ CreateSequence(s) \/ CreateResumes(s)
                   \/ Setval(s) \/ SetvalFails(s)
SessionStep(c) == DrawFails(c) \/ Insert(c) \/ InsertFails(c) \/ InsertSwallowed(c)
                     \/ Reply(c)
FaultStep(s) == LinkBreaks(s) \/ Crash(s)

Next == \/ \E s \in Servers : StartStep(s) \/ ReadMax(s) \/ FaultStep(s)
        \/ \E c \in Sessions : Draw(c) \/ SessionStep(c)

Spec == Init /\ [][Next]_vars

Live(c) == stage[c] \in {"drawn", "waiting"}

\* Servers are started when no request is under way: whoever has an id has its
\* row, and nobody draws an id while a server reads the maximum.
Quiet     == \A c \in Sessions : Live(c) => id[c] \in rows
NoReader  == \A s \in Servers : server[s] # "read"

QuietNext == \/ \E s \in Servers : StartStep(s) \/ (Quiet /\ ReadMax(s)) \/ FaultStep(s)
             \/ \E c \in Sessions : (NoReader /\ Draw(c)) \/ SessionStep(c)

QuietSpec == Init /\ [][QuietNext]_vars

\* Processes and threads that can take a step do; a server that is down is
\* started again.  Requests need not come and faults need not happen.
FairQuietSpec == /\ QuietSpec
                 /\ \A s \in Servers : WF_vars(StartStep(s)) /\ WF_vars(Quiet /\ ReadMax(s))
                 /\ \A c \in Sessions : WF_vars(SessionStep(c))

--------------------------------------------------------------------------------
(* Properties *)

TypeOK == /\ server \in [Servers -> {"down", "connected", "blocked", "created", "read",
                                     "ready", "failed"}]
          /\ link \in [Servers -> BOOLEAN]
          /\ snap \in [Servers -> Nat]
          /\ exists \in BOOLEAN /\ creator \in Servers \cup {NoServer}
          /\ seq \in Nat /\ rows \subseteq Nat
          /\ stage \in [Sessions -> {"idle", "drawn", "waiting", "done"}]
          /\ id \in [Sessions -> Nat]
          /\ crashes \in 0 .. MaxCrashes

\* No two sessions that are under way, on whatever servers, have the same id
\* (README.md:260-261): the answer to one could be taken by the other.
UniqueInFlight == \A c, d \in Sessions : Live(c) /\ Live(d) /\ c # d => id[c] # id[d]

\* An id that was drawn is still free when its row is inserted, so the primary
\* key rejects no request, and no event of an earlier request can answer it.
DrawnIsFree == \A c \in Sessions : stage[c] = "drawn" => id[c] \notin rows

\* Ids grow (DatabaseManager.hpp:201): a session draws an id above every id that
\* was persisted and above that of every session still under way.
DrawsGrow == [][\A c \in Sessions : stage[c] = "idle" /\ stage'[c] = "drawn" =>
                   /\ \A r \in rows : r < id'[c]
                   /\ \A d \in Sessions : Live(d) => id[d] < id'[c]]_vars

\* With a row to start from, every server that starts gets to serve, even when
\* several create the sequence at once and all but one of them fail.
EveryServerServes == \A s \in Servers :
    server[s] = "connected" /\ rows # {} ~> server[s] = "ready"

\* database/README.md:162: the sequence starts at 1 if the tables are empty, so
\* that the first server of a new installation gets to serve.
EmptyTablesWillDo == \A s \in Servers : server[s] = "failed" => rows # {}
================================================================================
