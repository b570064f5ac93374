---------------------------- MODULE ProcessLifecycle ----------------------------
(****************************************************************************)
(* The life of a process around its DatabaseManager: main of the server, in *)
(* either mode, and main of the controller, from the first line to the      *)
(* destruction of the global objects, and the thread that listens to the    *)
(* database meanwhile.                                                      *)
(*                                                                          *)
(* A step is one call that main makes to the manager or to the libraries;   *)
(* the listener thread and the database step in between.  What the server   *)
(* does while it serves is in ServerSessions.  The controller's loop is     *)
(* here, for telemetry and for what ends the loop; the path of an order     *)
(* through it is in ConfigPipeline.                                         *)
(****************************************************************************)
EXTENDS Naturals, Sequences

CONSTANTS MaxFaults,   \* how often the database stops: a bound
          MaxMessages  \* how many messages reach the controller: a bound

ASSUME BoundsAssumption == MaxFaults \in Nat /\ MaxMessages \in Nat

Roles  == {"http", "raw", "controller"}
Server == {"http", "raw"}

\* The channels main registers, in order.
Channels(r) == IF r = "controller" THEN <<"config_requested">>
               ELSE <<"config_events", "state_events", "error_events">>

\* What arrives over MQTT: telemetry, a committed configuration, a message for
\* which the handler throws (it cannot be parsed, or the database refuses the
\* row), or one without a handler or payload.
Messages == {"reading", "config", "bad", "other"}

VARIABLES
    role,        \* which program and mode this is
    at,          \* where main stands
    listener,    \* connection_listener_: "null", "open", "lost" (broken but not
    queries,     \*   used since) or "closed"; and connection_queries_
    thread,      \* listener_thread_: "none", "running", "ended" or "killed"
    tried,       \* how many channels main has asked to register
    registered,  \* the channels whose notifications reach a handler
    owners,      \* who shares the manager: g_db and the session handler
    statics,     \* the globals destroyed before g_db still exist
    status,      \* "success" (main returns 0), "failure" (1), "crash" or "none"
    database,    \* "up" or "down"
    faults,      \* how often it has stopped
    late,        \* a notification was handled after those globals were destroyed
    refused,     \* the channels whose LISTEN the database has refused
    inbox,       \* messages the controller has received and not handled
    sent,        \* how many messages of each kind were received
    stored,      \* readings committed
    swallowed    \* readings given up without an exception

mainVars == <<role, tried, owners, statics, status>>
connVars == <<listener, queries, thread, registered>>
envVars  == <<database, faults, late, refused>>
loopVars == <<inbox, sent, stored, swallowed>>
vars     == <<mainVars, at, connVars, envVars, loopVars>>

Init == /\ role \in Roles
        /\ at = "start"
        /\ listener = "null" /\ queries = "null" /\ thread = "none"
        /\ tried = 0 /\ registered = {}
        /\ owners = {} /\ statics = TRUE /\ status = "none"
        /\ database = "up" /\ faults = 0 /\ late = FALSE /\ refused = {}
        /\ inbox = <<>> /\ sent = [m \in Messages |-> 0]
        /\ stored = 0 /\ swallowed = 0

Goto(from, to) == at = from /\ at' = to

\* main returns a status, and the globals are destroyed next.
Return(from, s) == /\ Goto(from, "exit")
                   /\ status' = s
                   /\ UNCHANGED <<role, tried, owners, statics>>

\* What a call finds when it uses a connection that was lost.
Used(conn) == IF conn = "lost" THEN "closed" ELSE conn

--------------------------------------------------------------------------------
(* Starting *)

\* Wrong options, or an engine that cannot be built (certificate, key, policy).
\* --help, which returns 0, is the same for what follows.
StartFails == /\ role \in Server
              /\ Return("start", "failure")
              /\ UNCHANGED <<connVars, envVars, loopVars>>

\* g_db is made, with no connection yet.
MakeManager == /\ Goto("start", "connect")
               /\ owners' = {"global"}
               /\ UNCHANGED <<role, tried, statics, status, connVars, envVars, loopVars>>

Connect == /\ database = "up"
           /\ Goto("connect", IF role \in Server THEN "init" ELSE "register")
           /\ listener' = "open" /\ queries' = "open"
           /\ UNCHANGED <<mainVars, thread, registered, envVars, loopVars>>

\* The first connection fails, or the second one after it.  The server returns
\* 1; the controller logs the exception and goes on without a listener.
ConnectFails == /\ \/ database = "down" /\ UNCHANGED listener
                   \/ listener' = "open"
                /\ IF role \in Server THEN Return("connect", "failure")
                   ELSE Goto("connect", "mqtt") /\ UNCHANGED mainVars
                /\ UNCHANGED <<queries, thread, registered, envVars, loopVars>>

InitRequestIdSequence == /\ queries = "open"
                         /\ Goto("init", "register")
                         /\ UNCHANGED <<mainVars, connVars, envVars, loopVars>>

InitSequenceFails == /\ Return("init", "failure")
                     /\ queries' = Used(queries)
                     /\ UNCHANGED <<listener, thread, registered, envVars, loopVars>>

AskNext == /\ at = "register"
           /\ tried < Len(Channels(role))
           /\ tried' = tried + 1
           /\ UNCHANGED <<role, at, owners, statics, status>>

\* register_listen_async of the next channel.
Register == /\ AskNext
            /\ listener = "open"
            /\ registered' = registered \cup {Channels(role)[tried + 1]}
            /\ UNCHANGED <<listener, queries, thread, envVars, loopVars>>

\* Slip: a lost connection made again for the channels that remain
\* (MissesOnlyRefused).
RegisterSwallowed_Reconnects ==
    /\ AskNext
    /\ listener # "open"
    /\ listener' = "open"
    /\ UNCHANGED <<queries, thread, registered, envVars, loopVars>>

\* No exception leaves register_listen_async: neither that of a connection that
\* is missing, nor that of a LISTEN refused over one that stays open.
RegisterSwallowed ==
    /\ AskNext
    /\ \/ /\ listener # "open"
          /\ listener' = Used(listener)
          /\ UNCHANGED refused
       \/ /\ listener = "open"
          /\ refused' = refused \cup {Channels(role)[tried + 1]}
          /\ UNCHANGED listener
    /\ UNCHANGED <<queries, thread, registered, database, faults, late, loopVars>>

\* Slip: the thread started after the first channel (RegisteredBeforeRunning).
RunListenerLoop_Early ==
    /\ at = "register" /\ tried > 0
    /\ at' = IF tried < Len(Channels(role)) THEN at
             ELSE IF role \in Server THEN "sanity" ELSE "mqtt"
    /\ thread' = "running"
    /\ UNCHANGED <<mainVars, listener, queries, registered, envVars, loopVars>>

\* Whatever became of the registrations.
RunListenerLoop == /\ tried = Len(Channels(role))
                   /\ Goto("register", IF role \in Server THEN "sanity" ELSE "mqtt")
                   /\ thread' = "running"
                   /\ UNCHANGED <<mainVars, listener, queries, registered,
                                  envVars, loopVars>>

--------------------------------------------------------------------------------
(* The server, from get_sanity_info to the end of main *)

\* A closed connection is only reported.
GetSanityInfo == /\ queries # "lost"
                 /\ Goto("sanity", "handler")
                 /\ UNCHANGED <<mainVars, connVars, envVars, loopVars>>

GetSanityInfoFails == /\ queries = "lost"
                      /\ Return("sanity", "failure")
                      /\ queries' = Used(queries)
                      /\ UNCHANGED <<listener, thread, registered, envVars, loopVars>>

\* The handler takes a share of the manager.
MakeHandler == /\ Goto("handler", "serve")
               /\ owners' = owners \cup {"handler"}
               /\ UNCHANGED <<role, tried, statics, status, connVars, envVars, loopVars>>

\* JwtManager cannot read its key or certificate, or the mode is unknown.
MakeHandlerFails == /\ Return("handler", "failure")
                    /\ UNCHANGED <<connVars, envVars, loopVars>>

\* Slip: the reset left to the destruction of g_db (TornDownQuietly).
ServeEnds_Keeping == /\ Goto("serve", "leave")
                     /\ UNCHANGED <<mainVars, connVars, envVars, loopVars>>

\* join returns once the acceptor and the last session have ended; then stop,
\* and g_db.reset().
ServeEnds == /\ Goto("serve", "leave")
             /\ owners' = owners \ {"global"}
             /\ UNCHANGED <<role, tried, statics, status, connVars, envVars, loopVars>>

\* The try block is left and with it the last reference of main to the engine.
\* The HTTP handler refers to the engine that owns it, as its provider of
\* connection details, so that neither is destroyed; the command line handler
\* dies with the engine, and the manager with the handler.
LeaveTry == /\ status' = "success"
            /\ IF role = "raw"
               THEN /\ owners' = owners \ {"handler"}
                    /\ Goto("leave", IF owners' = {} THEN "disconnect" ELSE "exit")
               ELSE Goto("leave", "exit") /\ UNCHANGED owners
            /\ UNCHANGED <<role, tried, statics, connVars, envVars, loopVars>>

--------------------------------------------------------------------------------
(* The controller, from its MQTT client to the end of main *)

ConnectMqtt == /\ Goto("mqtt", "consume")
               /\ UNCHANGED <<mainVars, connVars, envVars, loopVars>>

\* return 1, with the listener running if there is one.
ConnectMqttFails == /\ role = "controller"
                    /\ Return("mqtt", "failure")
                    /\ UNCHANGED <<connVars, envVars, loopVars>>

\* consume_message returns the next message.
Take(m) == inbox # <<>> /\ Head(inbox) = m /\ inbox' = Tail(inbox)

\* The handler returns and the loop goes on, or throws and ends it.
Continues == Goto("consume", "consume")
LoopEnds  == Goto("consume", "join")

\* Slip: the message handled but not taken from the queue (TypeOK).
StoreReading_Keeping ==
    /\ queries = "open"
    /\ inbox # <<>> /\ Head(inbox) = "reading" /\ Continues
    /\ stored' = stored + 1
    /\ UNCHANGED <<mainVars, connVars, envVars, inbox, sent, swallowed>>

\* upsert_sensor_state
StoreReading == /\ queries = "open"
                /\ Take("reading") /\ Continues
                /\ stored' = stored + 1
                /\ UNCHANGED <<mainVars, connVars, envVars, sent, swallowed>>

\* Its broken_connection is caught; from then on the connection is closed.
SwallowReading == /\ queries = "lost"
                  /\ Take("reading") /\ Continues
                  /\ queries' = Used(queries)
                  /\ swallowed' = swallowed + 1
                  /\ UNCHANGED <<mainVars, listener, thread, registered, envVars,
                                 sent, stored>>

\* Slip: no look at the connection before it is used (SwallowedOnce).
RefuseReading_Unchecked == /\ queries \in {"null", "closed"}
                           /\ Take("reading") /\ Continues
                           /\ swallowed' = swallowed + 1
                           /\ UNCHANGED <<mainVars, connVars, envVars, sent, stored>>

\* A connection that is not open is an exception.
RefuseReading == /\ queries \in {"null", "closed"}
                 /\ Take("reading") /\ LoopEnds
                 /\ UNCHANGED <<mainVars, connVars, envVars, sent, stored, swallowed>>

\* upsert_sensor_config catches what is no sql_error, so that a configuration
\* is lost in silence for as long as the connection is.
TakeConfig == /\ queries # "null"
              /\ Take("config") /\ Continues
              /\ queries' = Used(queries)
              /\ UNCHANGED <<mainVars, listener, thread, registered, envVars,
                             sent, stored, swallowed>>

\* It does not look at the pointer either.
TakeConfigCrashes == /\ queries = "null"
                     /\ Take("config") /\ Goto("consume", "gone")
                     /\ status' = "crash"
                     /\ thread' = IF thread = "running" THEN "killed" ELSE thread
                     /\ UNCHANGED <<role, tried, owners, statics, listener, queries,
                                    registered, envVars, sent, stored, swallowed>>

TakeBad == /\ Take("bad") /\ LoopEnds
           /\ UNCHANGED <<mainVars, connVars, envVars, sent, stored, swallowed>>

\* Slip: an unknown topic ends the loop (ReadingsStored).
TakeOther_Ends == /\ Take("other") /\ LoopEnds
                  /\ UNCHANGED <<mainVars, connVars, envVars, sent, stored, swallowed>>

TakeOther == /\ Take("other") /\ Continues
             /\ UNCHANGED <<mainVars, connVars, envVars, sent, stored, swallowed>>

\* DatabaseManager::join waits for the thread, if there is one, and reset
\* destroys the manager.
JoinAndReset == /\ thread # "running"
                /\ Goto("join", "disconnect")
                /\ owners' = owners \ {"global"} /\ status' = "success"
                /\ UNCHANGED <<role, tried, statics, connVars, envVars, loopVars>>

--------------------------------------------------------------------------------
(* ~DatabaseManager and the end of the process *)

Closed(conn) == IF conn = "null" THEN conn ELSE "closed"

\* Slip: the thread joined before the connections are closed (ShutdownNeverHangs).
Disconnect_AfterJoin == /\ thread # "running"
                        /\ Goto("disconnect", "release")
                        /\ listener' = Closed(listener) /\ queries' = Closed(queries)
                        /\ UNCHANGED <<mainVars, thread, registered, envVars, loopVars>>

Disconnect == /\ Goto("disconnect", "release")
              /\ listener' = Closed(listener) /\ queries' = Closed(queries)
              /\ UNCHANGED <<mainVars, thread, registered, envVars, loopVars>>

\* Slip: the connections released without waiting for the thread (SafeRelease).
Release_Unjoined == /\ Goto("release", IF statics THEN "exit" ELSE "gone")
                    /\ listener' = "null" /\ queries' = "null"
                    /\ UNCHANGED <<mainVars, thread, registered, envVars, loopVars>>

\* The thread has ended or never was; the connections are released.
Release == /\ thread # "running"
           /\ Goto("release", IF statics THEN "exit" ELSE "gone")
           /\ listener' = "null" /\ queries' = "null"
           /\ UNCHANGED <<mainVars, thread, registered, envVars, loopVars>>

\* The globals go in the reverse order of their definition: the dispatcher of
\* the server, the MQTT client and the topics of the controller, and g_db last.
DestroyStatics == /\ Goto("exit", "last")
                  /\ statics' = FALSE
                  /\ UNCHANGED <<role, tried, owners, status, connVars, envVars, loopVars>>

\* The manager is destroyed with its last owner, or else the process ends with
\* its thread.
DestroyManager == /\ owners = {"global"} /\ owners' = {}
                  /\ Goto("last", "disconnect")
                  /\ UNCHANGED <<role, tried, statics, status, connVars, envVars, loopVars>>

EndProcess == /\ owners # {"global"}
              /\ Goto("last", "gone")
              /\ thread' = IF thread = "running" THEN "killed" ELSE thread
              /\ UNCHANGED <<mainVars, listener, queries, registered, envVars, loopVars>>

--------------------------------------------------------------------------------
(* The listener thread *)

Notified == database = "up" /\ listener = "open" /\ registered # {}

\* wait_notification calls the handler of a channel, which uses the globals.
HandleNotification == /\ thread = "running" /\ Notified
                      /\ late' = (late \/ ~statics)
                      /\ UNCHANGED <<mainVars, at, connVars, database, faults, refused,
                                     loopVars>>

\* broken_connection ends the loop; nothing starts it again.
ListenerEnds == /\ thread = "running" /\ listener \in {"lost", "closed"}
                /\ thread' = "ended" /\ listener' = "closed"
                /\ UNCHANGED <<mainVars, at, queries, registered, envVars, loopVars>>

\* The destructor closes the connection that the thread is using, with no lock
\* on the side of the thread: it may crash instead of throwing.
ListenerRaces == /\ thread = "running" /\ Goto("release", "gone")
                 /\ thread' = "killed" /\ status' = "crash"
                 /\ UNCHANGED <<role, tried, owners, statics, listener, queries,
                                registered, envVars, loopVars>>

--------------------------------------------------------------------------------
(* The database and the broker *)

StopDatabase == /\ database = "up" /\ faults < MaxFaults /\ at # "gone"
                /\ database' = "down" /\ faults' = faults + 1
                /\ listener' = IF listener = "open" THEN "lost" ELSE listener
                /\ queries' = IF queries = "open" THEN "lost" ELSE queries
                /\ UNCHANGED <<mainVars, at, thread, registered, late, refused, loopVars>>

StartDatabase == /\ database = "down" /\ at # "gone"
                 /\ database' = "up"
                 /\ UNCHANGED <<mainVars, at, connVars, faults, late, refused, loopVars>>

\* The sensor publishes at QoS 1 and the broker keeps the order.
Arrive(m) == /\ at = "consume"
             /\ sent["reading"] + sent["config"] + sent["bad"] + sent["other"]
                    < MaxMessages
             /\ inbox' = Append(inbox, m)
             /\ sent' = [sent EXCEPT ![m] = @ + 1]
             /\ UNCHANGED <<mainVars, at, connVars, envVars, stored, swallowed>>

\* The process has ended, or waits for what may never come: in consume_message
\* for a message, in join for the thread, which ends with its connection only.
Idle == /\ \/ at = "gone"
           \/ at = "consume" /\ inbox = <<>>
           \/ at = "join" /\ thread = "running"
        /\ UNCHANGED vars

--------------------------------------------------------------------------------
Starting == \/ StartFails \/ MakeManager \/ Connect \/ ConnectFails
            \/ InitRequestIdSequence \/ InitSequenceFails
            \/ Register \/ RegisterSwallowed \/ RunListenerLoop

Serving == \/ GetSanityInfo \/ GetSanityInfoFails
           \/ MakeHandler \/ MakeHandlerFails \/ LeaveTry

Consuming == \/ StoreReading \/ SwallowReading \/ RefuseReading
             \/ TakeConfig \/ TakeConfigCrashes \/ TakeBad \/ TakeOther

Ending == \/ JoinAndReset \/ Disconnect \/ Release
          \/ DestroyStatics \/ DestroyManager \/ EndProcess

Next == \/ Starting \/ Serving \/ ServeEnds
        \/ ConnectMqtt \/ ConnectMqttFails \/ Consuming
        \/ Ending
        \/ HandleNotification \/ ListenerEnds \/ ListenerRaces
        \/ StopDatabase \/ StartDatabase \/ \E m \in Messages : Arrive(m)
        \/ Idle

Spec == Init /\ [][Next]_vars

\* Threads that can run do run.  Nothing makes the server stop serving or the
\* database answer.
FairSpec == Spec /\ WF_vars(Consuming) /\ WF_vars(Ending)
                 /\ WF_vars(ListenerEnds \/ ListenerRaces)

--------------------------------------------------------------------------------
(* Properties *)

Connections == {"null", "open", "lost", "closed"}
AllChannels == {Channels(role)[i] : i \in DOMAIN Channels(role)}

TypeOK == /\ role \in Roles
          /\ at \in {"start", "connect", "init", "register", "sanity", "handler",
                     "serve", "leave", "mqtt", "consume", "join", "disconnect",
                     "release", "exit", "last", "gone"}
          /\ listener \in Connections /\ queries \in Connections
          /\ thread \in {"none", "running", "ended", "killed"}
          /\ tried \in 0 .. Len(Channels(role))
          /\ registered \subseteq AllChannels
          /\ owners \subseteq {"global", "handler"}
          /\ statics \in BOOLEAN
          /\ status \in {"none", "success", "failure", "crash"}
          /\ database \in {"up", "down"} /\ faults \in 0 .. MaxFaults
          /\ late \in BOOLEAN /\ refused \subseteq AllChannels
          /\ inbox \in Seq(Messages)
          /\ sent \in [Messages -> 0 .. MaxMessages]
          /\ stored \in 0 .. sent["reading"]
          /\ swallowed \in 0 .. sent["reading"]

\* The thread never uses a connection that has been released, on any way out
\* of main: the destructor waits for it first (DatabaseManager.cpp:17-29).
SafeRelease == thread = "running" => listener # "null"

\* DatabaseManager.hpp:85-92: every channel is registered before the thread
\* starts.  The class does not insist on it, its callers do.
RegisteredBeforeRunning == [][registered' # registered => thread = "none"]_vars

\* A listener whose connection is open misses no channel of its program but
\* those that the database itself refused, although no failed registration is
\* reported: a channel that failed with its connection fails with all that the
\* listener could hear (DatabaseManager.cpp:453-473).
MissesOnlyRefused == thread = "running" /\ listener = "open"
                         => registered \cup refused = AllChannels

\* No notification is handled after the globals it needs are gone, with two
\* exceptions: the programs return 1 with the listener running, and in HTTP
\* mode nobody destroys the manager (server/src/main.cpp:242-245 and 261-269,
\* controller/src/main.cpp:222).
TornDownQuietly == late => status \in {"failure", "crash"} \/ role = "http"

\* The first reading after the connection was lost is the only one that is
\* lost in silence (DatabaseManager.cpp:105-107 and 136-144).
SwallowedOnce == swallowed <= 1

\* The destructor does not hang: closing the connections wakes the thread it
\* then waits for (DatabaseManager.cpp:13-25).  Either it comes to its end, or
\* the thread brings the process down in that very moment, which the safe and
\* orderly end of DatabaseManager.hpp:28-33 excludes and the code does not.
ShutdownNeverHangs == at = "disconnect" ~> \/ at = "exit"
                                           \/ at = "gone" /\ ~statics
                                           \/ status = "crash"

\* Every reading received is stored, whatever else is received before it, as
\* long as the database is there and no message ends the loop.
ReadingsStored ==
    \A n \in 1 .. MaxMessages :
        sent["reading"] = n ~> \/ stored >= n
                               \/ faults > 0 \/ sent["bad"] > 0 \/ queries = "null"
================================================================================
