----------------------------- MODULE ConfigPipeline -----------------------------
(****************************************************************************)
(* The way of a CONFIG_IP request through the whole system:                 *)
(*                                                                          *)
(*   server --INSERT--> sensor_config_pending --NOTIFY config_requested-->  *)
(*   controller --MQTT config/requested--> sensor --MQTT config/events-->   *)
(*   controller --UPSERT--> sensor_config --NOTIFY config_events--> server  *)
(*                                                                          *)
(* The session that sent the request blocks in the dispatcher until its id  *)
(* comes back or its time is up.  The dispatcher appears as what it         *)
(* promises, RequestResponse, which Dispatcher is proved to implement.      *)
(*                                                                          *)
(* A request is known by its id; the host name, address and flag it carries *)
(* travel with it and are not modelled.  Faults are counted and bounded by  *)
(* MaxFaults: processes crash, the database restarts, the connection to the *)
(* broker drops, a statement fails, the sensor goes away.                   *)
(****************************************************************************)
EXTENDS Naturals, Sequences, FiniteSets

CONSTANTS NumRequests,  \* how many ids are drawn: a bound for TLC
          Target,       \* Target[r]: the sensor that request r is about
          Enrolled,     \* sensors that have a row in sensor_config
          MAX_PENDING,  \* capacity of the dispatcher
          MaxFaults,    \* how many faults may happen: a bound for TLC
          NoRequest     \* request_id of a row that no request has changed

Requests == 1 .. NumRequests

ASSUME PipelineAssumption ==
    /\ NumRequests \in Nat /\ MaxFaults \in Nat
    /\ DOMAIN Target = Requests
    /\ MAX_PENDING \in Nat \ {0}
    /\ NoRequest \notin Requests

VARIABLES
    \* the server process
    stage,      \* stage[r]: where the session that serves r stands
    phase, answer, result,  \* the dispatcher, see RequestResponse
    serverUp,   \* the process runs
    serverLink, \* its two connections to the database are alive
    \* the database
    seq,        \* the last value nextval('request_id_seq') returned
    pending,    \* rows of sensor_config_pending, in commit order
    config,     \* config[s]: request_id in the row of sensor_config of s
    requested,  \* NOTIFY config_requested, queued for the controller
    events,     \* NOTIFY config_events, queued for the server
    \* the controller process
    ctl,        \* "down", "starting", "running" or "zombie"
    ctlLink,    \* its two connections to the database are alive
    ctlMqtt,    \* its connection to the broker is alive
    inbox,      \* config/events in the client, waiting for the consume loop
    \* the broker and the sensor
    toSensor,   \* config/requested, on its way to the sensor
    toCtl,      \* config/events, queued for the controller's session
    unacked,    \* delivered to the client, but the broker has no PUBACK yet
    sensorUp,   \* the sensor is connected to the broker
    \* bookkeeping of the model
    applied,    \* requests written to sensor_config so far
    faults      \* how many faults have happened

dispatcherVars == <<phase, answer, result>>
serverVars     == <<stage, phase, answer, result, serverUp, serverLink>>
dbVars         == <<seq, pending, config, requested, events, applied>>
ctlVars        == <<ctl, ctlLink, ctlMqtt>>
mqttVars       == <<inbox, toSensor, toCtl, unacked, sensorUp>>
vars == <<serverVars, dbVars, ctlVars, mqttVars, faults>>

DISP == INSTANCE RequestResponse WITH
            Waits <- Requests, Ids <- Requests, IdOf <- [r \in Requests |-> r]

Init == /\ stage = [r \in Requests |-> "none"]
        /\ DISP!Init
        /\ serverUp = TRUE /\ serverLink = TRUE
        /\ seq = 0
        /\ pending = <<>>
        /\ config = [s \in Enrolled |-> NoRequest]
        /\ requested = <<>> /\ events = <<>>
        /\ ctl = "running" /\ ctlLink = TRUE /\ ctlMqtt = TRUE /\ inbox = <<>>
        /\ toSensor = <<>> /\ toCtl = <<>> /\ unacked = <<>>
        /\ sensorUp = TRUE
        /\ applied = {}
        /\ faults = 0

Fault == faults < MaxFaults /\ faults' = faults + 1

Go(r, from, to) == /\ stage[r] = from
                   /\ stage' = [stage EXCEPT ![r] = to]

\* pg_notify reaches the connections that listen when the transaction commits.
Notify(queue, listening, r) == IF listening THEN Append(queue, r) ELSE queue

--------------------------------------------------------------------------------
(* The session: generate_request_id, add_pending_config, wait_for_response *)

Draw(r) == /\ serverUp /\ serverLink
           /\ r = seq + 1
           /\ seq' = r
           /\ Go(r, "none", "drawn")
           /\ UNCHANGED <<dispatcherVars, serverUp, serverLink, pending, config,
                          requested, events, applied, ctlVars, mqttVars, faults>>

\* Slip: sensor_id bound to the parameter of request_id (TypeOK).
Insert_Swapped(r) == /\ serverLink
                     /\ Target[r] \in Enrolled
                     /\ Go(r, "drawn", "stored")
                     /\ pending' = Append(pending, Target[r])
                     /\ requested' = Notify(requested, ctlLink, r)
                     /\ UNCHANGED <<dispatcherVars, serverUp, serverLink, seq, config,
                                    events, applied, ctlVars, mqttVars, faults>>

\* Slip: the controller is notified of a row that is not committed (Audited).
Insert_NotCommitted(r) == /\ serverLink
                          /\ Target[r] \in Enrolled
                          /\ Go(r, "drawn", "stored")
                          /\ requested' = Notify(requested, ctlLink, r)
                          /\ UNCHANGED <<dispatcherVars, serverUp, serverLink, seq,
                                         pending, config, events, applied, ctlVars,
                                         mqttVars, faults>>

\* Slip: a statement that is repeated after it committed (KeepsPromise).
Insert_Retried(r) == /\ serverLink
                     /\ Target[r] \in Enrolled
                     /\ stage[r] = "drawn"
                     /\ stage' \in {stage, [stage EXCEPT ![r] = "stored"]}
                     /\ pending' = Append(pending, r)
                     /\ requested' = Notify(requested, ctlLink, r)
                     /\ UNCHANGED <<dispatcherVars, serverUp, serverLink, seq, config,
                                    events, applied, ctlVars, mqttVars, faults>>

\* The row commits and the trigger notifies the controller.
Insert(r) == /\ serverLink
             /\ Target[r] \in Enrolled
             /\ Go(r, "drawn", "stored")
             /\ pending' = Append(pending, r)
             /\ requested' = Notify(requested, ctlLink, r)
             /\ UNCHANGED <<dispatcherVars, serverUp, serverLink, seq, config,
                            events, applied, ctlVars, mqttVars, faults>>

\* An sql_error (here: the foreign key) or a connection known to be closed is
\* thrown to the handler, which answers 500 (HTTP) or ends the session (CLI).
InsertFails(r) == /\ Target[r] \notin Enrolled \/ ~serverLink
                  /\ Go(r, "drawn", "error")
                  /\ UNCHANGED <<dispatcherVars, serverUp, serverLink, dbVars,
                                 ctlVars, mqttVars, faults>>

\* A connection found broken while the statement runs is logged and swallowed:
\* the handler goes on as if the row were there.
InsertSwallowed(r) == /\ ~serverLink
                      /\ Go(r, "drawn", "unsaved")
                      /\ UNCHANGED <<dispatcherVars, serverUp, serverLink, dbVars,
                                     ctlVars, mqttVars, faults>>

Wait(r) == /\ stage[r] \in {"stored", "unsaved"}
           /\ \/ DISP!Open(r)   /\ stage' = [stage EXCEPT ![r] = "waiting"]
              \/ DISP!Refuse(r) /\ stage' = [stage EXCEPT ![r] = "replied"]
           /\ UNCHANGED <<serverUp, serverLink, dbVars, ctlVars, mqttVars, faults>>

\* Slip: no timeout (EverySessionEnds).
Reply_Untimed(r) == /\ answer[r] # "PENDING"
                    /\ DISP!Close(r)
                    /\ Go(r, "waiting", "replied")
                    /\ UNCHANGED <<serverUp, serverLink, dbVars, ctlVars, mqttVars,
                                   faults>>

\* Answered or out of time: the handler replies 200 or 503.
Reply(r) == /\ DISP!Close(r)
            /\ Go(r, "waiting", "replied")
            /\ UNCHANGED <<serverUp, serverLink, dbVars, ctlVars, mqttVars, faults>>

\* on_db_config_event_received, in the listener thread of the server.
HandleEvent == /\ serverUp /\ serverLink
               /\ events # <<>>
               /\ events' = Tail(events)
               /\ DISP!Answer(Head(events), "SUCCESS")
               /\ UNCHANGED <<stage, serverUp, serverLink, seq, pending, config,
                              requested, applied, ctlVars, mqttVars, faults>>

--------------------------------------------------------------------------------
(* The controller *)

\* Slip: the test of is_connected negated (AppliedUnlessFault).
Forward_Negated == /\ ctlLink
                   /\ requested # <<>>
                   /\ requested' = Tail(requested)
                   /\ toSensor' = IF ~ctlMqtt /\ sensorUp
                                  THEN Append(toSensor, Head(requested)) ELSE toSensor
                   /\ UNCHANGED <<serverVars, seq, pending, config, events, applied,
                                  ctlVars, inbox, toCtl, unacked, sensorUp, faults>>

\* on_db_event_received, in the listener thread: publish, or drop the event if
\* MQTT is not connected.
Forward == /\ ctlLink
           /\ requested # <<>>
           /\ requested' = Tail(requested)
           /\ toSensor' = IF ctlMqtt /\ sensorUp
                          THEN Append(toSensor, Head(requested)) ELSE toSensor
           /\ UNCHANGED <<serverVars, seq, pending, config, events, applied, ctlVars,
                          inbox, toCtl, unacked, sensorUp, faults>>

\* The consume loop takes the next message.
Take == /\ ctl = "running"
        /\ inbox # <<>>
        /\ inbox' = Tail(inbox)

\* upsert_sensor_config commits and its trigger notifies the server.
Upsert == LET r == Head(inbox) IN
          /\ Take
          /\ ctlLink
          /\ config' = [config EXCEPT ![Target[r]] = r]
          /\ applied' = applied \cup {r}
          /\ events' = Notify(events, serverLink, r)
          /\ UNCHANGED <<serverVars, seq, pending, requested, ctlVars, toSensor,
                         toCtl, unacked, sensorUp, faults>>

\* The connection is broken: the exception is swallowed and the event is lost.
UpsertSwallowed == /\ Take
                   /\ ~ctlLink
                   /\ UNCHANGED <<serverVars, dbVars, ctlVars, toSensor, toCtl,
                                  unacked, sensorUp, faults>>

\* Slip: the event sent outside the transaction that fails (SuccessMeansApplied).
UpsertFails_Notifying == /\ Take
                         /\ ctlLink
                         /\ Fault
                         /\ ctl' = "zombie"
                         /\ events' = Notify(events, serverLink, Head(inbox))
                         /\ UNCHANGED <<serverVars, seq, pending, config, requested,
                                        applied, ctlLink, ctlMqtt, toSensor, toCtl,
                                        unacked, sensorUp>>

\* An sql_error ends the consume loop; main then waits for the listener thread,
\* which goes on forwarding requests whose answers nobody will read.
UpsertFails == /\ Take
               /\ ctlLink
               /\ Fault
               /\ ctl' = "zombie"
               /\ UNCHANGED <<serverVars, dbVars, ctlLink, ctlMqtt, toSensor, toCtl,
                              unacked, sensorUp>>

\* With its listener thread gone too, join() returns and the process ends.
ZombieExits == /\ ctl = "zombie" /\ ~ctlLink
               /\ ctl' = "down" /\ ctlMqtt' = FALSE /\ inbox' = <<>>
               /\ UNCHANGED <<serverVars, dbVars, ctlLink, toSensor, toCtl, unacked,
                              sensorUp, faults>>

\* main connects to the database and listens before it connects to MQTT.
StartController == /\ ctl = "down"
                   /\ ctl' = "starting" /\ ctlLink' = TRUE
                   /\ UNCHANGED <<serverVars, dbVars, ctlMqtt, mqttVars, faults>>

\* Slip: what was not acknowledged queued behind the rest (FirstWriteInOrder).
ConnectMqtt_Requeueing == /\ ctl = "starting"
                          /\ ctl' = "running" /\ ctlMqtt' = TRUE
                          /\ toCtl' = toCtl \o unacked
                          /\ unacked' = <<>>
                          /\ UNCHANGED <<serverVars, dbVars, ctlLink, inbox, toSensor,
                                         sensorUp, faults>>

\* clean_session(false): the broker sends again what it has no PUBACK for, in
\* order, before the rest of the queue.
ConnectMqtt == /\ ctl = "starting"
               /\ ctl' = "running" /\ ctlMqtt' = TRUE
               /\ toCtl' = unacked \o toCtl
               /\ unacked' = <<>>
               /\ UNCHANGED <<serverVars, dbVars, ctlLink, inbox, toSensor, sensorUp,
                              faults>>

--------------------------------------------------------------------------------
(* The broker and the sensor *)

\* QoS 1: the client puts the message into the queue of the consume loop ...
Deliver == /\ ctlMqtt
           /\ toCtl # <<>>
           /\ toCtl' = Tail(toCtl)
           /\ inbox' = Append(inbox, Head(toCtl))
           /\ unacked' = Append(unacked, Head(toCtl))
           /\ UNCHANGED <<serverVars, dbVars, ctlVars, toSensor, sensorUp, faults>>

\* ... and acknowledges it, whether or not the loop has taken it.
PubAck == /\ ctlMqtt
          /\ unacked # <<>>
          /\ unacked' = Tail(unacked)
          /\ UNCHANGED <<serverVars, dbVars, ctlVars, inbox, toSensor, toCtl, sensorUp,
                         faults>>

\* The sensor sends the request back as the event that confirms it.
Echo == /\ sensorUp
        /\ toSensor # <<>>
        /\ toSensor' = Tail(toSensor)
        /\ toCtl' = Append(toCtl, Head(toSensor))
        /\ UNCHANGED <<serverVars, dbVars, ctlVars, inbox, unacked, sensorUp, faults>>

\* clean_session(true): nothing was kept for a sensor that was away.
SensorConnects == /\ ~sensorUp
                  /\ sensorUp' = TRUE
                  /\ UNCHANGED <<serverVars, dbVars, ctlVars, inbox, toSensor, toCtl,
                                 unacked, faults>>

--------------------------------------------------------------------------------
(* Faults and restarts *)

SensorStops == /\ sensorUp
               /\ Fault
               /\ sensorUp' = FALSE /\ toSensor' = <<>>
               /\ UNCHANGED <<serverVars, dbVars, ctlVars, inbox, toCtl, unacked>>

\* The sessions die with the process; its notifications with the connection.
ServerCrashes == /\ serverUp
                 /\ Fault
                 /\ serverUp' = FALSE /\ serverLink' = FALSE
                 /\ stage' = [r \in Requests |->
                       IF stage[r] \in {"drawn", "stored", "unsaved", "waiting"}
                       THEN "gone" ELSE stage[r]]
                 /\ phase' = [r \in Requests |->
                       IF phase[r] = "open" THEN "closed" ELSE phase[r]]
                 /\ events' = <<>>
                 /\ UNCHANGED <<answer, result, seq, pending, config, requested,
                                applied, ctlVars, mqttVars>>

ServerStarts == /\ ~serverUp
                /\ serverUp' = TRUE /\ serverLink' = TRUE
                /\ UNCHANGED <<stage, dispatcherVars, dbVars, ctlVars, mqttVars, faults>>

\* The database restarts: every connection breaks, and neither process has code
\* to open a new one.
DatabaseRestarts == /\ Fault
                    /\ serverLink' = FALSE /\ ctlLink' = FALSE
                    /\ requested' = <<>> /\ events' = <<>>
                    /\ UNCHANGED <<stage, dispatcherVars, serverUp, seq, pending,
                                   config, applied, ctl, ctlMqtt, mqttVars>>

\* What the client had acknowledged but the loop had not taken is lost with it.
ControllerCrashes == /\ ctl # "down"
                     /\ Fault
                     /\ ctl' = "down" /\ ctlLink' = FALSE /\ ctlMqtt' = FALSE
                     /\ requested' = <<>> /\ inbox' = <<>>
                     /\ UNCHANGED <<serverVars, seq, pending, config, events, applied,
                                    toSensor, toCtl, unacked, sensorUp>>

\* The connection to the broker drops; there is no automatic reconnect.
MqttDrops == /\ ctlMqtt
             /\ Fault
             /\ ctlMqtt' = FALSE
             /\ UNCHANGED <<serverVars, dbVars, ctl, ctlLink, mqttVars>>

--------------------------------------------------------------------------------
SessionStep(r) == Insert(r) \/ InsertFails(r) \/ InsertSwallowed(r) \/ Wait(r) \/ Reply(r)

ControllerStep == Forward \/ Upsert \/ UpsertSwallowed \/ ZombieExits \/ ConnectMqtt

BrokerStep == Deliver \/ PubAck \/ Echo

Restart == ServerStarts \/ StartController \/ SensorConnects

FaultStep == \/ SensorStops \/ ServerCrashes \/ DatabaseRestarts \/ ControllerCrashes
             \/ MqttDrops \/ UpsertFails

Next == \/ \E r \in Requests : Draw(r) \/ SessionStep(r)
        \/ HandleEvent \/ ControllerStep \/ BrokerStep
        \/ Restart \/ FaultStep

Spec == Init /\ [][Next]_vars

\* Every thread that can take a step does, the wait of a session ends, messages
\* arrive and whoever runs the system starts a process that is down.  Clients
\* need not send requests and faults need not happen.
Fairness == /\ \A r \in Requests : WF_vars(SessionStep(r))
            /\ WF_vars(HandleEvent)
            /\ WF_vars(Forward) /\ WF_vars(Upsert) /\ WF_vars(UpsertSwallowed)
            /\ WF_vars(ZombieExits) /\ WF_vars(ConnectMqtt)
            /\ WF_vars(Deliver) /\ WF_vars(Echo)
            /\ WF_vars(ServerStarts) /\ WF_vars(StartController)
            /\ WF_vars(SensorConnects)

FairSpec == Spec /\ Fairness

--------------------------------------------------------------------------------
(* Properties *)

Queues == {requested, events, toSensor, toCtl, inbox, unacked}
Elements(q) == {q[i] : i \in DOMAIN q}
Rows == Elements(pending)

TypeOK == /\ stage \in [Requests -> {"none", "drawn", "stored", "unsaved", "waiting",
                                     "replied", "error", "gone"}]
          /\ phase \in [Requests -> {"new", "open", "closed"}]
          /\ answer \in [Requests -> {"PENDING", "SUCCESS"}]
          /\ result \in [Requests -> {"PENDING", "SUCCESS", "TIMEOUT", "SYSTEM_FULL"}]
          /\ seq \in 0 .. NumRequests
          /\ pending \in Seq(Requests)
          /\ \A q \in Queues : q \in Seq(Requests)
          /\ config \in [Enrolled -> Requests \cup {NoRequest}]
          /\ ctl \in {"down", "starting", "running", "zombie"}
          /\ \A b \in {serverUp, serverLink, ctlLink, ctlMqtt, sensorUp} : b \in BOOLEAN
          /\ applied \subseteq Requests
          /\ faults \in 0 .. MaxFaults

\* A client that reads SUCCESS can rely on it: its request was written to
\* sensor_config, whatever was lost, sent twice or swallowed on the way
\* (main.cpp:76-80 turns every config event into SUCCESS).
SuccessMeansApplied == \A r \in Requests : result[r] = "SUCCESS" => r \in applied

\* Every confirmed configuration can be traced to a request that was persisted
\* for that very sensor (README.md:110-111), even when the session that sent
\* it went on after a swallowed error (DatabaseManager.cpp:271-279).
Audited == \A s \in Enrolled : config[s] # NoRequest =>
              config[s] \in Rows /\ Target[config[s]] = s

\* r was committed before q.
Before(r, q) == \E i, j \in DOMAIN pending : i < j /\ pending[i] = r /\ pending[j] = q

\* Requests for one sensor reach sensor_config for the first time in the order
\* in which they were committed: neither the queues, the restarts nor what the
\* broker sends twice let an older request overtake.  (A request sent twice
\* may be written again over a newer one.)
FirstWriteInOrder ==
    [][\A r \in applied' \ applied : \A q \in applied :
          Target[q] = Target[r] => ~Before(r, q)]_vars

\* What all the processes together do to the two tables and tell the clients
\* is what ConfigPromise allows: a table of requests without repetitions, first
\* writes in its order, and one outcome for each client, SUCCESS only after the
\* write (db.sql:10-20, README.md:110-113).
Promise == INSTANCE ConfigPromise
KeepsPromise == Promise!Spec

\* Every session that has an id ends: with a reply, with an error, or with the
\* process.  Nothing that fails further down the pipeline blocks it for ever.
EverySessionEnds ==
    \A r \in Requests : stage[r] = "drawn" ~> stage[r] \in {"replied", "error", "gone"}

\* As long as nothing fails, a persisted request reaches sensor_config.
AppliedUnlessFault ==
    \A r \in Requests : r \in Rows ~> (r \in applied \/ faults > 0)

\* db.sql:15-20 and README.md:112-113: a persisted request is not lost when a
\* process restarts.
OrdersSurvive == \A r \in Requests : r \in Rows ~> r \in applied
================================================================================
