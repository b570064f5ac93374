------------------------- MODULE ConfigPipeline_proofs -------------------------
(****************************************************************************)
(* Proofs about ConfigPipeline, for any number of requests, sensors and     *)
(* faults.                                                                  *)
(****************************************************************************)
EXTENDS ConfigPipeline, SequenceTheorems, TLAPS

\* The queues between the processes hold requests, as does the table.
QueuesTyped == /\ pending \in Seq(Requests)
               /\ requested \in Seq(Requests) /\ events \in Seq(Requests)
               /\ toSensor \in Seq(Requests) /\ toCtl \in Seq(Requests)
               /\ inbox \in Seq(Requests) /\ unacked \in Seq(Requests)

StateTyped == /\ answer \in [Requests -> {"PENDING", "SUCCESS"}]
              /\ result \in [Requests -> {"PENDING", "SUCCESS", "TIMEOUT", "SYSTEM_FULL"}]
              /\ config \in [Enrolled -> Requests \cup {NoRequest}]

\* A request that is anywhere behind the insertion has a row in the table, and
\* the foreign key saw to it that its sensor exists.
Stored == /\ \A r \in Rows : Target[r] \in Enrolled
          /\ Elements(requested) \subseteq Rows
          /\ Elements(toSensor) \subseteq Rows
          /\ Elements(toCtl) \subseteq Rows
          /\ Elements(inbox) \subseteq Rows
          /\ Elements(unacked) \subseteq Rows

\* An event, and so an answer, follows the write it reports.
Reported == /\ Elements(events) \subseteq applied
            /\ \A r \in Requests : answer[r] = "SUCCESS" => r \in applied

IInv == QueuesTyped /\ StateTyped /\ Stored /\ Reported
          /\ SuccessMeansApplied /\ Audited

--------------------------------------------------------------------------------
(* What the queue operations do to the set of queued requests.              *)

\* A queue that gains a request holds the ones it held and that one: a
\* notification or a message is added at the tail.
LEMMA ElementsAppend ==
  ASSUME NEW S, NEW q \in Seq(S), NEW e \in S
  PROVE  /\ Append(q, e) \in Seq(S)
         /\ Elements(Append(q, e)) = Elements(q) \cup {e}
<1>1. /\ Append(q, e) \in Seq(S)
      /\ Len(Append(q, e)) = Len(q) + 1
      /\ \A i \in 1 .. Len(q) : Append(q, e)[i] = q[i]
      /\ Append(q, e)[Len(q) + 1] = e
  BY AppendProperties
<1>2. DOMAIN q = 1 .. Len(q) /\ DOMAIN Append(q, e) = 1 .. (Len(q) + 1)
  BY <1>1
<1>3. Len(q) \in Nat
  OBVIOUS
<1>. QED BY <1>1, <1>2, <1>3 DEF Elements

\* What is left of a queue once its head is taken was in it, and so was the head.
LEMMA ElementsTail ==
  ASSUME NEW S, NEW q \in Seq(S), q # <<>>
  PROVE  /\ Tail(q) \in Seq(S)
         /\ Head(q) \in Elements(q) /\ Head(q) \in S
         /\ Elements(Tail(q)) \subseteq Elements(q)
<1>1. /\ Tail(q) \in Seq(S) /\ Head(q) \in S /\ Head(q) = q[1]
      /\ Len(Tail(q)) = Len(q) - 1
      /\ \A i \in 1 .. Len(Tail(q)) : Tail(q)[i] = q[i + 1]
  BY HeadTailProperties
<1>2. Len(q) \in Nat /\ Len(q) # 0
  BY EmptySeq
<1>3. DOMAIN q = 1 .. Len(q) /\ DOMAIN Tail(q) = 1 .. (Len(q) - 1)
  BY <1>1
<1>. QED BY <1>1, <1>2, <1>3 DEF Elements

\* Two queues joined hold the requests of both, no others.
LEMMA ElementsConcat ==
  ASSUME NEW S, NEW p \in Seq(S), NEW q \in Seq(S)
  PROVE  /\ p \o q \in Seq(S)
         /\ Elements(p \o q) \subseteq Elements(p) \cup Elements(q)
<1>1. /\ p \o q \in Seq(S)
      /\ Len(p \o q) = Len(p) + Len(q)
      /\ \A i \in 1 .. (Len(p) + Len(q)) :
            (p \o q)[i] = IF i <= Len(p) THEN p[i] ELSE q[i - Len(p)]
  BY ConcatProperties
<1>2. Len(p) \in Nat /\ Len(q) \in Nat
  OBVIOUS
<1>3. /\ DOMAIN p = 1 .. Len(p) /\ DOMAIN q = 1 .. Len(q)
      /\ DOMAIN (p \o q) = 1 .. (Len(p) + Len(q))
  BY <1>1
<1>. QED BY <1>1, <1>2, <1>3 DEF Elements

\* An empty queue holds no request.
LEMMA ElementsEmpty == Elements(<<>>) = {} /\ \A S : <<>> \in Seq(S)
  BY EmptySeq DEF Elements

--------------------------------------------------------------------------------
(* The inductive invariant, one part of the system at a time.               *)

\* What a step that touches neither the data of a part of IInv keeps of it.
LEMMA Kept ==
  ASSUME IInv
  PROVE  /\ UNCHANGED <<pending, requested, toSensor, toCtl, inbox, unacked>> => Stored'
         /\ UNCHANGED <<events, applied, answer>> => Reported'
         /\ UNCHANGED <<result, applied>> => SuccessMeansApplied'
         /\ UNCHANGED <<config, pending>> => Audited'
  BY DEF IInv, Stored, Reported, SuccessMeansApplied, Audited, Rows, Elements

\* At the start no request exists, so nothing is stored, applied or reported.
LEMMA InitIInv == Init => IInv
  BY PipelineAssumption, ElementsEmpty
  DEF Init, DISP!Init, IInv, QueuesTyped, StateTyped, Stored, Reported,
      SuccessMeansApplied, Audited, Rows

\* A step of an HTTP or command line session keeps IInv.
LEMMA SessionIInv ==
  ASSUME IInv, NEW r \in Requests, Draw(r) \/ SessionStep(r)
  PROVE  IInv'
<1>. USE PipelineAssumption DEF serverVars, dispatcherVars, dbVars, ctlVars, mqttVars, Go
<1>. StateTyped /\ QueuesTyped /\ Stored /\ Reported /\ SuccessMeansApplied /\ Audited
  BY DEF IInv
<1>1. CASE Draw(r)
  BY <1>1, Kept DEF Draw, IInv, QueuesTyped, StateTyped
<1>2. CASE Insert(r)
  <2>1. pending' \in Seq(Requests) /\ Rows' = Rows \cup {r}
    BY <1>2, ElementsAppend DEF Insert, QueuesTyped, Rows
  <2>2. requested' \in Seq(Requests) /\ Elements(requested') \subseteq Elements(requested) \cup {r}
    BY <1>2, ElementsAppend DEF Insert, QueuesTyped, Notify
  <2>3. QueuesTyped' BY <1>2, <2>1, <2>2 DEF Insert, QueuesTyped
  <2>4. StateTyped' BY <1>2 DEF Insert, StateTyped
  <2>5. Elements(requested)' = Elements(requested') BY DEF Elements
  <2>6. Stored' BY <1>2, <2>1, <2>2, <2>5 DEF Insert, Stored, Elements
  <2>7. Audited' BY <1>2, <2>1 DEF Insert, Audited
  <2>. QED BY <1>2, <2>3, <2>4, <2>6, <2>7, Kept DEF Insert, IInv
<1>3. CASE InsertFails(r)
  BY <1>3, Kept DEF InsertFails, IInv, QueuesTyped, StateTyped
<1>4. CASE InsertSwallowed(r)
  BY <1>4, Kept DEF InsertSwallowed, IInv, QueuesTyped, StateTyped
<1>5. CASE Wait(r)
  <2>1. StateTyped'
    BY <1>5 DEF Wait, DISP!Open, DISP!Refuse, StateTyped
  <2>2. SuccessMeansApplied'
    BY <1>5 DEF Wait, DISP!Open, DISP!Refuse, SuccessMeansApplied, StateTyped
  <2>3. UNCHANGED answer BY <1>5 DEF Wait, DISP!Open, DISP!Refuse
  <2>. QED BY <1>5, <2>1, <2>2, <2>3, Kept DEF Wait, IInv, QueuesTyped
<1>6. CASE Reply(r)
  <2>1. StateTyped' BY <1>6 DEF Reply, DISP!Close, StateTyped
  <2>2. SuccessMeansApplied'
    BY <1>6 DEF Reply, DISP!Close, SuccessMeansApplied, StateTyped, Reported
  <2>3. UNCHANGED answer BY <1>6 DEF Reply, DISP!Close
  <2>. QED BY <1>6, <2>1, <2>2, <2>3, Kept DEF Reply, IInv, QueuesTyped
<1>. QED BY <1>1, <1>2, <1>3, <1>4, <1>5, <1>6 DEF SessionStep

\* The server's handler of config_requested events keeps IInv.
LEMMA EventIInv == IInv /\ HandleEvent => IInv'
<1>. SUFFICES ASSUME IInv, HandleEvent PROVE IInv'
  OBVIOUS
<1>. USE PipelineAssumption DEF dispatcherVars, ctlVars, mqttVars
<1>. StateTyped /\ QueuesTyped /\ Stored /\ Reported /\ SuccessMeansApplied /\ Audited
  BY DEF IInv
<1>1. /\ events' \in Seq(Requests)
      /\ Head(events) \in applied /\ Head(events) \in Requests
      /\ Elements(events') \subseteq applied
  BY ElementsTail DEF HandleEvent, QueuesTyped, Reported
<1>2. answer' = [r \in Requests |->
                    IF r \in DISP!Opened /\ r = Head(events) THEN "SUCCESS" ELSE answer[r]]
  BY DEF HandleEvent, DISP!Answer
<1>3. UNCHANGED <<stage, result, config, pending, applied>>
  BY DEF HandleEvent, DISP!Answer
<1>4. StateTyped' BY <1>2, <1>3 DEF StateTyped
<1>5. Reported' BY <1>1, <1>2, <1>3 DEF Reported, Elements
<1>6. QueuesTyped' BY <1>1 DEF HandleEvent, QueuesTyped
<1>. QED BY <1>3, <1>4, <1>5, <1>6, Kept DEF HandleEvent, IInv

\* Elements of a primed queue; priming commutes with it.
LEMMA Primed ==
  /\ Elements(requested)' = Elements(requested') /\ Elements(events)' = Elements(events')
  /\ Elements(toSensor)' = Elements(toSensor') /\ Elements(toCtl)' = Elements(toCtl')
  /\ Elements(inbox)' = Elements(inbox') /\ Elements(unacked)' = Elements(unacked')
  /\ Rows' = Elements(pending')
  BY DEF Elements, Rows

\* Steps that take a request out of a queue, and perhaps into another one.
LEMMA ControllerIInv == IInv /\ ControllerStep => IInv'
<1>. SUFFICES ASSUME IInv, ControllerStep PROVE IInv'
  OBVIOUS
<1>. USE PipelineAssumption
     DEF serverVars, dispatcherVars, dbVars, ctlVars, mqttVars
<1>. StateTyped /\ QueuesTyped /\ Stored /\ Reported /\ SuccessMeansApplied /\ Audited
  BY DEF IInv
<1>1. CASE Forward
  <2>1. /\ requested' \in Seq(Requests) /\ Elements(requested') \subseteq Elements(requested)
        /\ Head(requested) \in Requests /\ Head(requested) \in Elements(requested)
    BY <1>1, ElementsTail DEF Forward, QueuesTyped
  <2>2. /\ toSensor' \in Seq(Requests)
        /\ Elements(toSensor') \subseteq Elements(toSensor) \cup {Head(requested)}
    BY <1>1, <2>1, ElementsAppend DEF Forward, QueuesTyped
  <2>3. QueuesTyped' BY <1>1, <2>1, <2>2 DEF Forward, QueuesTyped
  <2>4. Stored' BY <1>1, <2>1, <2>2, Primed DEF Forward, Stored, Rows
  <2>. QED BY <1>1, <2>3, <2>4, Kept DEF Forward, IInv, StateTyped
<1>2. CASE Upsert
  <2>. DEFINE r == Head(inbox)
  <2>1. /\ inbox' \in Seq(Requests) /\ Elements(inbox') \subseteq Elements(inbox)
        /\ r \in Requests /\ r \in Elements(inbox)
    BY <1>2, ElementsTail DEF Upsert, Take, QueuesTyped
  <2>2. r \in Rows /\ Target[r] \in Enrolled
    BY <2>1 DEF Stored
  <2>3. /\ events' \in Seq(Requests)
        /\ Elements(events') \subseteq Elements(events) \cup {r}
    BY <1>2, <2>1, ElementsAppend DEF Upsert, Notify, QueuesTyped
  <2>4. QueuesTyped' BY <1>2, <2>1, <2>3 DEF Upsert, QueuesTyped
  <2>5. Stored' BY <1>2, <2>1, Primed DEF Upsert, Stored, Rows
  <2>6. applied' = applied \cup {r} /\ UNCHANGED <<answer, result, pending>>
    BY <1>2 DEF Upsert
  <2>7. Reported' BY <2>3, <2>6, Primed DEF Reported
  <2>8. SuccessMeansApplied' BY <2>6 DEF SuccessMeansApplied
  <2>9. config' = [config EXCEPT ![Target[r]] = r]
    BY <1>2 DEF Upsert
  <2>10. StateTyped' BY <2>1, <2>2, <2>6, <2>9 DEF StateTyped
  <2>11. Audited' BY <2>1, <2>2, <2>6, <2>9, Primed DEF Audited, Rows, StateTyped
  <2>. QED BY <2>4, <2>5, <2>7, <2>8, <2>10, <2>11 DEF IInv
<1>3. CASE UpsertSwallowed
  <2>1. inbox' \in Seq(Requests) /\ Elements(inbox') \subseteq Elements(inbox)
    BY <1>3, ElementsTail DEF UpsertSwallowed, Take, QueuesTyped
  <2>2. Stored' BY <1>3, <2>1, Primed DEF UpsertSwallowed, Stored, Rows
  <2>. QED BY <1>3, <2>1, <2>2, Kept DEF UpsertSwallowed, IInv, StateTyped, QueuesTyped
<1>4. CASE ZombieExits
  <2>1. Stored' BY <1>4, ElementsEmpty, Primed DEF ZombieExits, Stored, Rows
  <2>. QED BY <1>4, <2>1, Kept, ElementsEmpty DEF ZombieExits, IInv, StateTyped, QueuesTyped
<1>5. CASE ConnectMqtt
  <2>1. /\ toCtl' \in Seq(Requests)
        /\ Elements(toCtl') \subseteq Elements(unacked) \cup Elements(toCtl)
    BY <1>5, ElementsConcat DEF ConnectMqtt, QueuesTyped
  <2>2. Stored' BY <1>5, <2>1, ElementsEmpty, Primed DEF ConnectMqtt, Stored, Rows
  <2>. QED BY <1>5, <2>1, <2>2, Kept, ElementsEmpty DEF ConnectMqtt, IInv, StateTyped, QueuesTyped
<1>. QED BY <1>1, <1>2, <1>3, <1>4, <1>5 DEF ControllerStep

\* Steps of the broker and of the sensor.
LEMMA BrokerIInv == IInv /\ BrokerStep => IInv'
<1>. SUFFICES ASSUME IInv, BrokerStep PROVE IInv'
  OBVIOUS
<1>. USE PipelineAssumption
     DEF serverVars, dispatcherVars, dbVars, ctlVars, mqttVars
<1>. StateTyped /\ QueuesTyped /\ Stored
  BY DEF IInv
<1>1. CASE Deliver
  <2>1. /\ toCtl' \in Seq(Requests) /\ Elements(toCtl') \subseteq Elements(toCtl)
        /\ Head(toCtl) \in Requests /\ Head(toCtl) \in Elements(toCtl)
    BY <1>1, ElementsTail DEF Deliver, QueuesTyped
  <2>2. /\ inbox' \in Seq(Requests)
        /\ Elements(inbox') = Elements(inbox) \cup {Head(toCtl)}
        /\ unacked' \in Seq(Requests)
        /\ Elements(unacked') = Elements(unacked) \cup {Head(toCtl)}
    BY <1>1, <2>1, ElementsAppend DEF Deliver, QueuesTyped
  <2>3. Stored' BY <1>1, <2>1, <2>2, Primed DEF Deliver, Stored, Rows
  <2>. QED BY <1>1, <2>1, <2>2, <2>3, Kept DEF Deliver, IInv, StateTyped, QueuesTyped
<1>2. CASE PubAck
  <2>1. unacked' \in Seq(Requests) /\ Elements(unacked') \subseteq Elements(unacked)
    BY <1>2, ElementsTail DEF PubAck, QueuesTyped
  <2>2. Stored' BY <1>2, <2>1, Primed DEF PubAck, Stored, Rows
  <2>. QED BY <1>2, <2>1, <2>2, Kept DEF PubAck, IInv, StateTyped, QueuesTyped
<1>3. CASE Echo
  <2>1. /\ toSensor' \in Seq(Requests) /\ Elements(toSensor') \subseteq Elements(toSensor)
        /\ Head(toSensor) \in Requests /\ Head(toSensor) \in Elements(toSensor)
    BY <1>3, ElementsTail DEF Echo, QueuesTyped
  <2>2. /\ toCtl' \in Seq(Requests)
        /\ Elements(toCtl') = Elements(toCtl) \cup {Head(toSensor)}
    BY <1>3, <2>1, ElementsAppend DEF Echo, QueuesTyped
  <2>3. Stored' BY <1>3, <2>1, <2>2, Primed DEF Echo, Stored, Rows
  <2>. QED BY <1>3, <2>1, <2>2, <2>3, Kept DEF Echo, IInv, StateTyped, QueuesTyped
<1>. QED BY <1>1, <1>2, <1>3 DEF BrokerStep

\* A fault or a restart only takes things away.
LEMMA FaultIInv == IInv /\ (Restart \/ FaultStep) => IInv'
<1>. SUFFICES ASSUME IInv, Restart \/ FaultStep PROVE IInv'
  OBVIOUS
<1>. USE PipelineAssumption, ElementsEmpty
     DEF serverVars, dispatcherVars, dbVars, ctlVars, mqttVars, Fault
<1>. StateTyped /\ QueuesTyped /\ Stored /\ Reported
  BY DEF IInv
<1>1. CASE Restart
  BY <1>1, Kept DEF Restart, ServerStarts, StartController, SensorConnects,
                    IInv, StateTyped, QueuesTyped
<1>2. CASE SensorStops
  <2>1. Stored' BY <1>2, Primed DEF SensorStops, Stored, Rows
  <2>. QED BY <1>2, <2>1, Kept DEF SensorStops, IInv, StateTyped, QueuesTyped
<1>3. CASE ServerCrashes
  <2>1. Reported' BY <1>3, Primed DEF ServerCrashes, Reported
  <2>. QED BY <1>3, <2>1, Kept DEF ServerCrashes, IInv, StateTyped, QueuesTyped
<1>4. CASE DatabaseRestarts
  <2>1. Reported' BY <1>4, Primed DEF DatabaseRestarts, Reported
  <2>2. Stored' BY <1>4, Primed DEF DatabaseRestarts, Stored, Rows
  <2>. QED BY <1>4, <2>1, <2>2, Kept DEF DatabaseRestarts, IInv, StateTyped, QueuesTyped
<1>5. CASE ControllerCrashes
  <2>1. Stored' BY <1>5, Primed DEF ControllerCrashes, Stored, Rows
  <2>. QED BY <1>5, <2>1, Kept DEF ControllerCrashes, IInv, StateTyped, QueuesTyped
<1>6. CASE MqttDrops
  BY <1>6, Kept DEF MqttDrops, IInv, StateTyped, QueuesTyped
<1>7. CASE UpsertFails
  <2>1. inbox' \in Seq(Requests) /\ Elements(inbox') \subseteq Elements(inbox)
    BY <1>7, ElementsTail DEF UpsertFails, Take, QueuesTyped
  <2>2. Stored' BY <1>7, <2>1, Primed DEF UpsertFails, Stored, Rows
  <2>. QED BY <1>7, <2>1, <2>2, Kept DEF UpsertFails, IInv, StateTyped, QueuesTyped
<1>. QED BY <1>1, <1>2, <1>3, <1>4, <1>5, <1>6, <1>7 DEF FaultStep

\* A step that changes nothing keeps IInv.
LEMMA StutterIInv == IInv /\ UNCHANGED vars => IInv'
  BY Kept DEF vars, serverVars, dbVars, ctlVars, mqttVars, IInv, StateTyped, QueuesTyped

\* IInv holds in every reachable state, whatever fails and restarts.
THEOREM Invariance == Spec => []IInv
<1>1. IInv /\ [Next]_vars => IInv'
  BY SessionIInv, EventIInv, ControllerIInv, BrokerIInv, FaultIInv, StutterIInv DEF Next
<1>. QED BY InitIInv, <1>1, PTL DEF Spec

\* No client reads SUCCESS before its request is written to sensor_config
\* (server/src/main.cpp:76-80), for any number of sessions and any faults.
THEOREM SuccessIsSound == Spec => []SuccessMeansApplied
  BY Invariance, PTL DEF IInv

\* Whatever the controller writes to sensor_config can be traced to a row of
\* sensor_config_pending for the same sensor (README.md:110-111).
THEOREM AuditTrail == Spec => []Audited
  BY Invariance, PTL DEF IInv

--------------------------------------------------------------------------------
(* Types. The queues, the answers and the table are in IInv already.        *)

RestTyped == /\ stage \in [Requests -> {"none", "drawn", "stored", "unsaved", "waiting",
                                        "replied", "error", "gone"}]
             /\ phase \in [Requests -> {"new", "open", "closed"}]
             /\ seq \in 0 .. NumRequests
             /\ ctl \in {"down", "starting", "running", "zombie"}
             /\ serverUp \in BOOLEAN /\ serverLink \in BOOLEAN /\ ctlLink \in BOOLEAN
             /\ ctlMqtt \in BOOLEAN /\ sensorUp \in BOOLEAN
             /\ applied \subseteq Requests
             /\ faults \in 0 .. MaxFaults

\* A step of a session keeps the rest of the types.
LEMMA SessionTypes ==
  ASSUME RestTyped, NEW r \in Requests, Draw(r) \/ SessionStep(r)
  PROVE  RestTyped'
<1>. USE PipelineAssumption
     DEF RestTyped, serverVars, dispatcherVars, dbVars, ctlVars, mqttVars, Go
<1>1. CASE Draw(r)
  BY <1>1 DEF Draw, Requests
<1>2. CASE Insert(r)
  BY <1>2 DEF Insert
<1>3. CASE InsertFails(r) \/ InsertSwallowed(r)
  BY <1>3 DEF InsertFails, InsertSwallowed
<1>4. CASE Wait(r)
  BY <1>4 DEF Wait, DISP!Open, DISP!Refuse
<1>5. CASE Reply(r)
  BY <1>5 DEF Reply, DISP!Close
<1>. QED BY <1>1, <1>2, <1>3, <1>4, <1>5 DEF SessionStep

\* So do the steps of the other processes, faults included.
LEMMA OtherTypes ==
  ASSUME QueuesTyped, RestTyped,
         HandleEvent \/ ControllerStep \/ BrokerStep \/ Restart \/ FaultStep
  PROVE  RestTyped'
<1>. USE PipelineAssumption
     DEF RestTyped, serverVars, dispatcherVars, dbVars, ctlVars, mqttVars, Take
<1>0. Fault => faults' \in 0 .. MaxFaults
  <2>1. MaxFaults \in Nat
    BY PipelineAssumption
  <2>. QED BY <2>1 DEF Fault
<1>1. CASE HandleEvent
  BY <1>1 DEF HandleEvent, DISP!Answer
<1>2. CASE Upsert
  <2>1. Head(inbox) \in Requests
    BY <1>2, HeadTailProperties DEF Upsert, QueuesTyped
  <2>. QED BY <1>2, <2>1 DEF Upsert
<1>3. CASE Forward \/ UpsertSwallowed \/ ZombieExits \/ ConnectMqtt
  BY <1>3 DEF Forward, UpsertSwallowed, ZombieExits, ConnectMqtt
<1>4. CASE BrokerStep
  BY <1>4 DEF BrokerStep, Deliver, PubAck, Echo
<1>5. CASE Restart
  BY <1>5 DEF Restart, ServerStarts, StartController, SensorConnects
<1>6. CASE SensorStops \/ MqttDrops \/ UpsertFails
  BY <1>0, <1>6 DEF SensorStops, MqttDrops, UpsertFails
<1>7. CASE ServerCrashes
  BY <1>0, <1>7 DEF ServerCrashes
<1>8. CASE DatabaseRestarts \/ ControllerCrashes
  BY <1>0, <1>8 DEF DatabaseRestarts, ControllerCrashes
<1>. QED BY <1>1, <1>2, <1>3, <1>4, <1>5, <1>6, <1>7, <1>8 DEF ControllerStep, FaultStep

\* Every queue holds requests and every process is in one of its states,
\* however many requests and faults there are.
THEOREM TypeCorrect == Spec => []TypeOK
<1>1. Init => RestTyped
  BY PipelineAssumption DEF Init, DISP!Init, RestTyped
<1>2. IInv /\ RestTyped /\ [Next]_vars => RestTyped'
  <2>1. RestTyped /\ UNCHANGED vars => RestTyped'
    BY DEF RestTyped, vars, serverVars, dbVars, ctlVars, mqttVars
  <2>. QED BY <2>1, SessionTypes, OtherTypes DEF IInv, Next
<1>3. IInv /\ RestTyped => TypeOK
  BY DEF IInv, QueuesTyped, StateTyped, RestTyped, TypeOK, Queues
<1>. QED BY <1>1, <1>2, <1>3, Invariance, PTL DEF Spec
================================================================================
