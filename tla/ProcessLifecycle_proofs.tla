------------------------- MODULE ProcessLifecycle_proofs -------------------------
(****************************************************************************)
(* Proofs about ProcessLifecycle, for any number of database failures and   *)
(* of messages: how the listener thread, the connections and the globals    *)
(* of a process outlive each other.                                         *)
(****************************************************************************)
EXTENDS ProcessLifecycle, SequenceTheorems, FiniteSetTheorems, TLAPS

\* Where main stands before it has started the thread.
Before == {"start", "connect", "init", "register"}

\* The thread is started last, over a connection that was opened.
StartingUp == /\ role \in Roles
              /\ at \in Before => thread = "none"
              /\ at \in {"start", "connect", "init"}
                     => registered = {} /\ refused = {} /\ tried = 0
              /\ at \in {"init", "register"} => listener # "null"
              /\ SafeRelease

\* As long as the connection is open, the database alone made registrations fail.
Hearing == /\ tried \in 0 .. Len(Channels(role))
           /\ at = "register" /\ listener = "open"
                  => registered \cup refused = {Channels(role)[i] : i \in 1 .. tried}
           /\ MissesOnlyRefused

\* A lost connection is closed by the first reading that is lost with it, and
\* never opened again.
Losing == /\ swallowed \in Nat
          /\ at \in {"start", "connect"} => swallowed = 0
          /\ swallowed > 0 => queries \in {"closed", "null"}
          /\ SwallowedOnce

Abnormal == status \in {"failure", "crash"} \/ role = "http"

\* The globals are there until main has returned, and then a thread is left
\* only if main returned early or nobody destroys the manager.
TearingDown ==
    /\ at \in {"init", "sanity", "handler", "serve", "leave"} => role \in Server
    /\ at = "start" => owners = {}
    /\ at \in {"connect", "init", "register", "sanity", "handler"} => owners = {"global"}
    /\ at = "serve" => owners = {"global", "handler"}
    /\ at = "leave" => owners = {"handler"}
    /\ ~statics => at \in {"last", "disconnect", "release", "gone"}
    /\ late \in BOOLEAN /\ statics \in BOOLEAN
    /\ late => ~statics
    /\ thread = "running" /\ (at = "exit" \/ ~statics) => Abnormal
    /\ TornDownQuietly

IInv == StartingUp /\ Hearing /\ Losing /\ TearingDown

USE DEF mainVars, connVars, envVars, loopVars, Roles, Server

--------------------------------------------------------------------------------
(* One lemma for each part of the invariant, one step for each phase of the *)
(* life of a process.                                                       *)

\* The thread finds its connection from its start to its end.
LEMMA StartingUpKept ==
  ASSUME StartingUp, [Next]_vars
  PROVE  StartingUp'
<1>. USE DEF StartingUp, Before, SafeRelease, Goto
<1>1. CASE Starting
  BY <1>1 DEF Starting, StartFails, MakeManager, Connect, ConnectFails, InitRequestIdSequence,
              InitSequenceFails, Register, RegisterSwallowed, RunListenerLoop, AskNext,
              Return, Used
<1>2. CASE Serving \/ ServeEnds
  BY <1>2 DEF Serving, GetSanityInfo, GetSanityInfoFails, MakeHandler, MakeHandlerFails,
              LeaveTry, ServeEnds, Return, Used
<1>3. CASE ConnectMqtt \/ ConnectMqttFails \/ Consuming
  BY <1>3 DEF ConnectMqtt, ConnectMqttFails, Consuming, StoreReading, SwallowReading,
              RefuseReading, TakeConfig, TakeConfigCrashes, TakeBad, TakeOther, Take,
              Continues, LoopEnds, Return, Used
<1>4. CASE Ending
  BY <1>4 DEF Ending, JoinAndReset, Disconnect, Release, DestroyStatics, DestroyManager,
              EndProcess, Closed
<1>5. CASE HandleNotification \/ ListenerEnds \/ ListenerRaces
  BY <1>5 DEF HandleNotification, ListenerEnds, ListenerRaces
<1>6. CASE StopDatabase \/ StartDatabase \/ \E m \in Messages : Arrive(m)
  BY <1>6 DEF StopDatabase, StartDatabase, Arrive
<1>7. CASE Idle \/ UNCHANGED vars
  BY <1>7 DEF Idle, vars
<1>. QED BY <1>1, <1>2, <1>3, <1>4, <1>5, <1>6, <1>7 DEF Next

\* The lost reading closes the connection.
LEMMA LosingKept ==
  ASSUME Losing, [Next]_vars
  PROVE  Losing'
<1>. USE DEF Losing, SwallowedOnce, Goto, Used
<1>1. CASE Starting
  BY <1>1 DEF Starting, StartFails, MakeManager, Connect, ConnectFails, InitRequestIdSequence,
              InitSequenceFails, Register, RegisterSwallowed, RunListenerLoop, AskNext, Return
<1>2. CASE Serving \/ ServeEnds
  BY <1>2 DEF Serving, GetSanityInfo, GetSanityInfoFails, MakeHandler, MakeHandlerFails,
              LeaveTry, ServeEnds, Return
<1>3. CASE ConnectMqtt \/ ConnectMqttFails \/ Consuming
  BY <1>3 DEF ConnectMqtt, ConnectMqttFails, Consuming, StoreReading, SwallowReading,
              RefuseReading, TakeConfig, TakeConfigCrashes, TakeBad, TakeOther, Take,
              Continues, LoopEnds, Return
<1>4. CASE Ending
  BY <1>4 DEF Ending, JoinAndReset, Disconnect, Release, DestroyStatics, DestroyManager,
              EndProcess, Closed
<1>5. CASE HandleNotification \/ ListenerEnds \/ ListenerRaces
  BY <1>5 DEF HandleNotification, ListenerEnds, ListenerRaces
<1>6. CASE StopDatabase \/ StartDatabase \/ \E m \in Messages : Arrive(m)
  BY <1>6 DEF StopDatabase, StartDatabase, Arrive
<1>7. CASE Idle \/ UNCHANGED vars
  BY <1>7 DEF Idle, vars
<1>. QED BY <1>1, <1>2, <1>3, <1>4, <1>5, <1>6, <1>7 DEF Next

\* A thread is not left behind by a main that ran to its end, except in HTTP mode.
LEMMA TearingDownKept ==
  ASSUME StartingUp, TearingDown, [Next]_vars
  PROVE  TearingDown'
<1>. USE DEF TearingDown, TornDownQuietly, Abnormal, Goto, Used
<1>1. CASE Starting
  BY <1>1 DEF Starting, StartFails, MakeManager, Connect, ConnectFails, InitRequestIdSequence,
              InitSequenceFails, Register, RegisterSwallowed, RunListenerLoop, AskNext, Return,
              StartingUp, Before
<1>2. CASE Serving \/ ServeEnds
  BY <1>2 DEF Serving, GetSanityInfo, GetSanityInfoFails, MakeHandler, MakeHandlerFails,
              LeaveTry, ServeEnds, Return
<1>3. CASE ConnectMqtt \/ ConnectMqttFails \/ Consuming
  BY <1>3 DEF ConnectMqtt, ConnectMqttFails, Consuming, StoreReading, SwallowReading,
              RefuseReading, TakeConfig, TakeConfigCrashes, TakeBad, TakeOther, Take,
              Continues, LoopEnds, Return
<1>4. CASE Ending
  <2>1. CASE JoinAndReset
    BY <2>1 DEF JoinAndReset
  <2>2. CASE Disconnect \/ Release
    BY <2>2 DEF Disconnect, Release
  <2>3. CASE DestroyStatics
    BY <2>3 DEF DestroyStatics
  <2>4. CASE DestroyManager \/ EndProcess
    BY <2>4 DEF DestroyManager, EndProcess
  <2>. QED BY <1>4, <2>1, <2>2, <2>3, <2>4 DEF Ending
<1>5. CASE HandleNotification \/ ListenerEnds \/ ListenerRaces
  <2>1. CASE HandleNotification
    BY <2>1 DEF HandleNotification
  <2>2. CASE ListenerEnds
    BY <2>2 DEF ListenerEnds
  <2>3. CASE ListenerRaces
    BY <2>3 DEF ListenerRaces
  <2>. QED BY <1>5, <2>1, <2>2, <2>3
<1>6. CASE StopDatabase \/ StartDatabase \/ \E m \in Messages : Arrive(m)
  BY <1>6 DEF StopDatabase, StartDatabase, Arrive
<1>7. CASE Idle \/ UNCHANGED vars
  BY <1>7 DEF Idle, vars
<1>. QED BY <1>1, <1>2, <1>3, <1>4, <1>5, <1>6, <1>7 DEF Next

\* A step that leaves the role, the registrations and the place of main in its
\* start alone, and opens no connection, changes nothing of what is heard.
LEMMA HearingUntouched ==
  ASSUME Hearing, UNCHANGED <<role, tried, registered, refused>>,
         at' = "register" => at = "register",
         thread' = "running" => thread = "running",
         listener' = "open" => listener = "open"
  PROVE  Hearing'
BY DEF Hearing, MissesOnlyRefused, AllChannels, Channels

\* The channels asked for so far, and the next one.
LEMMA OneMore ==
  ASSUME tried \in Nat,
         NEW done, done = {Channels(role)[i] : i \in 1 .. tried}
  PROVE  done \cup {Channels(role)[tried + 1]}
             = {Channels(role)[i] : i \in 1 .. (tried + 1)}
<1>1. 1 .. (tried + 1) = (1 .. tried) \cup {tried + 1}
  OBVIOUS
<1>. QED BY <1>1

\* Every channel is registered or was refused, or the connection is not open.
LEMMA HearingKept ==
  ASSUME StartingUp, Hearing, [Next]_vars
  PROVE  Hearing'
<1>. USE DEF Goto, Used
<1>1. CASE Starting
  <2>1. CASE StartFails \/ MakeManager \/ InitSequenceFails
    BY <2>1, HearingUntouched DEF StartFails, MakeManager, InitSequenceFails, Return
  <2>2. CASE Connect \/ ConnectFails
    <3>1. /\ registered' = {} /\ refused' = {} /\ tried' = 0
          /\ tried' \in 0 .. Len(Channels(role'))
          /\ thread' # "running"
      BY <2>2 DEF Connect, ConnectFails, Return, StartingUp, Before, Channels
    <3>. QED BY <3>1 DEF Hearing, MissesOnlyRefused
  <2>3. CASE InitRequestIdSequence
    <3>1. /\ registered' = {} /\ refused' = {} /\ tried' = 0
          /\ tried' \in 0 .. Len(Channels(role'))
          /\ thread' # "running"
      BY <2>3 DEF InitRequestIdSequence, StartingUp, Before, Channels
    <3>. QED BY <3>1 DEF Hearing, MissesOnlyRefused
  <2>4. CASE Register
    <3>1. /\ tried' = tried + 1 /\ tried' \in 0 .. Len(Channels(role')) /\ role' = role
          /\ registered' \cup refused'
                 = (registered \cup refused) \cup {Channels(role)[tried + 1]}
          /\ registered \cup refused = {Channels(role)[i] : i \in 1 .. tried}
          /\ thread' # "running"
      BY <2>4 DEF Register, AskNext, StartingUp, Before, Hearing, Channels
    <3>2. registered' \cup refused' = {Channels(role')[i] : i \in 1 .. tried'}
      BY <3>1, OneMore DEF Hearing
    <3>. QED BY <3>1, <3>2 DEF Hearing, MissesOnlyRefused
  <2>5. CASE RegisterSwallowed /\ listener # "open"
    <3>1. /\ tried' \in 0 .. Len(Channels(role'))
          /\ listener' # "open"
      BY <2>5 DEF RegisterSwallowed, AskNext, Hearing, Channels
    <3>. QED BY <3>1 DEF Hearing, MissesOnlyRefused
  <2>6. CASE RegisterSwallowed /\ listener = "open"
    <3>1. /\ tried' = tried + 1 /\ tried' \in 0 .. Len(Channels(role')) /\ role' = role
          /\ registered' \cup refused'
                 = (registered \cup refused) \cup {Channels(role)[tried + 1]}
          /\ registered \cup refused = {Channels(role)[i] : i \in 1 .. tried}
          /\ thread' # "running"
      BY <2>6 DEF RegisterSwallowed, AskNext, StartingUp, Before, Hearing, Channels
    <3>2. registered' \cup refused' = {Channels(role')[i] : i \in 1 .. tried'}
      BY <3>1, OneMore DEF Hearing
    <3>. QED BY <3>1, <3>2 DEF Hearing, MissesOnlyRefused
  <2>7. CASE RunListenerLoop
    <3>1. /\ UNCHANGED <<role, tried, registered, refused, listener>>
          /\ at' # "register"
          /\ tried = Len(Channels(role)) /\ at = "register"
      BY <2>7 DEF RunListenerLoop
    <3>2. AllChannels = {Channels(role)[i] : i \in 1 .. Len(Channels(role))}
      BY DEF AllChannels, Channels
    <3>3. AllChannels' = AllChannels
      BY <3>1 DEF AllChannels, Channels
    <3>. QED BY <3>1, <3>2, <3>3 DEF Hearing, MissesOnlyRefused
  <2>. QED BY <1>1, <2>1, <2>2, <2>3, <2>4, <2>5, <2>6, <2>7 DEF Starting
<1>2. CASE Serving \/ ServeEnds
  BY <1>2, HearingUntouched DEF Serving, GetSanityInfo, GetSanityInfoFails, MakeHandler,
              MakeHandlerFails, LeaveTry, ServeEnds, Return
<1>3. CASE ConnectMqtt \/ ConnectMqttFails \/ Consuming
  BY <1>3, HearingUntouched DEF ConnectMqtt, ConnectMqttFails, Consuming, StoreReading,
              SwallowReading, RefuseReading, TakeConfig, TakeConfigCrashes, TakeBad, TakeOther,
              Take, Continues, LoopEnds, Return
<1>4. CASE Ending
  BY <1>4, HearingUntouched DEF Ending, JoinAndReset, Disconnect, Release, DestroyStatics,
              DestroyManager, EndProcess, Closed
<1>5. CASE HandleNotification \/ ListenerEnds \/ ListenerRaces
  BY <1>5, HearingUntouched DEF HandleNotification, ListenerEnds, ListenerRaces
<1>6. CASE StopDatabase \/ StartDatabase \/ \E m \in Messages : Arrive(m)
  BY <1>6, HearingUntouched DEF StopDatabase, StartDatabase, Arrive
<1>7. CASE Idle \/ UNCHANGED vars
  BY <1>7, HearingUntouched DEF Idle, vars
<1>. QED BY <1>1, <1>2, <1>3, <1>4, <1>5, <1>6, <1>7 DEF Next

--------------------------------------------------------------------------------
(* Theorems                                                                 *)

\* The four parts hold together in every state: what main has done so far, what
\* is heard, what is lost and what is torn down.
LEMMA Invariant == Spec => []IInv
<1>1. Init => IInv
  <2>. SUFFICES ASSUME Init
                PROVE  IInv
    OBVIOUS
  <2>1. StartingUp
    BY DEF Init, StartingUp, Before, SafeRelease
  <2>2. Hearing
    <3>1. 0 \in 0 .. Len(Channels(role)) /\ 1 .. 0 = {}
      BY DEF Channels
    <3>2. registered \cup refused = {Channels(role)[i] : i \in 1 .. tried}
      BY <3>1 DEF Init
    <3>. QED BY <3>1, <3>2 DEF Init, Hearing, MissesOnlyRefused
  <2>3. Losing
    BY DEF Init, Losing, SwallowedOnce
  <2>4. TearingDown
    BY DEF Init, TearingDown, TornDownQuietly, Abnormal
  <2>. QED BY <2>1, <2>2, <2>3, <2>4 DEF IInv
<1>2. IInv /\ [Next]_vars => IInv'
  BY StartingUpKept, HearingKept, LosingKept, TearingDownKept DEF IInv
<1>. QED BY <1>1, <1>2, PTL DEF Spec

\* The destructor releases no connection that the thread may still use, on any
\* way out of main (DatabaseManager.cpp:17-29).
THEOREM ReleasedInTime == Spec => []SafeRelease
<1>1. IInv => SafeRelease
  BY DEF IInv, StartingUp
<1>. QED BY <1>1, Invariant, PTL

\* main keeps to the order that DatabaseManager.hpp:85-92 asks for.
THEOREM RegisteredFirst == Spec => RegisteredBeforeRunning
<1>1. StartingUp /\ [Next]_vars => [registered' # registered => thread = "none"]_vars
  <2>. SUFFICES ASSUME StartingUp, Next, registered' # registered
                PROVE  thread = "none"
    OBVIOUS
  <2>1. Register
    BY DEF Next, Starting, StartFails, MakeManager, Connect, ConnectFails,
           InitRequestIdSequence, InitSequenceFails, RegisterSwallowed, RunListenerLoop,
           Return, Serving, GetSanityInfo, GetSanityInfoFails, MakeHandler,
           MakeHandlerFails, LeaveTry, ServeEnds, ConnectMqtt, ConnectMqttFails, Consuming,
           StoreReading, SwallowReading, RefuseReading, TakeConfig, TakeConfigCrashes,
           TakeBad, TakeOther, Ending, JoinAndReset, Disconnect, Release, DestroyStatics,
           DestroyManager, EndProcess, HandleNotification, ListenerEnds, ListenerRaces,
           StopDatabase, StartDatabase, Arrive, Idle, vars
  <2>. QED BY <2>1 DEF Register, AskNext, StartingUp, Before
<1>2. IInv => StartingUp
  BY DEF IInv
<1>. QED BY <1>1, <1>2, Invariant, PTL DEF Spec, RegisteredBeforeRunning

\* Registrations fail in silence, with or without their connection, but a
\* listener whose connection is open misses no channel on account of the
\* connection (DatabaseManager.cpp:416-474).
THEOREM HearsAllButRefused == Spec => []MissesOnlyRefused
<1>1. IInv => MissesOnlyRefused
  BY DEF IInv, Hearing
<1>. QED BY <1>1, Invariant, PTL

\* However often the database goes away, one reading is lost in silence at most
\* (DatabaseManager.cpp:105-144).
THEOREM OneSilentLoss == Spec => []SwallowedOnce
<1>1. IInv => SwallowedOnce
  BY DEF IInv, Losing
<1>. QED BY <1>1, Invariant, PTL

\* A program that runs to the end of its main has no thread that uses its
\* globals afterwards, except the server in HTTP mode.
THEOREM QuietEnd == Spec => []TornDownQuietly
<1>1. IInv => TornDownQuietly
  BY DEF IInv, TearingDown
<1>. QED BY <1>1, Invariant, PTL

--------------------------------------------------------------------------------
(* Every reading is accounted for: how often it waits, was stored, was       *)
(* swallowed.  The types of the counters follow.                            *)

\* Where the readings of a queue of messages stand.
Readings(q) == {i \in DOMAIN q : q[i] = "reading"}
Waiting(q) == Cardinality(Readings(q))

\* A queue holds a finite number of readings.
LEMMA WaitingType ==
  ASSUME NEW q \in Seq(Messages)
  PROVE  IsFiniteSet(Readings(q)) /\ Waiting(q) \in Nat
<1>1. DOMAIN q = 1 .. Len(q) /\ Len(q) \in Nat
  OBVIOUS
<1>2. IsFiniteSet(1 .. Len(q))
  BY <1>1, FS_Interval
<1>3. Readings(q) \in SUBSET (1 .. Len(q))
  BY <1>1 DEF Readings
<1>. QED BY <1>2, <1>3, FS_Subset, FS_CardinalityType DEF Waiting

\* A message that arrives adds one reading if it is one.
LEMMA WaitingAppend ==
  ASSUME NEW q \in Seq(Messages), NEW m \in Messages
  PROVE  Waiting(Append(q, m)) = IF m = "reading" THEN Waiting(q) + 1 ELSE Waiting(q)
<1>1. /\ Append(q, m) \in Seq(Messages)
      /\ Len(Append(q, m)) = Len(q) + 1
      /\ \A i \in 1 .. Len(q) : Append(q, m)[i] = q[i]
      /\ Append(q, m)[Len(q) + 1] = m
  BY AppendProperties
<1>2. DOMAIN q = 1 .. Len(q) /\ DOMAIN Append(q, m) = 1 .. (Len(q) + 1) /\ Len(q) \in Nat
  BY <1>1
<1>3. CASE m = "reading"
  <2>1. Readings(Append(q, m)) = Readings(q) \cup {Len(q) + 1}
    BY <1>1, <1>2, <1>3 DEF Readings
  <2>2. Len(q) + 1 \notin Readings(q)
    BY <1>2 DEF Readings
  <2>. QED BY <1>3, <2>1, <2>2, WaitingType, FS_AddElement DEF Waiting
<1>4. CASE m # "reading"
  <2>1. Readings(Append(q, m)) = Readings(q)
    BY <1>1, <1>2, <1>4 DEF Readings
  <2>. QED BY <1>4, <2>1 DEF Waiting
<1>. QED BY <1>3, <1>4

\* A message that is taken takes one reading away if it is one: but for the
\* head, the readings of a queue and of its tail correspond one to one.
LEMMA WaitingTail ==
  ASSUME NEW q \in Seq(Messages), q # <<>>
  PROVE  Waiting(q) = IF Head(q) = "reading" THEN Waiting(Tail(q)) + 1 ELSE Waiting(Tail(q))
<1>1. /\ Tail(q) \in Seq(Messages) /\ Head(q) = q[1]
      /\ Len(Tail(q)) = Len(q) - 1
      /\ \A i \in 1 .. Len(Tail(q)) : Tail(q)[i] = q[i + 1]
  BY HeadTailProperties
<1>2. Len(q) \in Nat /\ Len(q) # 0
  BY EmptySeq
<1>3. DOMAIN q = 1 .. Len(q) /\ DOMAIN Tail(q) = 1 .. (Len(q) - 1)
  BY <1>1
<1>. DEFINE rest == Readings(q) \ {1}
            shift == [i \in Readings(Tail(q)) |-> i + 1]
<1>4. \A i \in Readings(Tail(q)) : i \in Nat /\ i + 1 \in rest
  BY <1>1, <1>2, <1>3 DEF Readings
<1>5. \A j \in rest : j - 1 \in Readings(Tail(q)) /\ j = (j - 1) + 1
  BY <1>1, <1>2, <1>3 DEF Readings
<1>6. shift \in Bijection(Readings(Tail(q)), rest)
  <2>1. shift \in [Readings(Tail(q)) -> rest]
    BY <1>4
  <2>2. \A i, j \in Readings(Tail(q)) : shift[i] = shift[j] => i = j
    BY <1>4
  <2>3. \A j \in rest : \E i \in Readings(Tail(q)) : shift[i] = j
    BY <1>5
  <2>. QED BY <2>1, <2>2, <2>3 DEF Bijection, Injection, IsInjective, Surjection
<1>7. Waiting(Tail(q)) = Cardinality(rest)
  BY <1>1, <1>6, WaitingType, FS_Bijection DEF Waiting, ExistsBijection
<1>8. Cardinality(rest) = IF 1 \in Readings(q) THEN Waiting(q) - 1 ELSE Waiting(q)
  BY WaitingType, FS_RemoveElement DEF Waiting
<1>9. 1 \in Readings(q) <=> Head(q) = "reading"
  BY <1>1, <1>2, <1>3 DEF Readings
<1>. QED BY <1>7, <1>8, <1>9, WaitingType

\* Where main stands once the loop is over.
After == {"join", "disconnect", "release", "exit", "last", "gone"}

\* No reading vanishes while the loop runs, and none appears out of nothing.
\* The exception that ends the loop takes the last one with it.
Accounted ==
    /\ sent \in [Messages -> Nat] /\ inbox \in Seq(Messages)
    /\ stored \in Nat /\ swallowed \in Nat
    /\ sent["reading"] + sent["config"] + sent["bad"] + sent["other"] <= MaxMessages
    /\ stored + swallowed + Waiting(inbox) <= sent["reading"]
    /\ at \notin After => stored + swallowed + Waiting(inbox) = sent["reading"]

\* What a step without messages keeps of the account.
LEMMA AccountKept ==
  ASSUME Accounted, UNCHANGED loopVars, at \in After => at' \in After
  PROVE  Accounted'
<1>1. Waiting(inbox)' = Waiting(inbox)
  BY DEF Waiting, Readings
<1>. QED BY <1>1 DEF Accounted

\* What taking a message does to the account.
LEMMA AccountTaken ==
  ASSUME Accounted, NEW m \in Messages, Take(m), UNCHANGED sent,
         stored' \in Nat, swallowed' \in Nat,
         m = "reading" => \/ stored' + swallowed' = stored + swallowed + 1
                          \/ stored' + swallowed' = stored + swallowed /\ at' \in After,
         m # "reading" => stored' + swallowed' = stored + swallowed,
         at \in After => at' \in After
  PROVE  Accounted'
<1>1. /\ inbox' \in Seq(Messages) /\ inbox' = Tail(inbox) /\ Head(inbox) = m
      /\ Waiting(inbox) = IF m = "reading" THEN Waiting(inbox') + 1 ELSE Waiting(inbox')
      /\ Waiting(inbox) \in Nat /\ Waiting(inbox') \in Nat
  BY WaitingTail, WaitingType, HeadTailProperties DEF Accounted, Take
<1>2. Waiting(inbox)' = Waiting(inbox')
  BY DEF Waiting, Readings
<1>. DEFINE dealt == stored + swallowed    dealt2 == stored' + swallowed'
            wait == Waiting(inbox)         wait2 == Waiting(inbox')
            total == sent["reading"]
<1>3. dealt \in Nat /\ wait \in Nat /\ wait2 \in Nat /\ total \in Nat
  BY <1>1 DEF Accounted, Messages
<1>4. dealt + wait <= total /\ (at' \notin After => dealt + wait = total)
  BY DEF Accounted
<1>5. \/ wait = wait2 + 1 /\ dealt2 = dealt + 1
      \/ wait = wait2 + 1 /\ dealt2 = dealt /\ at' \in After
      \/ wait = wait2 /\ dealt2 = dealt
  BY <1>1
<1>6. dealt2 + wait2 <= total /\ (at' \notin After => dealt2 + wait2 = total)
  <2>. HIDE DEF dealt, dealt2, wait, wait2, total
  <2>. QED BY ONLY <1>3, <1>4, <1>5
<1>. QED BY <1>1, <1>2, <1>6 DEF Accounted

\* Every step keeps the account.
LEMMA AccountedKept ==
  ASSUME Accounted, [Next]_vars
  PROVE  Accounted'
<1>. USE DEF Goto, After
<1>. {"reading", "config", "bad", "other"} \subseteq Messages
  BY DEF Messages
<1>. stored \in Nat /\ swallowed \in Nat
  BY DEF Accounted
<1>1. CASE Starting
  BY <1>1, AccountKept DEF Starting, StartFails, MakeManager, Connect, ConnectFails,
              InitRequestIdSequence, InitSequenceFails, Register, RegisterSwallowed,
              RunListenerLoop, AskNext, Return
<1>2. CASE Serving \/ ServeEnds \/ ConnectMqtt \/ ConnectMqttFails
  BY <1>2, AccountKept DEF Serving, GetSanityInfo, GetSanityInfoFails, MakeHandler,
              MakeHandlerFails, LeaveTry, ServeEnds, ConnectMqtt, ConnectMqttFails, Return
<1>3. CASE Consuming
  <2>. USE DEF Continues, LoopEnds
  <2>1. CASE StoreReading
    BY <2>1, AccountTaken DEF StoreReading
  <2>2. CASE SwallowReading
    BY <2>2, AccountTaken DEF SwallowReading
  <2>3. CASE RefuseReading
    BY <2>3, AccountTaken DEF RefuseReading
  <2>4. CASE TakeConfig
    BY <2>4, AccountTaken DEF TakeConfig
  <2>5. CASE TakeConfigCrashes
    BY <2>5, AccountTaken DEF TakeConfigCrashes
  <2>6. CASE TakeBad \/ TakeOther
    BY <2>6, AccountTaken DEF TakeBad, TakeOther
  <2>. QED BY <1>3, <2>1, <2>2, <2>3, <2>4, <2>5, <2>6 DEF Consuming
<1>4. CASE Ending
  BY <1>4, AccountKept DEF Ending, JoinAndReset, Disconnect, Release, DestroyStatics,
              DestroyManager, EndProcess
<1>5. CASE HandleNotification \/ ListenerEnds \/ ListenerRaces \/ StopDatabase \/ StartDatabase
  BY <1>5, AccountKept DEF HandleNotification, ListenerEnds, ListenerRaces, StopDatabase,
              StartDatabase
<1>6. CASE \E m \in Messages : Arrive(m)
  <2>. PICK m \in Messages : Arrive(m)
    BY <1>6
  <2>1. /\ inbox' \in Seq(Messages) /\ inbox \in Seq(Messages)
        /\ Waiting(inbox') = IF m = "reading" THEN Waiting(inbox) + 1 ELSE Waiting(inbox)
        /\ Waiting(inbox) \in Nat
    BY WaitingAppend, WaitingType, AppendProperties DEF Arrive, Accounted
  <2>2. Waiting(inbox)' = Waiting(inbox')
    BY DEF Waiting, Readings
  <2>3. /\ sent' = [sent EXCEPT ![m] = @ + 1] /\ sent' \in [Messages -> Nat]
        /\ at = "consume" /\ at' = at /\ UNCHANGED <<stored, swallowed>>
    BY DEF Arrive, Accounted
  <2>4. sent'["reading"] = IF m = "reading" THEN sent["reading"] + 1 ELSE sent["reading"]
    BY <2>3 DEF Accounted
  <2>5. sent'["reading"] + sent'["config"] + sent'["bad"] + sent'["other"] <= MaxMessages
    <3>1. /\ sent["reading"] \in Nat /\ sent["config"] \in Nat
          /\ sent["bad"] \in Nat /\ sent["other"] \in Nat
          /\ MaxMessages \in Nat
          /\ sent["reading"] + sent["config"] + sent["bad"] + sent["other"] < MaxMessages
      BY BoundsAssumption DEF Arrive, Accounted
    <3>2. PICK k \in Messages : sent' = [sent EXCEPT ![k] = sent[k] + 1]
      BY <2>3
    <3>3. sent \in [Messages -> Nat]
      BY DEF Accounted
    <3>. QED BY ONLY <3>1, <3>2, <3>3 DEF Messages
  <2>6. stored + swallowed + Waiting(inbox) = sent["reading"] /\ sent["reading"] \in Nat
    BY <2>3 DEF Accounted, Messages
  <2>7. stored' + swallowed' + Waiting(inbox') = sent'["reading"]
    BY <2>1, <2>3, <2>4, <2>6
  <2>8. stored' + swallowed' + Waiting(inbox') <= sent'["reading"]
    BY <2>1, <2>3, <2>4, <2>6, <2>7
  <2>. QED BY <2>1, <2>2, <2>3, <2>5, <2>7, <2>8 DEF Accounted
<1>7. CASE Idle \/ UNCHANGED vars
  BY <1>7, AccountKept DEF Idle, vars
<1>. QED BY <1>1, <1>2, <1>3, <1>4, <1>5, <1>6, <1>7 DEF Next

\* What is left of the types.
Typed == /\ at \in {"start", "connect", "init", "register", "sanity", "handler",
                    "serve", "leave", "mqtt", "consume", "join", "disconnect",
                    "release", "exit", "last", "gone"}
         /\ listener \in Connections /\ queries \in Connections
         /\ thread \in {"none", "running", "ended", "killed"}
         /\ registered \subseteq AllChannels
         /\ owners \subseteq {"global", "handler"}
         /\ status \in {"none", "success", "failure", "crash"}
         /\ database \in {"up", "down"} /\ faults \in 0 .. MaxFaults
         /\ refused \subseteq AllChannels

\* Every step keeps them.
LEMMA TypedKept ==
  ASSUME Hearing, Typed, [Next]_vars
  PROVE  Typed'
<1>. USE BoundsAssumption DEF Typed, Connections, Goto, Used, Return
<1>1. UNCHANGED role => AllChannels' = AllChannels
  BY DEF AllChannels, Channels
<1>2. CASE Starting
  <2>1. CASE Register
    <3>1. tried + 1 \in DOMAIN Channels(role)
      BY <2>1 DEF Register, AskNext, Hearing, Channels
    <3>2. registered' \subseteq AllChannels
      BY <2>1, <3>1 DEF Register, AllChannels
    <3>. QED BY <1>1, <2>1, <3>2 DEF Register, AskNext
  <2>2. CASE RegisterSwallowed
    <3>1. tried + 1 \in DOMAIN Channels(role)
      BY <2>2 DEF RegisterSwallowed, AskNext, Hearing, Channels
    <3>2. refused' \subseteq AllChannels
      BY <2>2, <3>1 DEF RegisterSwallowed, AllChannels
    <3>. QED BY <1>1, <2>2, <3>2 DEF RegisterSwallowed, AskNext
  <2>3. CASE StartFails \/ MakeManager
    BY <1>1, <2>3 DEF StartFails, MakeManager
  <2>4. CASE Connect \/ ConnectFails
    BY <1>1, <2>4 DEF Connect, ConnectFails
  <2>5. CASE InitRequestIdSequence \/ InitSequenceFails
    BY <1>1, <2>5 DEF InitRequestIdSequence, InitSequenceFails
  <2>6. CASE RunListenerLoop
    BY <1>1, <2>6 DEF RunListenerLoop
  <2>. QED BY <1>2, <2>1, <2>2, <2>3, <2>4, <2>5, <2>6 DEF Starting
<1>3. CASE Serving \/ ServeEnds
  <2>1. CASE LeaveTry
    <3>1. owners' \subseteq owners
      BY <2>1 DEF LeaveTry
    <3>2. at' \in {"disconnect", "exit"}
      BY <2>1 DEF LeaveTry
    <3>. QED BY <1>1, <2>1, <3>1, <3>2 DEF LeaveTry
  <2>2. CASE GetSanityInfo \/ GetSanityInfoFails
    BY <1>1, <2>2 DEF GetSanityInfo, GetSanityInfoFails
  <2>3. CASE MakeHandler \/ MakeHandlerFails
    BY <1>1, <2>3 DEF MakeHandler, MakeHandlerFails
  <2>4. CASE ServeEnds
    BY <1>1, <2>4 DEF ServeEnds
  <2>. QED BY <1>3, <2>1, <2>2, <2>3, <2>4 DEF Serving
<1>4. CASE ConnectMqtt \/ ConnectMqttFails \/ Consuming
  <2>. USE DEF Take, Continues, LoopEnds
  <2>1. CASE ConnectMqtt \/ ConnectMqttFails
    BY <1>1, <2>1 DEF ConnectMqtt, ConnectMqttFails
  <2>2. CASE StoreReading \/ SwallowReading \/ RefuseReading
    BY <1>1, <2>2 DEF StoreReading, SwallowReading, RefuseReading
  <2>3. CASE TakeConfig \/ TakeConfigCrashes
    BY <1>1, <2>3 DEF TakeConfig, TakeConfigCrashes
  <2>4. CASE TakeBad \/ TakeOther
    BY <1>1, <2>4 DEF TakeBad, TakeOther
  <2>. QED BY <1>4, <2>1, <2>2, <2>3, <2>4 DEF Consuming
<1>5. CASE Ending
  <2>1. CASE JoinAndReset \/ DestroyStatics
    BY <1>1, <2>1 DEF JoinAndReset, DestroyStatics
  <2>2. CASE Disconnect \/ Release
    BY <1>1, <2>2 DEF Disconnect, Release, Closed
  <2>3. CASE DestroyManager \/ EndProcess
    BY <1>1, <2>3 DEF DestroyManager, EndProcess
  <2>. QED BY <1>5, <2>1, <2>2, <2>3 DEF Ending
<1>6. CASE HandleNotification \/ ListenerEnds \/ ListenerRaces
  <2>1. CASE HandleNotification
    BY <1>1, <2>1 DEF HandleNotification
  <2>2. CASE ListenerEnds \/ ListenerRaces
    BY <1>1, <2>2 DEF ListenerEnds, ListenerRaces
  <2>. QED BY <1>6, <2>1, <2>2
<1>7. CASE StopDatabase
  <2>1. MaxFaults \in Nat
    BY BoundsAssumption
  <2>2. faults' \in 0 .. MaxFaults
    BY <1>7, <2>1 DEF StopDatabase
  <2>. QED BY <1>1, <1>7, <2>2 DEF StopDatabase
<1>8. CASE StartDatabase \/ \E m \in Messages : Arrive(m)
  BY <1>1, <1>8 DEF StartDatabase, Arrive
<1>9. CASE Idle \/ UNCHANGED vars
  BY <1>1, <1>9 DEF Idle, vars
<1>. QED BY <1>2, <1>3, <1>4, <1>5, <1>6, <1>7, <1>8, <1>9 DEF Next

\* The account and the types hold together in every state.
LEMMA AccountInvariant == Spec => [](Accounted /\ Typed)
<1>1. Init => Accounted /\ Typed
  <2>. SUFFICES ASSUME Init
                PROVE  Accounted /\ Typed
    OBVIOUS
  <2>1. inbox \in Seq(Messages) /\ Waiting(inbox) = 0
    <3>1. Readings(inbox) = {}
      BY DEF Init, Readings
    <3>. QED BY <3>1, FS_EmptySet, EmptySeq DEF Init, Waiting
  <2>2. MaxMessages \in Nat /\ MaxFaults \in Nat
    BY BoundsAssumption
  <2>3. Accounted
    BY <2>1, <2>2 DEF Init, Accounted, Messages
  <2>4. Typed
    BY <2>2 DEF Init, Typed, Connections, AllChannels
  <2>. QED BY <2>3, <2>4
<1>2. IInv /\ Accounted /\ Typed /\ [Next]_vars => Accounted' /\ Typed'
  BY AccountedKept, TypedKept DEF IInv
<1>. QED BY <1>1, <1>2, Invariant, PTL DEF Spec

\* Every variable keeps to its values, the counters of readings to what was
\* received, for any number of messages and of database failures.
THEOREM TypeCorrect == Spec => []TypeOK
<1>1. IInv /\ Accounted /\ Typed => TypeOK
  <2>. SUFFICES ASSUME IInv, Accounted, Typed
                PROVE  TypeOK
    OBVIOUS
  <2>1. inbox \in Seq(Messages) /\ Waiting(inbox) \in Nat
    BY WaitingType DEF Accounted
  <2>2. /\ sent["reading"] \in Nat /\ sent["config"] \in Nat
        /\ sent["bad"] \in Nat /\ sent["other"] \in Nat /\ MaxMessages \in Nat
    BY BoundsAssumption DEF Accounted, Messages
  <2>3. stored \in 0 .. sent["reading"] /\ swallowed \in 0 .. sent["reading"]
    BY <2>1, <2>2 DEF Accounted
  <2>4. sent \in [Messages -> 0 .. MaxMessages]
    <3>1. \A m \in Messages : sent[m] \in 0 .. MaxMessages
      BY <2>2 DEF Accounted, Messages
    <3>. QED BY <3>1 DEF Accounted
  <2>5. /\ role \in Roles /\ tried \in 0 .. Len(Channels(role))
        /\ statics \in BOOLEAN /\ late \in BOOLEAN
    BY DEF IInv, StartingUp, Hearing, TearingDown
  <2>. QED BY <2>1, <2>3, <2>4, <2>5 DEF Typed, TypeOK
<1>. QED BY <1>1, Invariant, AccountInvariant, PTL

\* As long as the loop of the controller runs, every reading received is
\* stored, swallowed or waits, and one at most is swallowed however often the
\* database goes away (controller/src/main.cpp:186-208, DatabaseManager.cpp:105-144).
THEOREM NoReadingVanishes ==
  Spec => [](at = "consume" => /\ sent["reading"] = stored + swallowed + Waiting(inbox)
                               /\ swallowed <= 1)
<1>1. IInv /\ Accounted /\ at = "consume" =>
         sent["reading"] = stored + swallowed + Waiting(inbox) /\ swallowed <= 1
  BY DEF Accounted, After, IInv, Losing, SwallowedOnce
<1>. QED BY <1>1, Invariant, AccountInvariant, PTL
================================================================================
