-------------------------- MODULE ServerSessions_proofs --------------------------
(****************************************************************************)
(* Proofs about ServerSessions, for any number of connections, any size of  *)
(* the pool, any capacity of the dispatcher and any life of a token.        *)
(****************************************************************************)
EXTENDS ServerSessions, FiniteSetTheorems, SequenceTheorems, TLAPS

OCSP_proofs == INSTANCE OcspCache_proofs WITH Handshakes <- Connections

\* The sizes are numbers, and the connections finitely many.
SizesAreNumbers == /\ PoolSizes \subseteq Nat /\ MAX_PENDING \in Nat
                   /\ TokenTtl \in Nat
                   /\ IsFiniteSet(Connections)

Typed == /\ threads \in PoolSizes
         /\ mode \in {"http", "raw"} /\ jwt \in BOOLEAN
         /\ acceptor \in {"listening", "ended"}
         /\ stage \in [Connections -> Stages]
         /\ published \in Seq(Connections)
         /\ latest \in Connections \cup {None}
         /\ phase \in [Connections -> {"new", "open", "closed"}]
         /\ answer \in [Connections -> {"PENDING", "SUCCESS", "DB_ERROR"}]
         /\ result \in [Connections -> {"PENDING", "SUCCESS", "DB_ERROR",
                                        "TIMEOUT", "SYSTEM_FULL"}]

\* A wait that is open in the dispatcher is one that holds a thread.
HoldsThread == \A c \in Connections : phase[c] = "open" => stage[c] = "waiting"

\* Who is served has published, and the details are those published last.
Published == /\ published # <<>> => latest = published[Len(published)]
             /\ \A c \in Connections :
                    stage[c] \in {"reading", "waiting", "writing"}
                        => \E i \in DOMAIN published : published[i] = c

IInv == Typed /\ HoldsThread /\ Published /\ NeverFull

USE DEF configVars, engineVars, dispVars, ocspVars

--------------------------------------------------------------------------------
(* What a request can come to do (HttpApi)                                  *)

\* A request for a file has no other effect than its answer.
LEMMA FilesDoNothing ==
  ASSUME NEW req \in Requests, req.target \notin ApiTargets, NEW jwt_ \in BOOLEAN
  PROVE  Handle(req, jwt_).effect = "none"
<1>1. req.target \in FileTargets /\ Handle(req, jwt_) = HandleFile(req)
  BY DEF Handle, Requests
<1>2. \E status \in Nat : HandleFile(req) = Plain(status)
  BY <1>1 DEF HandleFile, FileTargets
<1>. QED BY <1>1, <1>2 DEF Plain, Answer

\* Nothing is done for a request where there is no key, and the connection details
\* are shown, like an order taken, only for a token: the login is the one thing
\* open to everybody (QuantumSafeHttp.cpp:95-118, 167-199).
THEOREM EffectsNeedKey ==
  ASSUME NEW jwt_ \in BOOLEAN, NEW req \in Requests, Handle(req, jwt_).effect # "none"
  PROVE  /\ jwt_
         /\ \/ req.token
            \/ req.target = "login" /\ req.method = "POST" /\ req.body = "admin"
<1>1. req.target \in ApiTargets
  BY FilesDoNothing
<1>2. CASE req.target = "login" /\ req.method = "POST"
  <2>1. Handle(req, jwt_) = HandleLogin(req, jwt_)
    BY <1>1, <1>2 DEF Handle, HandleApi
  <2>2. jwt_
    BY <2>1 DEF HandleLogin, Plain, Answer
  <2>3. req.body = "admin"
    BY <2>1 DEF HandleLogin, Plain, Answer, Requests, Bodies
  <2>. QED BY <1>2, <2>2, <2>3
<1>3. CASE ~(req.target = "login" /\ req.method = "POST")
  <2>1. RequireAuth(req, jwt_)
    BY <1>1, <1>3 DEF Handle, HandleApi, Plain, Answer
  <2>. QED BY <2>1 DEF RequireAuth
<1>. QED BY <1>2, <1>3

\* Only a request with a token reaches the database, and only where there is a
\* key to check it with.
LEMMA OrderNeedsToken ==
  ASSUME NEW jwt_ \in BOOLEAN, NEW req \in Requests, Handle(req, jwt_).effect = "order"
  PROVE  jwt_ /\ req.token
<1>1. req.target \in ApiTargets
  BY FilesDoNothing
<1>2. HandleLogin(req, jwt_).effect # "order"
  BY DEF HandleLogin, Plain, Answer, Requests, Bodies
<1>. QED BY <1>1, <1>2 DEF Handle, HandleApi, RequireAuth, Plain, Answer

\* The token was issued and has not expired.
LEMMA OrderIsAuthorised ==
  ASSUME Typed, mode = "http", Asks("order")
  PROVE  jwt /\ now < exp
<1>1. PICK token \in {FALSE, now < exp} : <<token, "order">> \in HttpEffects[jwt]
  BY DEF Asks
<1>2. PICK req \in Requests : <<token, "order">> = <<req.token, Handle(req, jwt).effect>>
  BY <1>1 DEF HttpEffects, Typed
<1>3. jwt /\ req.token
  BY <1>2, OrderNeedsToken DEF Typed
<1>. QED BY <1>1, <1>2, <1>3

\* A word that comes alone is the command, without a value.
LEMMA OneWord ==
  ASSUME NEW w \in Words
  PROVE  /\ <<w>> \in [1 .. 1 -> Words]
         /\ ParseSensorCommand(<<w>>).cmd = w
         /\ ParseSensorCommand(<<w>>).value = ""
         /\ ~ParseSensorCommand(<<w>>).valid
<1>. DEFINE read == <<w>>
            first == SubSeq(read, 1, 1)
<1>1. /\ read \in Seq(Words) /\ Len(read) = 1 /\ DOMAIN read = 1 .. 1 /\ read[1] = w
      /\ read \in [1 .. 1 -> Words]
  OBVIOUS
<1>2. /\ read # <<>>
      /\ first \in Seq(Words) /\ Len(first) = 1 /\ DOMAIN first = 1 .. 1 /\ first[1] = w
  BY <1>1
<1>. HIDE DEF read, first
<1>3. /\ Word(read, 2) = "" /\ Word(first, 1) = w /\ Word(first, 4) = ""
      /\ "" \notin {"number", "address"}
  BY <1>1, <1>2 DEF Word
<1>4. /\ ParseSensorCommand(read).cmd = Word(first, 1)
      /\ ParseSensorCommand(read).value = Word(first, 4)
      /\ ParseSensorCommand(read).valid <=> Len(first) = 4
  BY <1>2, <1>3 DEF ParseSensorCommand, first
<1>5. ~ParseSensorCommand(read).valid
  BY <1>2, <1>4
<1>. QED BY <1>1, <1>3, <1>4, <1>5 DEF read

\* A read of any length does what one of at most five words does, so the reads
\* of CliEffects are enough; and it becomes an order only if it starts with
\* CONFIG_IP and has an address where the parser looks for the value, which is a
\* word earlier if an address stands where the sensor's number should
\* (QuantumCommandCli.cpp:120-142).
THEOREM ReadsAreFew ==
  ASSUME NEW read \in Seq(Words)
  PROVE  /\ Obey(read) \in CliEffects
         /\ Obey(read) = "order" =>
                /\ Len(read) >= 3 /\ read[1] = "CONFIG_IP"
                /\ \/ read[2] = "number" /\ Len(read) >= 4 /\ read[4] = "address"
                   \/ read[2] = "address" /\ read[3] = "address"
<1>1. \A n \in 0 .. 5 : \A r \in [1 .. n -> Words] : Obey(r) \in CliEffects
  BY DEF CliEffects, Reads
<1>2. {"quit", "text", "refused", "order"} \subseteq CliEffects
  <2>0. {"quit", "REBOOT", "CONFIG_IP"} \subseteq Words
    BY DEF Words
  <2>1. <<"quit">> \in [1 .. 1 -> Words] /\ Obey(<<"quit">>) = "quit"
    BY <2>0, OneWord DEF Obey
  <2>2. <<"REBOOT">> \in [1 .. 1 -> Words] /\ Obey(<<"REBOOT">>) = "text"
    BY <2>0, OneWord DEF Obey, Execute
  <2>3. <<"CONFIG_IP">> \in [1 .. 1 -> Words] /\ Obey(<<"CONFIG_IP">>) = "refused"
    BY <2>0, OneWord DEF Obey, Execute
  <2>. DEFINE line == <<"CONFIG_IP", "number", "name", "address">>
  <2>4. line \in [1 .. 4 -> Words] /\ Obey(line) = "order"
    <3>1. /\ line \in [1 .. 4 -> Words] /\ Word(line, 1) = "CONFIG_IP"
          /\ Word(line, 2) = "number" /\ Word(line, 4) = "address"
      BY DEF Word, Words
    <3>2. ParseSensorCommand(line) = [cmd |-> Word(line, 1), value |-> Word(line, 4),
                                      valid |-> Len(line) = 4]
      <4>. HIDE DEF line
      <4>. QED BY <3>1 DEF ParseSensorCommand
    <3>3. /\ ParseSensorCommand(line).cmd = "CONFIG_IP"
          /\ ParseSensorCommand(line).value = "address"
      BY <3>1, <3>2
    <3>. HIDE DEF line
    <3>. QED BY <3>1, <3>3 DEF Obey, Execute
  <2>. HIDE DEF line
  <2>. QED BY <1>1, <2>1, <2>2, <2>3, <2>4
<1>3. Obey(read) \in {"quit", "text", "refused", "order"}
  BY DEF Obey, Execute
<1>4. ASSUME Obey(read) = "order"
      PROVE  /\ Len(read) >= 3 /\ read[1] = "CONFIG_IP"
             /\ \/ read[2] = "number" /\ Len(read) >= 4 /\ read[4] = "address"
                \/ read[2] = "address" /\ read[3] = "address"
  <2>1. /\ ParseSensorCommand(read).cmd = "CONFIG_IP"
        /\ ParseSensorCommand(read).value = "address"
    BY <1>4 DEF Obey, Execute
  <2>2. CASE Word(read, 2) = "number" \/ read = <<>>
    <3>1. /\ ParseSensorCommand(read).cmd = Word(read, 1)
          /\ ParseSensorCommand(read).value = Word(read, 4)
      <4>1. CASE Word(read, 2) = "number"
        BY <4>1 DEF ParseSensorCommand
      <4>2. CASE read = <<>>
        BY <4>2 DEF ParseSensorCommand, Word
      <4>. QED BY <2>2, <4>1, <4>2
    <3>2. Word(read, 1) = "CONFIG_IP" /\ Word(read, 4) = "address"
      BY <2>1, <3>1
    <3>. QED BY <2>2, <3>2 DEF Word
  <2>3. CASE Word(read, 2) = "address" /\ read # <<>>
    <3>. DEFINE rest == SubSeq(read, 3, Len(read))
    <3>1. Len(read) >= 2 /\ read[2] = "address"
      BY <2>3 DEF Word
    <3>2. rest \in Seq(Words) /\ Len(rest) = Len(read) - 2
      <4>1. 3 \in Int /\ Len(read) \in Int /\ \A i \in 3 .. Len(read) : read[i] \in Words
        OBVIOUS
      <4>. DEFINE n == Len(read)
      <4>2. n \in Int /\ \A i \in 3 .. n : read[i] \in Words
        BY <4>1
      <4>. HIDE DEF n
      <4>3. /\ SubSeq(read, 3, n) \in Seq(Words)
            /\ Len(SubSeq(read, 3, n)) = IF 3 <= n THEN n - 3 + 1 ELSE 0
        BY <4>1, <4>2, SubSeqProperties
      <4>. QED BY <3>1, <4>1, <4>3 DEF n
    <3>3. Len(rest) >= 1 => rest[1] = read[3]
      BY <3>1
    <3>. DEFINE words == <<read[1], "number", "name">> \o rest
    <3>4. Word(words, 1) = "CONFIG_IP" /\ Word(words, 4) = "address"
      BY <2>1, <2>3 DEF ParseSensorCommand
    <3>. HIDE DEF rest
    <3>5. /\ Len(words) = 3 + Len(rest) /\ words[1] = read[1]
          /\ (Len(rest) >= 1 => words[4] = rest[1])
      BY <3>1, <3>2 DEF Words
    <3>. HIDE DEF words
    <3>6. 4 \in DOMAIN words /\ words[1] = "CONFIG_IP" /\ words[4] = "address"
      BY <3>4 DEF Word
    <3>. QED BY <3>1, <3>2, <3>3, <3>5, <3>6
  <2>4. CASE Word(read, 2) \notin {"number", "address"} /\ read # <<>>
    <3>1. Word(SubSeq(read, 1, 1), 4) = "address"
      BY <2>1, <2>4 DEF ParseSensorCommand
    <3>2. SubSeq(read, 1, 1) \in Seq(Words) /\ Len(SubSeq(read, 1, 1)) = 1
      BY <2>4
    <3>. QED BY <3>1, <3>2 DEF Word
  <2>. QED BY <2>2, <2>3, <2>4
<1>. QED BY <1>2, <1>3, <1>4

--------------------------------------------------------------------------------
(* The inductive invariant                                                  *)

\* With a thread for each wait the dispatcher is not full while one is free.
LEMMA RoomForOne ==
  ASSUME SizesAreNumbers, Typed, HoldsThread, FreeThread, threads <= MAX_PENDING
  PROVE  Cardinality(DISP!Opened) < MAX_PENDING
<1>1. Busy \in SUBSET Connections /\ DISP!Opened \in SUBSET Busy
  BY DEF Busy, DISP!Opened, HoldsThread
<1>2. IsFiniteSet(Busy)
  BY <1>1, FS_Subset DEF SizesAreNumbers
<1>3. Cardinality(DISP!Opened) <= Cardinality(Busy)
  BY <1>1, <1>2, FS_Subset
<1>4. Cardinality(DISP!Opened) \in Nat /\ Cardinality(Busy) \in Nat
  BY <1>1, <1>2, FS_Subset, FS_CardinalityType
<1>5. threads \in Nat /\ MAX_PENDING \in Nat
  BY DEF Typed, SizesAreNumbers
<1>. QED BY <1>3, <1>4, <1>5 DEF FreeThread

\* The handshake that completes is published last.
LEMMA PublishKeeps ==
  ASSUME Typed, Published, NEW c \in Connections, Publish(c)
  PROVE  Published'
<1>1. /\ published' \in Seq(Connections)
      /\ Len(published') = Len(published) + 1
      /\ published'[Len(published')] = c
      /\ \A i \in DOMAIN published : i \in DOMAIN published' /\ published'[i] = published[i]
  BY DEF Typed, Publish
<1>2. latest' = published'[Len(published')]
  BY <1>1 DEF Publish
<1>3. ASSUME NEW d \in Connections, stage'[d] \in {"reading", "waiting", "writing"}
      PROVE  \E i \in DOMAIN published' : published'[i] = d
  <2>1. CASE d = c
    BY <2>1, <1>1
  <2>2. CASE d # c
    <3>1. stage[d] = stage'[d]
      BY <2>2 DEF Publish, Resume, Goto, Typed
    <3>. QED BY <1>1, <1>3, <3>1 DEF Published
  <2>. QED BY <2>1, <2>2
<1>. QED BY <1>2, <1>3 DEF Published

\* The steps up to the end of a handshake, and the ends of a session.
LEMMA EngineKeeps ==
  ASSUME IInv, NEW c \in Connections,
         \/ Connect(c) \/ Accept(c) \/ NoStatus(c) \/ StatusFromCache(c)
         \/ StatusMissing(c) \/ ResponderAnswers(c) \/ StatusProvided(c)
         \/ StatusFails(c) \/ SessionFails(c) \/ Shutdown(c)
  PROVE  IInv'
<1>1. /\ UNCHANGED <<threads, mode, jwt, acceptor, published, latest, dispVars>>
      /\ \/ stage' = stage
         \/ \E to \in Stages \ {"reading", "waiting", "writing"} :
                stage[c] # "waiting" /\ stage' = [stage EXCEPT ![c] = to]
  BY DEF Connect, Accept, NoStatus, StatusFromCache, StatusMissing, ResponderAnswers,
         StatusProvided, StatusFails, SessionFails, Shutdown, Resume, Goto, Stages
<1>2. Typed'
  BY <1>1 DEF IInv, Typed
<1>3. HoldsThread' /\ NeverFull'
  BY <1>1 DEF IInv, Typed, HoldsThread, NeverFull
<1>4. Published'
  BY <1>1 DEF IInv, Typed, Published
<1>. QED BY <1>2, <1>3, <1>4 DEF IInv

\* The steps of the session handlers.
LEMMA SessionKeeps ==
  ASSUME SizesAreNumbers, IInv, NEW c \in Connections,
         \/ Serve(c) \/ Quit(c) \/ Login(c) \/ OrderFails(c) \/ OrderRefused(c)
         \/ OrderWaits(c) \/ Told(c) \/ WaitEnds(c) \/ Write(c)
  PROVE  IInv'
<1>1. /\ UNCHANGED <<threads, mode, jwt, acceptor, published, latest>>
      /\ \/ stage' = stage
         \/ /\ stage[c] \in {"reading", "waiting", "writing"}
            /\ \E to \in Stages : stage' = [stage EXCEPT ![c] = to]
  BY DEF Serve, Quit, Login, OrderFails, OrderRefused, OrderWaits, Told, WaitEnds, Write,
         Resume, Goto, Stages
<1>2. Published'
  BY <1>1 DEF IInv, Typed, Published
<1>3. CASE Serve(c) \/ Quit(c) \/ Login(c) \/ OrderFails(c)
  BY <1>1, <1>2, <1>3 DEF IInv, Typed, HoldsThread, NeverFull, Serve, Quit, Login,
         OrderFails, Resume, Goto
<1>4. CASE OrderRefused(c)
  <2>1. ~(threads <= MAX_PENDING)
    <3>1. FreeThread /\ Cardinality(DISP!Opened) >= MAX_PENDING
      BY <1>4 DEF OrderRefused, Resume, DISP!Refuse, Cardinality, DISP!Cardinality
    <3>2. DISP!Opened \subseteq Connections
      BY DEF DISP!Opened
    <3>3. Cardinality(DISP!Opened) \in Nat /\ MAX_PENDING \in Nat
      BY <3>2, FS_Subset, FS_CardinalityType DEF SizesAreNumbers
    <3>. QED BY <3>1, <3>3, RoomForOne DEF IInv
  <2>2. Typed'
    BY <1>1, <1>4 DEF IInv, Typed, OrderRefused, DISP!Refuse
  <2>3. HoldsThread' /\ NeverFull'
    BY <1>1, <1>4, <2>1 DEF IInv, Typed, HoldsThread, NeverFull, OrderRefused, DISP!Refuse,
           Resume, Goto
  <2>. QED BY <1>2, <2>2, <2>3 DEF IInv
<1>5. CASE OrderWaits(c)
  BY <1>1, <1>2, <1>5 DEF IInv, Typed, HoldsThread, NeverFull, OrderWaits, DISP!Open,
         Resume, Goto
<1>6. CASE Told(c)
  BY <1>1, <1>2, <1>6 DEF IInv, Typed, HoldsThread, NeverFull, Told, DISP!Answer,
         DISP!Replies
<1>7. CASE WaitEnds(c)
  BY <1>1, <1>2, <1>7 DEF IInv, Typed, HoldsThread, NeverFull, WaitEnds, DISP!Close, Goto
<1>8. CASE Write(c)
  BY <1>1, <1>2, <1>8 DEF IInv, Typed, HoldsThread, NeverFull, Write
<1>. QED BY <1>3, <1>4, <1>5, <1>6, <1>7, <1>8

\* Every step keeps the invariant.
LEMMA NextIInv ==
  ASSUME SizesAreNumbers, IInv, [Next]_vars
  PROVE  IInv'
<1>1. CASE AcceptFails
  <2>1. /\ UNCHANGED <<threads, mode, jwt, published, latest, phase, answer, result>>
        /\ \A c \in Connections : \/ stage'[c] = stage[c]
                                  \/ stage[c] = "backlog" /\ stage'[c] = "closed"
    BY <1>1 DEF AcceptFails
  <2>2. Typed'
    BY <1>1 DEF IInv, Typed, AcceptFails, Stages
  <2>3. HoldsThread' /\ NeverFull'
    BY <2>1 DEF IInv, HoldsThread, NeverFull
  <2>4. Published'
    BY <2>1 DEF IInv, Published
  <2>. QED BY <2>2, <2>3, <2>4 DEF IInv
<1>2. ASSUME NEW c \in Connections, Publish(c) PROVE IInv'
  <2>1. Typed'
    BY <1>2 DEF IInv, Typed, Publish, Resume, Goto, Stages
  <2>2. HoldsThread' /\ NeverFull'
    BY <1>2 DEF IInv, Typed, HoldsThread, NeverFull, Publish, Resume, Goto
  <2>. QED BY <1>2, <2>1, <2>2, PublishKeeps DEF IInv
<1>3. CASE Tick \/ Terminated \/ UNCHANGED vars
  BY <1>3 DEF Tick, Terminated, vars, IInv, Typed, HoldsThread, Published, NeverFull
<1>. QED BY <1>1, <1>2, <1>3, EngineKeeps, SessionKeeps DEF Next

\* Nobody is connected when the server starts.
LEMMA Invariant == ASSUME SizesAreNumbers PROVE Spec => []IInv
<1>1. Init => IInv
  <2>. SUFFICES ASSUME Init
                PROVE  IInv
    OBVIOUS
  <2>1. <<>> \in Seq(Connections)
    BY EmptySeq
  <2>. QED BY <2>1 DEF Init, IInv, Typed, HoldsThread, Published, NeverFull, DISP!Init, Stages
<1>2. IInv /\ [Next]_vars => IInv'
  BY NextIInv
<1>. QED BY <1>1, <1>2, PTL DEF Spec

--------------------------------------------------------------------------------
(* Theorems                                                                 *)

\* While the pool is no larger than the dispatcher, no order is answered
\* SYSTEM_FULL (QuantumSafeTlsEngine.cpp:44-46, Dispatcher.cpp:39-43).
THEOREM PoolIsTheLimit ==
  ASSUME SizesAreNumbers PROVE Spec => []NeverFull
<1>1. IInv => NeverFull
  BY DEF IInv
<1>. QED BY <1>1, Invariant, PTL

\* Details that a session is shown are not older than its own handshake
\* (QuantumSafeTlsEngine.cpp:107-117).
THEOREM DetailsRecent ==
  ASSUME SizesAreNumbers PROVE Spec => []DetailsNotOlder
<1>1. IInv => DetailsNotOlder
  <2>. SUFFICES ASSUME IInv, NEW c \in Connections,
                       stage[c] \in {"reading", "waiting", "writing"}
                PROVE  \E i, j \in DOMAIN published : i <= j /\ published[i] = c
                                                             /\ published[j] = latest
    BY DEF DetailsNotOlder
  <2>1. PICK i \in DOMAIN published : published[i] = c
    BY DEF IInv, Published
  <2>2. /\ Len(published) \in DOMAIN published /\ i <= Len(published)
        /\ published[Len(published)] = latest
    BY <2>1 DEF IInv, Published, Typed
  <2>. QED BY <2>1, <2>2
<1>. QED BY <1>1, Invariant, PTL

\* No order reaches the dispatcher over HTTP without a key and a token that was
\* issued and is still good (QuantumSafeHttp.cpp:95-118, JwtManager.cpp:158).
THEOREM Authorised ==
  ASSUME SizesAreNumbers PROVE Spec => OrdersAuthorised
<1>. DEFINE A == \A c \in Connections :
                     mode = "http" /\ phase[c] = "new" /\ phase'[c] # "new"
                         => jwt /\ now < exp
<1>1. IInv /\ [Next]_vars => [A]_vars
  <2>. SUFFICES ASSUME IInv, Next, NEW c \in Connections,
                       mode = "http", phase[c] = "new", phase'[c] # "new"
                PROVE  jwt /\ now < exp
    OBVIOUS
  <2>1. CASE \E d \in Connections : OrderRefused(d) \/ OrderWaits(d)
    BY <2>1, OrderIsAuthorised DEF IInv, OrderRefused, OrderWaits
  <2>2. CASE Tick \/ AcceptFails \/ Terminated
    BY <2>2 DEF Tick, AcceptFails, Terminated, vars
  <2>3. ASSUME NEW d \in Connections,
               \/ Connect(d) \/ Accept(d) \/ NoStatus(d) \/ StatusFromCache(d)
               \/ StatusMissing(d) \/ ResponderAnswers(d) \/ StatusProvided(d)
               \/ StatusFails(d) \/ Publish(d) \/ SessionFails(d) \/ Shutdown(d)
               \/ Serve(d) \/ Quit(d) \/ Login(d) \/ OrderFails(d) \/ Told(d)
        PROVE  FALSE
    BY <2>3 DEF Connect, Accept, NoStatus, StatusFromCache, StatusMissing,
           ResponderAnswers, StatusProvided, StatusFails, Publish, SessionFails, Shutdown,
           Serve, Quit, Login, OrderFails, Told, DISP!Answer
  <2>4. ASSUME NEW d \in Connections, WaitEnds(d) PROVE FALSE
    BY <2>4 DEF IInv, Typed, WaitEnds, DISP!Close
  <2>5. ASSUME NEW d \in Connections, Write(d) PROVE FALSE
    BY <2>5 DEF IInv, Typed, Write
  <2>. QED BY <2>1, <2>2, <2>3, <2>4, <2>5 DEF Next
<1>. QED BY <1>1, Invariant, PTL DEF Spec, OrdersAuthorised

\* The sessions use the cache of OCSP responses as OcspCache says, one call for
\* each handshake, whatever the threads are doing.
THEOREM ImplementsOcspCache == Spec => OCSP!Spec
<1>1. Init => OCSP!Init
  BY DEF Init
<1>2. [Next]_vars => [OCSP!Next]_OCSP!ocspVars
  <2>. SUFFICES ASSUME Next
                PROVE  OCSP!Next \/ UNCHANGED ocspVars
    BY DEF vars, OCSP!ocspVars
  <2>1. CASE Tick
    BY <2>1 DEF Tick, OCSP!Next
  <2>2. ASSUME NEW c \in Connections,
               \/ StatusFromCache(c) \/ StatusMissing(c) \/ ResponderAnswers(c)
               \/ StatusProvided(c) \/ StatusFails(c)
        PROVE  OCSP!Next
    BY <2>2 DEF StatusFromCache, StatusMissing, ResponderAnswers, StatusProvided,
           StatusFails, OCSP!Next
  <2>3. CASE AcceptFails \/ Terminated
    BY <2>3 DEF AcceptFails, Terminated, vars
  <2>4. ASSUME NEW c \in Connections,
               \/ Connect(c) \/ Accept(c) \/ NoStatus(c) \/ Publish(c) \/ SessionFails(c)
               \/ Shutdown(c) \/ Serve(c) \/ Quit(c) \/ Login(c) \/ OrderFails(c)
               \/ OrderRefused(c) \/ OrderWaits(c) \/ Told(c) \/ WaitEnds(c) \/ Write(c)
        PROVE  UNCHANGED ocspVars
    BY <2>4 DEF Connect, Accept, NoStatus, Publish, SessionFails, Shutdown, Serve, Quit,
           Login, OrderFails, OrderRefused, OrderWaits, Told, WaitEnds, Write
  <2>. QED BY <2>1, <2>2, <2>3, <2>4 DEF Next
<1>. QED BY <1>1, <1>2, PTL DEF Spec, OCSP!Spec

\* What is proved of OcspCache is proved of the cache of the server: the two
\* instances are one specification.
LEMMA SameOcspCache == OCSP!Spec <=> OCSP_proofs!Spec
<1>1. OCSP!Init <=> OCSP_proofs!Init
  BY DEF OCSP!Init, OCSP_proofs!Init
<1>2. [OCSP!Next]_OCSP!ocspVars <=> [OCSP_proofs!Next]_OCSP_proofs!ocspVars
  <2>1. OCSP!Next <=> OCSP_proofs!Next
    BY DEF OCSP!Next, OCSP!Tick, OCSP!Hit, OCSP!Miss, OCSP!FetchNothing, OCSP!FetchFails,
           OCSP!Fetch, OCSP!Store, OCSP!Goto, OCSP!Fresh, OCSP!Responses, OCSP!GoodAt,
           OCSP!StatusFor, OCSP!Period,
           OCSP_proofs!Next, OCSP_proofs!Tick, OCSP_proofs!Hit, OCSP_proofs!Miss,
           OCSP_proofs!FetchNothing, OCSP_proofs!FetchFails, OCSP_proofs!Fetch,
           OCSP_proofs!Store, OCSP_proofs!Goto, OCSP_proofs!Fresh, OCSP_proofs!Responses,
           OCSP_proofs!GoodAt, OCSP_proofs!StatusFor, OCSP_proofs!Period
  <2>. QED BY <2>1 DEF OCSP!ocspVars, OCSP_proofs!ocspVars
<1>. QED BY <1>1, <1>2, PTL DEF OCSP!Spec, OCSP_proofs!Spec

\* What a handshake takes from the cache was good at most m_cache_duration ago,
\* with as many handshakes at once as there are threads.
THEOREM StatusWasGood ==
  ASSUME OCSP_proofs!TimesAreNumbers PROVE Spec => []CachedWasGood
<1>1. OCSP_proofs!Spec => []OCSP_proofs!CachedWasGood
  BY OCSP_proofs!ServedWasGood
<1>2. OCSP_proofs!CachedWasGood => CachedWasGood
  BY DEF CachedWasGood, OCSP!CachedWasGood, OCSP_proofs!CachedWasGood, OCSP!Fresh,
         OCSP_proofs!Fresh, OCSP!GoodAt, OCSP_proofs!GoodAt, OCSP!StatusFor,
         OCSP_proofs!StatusFor
<1>. QED BY <1>1, <1>2, SameOcspCache, ImplementsOcspCache, PTL

\* Types of the server's state, the clock and the tokens included.
THEOREM TypeCorrect ==
  ASSUME SizesAreNumbers, OCSP_proofs!TimesAreNumbers PROVE Spec => []TypeOK
<1>1. OCSP!Spec => []OCSP!TypeOK
  <2>1. OCSP_proofs!Spec => []OCSP_proofs!TypeOK
    BY OCSP_proofs!TypeCorrect
  <2>2. OCSP_proofs!TypeOK => OCSP!TypeOK
    BY DEF OCSP!TypeOK, OCSP_proofs!TypeOK, OCSP!Entries, OCSP_proofs!Entries,
           OCSP!Responses, OCSP_proofs!Responses
  <2>. QED BY <2>1, <2>2, SameOcspCache, PTL
<1>. DEFINE Exp == exp \in 0 .. MaxTime + TokenTtl
<1>2. Init => Exp
  BY DEF Init, SizesAreNumbers, OCSP_proofs!TimesAreNumbers
<1>3. Exp /\ OCSP!TypeOK /\ [Next]_vars => Exp'
  <2>. SUFFICES ASSUME Exp, OCSP!TypeOK, [Next]_vars
                PROVE  Exp'
    OBVIOUS
  <2>1. ASSUME NEW c \in Connections, Login(c) PROVE Exp'
    BY <2>1 DEF Login, OCSP!TypeOK, SizesAreNumbers, OCSP_proofs!TimesAreNumbers
  <2>2. ASSUME NEW c \in Connections,
               \/ Connect(c) \/ Accept(c) \/ NoStatus(c) \/ StatusFromCache(c)
               \/ StatusMissing(c) \/ ResponderAnswers(c) \/ StatusProvided(c)
               \/ StatusFails(c) \/ Publish(c) \/ SessionFails(c) \/ Shutdown(c)
               \/ Serve(c) \/ Quit(c) \/ OrderFails(c) \/ OrderRefused(c)
               \/ OrderWaits(c) \/ Told(c) \/ WaitEnds(c) \/ Write(c)
        PROVE  exp' = exp
    BY <2>2 DEF Connect, Accept, NoStatus, StatusFromCache, StatusMissing,
           ResponderAnswers, StatusProvided, StatusFails, Publish, SessionFails, Shutdown,
           Serve, Quit, OrderFails, OrderRefused, OrderWaits, Told, WaitEnds, Write
  <2>3. CASE Tick \/ AcceptFails \/ Terminated \/ UNCHANGED vars
    BY <2>3 DEF Tick, AcceptFails, Terminated, vars
  <2>. QED BY <2>1, <2>2, <2>3 DEF Next
<1>4. IInv /\ Exp /\ OCSP!TypeOK => TypeOK
  BY DEF IInv, Typed, TypeOK
<1>. QED BY <1>1, <1>2, <1>3, <1>4, Invariant, ImplementsOcspCache, PTL DEF Spec
================================================================================
