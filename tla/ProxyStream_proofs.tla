--------------------------- MODULE ProxyStream_proofs ---------------------------
(****************************************************************************)
(* Proofs about ProxyStream, for any number of clients and any mixture of   *)
(* requests: what holds of the stream they share when they come one after   *)
(* the other, until one of them asks for more than the proxy can read.      *)
(****************************************************************************)
EXTENDS ProxyStream, SequenceTheorems, TLAPS

\* One session at a time uses the proxy.
Alone == \A c, d \in Sessions : Active(c) /\ Active(d) => c = d

\* There is at most one message on the stream, the request of the session that
\* waits or the response to it.
InStep == \/ toServer = <<>> /\ toProxy = <<>>
          \/ \E c \in Sessions : /\ stage[c] = "waiting" /\ link
                                 /\ \/ toServer = <<c>> /\ toProxy = <<>>
                                    \/ toServer = <<>> /\ toProxy = <<Response(c)>>

IInv == TypeOK /\ Alone /\ (~TooLong => InStep /\ OwnResponse)

--------------------------------------------------------------------------------
(* Types, with clients in any order                                         *)

\* A session reads from the stream, with success or without.
Reads(c, k, cut) == ReadResponse(c, k, cut) \/ ReadHeaders(c, k, cut) \/ ReadFails(c, k, cut)

\* What a read leaves on the stream are responses, one of them cut short.
LEMMA LeftTyped ==
  ASSUME TypeOK, NEW k \in 1 .. Len(toProxy), NEW cut \in BOOLEAN
  PROVE  Left(k, cut) \in Seq(Responses)
<1>1. toProxy \in Seq(Responses)
  BY DEF TypeOK
<1>2. toProxy[k].of \in Sessions
  <2>. HIDE DEF Responses
  <2>1. toProxy[k] \in Responses
    BY <1>1
  <2>. QED BY <2>1 DEF Responses
<1>3. [of |-> toProxy[k].of, whole |-> FALSE] \in Responses
  BY <1>2 DEF Responses
<1>. DEFINE cutOff == [of |-> toProxy[k].of, whole |-> FALSE]
            rest   == SubSeq(toProxy, k + 1, Len(toProxy))
<1>4. rest \in Seq(Responses)
  <2>. HIDE DEF Responses
  <2>. QED BY <1>1
<1>5. cutOff \in Responses
  BY <1>3
<1>6. Left(k, cut) = IF cut THEN <<cutOff>> \o rest ELSE rest
  BY DEF Left
<1>. HIDE DEF cutOff, rest, Responses
<1>. QED BY <1>4, <1>5, <1>6

\* What a session takes are responses to sessions.
LEMMA UseTyped ==
  ASSUME TypeOK, NEW c \in Sessions, NEW k \in 1 .. Len(toProxy),
         Use(c, k) \/ UNCHANGED got
  PROVE  got' \in [Sessions -> SUBSET Sessions]
<1>. DEFINE used == IF Plain(c) THEN 1 ELSE k
            owners == {toProxy[i].of : i \in 1 .. used}
<1>1. used \in 1 .. Len(toProxy)
  BY DEF TypeOK
<1>2. \A i \in 1 .. Len(toProxy) : toProxy[i].of \in Sessions
  <2>1. \A i \in 1 .. Len(toProxy) : toProxy[i] \in Responses
    BY DEF TypeOK
  <2>. QED BY <2>1 DEF Responses
<1>3. owners \subseteq Sessions
  <2>. HIDE DEF used
  <2>. QED BY <1>1, <1>2
<1>4. got' = [got EXCEPT ![c] = @ \cup owners] \/ got' = got
  BY DEF Use
<1>. HIDE DEF owners
<1>. QED BY <1>3, <1>4 DEF TypeOK

\* A session or main takes one step.
LEMMA TypesKept ==
  ASSUME TypeOK, [Next]_vars
  PROVE  TypeOK'
<1>. USE DEF TypeOK
<1>e. <<>> \in Seq(Sessions) /\ <<>> \in Seq(Responses)
  BY EmptySeq
<1>1. CASE Main
  BY <1>1, <1>e DEF Main, Start, StartFails, Connect, ListenerFails, Stop, EndLoop,
              streamVars, Active, Over
<1>2. CASE Answer
  <2>1. Head(toServer) \in Sessions /\ Tail(toServer) \in Seq(Sessions)
    BY <1>2 DEF Answer
  <2>2. Response(Head(toServer)) \in Responses
    BY <2>1 DEF Response, Responses
  <2>. HIDE DEF Responses
  <2>3. toProxy' \in Seq(Responses)
    BY <1>2, <2>2 DEF Answer
  <2>. QED BY <1>2, <2>1, <2>3 DEF Answer
<1>3. CASE LinkBreaks \/ Garble
  BY <1>3, <1>e DEF LinkBreaks, Garble
<1>4. ASSUME NEW c \in Sessions, Accept(c) \/ ReadRequest(c) \/ ReadRequestFails(c)
                                   \/ StreamFails(c) \/ Respond(c)
      PROVE  TypeOK'
  BY <1>4 DEF Accept, ReadRequest, ReadRequestFails, StreamFails, Respond, Go, streamVars
<1>5. ASSUME NEW c \in Sessions, Forward(c) PROVE TypeOK'
  BY <1>5 DEF Forward, Go
<1>6. ASSUME NEW c \in Sessions, NEW k \in 1 .. Len(toProxy), NEW cut \in BOOLEAN,
             Reads(c, k, cut)
      PROVE  TypeOK'
  <2>1. Take(c, k, cut) /\ (Use(c, k) \/ UNCHANGED got)
    BY <1>6 DEF Reads, ReadResponse, ReadHeaders, ReadFails
  <2>2. Left(k, cut) \in Seq(Responses)
    BY LeftTyped
  <2>3. toProxy' \in Seq(Responses)
    BY <2>1, <2>2 DEF Take
  <2>4. got' \in [Sessions -> SUBSET Sessions]
    BY <2>1, UseTyped
  <2>5. /\ stage' \in [Sessions -> {"none", "reading", "writing", "waiting", "body",
                                    "leftover", "answered", "failed", "ended"}]
        /\ UNCHANGED <<proxy, link, toServer>>
    BY <1>6 DEF Reads, ReadResponse, ReadHeaders, ReadFails, Take
  <2>. QED BY <2>3, <2>4, <2>5
<1>7. CASE UNCHANGED vars
  BY <1>7 DEF vars, streamVars
<1>. QED BY <1>1, <1>2, <1>3, <1>4, <1>5, <1>6, <1>7 DEF Next, SessionStep, Reads

\* Types of the proxy's state, however many clients it serves at once.
THEOREM TypeCorrect == Spec => []TypeOK
<1>1. Init => TypeOK
  BY EmptySeq DEF Init, TypeOK
<1>2. TypeOK /\ [Next]_vars => TypeOK'
  BY TypesKept
<1>. QED BY <1>1, <1>2, PTL DEF Spec

--------------------------------------------------------------------------------
(* One client after the other                                               *)

\* A response that was given up stays given up: no session ends twice.
LEMMA TooLongStays ==
  ASSUME TypeOK, [SerialNext]_vars, TooLong
  PROVE  TooLong'
<1>1. PICK d \in Large \ Heads : stage[d] = "failed"
  BY DEF TooLong
<1>2. d \in Sessions
  BY ProxyAssumption
<1>. SUFFICES stage'[d] = "failed"
  BY <1>1 DEF TooLong
<1>. USE <1>1, <1>2 DEF TypeOK
<1>3. CASE Main
  BY <1>3 DEF Main, Start, StartFails, Connect, ListenerFails, Stop, EndLoop, Active, Over
<1>4. CASE Answer \/ LinkBreaks
  BY <1>4 DEF Answer, LinkBreaks
<1>5. ASSUME NEW c \in Sessions, Accept(c) \/ ReadRequest(c) \/ ReadRequestFails(c)
                                   \/ Forward(c) \/ StreamFails(c) \/ Respond(c)
      PROVE  stage'[d] = "failed"
  BY <1>5 DEF Accept, ReadRequest, ReadRequestFails, Forward, StreamFails, Respond, Go
<1>6. ASSUME NEW c \in Sessions, NEW k \in 1 .. Len(toProxy), NEW cut \in BOOLEAN,
             Reads(c, k, cut)
      PROVE  stage'[d] = "failed"
  <2>1. Reading(c) /\ \A x \in Sessions \ {c} : stage'[x] = stage[x]
    BY <1>6 DEF Reads, ReadResponse, ReadHeaders, ReadFails, Take
  <2>. QED BY <2>1 DEF Reading
<1>7. CASE UNCHANGED vars
  BY <1>7 DEF vars
<1>. QED BY <1>3, <1>4, <1>5, <1>6, <1>7 DEF SerialNext, SessionStep, Reads

\* A session that reads from a stream in step takes the one response there is,
\* its own, and leaves nothing, unless this is the one that is too long.
LEMMA TakesItsOwn ==
  ASSUME IInv, ~TooLong, NEW c \in Sessions, NEW k \in 1 .. Len(toProxy),
         NEW cut \in BOOLEAN, Reads(c, k, cut), ~TooLong'
  PROVE  /\ toServer' = <<>> /\ toProxy' = <<>>
         /\ OwnResponse'
<1>0. Take(c, k, cut) /\ (Use(c, k) \/ UNCHANGED got)
  BY DEF Reads, ReadResponse, ReadHeaders, ReadFails
<1>1. PICK d \in Sessions :
          stage[d] = "waiting" /\ toServer = <<>> /\ toProxy = <<Response(d)>>
  BY DEF IInv, InStep
<1>2. d = c
  BY <1>0, <1>1 DEF IInv, Alone, Active, Over, Take, Reading
<1>3. Len(toProxy) = 1 /\ k = 1 /\ toProxy[1] = Response(c)
  BY <1>1, <1>2
<1>4. toProxy[1].of = c /\ toProxy[1].whole
  BY <1>3 DEF Response
<1>5. Begins(c)
  BY <1>1, <1>2, <1>4 DEF Begins
<1>6. ~cut
  <2>1. CASE ReadResponse(c, k, cut) \/ ReadHeaders(c, k, cut)
    BY <2>1, <1>3, <1>5 DEF ReadResponse, ReadHeaders, Accepted
  <2>2. CASE ReadFails(c, k, cut)
    <3>1. c \in Large /\ stage'[c] = "failed" /\ (c \in Heads => ~cut)
      BY <2>2, <1>3, <1>4, <1>5 DEF ReadFails, IInv, TypeOK
    <3>. QED BY <3>1 DEF TooLong
  <2>. QED BY <2>1, <2>2 DEF Reads
<1>7. toProxy' = <<>>
  <2>1. toProxy' = SubSeq(<<Response(c)>>, 2, 1)
    BY <1>0, <1>1, <1>2, <1>3, <1>6 DEF Take, Left
  <2>. QED BY <2>1
<1>8. OwnResponse'
  <2>. DEFINE used == IF Plain(c) THEN 1 ELSE k
  <2>1. CASE Use(c, k)
    <3>1. got' = [got EXCEPT ![c] = got[c] \cup {toProxy[i].of : i \in 1 .. used}]
      BY <2>1 DEF Use
    <3>2. used = 1
      BY <1>3
    <3>. HIDE DEF used
    <3>3. {toProxy[i].of : i \in 1 .. used} = {c}
      BY <1>4, <3>2
    <3>4. got' = [got EXCEPT ![c] = got[c] \cup {c}]
      BY <3>1, <3>3
    <3>. QED BY <3>4 DEF IInv, TypeOK, OwnResponse
  <2>2. CASE UNCHANGED got
    BY <2>2 DEF IInv, OwnResponse
  <2>. QED BY <1>0, <2>1, <2>2
<1>. QED BY <1>0, <1>1, <1>7, <1>8 DEF Take

\* While a session is at work no other one comes.
LEMMA AloneKept ==
  ASSUME TypeOK, Alone, [SerialNext]_vars
  PROVE  Alone'
<1>. USE DEF TypeOK, Alone, Active, Over
<1>1. CASE Main
  BY <1>1 DEF Main, Start, StartFails, Connect, ListenerFails, Stop, EndLoop
<1>2. CASE Answer \/ LinkBreaks
  BY <1>2 DEF Answer, LinkBreaks
<1>3. ASSUME NEW c \in Sessions, Idle, Accept(c) PROVE Alone'
  BY <1>3 DEF Idle, Accept, Go
<1>4. ASSUME NEW c \in Sessions, ReadRequest(c) \/ ReadRequestFails(c) \/ Forward(c)
                                   \/ StreamFails(c) \/ Respond(c)
      PROVE  Alone'
  BY <1>4 DEF ReadRequest, ReadRequestFails, Forward, StreamFails, Respond, Go
<1>5. ASSUME NEW c \in Sessions, NEW k \in 1 .. Len(toProxy), NEW cut \in BOOLEAN,
             Reads(c, k, cut)
      PROVE  Alone'
  <2>1. Reading(c) /\ \A x \in Sessions \ {c} : stage'[x] = stage[x]
    BY <1>5 DEF Reads, ReadResponse, ReadHeaders, ReadFails, Take
  <2>. QED BY <2>1 DEF Reading
<1>6. CASE UNCHANGED vars
  BY <1>6 DEF vars
<1>. QED BY <1>1, <1>2, <1>3, <1>4, <1>5, <1>6 DEF SerialNext, SessionStep, Reads

\* A session that is not waiting has nothing on the stream, and one that waits
\* its own request or response.
LEMMA StepKept ==
  ASSUME IInv, ~TooLong, [SerialNext]_vars, ~TooLong'
  PROVE  InStep' /\ OwnResponse'
<1>. USE DEF IInv, InStep, OwnResponse
<1>1. CASE Main \/ LinkBreaks
  BY <1>1 DEF Active, Over, Main, Start, StartFails, Connect,
              ListenerFails, Stop, EndLoop, LinkBreaks, streamVars
<1>2. CASE Answer
  <2>1. PICK c \in Sessions : stage[c] = "waiting" /\ toServer = <<c>> /\ toProxy = <<>>
    BY <1>2 DEF Answer
  <2>2. toServer' = <<>> /\ toProxy' = <<Response(c)>>
    BY <1>2, <2>1 DEF Answer
  <2>. QED BY <1>2, <2>1, <2>2 DEF Answer
<1>3. ASSUME NEW c \in Sessions, Accept(c) \/ ReadRequest(c) \/ ReadRequestFails(c)
                                   \/ Respond(c)
      PROVE  InStep' /\ OwnResponse'
  <2>1. /\ stage[c] # "waiting"
        /\ \A x \in Sessions \ {c} : stage'[x] = stage[x]
        /\ UNCHANGED <<proxy, streamVars, got>>
    BY <1>3 DEF TypeOK, Accept, ReadRequest, ReadRequestFails, Respond, Go
  <2>. QED BY <2>1 DEF TypeOK, streamVars
<1>4. ASSUME NEW c \in Sessions, Forward(c) PROVE InStep' /\ OwnResponse'
  <2>1. toServer = <<>> /\ toProxy = <<>>
    BY <1>4 DEF Forward, Go, Alone, Active, Over
  <2>2. toServer' = <<c>> /\ toProxy' = <<>> /\ stage' = [stage EXCEPT ![c] = "waiting"]
    BY <1>4, <2>1 DEF Forward, Go
  <2>. QED BY <1>4, <2>2 DEF TypeOK, Forward
<1>5. ASSUME NEW c \in Sessions, StreamFails(c) PROVE InStep' /\ OwnResponse'
  BY <1>5 DEF TypeOK, StreamFails, streamVars
<1>6. ASSUME NEW c \in Sessions, NEW k \in 1 .. Len(toProxy), NEW cut \in BOOLEAN,
             Reads(c, k, cut)
      PROVE  InStep' /\ OwnResponse'
  <2>. HIDE DEF IInv, OwnResponse
  <2>. QED BY <1>6, TakesItsOwn
<1>7. CASE UNCHANGED vars
  BY <1>7 DEF vars, streamVars
<1>. QED BY <1>1, <1>2, <1>3, <1>4, <1>5, <1>6, <1>7 DEF SerialNext, SessionStep, Reads

\* Any step of clients that come one after the other.
LEMMA SerialKeeps ==
  ASSUME IInv, [SerialNext]_vars
  PROVE  IInv'
<1>1. TypeOK'
  <2>1. [Next]_vars
    BY DEF SerialNext, Next
  <2>. QED BY <2>1, TypesKept DEF IInv
<1>2. Alone'
  BY AloneKept DEF IInv
<1>3. ~TooLong' => ~TooLong
  BY TooLongStays DEF IInv
<1>4. ~TooLong' => InStep' /\ OwnResponse'
  BY <1>3, StepKept
<1>. QED BY <1>1, <1>2, <1>4 DEF IInv

\* The proxy starts with nothing on the stream.
LEMMA SerialInvariant == SerialSpec => []IInv
<1>1. Init => IInv
  BY EmptySeq DEF Init, IInv, TypeOK, Alone, InStep, OwnResponse, Active
<1>2. IInv /\ [SerialNext]_vars => IInv'
  BY SerialKeeps
<1>. QED BY <1>1, <1>2, PTL DEF SerialSpec

\* Clients that come one after the other get the responses to their own
\* requests, and nothing of another's, HEAD requests, failed sessions and broken
\* connections among those before them or not, until one has asked for a file
\* whose response the proxy refuses (main.cpp:244-305).
THEOREM OwnResponses == SerialSpec => []OwnUntilTooLong
<1>1. IInv => OwnUntilTooLong
  BY DEF IInv, OwnUntilTooLong
<1>. QED BY <1>1, SerialInvariant, PTL

\* Until then each of them finds the stream as the first one did
\* (main.cpp:278-300).
THEOREM StreamInStep == SerialSpec => []NothingLeftOver
<1>1. IInv => NothingLeftOver
  BY DEF IInv, InStep, NothingLeftOver, Idle, Active, Over
<1>. QED BY <1>1, SerialInvariant, PTL

\* Where every file asked for with a GET is within the limit, one client after
\* the other is served rightly for ever: the length is all that endangers it
\* (main.cpp:278-281).
THEOREM SmallFilesServed ==
  Large \subseteq Heads => (SerialSpec => [](OwnResponse /\ NothingLeftOver))
<1>1. ASSUME Large \subseteq Heads, IInv PROVE OwnResponse /\ NothingLeftOver
  <2>1. ~TooLong
    BY <1>1 DEF TooLong
  <2>. QED BY <1>1, <2>1 DEF IInv, InStep, NothingLeftOver, Idle, Active, Over
<1>2. ASSUME Large \subseteq Heads PROVE SerialSpec => [](OwnResponse /\ NothingLeftOver)
  <2>1. IInv => OwnResponse /\ NothingLeftOver
    BY <1>1, <1>2
  <2>. QED BY <2>1, SerialInvariant, PTL
<1>. QED BY <1>2
================================================================================
