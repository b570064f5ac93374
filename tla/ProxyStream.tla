------------------------------- MODULE ProxyStream -------------------------------
(****************************************************************************)
(* proxy: plain HTTP clients share one TLS connection to the server.        *)
(*                                                                          *)
(* Every accepted client gets a session of its own, a coroutine that reads  *)
(* the request of the client, writes it to the TLS stream, reads a response *)
(* from the TLS stream and writes it to the client.  Nothing in the proxy   *)
(* says which session a response belongs to: whoever reads, takes what      *)
(* arrives.  The server answers the requests on the stream in their order.  *)
(*                                                                          *)
(* A request stands for its session; what it asks for matters only in that  *)
(* the answer to a HEAD announces a body that does not follow, and that a   *)
(* file may be longer than a parser of responses accepts, 8 MiB: the server *)
(* sends files of any size and the proxy leaves the limit as it is.         *)
(****************************************************************************)
EXTENDS Naturals, Sequences, FiniteSets

CONSTANTS Sessions,  \* the clients that the proxy accepts
          Heads,     \* those that send a HEAD request for a file
          Large      \* those that ask for a file longer than the limit

ASSUME ProxyAssumption == Heads \subseteq Sessions /\ Large \subseteq Sessions

VARIABLES
    proxy,     \* "starting", "connecting", "listening" or "ended"
    link,      \* the TLS connection is alive; it is opened only once
    stage,     \* stage[c]: where the coroutine of c stands
    toServer,  \* requests on the stream, by session
    toProxy,   \* responses on the stream, the first perhaps without its beginning
    got        \* got[c]: whose responses the bytes read by c belong to

streamVars == <<link, toServer, toProxy>>
vars == <<proxy, streamVars, stage, got>>

\* A response, by the session it answers; whole unless a session has read the
\* beginning of it, thrown that away and left the rest.
Responses   == [of : Sessions, whole : BOOLEAN]
Response(c) == [of |-> c, whole |-> TRUE]

Init == /\ proxy = "starting"
        /\ link = FALSE
        /\ stage = [c \in Sessions |-> "none"]
        /\ toServer = <<>> /\ toProxy = <<>>
        /\ got = [c \in Sessions |-> {}]

Over(c)    == stage[c] \in {"ended", "failed"}
Active(c)  == stage[c] # "none" /\ ~Over(c)
Reading(c) == stage[c] \in {"waiting", "body", "leftover"}

Go(c, from, to) == stage[c] = from /\ stage' = [stage EXCEPT ![c] = to]

--------------------------------------------------------------------------------
(* main, connect_backend and do_listen *)

\* The options, the CA store, the chain and the key, and the policy are read,
\* once; the chain is what could be parsed of it.
Start == /\ proxy = "starting"
         /\ proxy' = "connecting"
         /\ UNCHANGED <<streamVars, stage, got>>

\* An option is missing, or the CA store or the key cannot be read.
StartFails == /\ proxy = "starting"
              /\ proxy' = "ended"
              /\ UNCHANGED <<streamVars, stage, got>>

\* The chain of the server passed the verification.
Connect == /\ proxy = "connecting"
           /\ proxy' = "listening" /\ link' = TRUE
           /\ UNCHANGED <<stage, toServer, toProxy, got>>

\* The end of the loop: whatever a coroutine was waiting for, it is destroyed
\* and its sockets are closed, without an answer to its client.
EndLoop == /\ proxy' = "ended"
           /\ link' = FALSE /\ toServer' = <<>> /\ toProxy' = <<>>
           /\ stage' = [c \in Sessions |-> IF Active(c) THEN "ended" ELSE stage[c]]
           /\ UNCHANGED got

\* Any exception of the coroutine that connects and listens stops the loop: no
\* connection, a chain that does not verify, a port in use, one failed accept.
ListenerFails == proxy \in {"connecting", "listening"} /\ EndLoop

\* SIGINT or SIGTERM.
Stop == proxy \in {"connecting", "listening"} /\ EndLoop

Accept(c) == /\ proxy = "listening"
             /\ Go(c, "none", "reading")
             /\ UNCHANGED <<proxy, streamVars, got>>

--------------------------------------------------------------------------------
(* do_session *)

ReadRequest(c) == /\ Go(c, "reading", "writing")
                  /\ UNCHANGED <<proxy, streamVars, got>>

\* The client goes away before its request is complete, or sends what the proxy
\* cannot parse.
ReadRequestFails(c) == /\ Go(c, "reading", "ended")
                       /\ UNCHANGED <<proxy, streamVars, got>>

\* Slip: the session does not wait if the client is gone (NothingLeftOver).
Forward_NoWait(c) == /\ link
                     /\ Go(c, "writing", "waiting") \/ Go(c, "writing", "ended")
                     /\ toServer' = Append(toServer, c)
                     /\ UNCHANGED <<proxy, link, toProxy, got>>

Forward(c) == /\ link
              /\ Go(c, "writing", "waiting")
              /\ toServer' = Append(toServer, c)
              /\ UNCHANGED <<proxy, link, toProxy, got>>

\* The stream is broken.  Every later session meets this: nobody opens it again.
StreamFails(c) == /\ ~link
                  /\ stage[c] \in {"writing", "waiting", "body"}
                  /\ stage' = [stage EXCEPT ![c] = "ended"]
                  /\ UNCHANGED <<proxy, streamVars, got>>

\* What is left of the responses after k of them were read, the last only in
\* part if it is cut.
Left(k, cut) ==
    LET rest == SubSeq(toProxy, k + 1, Len(toProxy))
    IN  IF cut THEN <<[of |-> toProxy[k].of, whole |-> FALSE]>> \o rest ELSE rest

\* be_buf takes up to k messages off the stream; what the parser does not use of
\* them is thrown away with the session's buffer.
Take(c, k, cut) == /\ link
                   /\ Reading(c)
                   /\ toProxy' = Left(k, cut)
                   /\ UNCHANGED <<proxy, link, toServer>>

\* The parser of c begins with the beginning of a response.
Begins(c) == stage[c] = "waiting" /\ toProxy[1].whole

\* The first response is one that it uses alone, up to its end.
Plain(c) == Begins(c) /\ toProxy[1].of \notin Heads

\* It also uses what follows the headers of a HEAD, up to the length they
\* announce, and no one knows how much of what begins in the middle of a file.
Use(c, k) ==
    LET used == IF Plain(c) THEN 1 ELSE k
    IN  got' = [got EXCEPT ![c] = @ \cup {toProxy[i].of : i \in 1 .. used}]

\* A response within the limit is read up to its end before the parser goes on.
Accepted(c, k, cut) == Begins(c) => toProxy[1].of \notin Large /\ (k > 1 \/ ~cut)

\* http::async_read(tls_stream, be_buf, res) completes ...
ReadResponse(c, k, cut) ==
    /\ Take(c, k, cut) /\ Use(c, k)
    /\ Accepted(c, k, cut)
    /\ Begins(c) /\ toProxy[1].of \in Heads => k > 1
    /\ stage' = [stage EXCEPT ![c] = "answered"]

\* ... or needs more: the parser was not told to skip the body of a HEAD, and
\* the middle of a file may pass for headers, or for a beginning of them ...
ReadHeaders(c, k, cut) ==
    /\ Take(c, k, cut) /\ Use(c, k)
    /\ Accepted(c, k, cut)
    /\ ~Plain(c)
    /\ stage' = [stage EXCEPT ![c] = CASE Begins(c)             -> "body"
                                       [] stage[c] = "waiting" -> "leftover"
                                       [] OTHER                -> stage[c]]

\* ... or fails on a stream that is alive: the length announced is above the
\* limit, when the headers are read and of a body little or nothing, or what is
\* read is no response.  The session ends, and the rest stays on the stream.
ReadFails(c, k, cut) ==
    /\ Take(c, k, cut)
    /\ IF Begins(c)
       THEN /\ toProxy[1].of \in Large
            /\ IF toProxy[1].of \in Heads THEN k > 1 \/ ~cut ELSE k = 1 /\ cut
       ELSE stage[c] # "body"
    /\ stage' = [stage EXCEPT ![c] = "failed"]
    /\ UNCHANGED got

\* Slip: the request put back if the client is gone (OwnResponse).
Respond_Retrying(c) == /\ Go(c, "answered", "ended")
                       /\ toServer' \in {toServer, Append(toServer, c)}
                       /\ UNCHANGED <<proxy, link, toProxy, got>>

\* Slip: the session keeps its client and its turn (EveryGetEnds).
Respond_KeepAlive(c) == /\ stage[c] = "answered"
                        /\ stage' = [stage EXCEPT ![c] = "reading"]
                        /\ UNCHANGED <<proxy, streamVars, got>>

\* The response is written to the client, if it still is there.
Respond(c) == /\ Go(c, "answered", "ended")
              /\ UNCHANGED <<proxy, streamVars, got>>

--------------------------------------------------------------------------------
(* The server, and the network *)

\* Slip: all that has arrived taken for one request (TypeOK).
Answer_Unframed == /\ link
                   /\ toServer # <<>>
                   /\ toServer' = <<>>
                   /\ toProxy' = Append(toProxy, Response(toServer))
                   /\ UNCHANGED <<proxy, link, stage, got>>

\* handle_session reads the next request after it has answered the last one.
Answer == /\ link
          /\ toServer # <<>>
          /\ toServer' = Tail(toServer)
          /\ toProxy' = Append(toProxy, Response(Head(toServer)))
          /\ UNCHANGED <<proxy, link, stage, got>>

LinkBreaks == /\ link
              /\ link' = FALSE /\ toServer' = <<>> /\ toProxy' = <<>>
              /\ UNCHANGED <<proxy, stage, got>>

\* Two coroutines write at once, which the stream does not allow: the records
\* may be garbled, and then the server closes the connection.
Garble == /\ \E c, d \in Sessions : c # d /\ stage[c] = "writing" /\ stage[d] = "writing"
          /\ LinkBreaks

--------------------------------------------------------------------------------
SessionStep(c) == \/ ReadRequest(c) \/ ReadRequestFails(c) \/ Forward(c) \/ StreamFails(c)
                  \/ \E k \in 1 .. Len(toProxy), cut \in BOOLEAN :
                        \/ ReadResponse(c, k, cut)
                        \/ ReadHeaders(c, k, cut)
                        \/ ReadFails(c, k, cut)
                  \/ Respond(c)

Main == Start \/ StartFails \/ Connect \/ ListenerFails \/ Stop

Next == \/ Main \/ Answer \/ LinkBreaks \/ Garble
        \/ \E c \in Sessions : Accept(c) \/ SessionStep(c)

Spec == Init /\ [][Next]_vars

\* One client at a time, as in the tests: a client arrives when the session of
\* the one before it is over.
Idle == \A c \in Sessions : ~Active(c)

SerialNext == \/ Main \/ Answer \/ LinkBreaks
              \/ \E c \in Sessions : (Idle /\ Accept(c)) \/ SessionStep(c)

SerialSpec == Init /\ [][SerialNext]_vars

\* Coroutines run when what they wait for has happened, and the server answers.
\* Clients need not come, and the connection need not break.
FairSerialSpec == /\ SerialSpec
                  /\ \A c \in Sessions : WF_vars(SessionStep(c))
                  /\ WF_vars(Answer)

--------------------------------------------------------------------------------
(* Properties *)

TypeOK == /\ proxy \in {"starting", "connecting", "listening", "ended"}
          /\ link \in BOOLEAN
          /\ stage \in [Sessions -> {"none", "reading", "writing", "waiting", "body",
                                     "leftover", "answered", "failed", "ended"}]
          /\ toServer \in Seq(Sessions) /\ toProxy \in Seq(Responses)
          /\ got \in [Sessions -> SUBSET Sessions]

\* main.cpp:244: a session is one request/response cycle.  What its client
\* receives answers its own request, and nothing of another client's answer.
OwnResponse == \A c \in Sessions : got[c] \subseteq {c}

\* main.cpp:296: a session has given up a response that is too long, and left
\* the body of it on the stream, where the next one takes it for its own.
TooLong == \E d \in Large \ Heads : stage[d] = "failed"

\* main.cpp:280: nothing but a response above the limit puts the stream out of
\* step.  Clients that come one after the other receive their own responses,
\* whatever became of the clients before them, until one asks for such a file.
OwnUntilTooLong == ~TooLong => OwnResponse

\* main.cpp:296: the stream is in step whenever no session is using it, unless
\* a response was too long: no answer is left on it for the next client, whether
\* the last session waited for its own or failed.
NothingLeftOver == Idle /\ ~TooLong => toServer = <<>> /\ toProxy = <<>>

\* A session that sends anything but a HEAD ends, though it has no timeout of
\* its own: with a response, or with the error of a broken stream or of its
\* parser.  The exception is a session that waits for a body announced on a
\* stream that a long response has put out of step.
EveryGetEnds ==
    \A c \in Sessions \ Heads :
        stage[c] = "reading" ~> \/ Over(c)
                                \/ TooLong /\ stage[c] \in {"body", "leftover"}

\* main.cpp:244: every session ends, one that sends a HEAD among them, which the
\* server supports (QuantumSafeHttp.cpp:87).
EverySessionEnds == \A c \in Sessions : stage[c] = "reading" ~> Over(c)
================================================================================
