----------------------------- MODULE ServerSessions -----------------------------
(****************************************************************************)
(* server/src/net and the sessions it runs: the TLS engine accepts          *)
(* connections, makes their handshakes and hands each one to the session    *)
(* handler, of HTTP or of the command line, all as coroutines on one pool   *)
(* of threads.                                                              *)
(*                                                                          *)
(* A coroutine gives its thread back whenever it waits for the network, so  *)
(* a step here is what it does between two such waits and needs a free      *)
(* thread only to happen.  Two calls do not give it back: the fetch of an   *)
(* OCSP response inside the handshake, and wait_for_response.  Those keep a *)
(* thread Busy, and the acceptor needs one too.                             *)
(*                                                                          *)
(* The cache is OcspCache, the dispatcher what RequestResponse promises of  *)
(* it, and what a request or a command asks for is in HttpApi and           *)
(* CommandLine.  OcspCache's clock serves for the tokens as well.           *)
(****************************************************************************)
EXTENDS Integers, Sequences, FiniteSets, HttpApi, CommandLine

CONSTANTS Connections,  \* the clients: each one connects once
          PoolSizes,    \* what hardware_concurrency may return
          MAX_PENDING,  \* capacity of the dispatcher (500 in the code)
          TokenTtl,     \* how long a token is good
          ThisUpdates, NextUpdates, CacheDuration, MaxTime, NoEntry,  \* OcspCache
          None          \* no connection

VARIABLES
    threads,    \* the size of the pool
    mode,       \* --mode: "http" or "raw"
    jwt,        \* the HTTP handler has a JwtManager: --jwt-key and --jwt-cert
    acceptor,   \* do_listen: "listening", or "ended" by an exception
    stage,      \* where each connection stands
    published,  \* the connections in the order they wrote their details
    latest,     \* the connection latest_connection_details_ is about, or None
    exp,        \* exp of the token issued last; 0 before there is one
    now, cache, call, held,  \* OcspCache
    phase, answer, result    \* RequestResponse

configVars == <<threads, mode, jwt>>
engineVars == <<acceptor, stage, published, latest, exp>>
ocspVars   == <<now, cache, call, held>>
dispVars   == <<phase, answer, result>>
vars       == <<configVars, engineVars, ocspVars, dispVars>>

OCSP == INSTANCE OcspCache WITH Handshakes <- Connections

\* Each wait has an id of its own (RequestIdSequence).
DISP == INSTANCE RequestResponse WITH Waits <- Connections, Ids <- Connections,
                                      IdOf <- [c \in Connections |-> c]

Stages == {"away", "backlog", "handshake", "ocsp", "ready", "reading", "waiting",
           "writing", "closing", "closed"}

Init == /\ threads \in PoolSizes
        /\ mode \in {"http", "raw"} /\ jwt \in BOOLEAN
        /\ mode = "raw" => ~jwt
        /\ acceptor = "listening"
        /\ stage = [c \in Connections |-> "away"]
        /\ published = <<>> /\ latest = None
        /\ exp = 0
        /\ OCSP!Init /\ DISP!Init

\* The sessions that keep a thread without using it.
Busy == {c \in Connections : stage[c] \in {"ocsp", "waiting"}}

\* Slip: a wait that gives its thread back while it lasts (NeverFull).
FreeThread_AsyncWait == Cardinality({c \in Busy : stage[c] = "ocsp"}) < threads

FreeThread == Cardinality(Busy) < threads

Goto(c, from, to) == stage[c] \in from /\ stage' = [stage EXCEPT ![c] = to]

\* A step of a coroutine that resumes on a free thread.
Resume(c, from, to) == FreeThread /\ Goto(c, {from}, to)

--------------------------------------------------------------------------------
(* do_listen *)

\* The kernel completes the TCP connection.
Connect(c) == /\ acceptor = "listening"
              /\ Goto(c, {"away"}, "backlog")
              /\ UNCHANGED <<configVars, acceptor, published, latest, exp,
                             ocspVars, dispVars>>

\* async_accept completes and do_session is spawned.
Accept(c) == /\ acceptor = "listening"
             /\ Resume(c, "backlog", "handshake")
             /\ UNCHANGED <<configVars, acceptor, published, latest, exp,
                            ocspVars, dispVars>>

\* async_accept throws (no file descriptor left, a client gone): the exception
\* ends do_listen, which destroys the acceptor, and no connection is accepted
\* any more.  The sessions go on.
AcceptFails == /\ FreeThread
               /\ acceptor = "listening" /\ acceptor' = "ended"
               /\ stage' = [c \in Connections |-> IF stage[c] = "backlog"
                                                  THEN "closed" ELSE stage[c]]
               /\ UNCHANGED <<configVars, published, latest, exp,
                              ocspVars, dispVars>>

--------------------------------------------------------------------------------
(* async_handshake, with tls_provide_cert_status *)

\* The client does not ask for the status, or the chain has no issuer.
NoStatus(c) == /\ Resume(c, "handshake", "ready")
               /\ UNCHANGED <<configVars, acceptor, published, latest, exp,
                              ocspVars, dispVars>>

StatusFromCache(c) == /\ Resume(c, "handshake", "ready")
                      /\ OCSP!Hit(c)
                      /\ UNCHANGED <<configVars, acceptor, published, latest, exp,
                                     dispVars>>

\* The fetch is synchronous: from here the thread is held.
StatusMissing(c) == /\ Resume(c, "handshake", "ocsp")
                    /\ OCSP!Miss(c)
                    /\ UNCHANGED <<configVars, acceptor, published, latest, exp,
                                   dispVars>>

ResponderAnswers(c) == /\ stage[c] = "ocsp"
                       /\ OCSP!Fetch(c)
                       /\ UNCHANGED <<configVars, engineVars, dispVars>>

StatusProvided(c) == /\ Goto(c, {"ocsp"}, "ready")
                     /\ OCSP!Store(c) \/ OCSP!FetchNothing(c)
                     /\ UNCHANGED <<configVars, acceptor, published, latest, exp,
                                    dispVars>>

\* An exception of the fetch leaves the handshake.
StatusFails(c) == /\ Goto(c, {"ocsp"}, "closing")
                  /\ OCSP!FetchFails(c)
                  /\ UNCHANGED <<configVars, acceptor, published, latest, exp,
                                 dispVars>>

--------------------------------------------------------------------------------
(* do_session *)

\* Slip: the details kept once there are some (DetailsNotOlder).
Publish_Once(c) ==
    /\ Resume(c, "ready", "reading")
    /\ latest' = IF latest = None THEN c ELSE latest
    /\ published' = Append(published, c)
    /\ UNCHANGED <<configVars, acceptor, exp, ocspVars, dispVars>>

\* The handshake completes, and under connection_details_mutex_ its details
\* take the place of those of the connection before.
Publish(c) == /\ Resume(c, "ready", "reading")
              /\ latest' = c
              /\ published' = Append(published, c)
              /\ UNCHANGED <<configVars, acceptor, exp, ocspVars, dispVars>>

\* A handshake, read or write that throws: the client leaves, a TLS alert, a
\* message that cannot be parsed.
SessionFails(c) ==
    /\ FreeThread
    /\ Goto(c, {"handshake", "ready", "reading", "writing"}, "closing")
    /\ UNCHANGED <<configVars, acceptor, published, latest, exp,
                   ocspVars, dispVars>>

\* async_shutdown, whether it throws or not, and the end of the coroutine.
Shutdown(c) == /\ Resume(c, "closing", "closed")
               /\ UNCHANGED <<configVars, acceptor, published, latest, exp,
                              ocspVars, dispVars>>

--------------------------------------------------------------------------------
(* handle_session of QuantumSafeHttp and of QuantumCommandCli *)

\* What a read may ask of the session.  Tokens are checked by their signature
\* and their exp alone: any that was issued will do, and the last one issued
\* expires last.
Asks(effect) ==
    \/ mode = "raw" /\ effect \in CliEffects
    \/ mode = "http" /\ \E token \in {FALSE, now < exp} :
                            <<token, effect>> \in HttpEffects[jwt]

\* A request or command that touches nothing.
Serve(c) == /\ \E effect \in {"none", "details", "text"} : Asks(effect)
            /\ Resume(c, "reading", "writing")
            /\ UNCHANGED <<configVars, acceptor, published, latest, exp,
                           ocspVars, dispVars>>

Quit(c) == /\ Asks("quit")
           /\ Resume(c, "reading", "closing")
           /\ UNCHANGED <<configVars, acceptor, published, latest, exp,
                          ocspVars, dispVars>>

\* Slip: seconds given for minutes (TypeOK).
Login_Seconds(c) == /\ Asks("login")
                    /\ Resume(c, "reading", "writing")
                    /\ exp' = now + 60 * TokenTtl
                    /\ UNCHANGED <<configVars, acceptor, published, latest,
                                   ocspVars, dispVars>>

Login(c) == /\ Asks("login")
            /\ Resume(c, "reading", "writing")
            /\ exp' = now + TokenTtl
            /\ UNCHANGED <<configVars, acceptor, published, latest,
                           ocspVars, dispVars>>

\* The id or the row is refused by the database.  The HTTP handler answers 500;
\* the exception of a command ends its session.
OrderFails(c) == /\ \/ Asks("order")
                    \/ Asks("refused")
                 /\ Resume(c, "reading", IF mode = "http" THEN "writing" ELSE "closing")
                 /\ UNCHANGED <<configVars, acceptor, published, latest, exp,
                                ocspVars, dispVars>>

\* The row is inserted and wait_for_response called: it refuses at once, or
\* holds the thread.
OrderRefused(c) == /\ Asks("order")
                   /\ Resume(c, "reading", "writing")
                   /\ DISP!Refuse(c)
                   /\ UNCHANGED <<configVars, acceptor, published, latest, exp,
                                  ocspVars>>

OrderWaits(c) == /\ Asks("order")
                 /\ Resume(c, "reading", "waiting")
                 /\ DISP!Open(c)
                 /\ UNCHANGED <<configVars, acceptor, published, latest, exp,
                                ocspVars>>

\* The listener of the database dispatches an answer.
Told(c) == /\ \E s \in DISP!Replies : DISP!Answer(c, s)
           /\ UNCHANGED <<configVars, engineVars, ocspVars>>

\* Slip: the wait has no timeout (EveryConnectionServed).
WaitEnds_Told(c) == /\ Goto(c, {"waiting"}, "writing")
                    /\ answer[c] # "PENDING"
                    /\ DISP!Close(c)
                    /\ UNCHANGED <<configVars, acceptor, published, latest, exp,
                                   ocspVars>>

\* wait_for_response returns, answered or at its timeout.
WaitEnds(c) == /\ Goto(c, {"waiting"}, "writing")
               /\ DISP!Close(c)
               /\ UNCHANGED <<configVars, acceptor, published, latest, exp,
                              ocspVars>>

\* The response is written and the loop reads again; HTTP leaves it when the
\* connection is not kept alive.  The next wait of the session is a new one.
Write(c) == /\ \/ Resume(c, "writing", "reading")
               \/ mode = "http" /\ Resume(c, "writing", "closing")
            /\ phase' = [phase EXCEPT ![c] = "new"]
            /\ answer' = [answer EXCEPT ![c] = "PENDING"]
            /\ result' = [result EXCEPT ![c] = "PENDING"]
            /\ UNCHANGED <<configVars, acceptor, published, latest, exp, ocspVars>>

--------------------------------------------------------------------------------
Tick == OCSP!Tick /\ UNCHANGED <<configVars, engineVars, dispVars>>

\* No connection is left; join returns if the acceptor has ended too.
Terminated == /\ \A c \in Connections : stage[c] \in {"away", "closed"}
              /\ UNCHANGED vars

Next == \/ Tick \/ AcceptFails \/ Terminated
        \/ \E c \in Connections :
              \/ Connect(c) \/ Accept(c)
              \/ NoStatus(c) \/ StatusFromCache(c) \/ StatusMissing(c)
              \/ ResponderAnswers(c) \/ StatusProvided(c) \/ StatusFails(c)
              \/ Publish(c) \/ SessionFails(c) \/ Shutdown(c)
              \/ Serve(c) \/ Quit(c) \/ Login(c)
              \/ OrderFails(c) \/ OrderRefused(c) \/ OrderWaits(c)
              \/ Told(c) \/ WaitEnds(c) \/ Write(c)

Spec == Init /\ [][Next]_vars

\* A wait ends at its timeout, and a fetch when the responder answers or hangs
\* up: its own timeout does not apply to synchronous calls.  The scheduler of
\* io_context is a queue, so that an accepted connection comes to its turn
\* although other coroutines take the threads again and again.
Fairness == \A c \in Connections :
    /\ WF_vars(WaitEnds(c))
    /\ WF_vars(ResponderAnswers(c) \/ StatusProvided(c) \/ StatusFails(c))
    /\ SF_vars(Accept(c))

FairSpec == Spec /\ Fairness

--------------------------------------------------------------------------------
(* Properties *)

TypeOK == /\ threads \in PoolSizes
          /\ mode \in {"http", "raw"} /\ jwt \in BOOLEAN
          /\ acceptor \in {"listening", "ended"}
          /\ stage \in [Connections -> Stages]
          /\ published \in Seq(Connections)
          /\ latest \in Connections \cup {None}
          /\ exp \in 0 .. MaxTime + TokenTtl
          /\ OCSP!TypeOK
          /\ phase \in [Connections -> {"new", "open", "closed"}]
          /\ answer \in [Connections -> {"PENDING", "SUCCESS", "DB_ERROR"}]
          /\ result \in [Connections -> {"PENDING", "SUCCESS", "DB_ERROR",
                                         "TIMEOUT", "SYSTEM_FULL"}]

\* A wait holds a thread of the pool, so that a server with no more threads
\* than MAX_PENDING never answers SYSTEM_FULL, however many clients order at
\* once: the limit that README.md:281 names is the size of the pool
\* (QuantumSafeTlsEngine.cpp:44-46, Dispatcher.cpp:39-43).
NeverFull == threads <= MAX_PENDING
                => \A c \in Connections : result[c] # "SYSTEM_FULL"

\* An order reaches the dispatcher over HTTP only if the server has a key and
\* a token has been issued that is still good: whatever else the sessions do,
\* somebody logged in less than the life of a token ago
\* (QuantumSafeHttp.cpp:95-118, JwtManager.cpp:158).
OrdersAuthorised ==
    [][\A c \in Connections :
          mode = "http" /\ phase[c] = "new" /\ phase'[c] # "new"
              => jwt /\ now < exp]_vars

\* The details a session can be shown are those of its own handshake or of one
\* published after it, never older ones (QuantumSafeTlsEngine.cpp:107-117).
DetailsNotOlder ==
    \A c \in Connections :
        stage[c] \in {"reading", "waiting", "writing"}
            => \E i, j \in DOMAIN published : i <= j /\ published[i] = c
                                                     /\ published[j] = latest

\* What a handshake takes from the cache was good at most the caching time
\* ago, with as many handshakes at once as there are threads.
CachedWasGood == OCSP!CachedWasGood

\* A client that connects is accepted, unless the acceptor has ended, even
\* when every thread is held and the sessions never stop ordering
\* (QuantumSafeTlsEngine.cpp:44-51 and 136-148).
EveryConnectionServed ==
    \A c \in Connections : stage[c] = "backlog"
                               ~> stage[c] = "handshake" \/ acceptor = "ended"
================================================================================
