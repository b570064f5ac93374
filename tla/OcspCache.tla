------------------------------- MODULE OcspCache -------------------------------
(****************************************************************************)
(* server/src/oscp: the OCSP response that the server pins to its           *)
(* certificate, fetched from the responder of the CA and kept for a while.  *)
(*                                                                          *)
(* A handshake looks the response up under a shared lock, fetches it        *)
(* without any lock if there is none, and stores it under a unique lock:    *)
(* several handshakes may fetch at once and the last to store wins.  The    *)
(* server has one certificate, so the map has one entry.                    *)
(*                                                                          *)
(* Time is counted in the minutes of m_cache_duration.                      *)
(****************************************************************************)
EXTENDS Integers

CONSTANTS Handshakes,     \* the calls of getOCSPResponse
          ThisUpdates,    \* when a response of the CA may become valid
          NextUpdates,    \* when a response of the CA may expire
          CacheDuration,  \* m_cache_duration
          MaxTime,        \* the clock stops here: a bound for TLC
          NoEntry         \* nothing is cached

\* What the responder may send.  One without a nextUpdate is one that expires
\* after MaxTime.
Responses == [this_update : ThisUpdates, next_update : NextUpdates,
              revoked : BOOLEAN]

VARIABLES now,    \* std::chrono::system_clock, in minutes
          cache,  \* the entry of m_cache: a response and its valid_until
          call,   \* call[h]: "none", "fetching", "storing", "done" or "failed"
          held    \* held[h]: the entry that call h is about to store

ocspVars == <<now, cache, call, held>>

Init == /\ now = 0
        /\ cache = NoEntry
        /\ call = [h \in Handshakes |-> "none"]
        /\ held = [h \in Handshakes |-> NoEntry]

Goto(h, from, to) == call[h] = from /\ call' = [call EXCEPT ![h] = to]

\* Botan::OCSP::Response::status_for
StatusFor(r, t) == CASE r.revoked         -> "CERT_IS_REVOKED"
                     [] t < r.this_update -> "OCSP_NOT_YET_VALID"
                     [] t > r.next_update -> "OCSP_EXPIRED"
                     [] OTHER             -> "OCSP_RESPONSE_GOOD"

GoodAt(r, t) == StatusFor(r, t) = "OCSP_RESPONSE_GOOD"

\* Halved until the response is no longer, so the code says, NOT_YET_VALID at
\* the end of the period.
Period(r, ref_time) ==
    LET shorten[d \in 0 .. CacheDuration] ==
            IF d # 0 /\ StatusFor(r, ref_time + d) = "OCSP_NOT_YET_VALID"
            THEN shorten[d \div 2] ELSE d
    IN  shorten[CacheDuration]

--------------------------------------------------------------------------------
(* getOCSPResponse *)

\* fromCache would return the entry.
Fresh == cache # NoEntry /\ cache.valid_until >= now

Hit(h) == /\ Fresh
          /\ Goto(h, "none", "done")
          /\ UNCHANGED <<now, cache, held>>

Miss(h) == /\ ~Fresh
           /\ Goto(h, "none", "fetching")
           /\ UNCHANGED <<now, cache, held>>

\* No responder or no URL in the certificate, an HTTP status other than 200, an
\* unsuccessful response, or one that is not good: nothing is pinned.
FetchNothing(h) == /\ Goto(h, "fetching", "done")
                   /\ UNCHANGED <<now, cache, held>>

\* Resolving, connecting, reading and decoding throw, out of the handshake.
FetchFails(h) == /\ Goto(h, "fetching", "failed")
                 /\ UNCHANGED <<now, cache, held>>

\* Slip: the response not tested before it is kept (CachedWasGood).
Fetch_Untested(h) ==
    \E r \in Responses :
        /\ Goto(h, "fetching", "storing")
        /\ held' = [held EXCEPT ![h] = [ocsp_response |-> r,
                                        valid_until |-> now + Period(r, now)]]
        /\ UNCHANGED <<now, cache>>

\* A good response: its period is guessed, and ref_time taken, before the lock.
Fetch(h) ==
    \E r \in Responses :
        /\ GoodAt(r, now)
        /\ Goto(h, "fetching", "storing")
        /\ held' = [held EXCEPT ![h] = [ocsp_response |-> r,
                                        valid_until |-> now + Period(r, now)]]
        /\ UNCHANGED <<now, cache>>

\* Whatever is there is overwritten, even by an older response.
Store(h) == /\ Goto(h, "storing", "done")
            /\ cache' = held[h]
            /\ held' = [held EXCEPT ![h] = NoEntry]
            /\ UNCHANGED now

Tick == /\ now < MaxTime
        /\ now' = now + 1
        /\ UNCHANGED <<cache, call, held>>

--------------------------------------------------------------------------------
Next == \/ Tick
        \/ \E h \in Handshakes : \/ Hit(h) \/ Miss(h)
                                 \/ FetchNothing(h) \/ FetchFails(h) \/ Fetch(h)
                                 \/ Store(h)

Spec == Init /\ [][Next]_ocspVars

--------------------------------------------------------------------------------
(* Properties *)

Entries == [ocsp_response : Responses, valid_until : Nat]

TypeOK == /\ now \in 0 .. MaxTime
          /\ cache \in Entries \cup {NoEntry}
          /\ call \in [Handshakes -> {"none", "fetching", "storing", "done", "failed"}]
          /\ held \in [Handshakes -> Entries \cup {NoEntry}]

\* What a handshake is served from the cache was good at most m_cache_duration
\* ago, in whatever order concurrent fetches store their responses
\* (ocsp_cache.cpp:78-100).
CachedWasGood ==
    Fresh => \E t \in (now - CacheDuration) .. now : GoodAt(cache.ocsp_response, t)

\* ocsp_cache.hpp:21-22: responses are "cached as long as they are valid".
CachedWhileValid == Fresh => GoodAt(cache.ocsp_response, now)
================================================================================
