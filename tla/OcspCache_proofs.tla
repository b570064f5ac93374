---------------------------- MODULE OcspCache_proofs ----------------------------
(****************************************************************************)
(* Proofs about OcspCache, for any number of concurrent handshakes, any     *)
(* validity periods and any caching time.                                   *)
(****************************************************************************)
EXTENDS OcspCache, TLAPS

\* Times are numbers, of minutes; a period or a clock is not negative.
TimesAreNumbers == /\ ThisUpdates \subseteq Int /\ NextUpdates \subseteq Int
                   /\ CacheDuration \in Nat /\ MaxTime \in Nat

\* What is kept, or about to be, was good when its period began, and the
\* period is the whole of m_cache_duration.
Timed(entry) == /\ entry \in Entries
                /\ \E ref \in 0 .. now :
                      /\ GoodAt(entry.ocsp_response, ref)
                      /\ entry.valid_until = ref + CacheDuration

IInv == /\ TypeOK
        /\ cache # NoEntry => Timed(cache)
        /\ \A h \in Handshakes : call[h] = "storing" => Timed(held[h])

--------------------------------------------------------------------------------
(* The period (intoCache, ocsp_cache.cpp:189-201)                           *)

\* A response that was good cannot be "not yet valid" later.
LEMMA NeverNotYetValid ==
  ASSUME TimesAreNumbers, NEW r \in Responses, NEW t \in Nat, NEW d \in Nat,
         GoodAt(r, t)
  PROVE  StatusFor(r, t + d) # "OCSP_NOT_YET_VALID"
<1>1. r.this_update \in Int /\ r.next_update \in Int /\ r.revoked \in BOOLEAN
  BY DEF Responses, TimesAreNumbers
<1>2. ~r.revoked /\ ~(t < r.this_update)
  BY <1>1 DEF GoodAt, StatusFor
<1>3. ~(t + d < r.this_update)
  BY <1>1, <1>2
<1>. QED BY <1>1, <1>2, <1>3 DEF StatusFor

\* Whatever its nextUpdate, the period of a good response is never shortened:
\* it is m_cache_duration.
LEMMA PeriodNeverShortened ==
  ASSUME TimesAreNumbers, NEW r \in Responses, NEW t \in Nat, GoodAt(r, t)
  PROVE  Period(r, t) = CacheDuration
<1>. DEFINE Step(f) == [d \in 0 .. CacheDuration |->
                IF d # 0 /\ StatusFor(r, t + d) = "OCSP_NOT_YET_VALID"
                THEN f[d \div 2] ELSE d]
            shorten == CHOOSE f : f = Step(f)
<1>1. \A f : Step(f) = [d \in 0 .. CacheDuration |-> d]
  BY NeverNotYetValid
<1>2. \E f : f = Step(f)
  BY <1>1
<1>3. shorten = Step(shorten)
  BY <1>2
<1>4. shorten = [d \in 0 .. CacheDuration |-> d]
  BY <1>1, <1>3
<1>5. Period(r, t) = shorten[CacheDuration]
  BY DEF Period
<1>. HIDE DEF shorten
<1>6. CacheDuration \in 0 .. CacheDuration
  BY DEF TimesAreNumbers
<1>. QED BY <1>4, <1>5, <1>6

--------------------------------------------------------------------------------
(* The inductive invariant                                                  *)

\* Nothing is kept when the server starts.
LEMMA InitIInv == ASSUME TimesAreNumbers, Init PROVE IInv
BY DEF Init, IInv, TypeOK, TimesAreNumbers

\* A good response is put aside with the time its period began.
LEMMA FetchKeeps ==
  ASSUME TimesAreNumbers, IInv, NEW h \in Handshakes, Fetch(h)
  PROVE  IInv'
<1>1. PICK r \in Responses :
         /\ GoodAt(r, now)
         /\ Goto(h, "fetching", "storing")
         /\ held' = [held EXCEPT ![h] = [ocsp_response |-> r,
                                        valid_until |-> now + Period(r, now)]]
         /\ UNCHANGED <<now, cache>>
  BY DEF Fetch
<1>2. now \in Nat
  BY DEF IInv, TypeOK
<1>3. Period(r, now) = CacheDuration
  BY <1>1, <1>2, PeriodNeverShortened
<1>. DEFINE entry == [ocsp_response |-> r, valid_until |-> now + CacheDuration]
<1>4. entry \in Entries /\ Timed(entry)
  BY <1>1, <1>2 DEF Entries, Timed, TimesAreNumbers
<1>5. held' = [held EXCEPT ![h] = entry]
  BY <1>1, <1>3
<1>. HIDE DEF entry
<1>6. TypeOK'
  BY <1>1, <1>4, <1>5 DEF IInv, TypeOK, Goto
<1>7. (cache # NoEntry => Timed(cache))'
  BY <1>1 DEF IInv, Timed
<1>8. ASSUME NEW g \in Handshakes, call'[g] = "storing" PROVE Timed(held[g])'
  <2>1. CASE g = h
    BY <2>1, <1>1, <1>4, <1>5 DEF IInv, TypeOK, Timed
  <2>2. CASE g # h
    BY <2>2, <1>1, <1>5, <1>8 DEF IInv, TypeOK, Goto, Timed
  <2>. QED BY <2>1, <2>2
<1>. QED BY <1>6, <1>7, <1>8 DEF IInv

\* The entry that is stored, in whatever order, is one that was put aside.
LEMMA StoreKeeps ==
  ASSUME IInv, NEW h \in Handshakes, Store(h)
  PROVE  IInv'
<1>1. Timed(held[h]) /\ held[h] \in Entries
  BY DEF IInv, Store, Goto, Timed
<1>2. TypeOK'
  BY <1>1 DEF IInv, TypeOK, Store, Goto
<1>3. Timed(cache)'
  BY <1>1 DEF Store, Timed
<1>4. ASSUME NEW g \in Handshakes, call'[g] = "storing" PROVE Timed(held[g])'
  BY <1>4 DEF IInv, TypeOK, Store, Goto, Timed
<1>. QED BY <1>2, <1>3, <1>4 DEF IInv

\* Every step keeps the invariant.
LEMMA NextIInv ==
  ASSUME TimesAreNumbers, IInv, [Next]_ocspVars
  PROVE  IInv'
<1>1. CASE Tick
  <2>1. now \in Nat /\ now' \in Nat /\ now <= now'
    BY <1>1 DEF Tick, IInv, TypeOK, TimesAreNumbers
  <2>2. TypeOK'
    BY <1>1 DEF Tick, IInv, TypeOK, TimesAreNumbers
  <2>3. UNCHANGED <<cache, call, held>>
    BY <1>1 DEF Tick
  <2>4. \A e : Timed(e) => Timed(e)'
    BY <2>1, <2>3 DEF Timed
  <2>. QED BY <2>2, <2>3, <2>4 DEF IInv, Timed
<1>2. ASSUME NEW h \in Handshakes, Hit(h) \/ Miss(h) \/ FetchNothing(h) \/ FetchFails(h)
      PROVE  IInv'
  <2>1. /\ UNCHANGED <<now, cache, held>>
        /\ \E to \in {"fetching", "done", "failed"} : call' = [call EXCEPT ![h] = to]
    BY <1>2 DEF Hit, Miss, FetchNothing, FetchFails, Goto
  <2>2. TypeOK'
    BY <2>1 DEF IInv, TypeOK
  <2>3. \A g \in Handshakes : call'[g] = "storing" => call[g] = "storing"
    BY <2>1 DEF IInv, TypeOK
  <2>. QED BY <2>1, <2>2, <2>3 DEF IInv, Timed
<1>3. ASSUME NEW h \in Handshakes, Fetch(h) PROVE IInv'
  BY <1>3, FetchKeeps
<1>4. ASSUME NEW h \in Handshakes, Store(h) PROVE IInv'
  BY <1>4, StoreKeeps
<1>5. CASE UNCHANGED ocspVars
  BY <1>5 DEF ocspVars, IInv, TypeOK, Timed
<1>. QED BY <1>1, <1>2, <1>3, <1>4, <1>5 DEF Next

--------------------------------------------------------------------------------
(* Theorems                                                                 *)

\* A response that is served from the cache was good at most m_cache_duration
\* ago, however concurrent fetches and stores interleave
\* (getOCSPResponse, ocsp_cache.cpp:74-101).
THEOREM ServedWasGood ==
  ASSUME TimesAreNumbers PROVE Spec => []CachedWasGood
<1>1. Init => IInv
  BY InitIInv
<1>2. IInv /\ [Next]_ocspVars => IInv'
  BY NextIInv
<1>3. IInv => CachedWasGood
  <2>. SUFFICES ASSUME IInv, Fresh
                PROVE  \E t \in (now - CacheDuration) .. now : GoodAt(cache.ocsp_response, t)
    BY DEF CachedWasGood
  <2>1. PICK ref \in 0 .. now : /\ GoodAt(cache.ocsp_response, ref)
                                /\ cache.valid_until = ref + CacheDuration
    BY DEF IInv, Fresh, Timed
  <2>2. now \in Nat /\ CacheDuration \in Nat /\ cache.valid_until >= now
    BY DEF IInv, TypeOK, Fresh, TimesAreNumbers
  <2>3. ref \in (now - CacheDuration) .. now
    BY <2>1, <2>2
  <2>. QED BY <2>1, <2>3
<1>. QED BY <1>1, <1>2, <1>3, PTL DEF Spec

\* Types of the cache and of the calls.
THEOREM TypeCorrect ==
  ASSUME TimesAreNumbers PROVE Spec => []TypeOK
<1>1. Init => IInv
  BY InitIInv
<1>2. IInv /\ [Next]_ocspVars => IInv'
  BY NextIInv
<1>3. IInv => TypeOK
  BY DEF IInv
<1>. QED BY <1>1, <1>2, <1>3, PTL DEF Spec
================================================================================
