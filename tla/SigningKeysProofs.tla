--------------------------- MODULE SigningKeysProofs ---------------------------
(***************************************************************************)
(* Proofs about SigningKeys, for any keys, requests and times: how long a  *)
(* key that the provider has taken back can still be accepted, and when a  *)
(* key that it has published can still be unknown.                         *)
(***************************************************************************)
EXTENDS SigningKeys, TLAPS

------------------------------------------------------------------------------
(* The inductive invariant: how old what the authenticator knows can be.    *)

\* An answer on its way differs from what is published only in keys that were
\* published or taken back since the provider gave it.
AnswersAreRecent ==
  \A r \in Requests : In(r, "store") =>
    \A k \in Keys :
      (k \in request[r].answer) # (k \in published) => since[k] <= request[r].time

\* What is left of the cache's time shrinks as a retired key grows old in it.
CacheExpires ==
  cache.left > 0 =>
    \A k \in cache.keys : k \notin published => since[k] + cache.left <= KeyLifetime + FetchTime

\* A request that looks again does so in the tick in which it stored its answer.
CacheIsFresh ==
  (\E r \in Requests : In(r, "again")) =>
    /\ cache.left = KeyLifetime
    /\ \A k \in published : k \notin cache.keys => since[k] <= FetchTime

KInv ==
  KeysTypeOK /\ AnswersAreRecent /\ CacheExpires /\ CacheIsFresh
    /\ RetiredKeysExpire /\ PublishedKeysAreKnown

\* The initial states: nothing is cached and nobody asks.
LEMMA KInvHoldsInitially == KeysInit => KInv
  BY SigningKeysAssumption
     DEF KInv, KeysTypeOK, AnswersAreRecent, CacheExpires, CacheIsFresh, RetiredKeysExpire,
         PublishedKeysAreKnown, KeysInit, NoRequest, At, RequestState, Longest, In

------------------------------------------------------------------------------
(* Steps of a request. They take no time and publish nothing, so a step is  *)
(* described by the state it leaves its request in.                         *)

\* What the invariant says of one request, in state, when the cache is as it is.
Sound(state) ==
  /\ state \in RequestState
  /\ state.pc = "store" =>
       \A k \in Keys : (k \in state.answer) # (k \in published) => since[k] <= state.time
  /\ state.pc = "again" =>
       /\ cache.left = KeyLifetime
       /\ \A k \in published : k \notin cache.keys => since[k] <= FetchTime
  /\ state.pc = "accepted" /\ state.key \notin published =>
       since[state.key] < KeyLifetime + FetchTime
  /\ state.pc = "unknown" /\ state.key \in published => since[state.key] <= FetchTime

\* The invariant, request by request.
LEMMA InvariantByRequest ==
  KInv <=> /\ published \subseteq Keys
           /\ since \in [Keys -> 0..Longest]
           /\ cache \in [keys : SUBSET Keys, left : 0..KeyLifetime]
           /\ CacheExpires
           /\ request = [r \in Requests |-> request[r]]
           /\ \A r \in Requests : Sound(request[r])
<1>1. request \in [Requests -> RequestState] <=>
        request = [r \in Requests |-> request[r]] /\ \A r \in Requests : request[r] \in RequestState
  OBVIOUS
<1> QED
  BY <1>1, Zenon DEF KInv, KeysTypeOK, AnswersAreRecent, CacheIsFresh, RetiredKeysExpire,
                     PublishedKeysAreKnown, Sound, In

\* A step that changes one request, and neither cache nor provider, keeps the
\* invariant if what it makes of the request is sound.
LEMMA TurnKeepsInvariant ==
  ASSUME KInv, NEW r \in Requests, NEW state, Sound(state), Turns(r, state),
         UNCHANGED <<published, since, cache>>
  PROVE  KInv'
<1>1. /\ published' \subseteq Keys
      /\ since' \in [Keys -> 0..Longest]
      /\ cache' \in [keys : SUBSET Keys, left : 0..KeyLifetime]
      /\ CacheExpires'
  BY DEF KInv, KeysTypeOK, CacheExpires
<1>2. request' = [other \in Requests |-> IF other = r THEN state ELSE request[other]]
  BY InvariantByRequest DEF Turns
<1>3. \A other \in Requests : Sound(request'[other])
  BY <1>2, InvariantByRequest
<1>4. \A other \in Requests : Sound(request[other])'
  BY <1>3 DEF Sound
<1>5. request' = [other \in Requests |-> request'[other]]
  BY <1>2
<1>6. \A other \in Requests : request'[other] \in RequestState
  BY <1>4 DEF Sound
<1>7. request' \in [Requests -> RequestState]
  BY <1>5, <1>6
<1> QED
  BY <1>1, <1>4, <1>7, Zenon DEF KInv, KeysTypeOK, AnswersAreRecent, CacheIsFresh,
                                 RetiredKeysExpire, PublishedKeysAreKnown, Sound, In

\* A request without a key is sound.
LEMMA NoRequestIsSound == Sound(NoRequest)
  BY SigningKeysAssumption DEF Sound, NoRequest, At, RequestState

\* A request that is accepted with a key that retired recently enough is sound.
LEMMA AcceptedIsSound ==
  ASSUME NEW k \in Keys, k \notin published => since[k] < KeyLifetime + FetchTime
  PROVE  Sound(At("accepted", k))
  BY SigningKeysAssumption DEF Sound, At, RequestState

\* Either end of Authenticate keeps the invariant when the key is recent enough.
LEMMA AuthenticateKeepsInvariant ==
  ASSUME KInv, NEW r \in Requests, NEW k \in Keys,
         k \notin published => since[k] < KeyLifetime + FetchTime,
         Authenticate(r, k), UNCHANGED <<published, since, cache>>
  PROVE  KInv'
<1>1. CASE Turns(r, At("accepted", k))
  BY <1>1, AcceptedIsSound, TurnKeepsInvariant
<1>2. CASE Turns(r, NoRequest)
  BY <1>2, NoRequestIsSound, TurnKeepsInvariant
<1> QED
  BY <1>1, <1>2 DEF Authenticate

\* A usable key has expired at the provider less than a lifetime and a fetch ago.
LEMMA LookUpKeepsInvariant ==
  ASSUME KInv, NEW r \in Requests, NEW k \in Keys, LookUp(r, k)
  PROVE  KInv'
<1>1. CASE Usable(k)
  <2>1. k \notin published => since[k] < KeyLifetime + FetchTime
    BY <1>1, SigningKeysAssumption DEF KInv, KeysTypeOK, CacheExpires, Usable, Longest
  <2> QED
    BY <1>1, <2>1, AuthenticateKeepsInvariant DEF LookUp
<1>2. CASE ~Usable(k)
  <2> DEFINE state == At("fetch", k)
  <2>1. Sound(state)
    BY SigningKeysAssumption DEF Sound, At, RequestState
  <2>2. Turns(r, state)
    BY <1>2 DEF LookUp, Missing
  <2> HIDE DEF state
  <2> QED
    BY <2>1, <2>2, TurnKeepsInvariant DEF LookUp
<1> QED
  BY <1>1, <1>2

\* An answer is what is published at this moment.
LEMMA AnswerKeepsInvariant ==
  ASSUME KInv, NEW r \in Requests, AnswerFetch(r)
  PROVE  KInv'
<1> DEFINE state == [request[r] EXCEPT !.pc = "store", !.answer = published]
<1>1. request[r] \in RequestState /\ published \subseteq Keys
  BY DEF KInv, KeysTypeOK
<1>2. Sound(state)
  BY <1>1 DEF Sound, RequestState
<1>3. Turns(r, state)
  BY DEF AnswerFetch
<1> HIDE DEF state
<1> QED
  BY <1>2, <1>3, TurnKeepsInvariant DEF AnswerFetch

\* The second look accepts a key of a fresh cache, or misses one that the
\* provider published after it gave the answer.
LEMMA LookAgainKeepsInvariant ==
  ASSUME KInv, NEW r \in Requests, LookAgain(r)
  PROVE  KInv'
<1>1. /\ request[r] \in RequestState
      /\ since \in [Keys -> 0..Longest]
      /\ published \subseteq Keys
      /\ cache.keys \subseteq Keys
  BY DEF KInv, KeysTypeOK
<1>2. /\ cache.left = KeyLifetime
      /\ \A k \in published : k \notin cache.keys => since[k] <= FetchTime
  BY DEF KInv, CacheIsFresh, LookAgain, In
<1>3. CASE request[r].key \in cache.keys
  <2> DEFINE k == request[r].key
  <2>1. k \in Keys
    BY <1>1, <1>3
  <2>2. k \notin published => since[k] < KeyLifetime + FetchTime
    BY <1>1, <1>2, <1>3, <2>1, SigningKeysAssumption DEF KInv, CacheExpires, Longest
  <2>3. Authenticate(r, k)
    BY <1>3 DEF LookAgain
  <2> HIDE DEF k
  <2> QED
    BY <2>1, <2>2, <2>3, AuthenticateKeepsInvariant DEF LookAgain
<1>4. CASE request[r].key \notin cache.keys
  <2> DEFINE state == [request[r] EXCEPT !.pc = "unknown"]
  <2>1. Sound(state)
    BY <1>1, <1>2, <1>4 DEF Sound, RequestState
  <2>2. Turns(r, state)
    BY <1>4 DEF LookAgain
  <2> HIDE DEF state
  <2> QED
    BY <2>1, <2>2, TurnKeepsInvariant DEF LookAgain
<1> QED
  BY <1>3, <1>4

\* Storing an answer makes the cache as recent as the answer is, whatever was
\* stored before it, and changes nothing for requests that have an answer.
LEMMA StoreKeepsInvariant ==
  ASSUME KInv, NEW r \in Requests, StoreKeys(r)
  PROVE  KInv'
<1> DEFINE state == At("again", request[r].key)
<1>1. /\ published \subseteq Keys
      /\ since \in [Keys -> 0..Longest]
      /\ request \in [Requests -> RequestState]
      /\ request[r] \in RequestState
  BY DEF KInv, KeysTypeOK
<1>2. \A k \in Keys : (k \in request[r].answer) # (k \in published) => since[k] <= FetchTime
  BY <1>1, SigningKeysAssumption DEF KInv, AnswersAreRecent, StoreKeys, In, RequestState, Longest
<1>3. /\ cache' = [keys |-> request[r].answer, left |-> KeyLifetime]
      /\ request' = [request EXCEPT ![r] = state]
      /\ published' = published /\ since' = since
  BY DEF StoreKeys, Turns
<1>4. state \in RequestState /\ state.pc = "again"
  <2>1. request[r].key \in Keys \union {NoKey}
    BY <1>1 DEF RequestState
  <2> QED
    BY <2>1, SigningKeysAssumption DEF At, RequestState
<1> HIDE DEF state
<1>5. KeysTypeOK'
  BY <1>1, <1>3, <1>4, SigningKeysAssumption DEF KeysTypeOK, RequestState
<1>6. AnswersAreRecent'
  BY <1>1, <1>3, <1>4 DEF KInv, AnswersAreRecent, In
<1>7. CacheExpires'
  BY <1>1, <1>2, <1>3, SigningKeysAssumption DEF CacheExpires, RequestState, Longest
<1>8. CacheIsFresh'
  BY <1>1, <1>2, <1>3 DEF CacheIsFresh
<1>9. RetiredKeysExpire' /\ PublishedKeysAreKnown'
  BY <1>1, <1>3, <1>4 DEF KInv, RetiredKeysExpire, PublishedKeysAreKnown, In
<1> QED
  BY <1>5, <1>6, <1>7, <1>8, <1>9 DEF KInv

------------------------------------------------------------------------------
(* Steps of the provider and of the clock.                                  *)

\* A key that has just changed sides is as recent as can be.
LEMMA RotateKeepsInvariant ==
  ASSUME KInv, NEW k \in Keys, RotateKeys(k)
  PROVE  KInv'
<1>1. /\ published \subseteq Keys
      /\ since \in [Keys -> 0..Longest]
      /\ request \in [Requests -> RequestState]
      /\ cache \in [keys : SUBSET Keys, left : 0..KeyLifetime]
  BY DEF KInv, KeysTypeOK
<1>2. /\ since' = [since EXCEPT ![k] = 0]
      /\ cache' = cache /\ request' = request
      /\ published' \subseteq Keys
      /\ \A other \in Keys : other # k => (other \in published' <=> other \in published)
  BY <1>1 DEF RotateKeys
<1>3. KeysTypeOK'
  BY <1>1, <1>2, SigningKeysAssumption DEF KeysTypeOK, Longest
<1>4. AnswersAreRecent'
  BY <1>1, <1>2 DEF KInv, AnswersAreRecent, In, RequestState
<1>5. CacheExpires'
  BY <1>1, <1>2, SigningKeysAssumption DEF KInv, CacheExpires
<1>6. CacheIsFresh'
  BY <1>1, <1>2, SigningKeysAssumption DEF KInv, CacheIsFresh, In
<1>7. RetiredKeysExpire'
  BY <1>1, <1>2, SigningKeysAssumption DEF KInv, RetiredKeysExpire, In, RequestState
<1>8. PublishedKeysAreKnown'
  BY <1>1, <1>2, SigningKeysAssumption DEF KInv, PublishedKeysAreKnown, In
<1> QED
  BY <1>3, <1>4, <1>5, <1>6, <1>7, <1>8 DEF KInv

\* A tick finds every request idle or fetching: the cache's time runs out as
\* fast as its keys age, and an answer ages no faster than its request.
LEMMA TickKeepsInvariant ==
  ASSUME KInv, PassTime
  PROVE  KInv'
<1>1. /\ published \subseteq Keys
      /\ since \in [Keys -> 0..Longest]
      /\ request \in [Requests -> RequestState]
      /\ cache \in [keys : SUBSET Keys, left : 0..KeyLifetime]
  BY DEF KInv, KeysTypeOK
<1>2. /\ published' = published
      /\ since' = [k \in Keys |-> IF since[k] < Longest THEN since[k] + 1 ELSE since[k]]
      /\ cache'.keys = cache.keys
      /\ cache'.left = IF cache.left > 0 THEN cache.left - 1 ELSE cache.left
      /\ cache' \in [keys : SUBSET Keys, left : 0..KeyLifetime]
  BY <1>1, SigningKeysAssumption DEF PassTime
<1>3. \A r \in Requests :
        /\ request'[r] \in RequestState
        /\ request[r].pc \in {"idle", "fetch", "store"}
        /\ request'[r].pc = request[r].pc
        /\ request'[r].answer = request[r].answer
        /\ In(r, "store") => request'[r].time = request[r].time + 1
  <2> SUFFICES ASSUME NEW r \in Requests
               PROVE  /\ request'[r] \in RequestState
                      /\ request[r].pc \in {"idle", "fetch", "store"}
                      /\ request'[r].pc = request[r].pc
                      /\ request'[r].answer = request[r].answer
                      /\ In(r, "store") => request'[r].time = request[r].time + 1
    OBVIOUS
  <2>1. request[r] \in RequestState
    BY <1>1
  <2>2. CASE In(r, "idle")
    BY <2>1, <2>2 DEF PassTime, In
  <2>3. CASE ~In(r, "idle")
    <3>1. /\ request'[r] = [request[r] EXCEPT !.time = @ + 1]
          /\ request[r].pc \in {"fetch", "store"}
          /\ request[r].time < FetchTime
      BY <2>3 DEF PassTime
    <3> QED
      BY <2>1, <3>1, SigningKeysAssumption DEF RequestState
  <2> QED
    BY <2>2, <2>3
<1>4. KeysTypeOK'
  <2>1. since' \in [Keys -> 0..Longest]
    BY <1>1, <1>2, SigningKeysAssumption DEF Longest
  <2>2. request' \in [Requests -> RequestState]
    BY <1>3 DEF PassTime
  <2> QED
    BY <1>1, <1>2, <2>1, <2>2 DEF KeysTypeOK
<1>5. AnswersAreRecent'
  <2> SUFFICES ASSUME NEW r \in Requests, In(r, "store")', NEW k \in Keys,
                      (k \in request'[r].answer) # (k \in published')
               PROVE  since'[k] <= request'[r].time
    BY DEF AnswersAreRecent
  <2>1. In(r, "store") /\ (k \in request[r].answer) # (k \in published)
    BY <1>2, <1>3 DEF In
  <2>2. since[k] <= request[r].time
    BY <2>1 DEF KInv, AnswersAreRecent
  <2> QED
    BY <1>1, <1>2, <1>3, <2>1, <2>2, SigningKeysAssumption DEF RequestState, Longest
<1>6. CacheExpires'
  BY <1>1, <1>2, SigningKeysAssumption DEF KInv, CacheExpires, Longest
<1>7. CacheIsFresh' /\ RetiredKeysExpire' /\ PublishedKeysAreKnown'
  BY <1>3 DEF CacheIsFresh, RetiredKeysExpire, PublishedKeysAreKnown, In
<1> QED
  BY <1>4, <1>5, <1>6, <1>7 DEF KInv

------------------------------------------------------------------------------
\* Every step of the specification keeps the invariant.
LEMMA KInvIsKept == KInv /\ [KeysNext]_keyVars => KInv'
<1> SUFFICES ASSUME KInv, [KeysNext]_keyVars PROVE KInv'
  OBVIOUS
<1>1. ASSUME NEW r \in Requests, NEW k \in Keys, LookUp(r, k) PROVE KInv'
  BY <1>1, LookUpKeepsInvariant
<1>2. ASSUME NEW r \in Requests, AnswerFetch(r) PROVE KInv'
  BY <1>2, AnswerKeepsInvariant
<1>3. ASSUME NEW r \in Requests, FailFetch(r) \/ EndRequest(r) PROVE KInv'
  BY <1>3, NoRequestIsSound, TurnKeepsInvariant DEF FailFetch, EndRequest
<1>4. ASSUME NEW r \in Requests, StoreKeys(r) PROVE KInv'
  BY <1>4, StoreKeepsInvariant
<1>5. ASSUME NEW r \in Requests, LookAgain(r) PROVE KInv'
  BY <1>5, LookAgainKeepsInvariant
<1>6. ASSUME NEW k \in Keys, RotateKeys(k) PROVE KInv'
  BY <1>6, RotateKeepsInvariant
<1>7. CASE PassTime
  BY <1>7, TickKeepsInvariant
<1>8. CASE UNCHANGED keyVars
  BY <1>8 DEF keyVars, KInv, KeysTypeOK, AnswersAreRecent, CacheExpires, CacheIsFresh,
              RetiredKeysExpire, PublishedKeysAreKnown, In
<1> QED
  BY <1>1, <1>2, <1>3, <1>4, <1>5, <1>6, <1>7, <1>8 DEF KeysNext, RequestStep

\* How old cache and answers can be, in every behaviour (OIDCAuthenticator).
THEOREM KeysInvariant == KeysSpec => []KInv
  BY KInvHoldsInitially, KInvIsKept, PTL DEF KeysSpec

\* Whatever the order in which overlapping fetches store their answers, a key
\* that was taken back is accepted for a lifetime and a fetch at most.
THEOREM RetiredExpire == KeysSpec => []RetiredKeysExpire
<1>1. KInv => RetiredKeysExpire
  BY DEF KInv
<1> QED
  BY <1>1, KeysInvariant, PTL

\* A request whose own fetch succeeded knows every key that has been published
\* for longer than a fetch takes, although others replace the cache meanwhile.
THEOREM PublishedAreKnown == KeysSpec => []PublishedKeysAreKnown
<1>1. KInv => PublishedKeysAreKnown
  BY DEF KInv
<1> QED
  BY <1>1, KeysInvariant, PTL
================================================================================
