------------------------------ MODULE SigningKeys ------------------------------
(***************************************************************************)
(* OIDCAuthenticator: the signing keys of the identity provider, cached by *)
(* the API and fetched by any request that finds its token's key missing   *)
(* or the cache expired. Fetches are not shared and not ordered: an answer *)
(* replaces the cache when it is stored, for a lifetime counted from then, *)
(* even if the provider gave it before another answer that was stored      *)
(* earlier.                                                                *)
(*                                                                         *)
(* Time passes in ticks. A fetch, from its first byte to the storing of    *)
(* its answer, takes FetchTime at most (the HTTP client's timeout); the    *)
(* rest of key() and of Authenticate waits for nothing and takes no tick.  *)
(***************************************************************************)
EXTENDS Integers

CONSTANTS
  Keys,           \* the provider's key identifiers
  NoKey,
  Requests,       \* requests under way at the same time
  KeyLifetime,    \* how long fetched keys are used (5 minutes), in ticks
  FetchTime       \* how long a fetch may take (10 seconds), in ticks

ASSUME SigningKeysAssumption ==
  /\ NoKey \notin Keys
  /\ KeyLifetime \in Nat \ {0}
  /\ FetchTime \in Nat

VARIABLES
  published,   \* the keys in the provider's set
  since,       \* since[k]: the ticks since k entered or left that set
  cache,       \* the authenticator's keys, and the ticks they are good for
  request

keyVars == <<published, since, cache, request>>

\* Bound: longer times make no difference.
Longest == KeyLifetime + FetchTime + 1

RequestState == [pc : {"idle", "fetch", "store", "again", "accepted", "unknown"},
                 key : Keys \union {NoKey}, time : 0..FetchTime, answer : SUBSET Keys]

\* A request at pc with a token of key k, that has not waited and has no answer.
At(pc, k) == [pc |-> pc, key |-> k, time |-> 0, answer |-> {}]

NoRequest == At("idle", NoKey)

KeysInit ==
  /\ published = Keys
  /\ since = [k \in Keys |-> Longest]
  /\ cache = [keys |-> {}, left |-> 0]
  /\ request = [r \in Requests |-> NoRequest]

In(r, pc) == request[r].pc = pc
Turns(r, state) == request' = [request EXCEPT ![r] = state]

\* Mutant: a key that was found is used whatever its age.
UsableForEver(k) == k \in cache.keys

Usable(k) == k \in cache.keys /\ cache.left > 0

\* Mutant: an unknown key is asked for only when the cache has expired.
MissingWhenExpired(k) == ~Usable(k) /\ cache.left = 0

\* The cache does not settle the request: the keys are fetched.
Missing(k) == ~Usable(k)

\* With its key a request is authenticated, unless its signature or its claims
\* are wrong. A request that is turned down has ended.
Authenticate(r, k) ==
  \/ Turns(r, At("accepted", k))
  \/ Turns(r, NoRequest)

\* A request comes with a token that k has signed, or is said to have signed.
LookUp(r, k) ==
  /\ In(r, "idle")
  /\ IF Usable(k)
     THEN Authenticate(r, k)
     ELSE Turns(r, At(IF Missing(k) THEN "fetch" ELSE "again", k))
  /\ UNCHANGED <<published, since, cache>>

\* The provider answers with its keys of this moment; an empty set is an error.
AnswerFetch(r) ==
  /\ In(r, "fetch")
  /\ published # {}
  /\ Turns(r, [request[r] EXCEPT !.pc = "store", !.answer = published])
  /\ UNCHANGED <<published, since, cache>>

\* No answer, or none that can be used, or too late.
FailFetch(r) ==
  /\ request[r].pc \in {"fetch", "store"}
  /\ Turns(r, NoRequest)
  /\ UNCHANGED <<published, since, cache>>

\* The answer replaces the cache.
StoreKeys(r) ==
  /\ In(r, "store")
  /\ cache' = [keys |-> request[r].answer, left |-> KeyLifetime]
  /\ Turns(r, At("again", request[r].key))
  /\ UNCHANGED <<published, since>>

\* The second look at the cache, which another request may have replaced.
LookAgain(r) ==
  /\ In(r, "again")
  /\ IF request[r].key \in cache.keys
     THEN Authenticate(r, request[r].key)
     ELSE Turns(r, [request[r] EXCEPT !.pc = "unknown"])
  /\ UNCHANGED <<published, since, cache>>

\* The handler goes on, or answers with an error.
EndRequest(r) ==
  /\ request[r].pc \in {"accepted", "unknown"}
  /\ Turns(r, NoRequest)
  /\ UNCHANGED <<published, since, cache>>

\* The provider publishes a key, or takes one back.
RotateKeys(k) ==
  /\ published' = IF k \in published THEN published \ {k} ELSE published \union {k}
  /\ since' = [since EXCEPT ![k] = 0]
  /\ UNCHANGED <<cache, request>>

PassTime ==
  /\ \A r \in Requests :
       ~In(r, "idle") => request[r].pc \in {"fetch", "store"} /\ request[r].time < FetchTime
  /\ since' = [k \in Keys |-> IF since[k] < Longest THEN since[k] + 1 ELSE since[k]]
  /\ cache' = [cache EXCEPT !.left = IF @ > 0 THEN @ - 1 ELSE @]
  /\ request' = [r \in Requests |->
                   IF In(r, "idle") THEN request[r]
                                    ELSE [request[r] EXCEPT !.time = @ + 1]]
  /\ UNCHANGED published

RequestStep(r) ==
  \/ \E k \in Keys : LookUp(r, k)
  \/ AnswerFetch(r) \/ FailFetch(r) \/ StoreKeys(r) \/ LookAgain(r) \/ EndRequest(r)

KeysNext ==
  \/ \E r \in Requests : RequestStep(r)
  \/ \E k \in Keys : RotateKeys(k)
  \/ PassTime

KeysSpec == KeysInit /\ [][KeysNext]_keyVars

------------------------------------------------------------------------------
(* Properties.                                                              *)

\* Types.
KeysTypeOK ==
  /\ published \subseteq Keys
  /\ since \in [Keys -> 0..Longest]
  /\ cache \in [keys : SUBSET Keys, left : 0..KeyLifetime]
  /\ request \in [Requests -> RequestState]

\* A key that the provider has taken back is not accepted once its lifetime in
\* the cache and one fetch have passed, in whatever order answers were stored
\* (key, refreshKeys).
RetiredKeysExpire ==
  \A r \in Requests :
    In(r, "accepted") /\ request[r].key \notin published =>
      since[request[r].key] < KeyLifetime + FetchTime

\* A key that has been published for longer than a fetch takes is known to
\* every request whose own fetch succeeded: no answer from before the key is
\* left to be stored between the two looks at the cache (key, refreshKeys).
PublishedKeysAreKnown ==
  \A r \in Requests :
    In(r, "unknown") /\ request[r].key \in published =>
      since[request[r].key] <= FetchTime
==============================================================================
