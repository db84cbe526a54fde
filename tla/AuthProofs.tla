----------------------------- MODULE AuthProofs -----------------------------
(***************************************************************************)
(* Proofs about Auth for every set of flags, tokens, callers and issuers,  *)
(* whatever keys the issuers publish and whatever the intervals are.       *)
(*                                                                         *)
(* SoundInv follows a key from its publication to the signature it checks. *)
(* FreshInv follows the age of a cache's keys: from the fetch, bounded by  *)
(* the client's timeout, over the stamp and the rate limit to the second   *)
(* look of a caller that missed.  The lemmas named ...Does say what one    *)
(* action does to the records of its caller and of its issuer's cache.     *)
(***************************************************************************)
EXTENDS Auth, TLAPS

Keys == UNION { FirstKeys[i] \cup NextKeys[i] : i \in Issuers }

\* The caller holds the refresh guard of its issuer's cache.
Holding == { "fetching", "installing", "stamping", "failing" }

Places == { "idle", "done", "peek", "gate", "queue", "reread", "blame", "decode" } \cup Holding

Verdicts == { None, "Malformed", "Invalid", "Jwks", "UnknownKid", "ok", "dropped" }

CallerType ==
  [ at : Places, tok : Tokens \cup { None }, begun : Nat, gen : Nat,
    key : Keys \cup { None }, verdict : Verdicts, passed : BOOLEAN, nth : Nat ]

CacheType ==
  [ keys : SUBSET Keys, completed_at : Nat \cup { None }, failures : Nat, completed : Nat,
    flight : Callers \cup { None }, doc : (SUBSET Keys) \cup { None }, since : Nat ]

TypeOK ==
  /\ verifier.issuers \subseteq Issuers
  /\ now \in Nat
  /\ idp \in [ Issuers -> SUBSET Keys ]
  /\ cache \in [ Issuers -> CacheType ]
  /\ caller \in [ Callers -> CallerType ]
  /\ vouched \in [ Issuers -> SUBSET Keys ]
  /\ taken \in [ Issuers -> SUBSET [ doc : SUBSET Keys, at : Nat ] ]

\* A verification past the checks of its header is for a configured issuer and
\* still has no verdict, and the guard of a cache has one holder.
HeaderInv(c) ==
  /\ caller[c].at \notin { "idle", "done" } =>
       /\ Iss(c) \in verifier.issuers
       /\ caller[c].tok.alg \in ALLOWED_ALGS
       /\ caller[c].verdict = None
  /\ caller[c].verdict \in { "ok", "UnknownKid" } => Iss(c) \in verifier.issuers
  /\ caller[c].at \in Holding => cache[Iss(c)].flight = c

\* What AcceptedIsVouched says of one caller's token.
Accepted(c) ==
  /\ Iss(c) \in verifier.issuers
  /\ caller[c].tok.aud = verifier.audience
  /\ caller[c].tok.sub # None
  /\ caller[c].tok.alg \in ALLOWED_ALGS
  /\ \E k \in vouched[Iss(c)] :
       /\ k.kid = caller[c].tok.kid
       /\ k.secret = caller[c].tok.secret
       /\ k.alg \in { None, caller[c].tok.alg }

\* A document about to be installed, and a key about to check a signature, are
\* the token's own issuer's.
VouchInv(c) ==
  /\ caller[c].at = "installing" =>
       refresh_inner(cache[Iss(c)].doc) \subseteq vouched[Iss(c)]
  /\ caller[c].at = "decode" =>
       caller[c].key \in vouched[Iss(c)] /\ caller[c].key.kid = caller[c].tok.kid
  /\ caller[c].verdict = "ok" => Accepted(c)

\* A cache holds only signing keys that its issuer has published.
KeysInv(i) ==
  /\ cache[i].keys \subseteq vouched[i]
  /\ refresh_inner(idp[i]) \subseteq vouched[i]

SoundInv ==
  /\ TypeOK
  /\ \A c \in Callers : HeaderInv(c) /\ VouchInv(c)
  /\ \A i \in Issuers : KeysInv(i)

\* What UnknownIsBacked asks of one caller's error.
Backed(c) ==
  \E t \in taken[Iss(c)] :
    /\ t.at >= caller[c].begun - (Interval + FetchMax)
    /\ \A k \in refresh_inner(t.doc) : k.kid # caller[c].tok.kid

\* What a caller knows of its issuer's cache: the document it is installing is
\* from its own fetch; after refresh_once there is a completed refresh no older
\* than the interval; and while nothing completes after its second look, that
\* look is backed.
WaitInv(c) ==
  LET j == cache[Iss(c)]
  IN /\ caller[c].begun <= now
     /\ caller[c].at = "installing" => \E t \in taken[Iss(c)] : t.at >= j.since /\ t.doc = j.doc
     /\ caller[c].at = "stamping" =>
          \E t \in taken[Iss(c)] : t.at >= j.since /\ refresh_inner(t.doc) = j.keys
     /\ caller[c].at = "queue" /\ caller[c].gen # j.completed =>
          j.completed_at # None /\ j.completed_at >= caller[c].begun
     /\ caller[c].at = "reread" =>
          j.completed_at # None /\ j.completed_at >= caller[c].begun - Interval
     /\ caller[c].at = "blame" =>
          caller[c].gen <= j.completed /\ (caller[c].gen = j.completed /\ j.failures = 0 => Backed(c))
     /\ caller[c].verdict = "UnknownKid" /\ ~ caller[c].passed => Backed(c)

\* How old a cache's keys are: a fetch is bounded by the client's timeout and
\* begins after the last completion, and after a success the keys are from a
\* document at most one fetch older than the completion.
AgeInv(i) ==
  LET j == cache[i]
  IN /\ j.completed_at # None => j.completed_at <= now
     /\ j.flight # None => /\ j.since <= now /\ now - j.since <= FetchMax
                           /\ j.completed_at # None => j.completed_at <= j.since
     /\ j.completed_at # None /\ j.failures = 0 =>
          \E t \in taken[i] : t.at >= j.completed_at - FetchMax /\ refresh_inner(t.doc) = j.keys
     /\ \A t \in taken[i] : t.at <= now

FreshInv == (\A c \in Callers : WaitInv(c)) /\ (\A i \in Issuers : AgeInv(i))

-----------------------------------------------------------------------------
(* What the steps do to the records of one caller and one cache. *)

OnlyCaller(c) == \A d \in Callers \ { c } : caller'[d] = caller[d]

OnlyCache(i) == \A k \in Issuers \ { i } : cache'[k] = cache[k]

\* A caller's record is replaced by another.
LEMMA CallerPut ==
  ASSUME TypeOK, NEW c \in Callers, NEW r \in CallerType, caller' = [ caller EXCEPT ![c] = r ]
  PROVE  caller' \in [ Callers -> CallerType ] /\ OnlyCaller(c) /\ caller'[c] = r
BY DEF TypeOK, OnlyCaller

\* A cache's record is replaced by another.
LEMMA CachePut ==
  ASSUME TypeOK, NEW i \in Issuers, NEW j \in CacheType, cache' = [ cache EXCEPT ![i] = j ]
  PROVE  cache' \in [ Issuers -> CacheType ] /\ OnlyCache(i) /\ cache'[i] = j
BY DEF TypeOK, OnlyCache

\* Goto moves one caller.
LEMMA GotoDoes ==
  ASSUME TypeOK, NEW c \in Callers, NEW a \in Places, Goto(c, a)
  PROVE  /\ caller' \in [ Callers -> CallerType ] /\ OnlyCaller(c)
         /\ caller'[c] = [ caller[c] EXCEPT !.at = a ]
BY DEF TypeOK, CallerType, Goto, OnlyCaller

\* Settle gives one caller its verdict.
LEMMA SettleDoes ==
  ASSUME TypeOK, NEW c \in Callers, NEW v \in Verdicts, Settle(c, v)
  PROVE  /\ caller' \in [ Callers -> CallerType ] /\ OnlyCaller(c)
         /\ caller'[c] = [ caller[c] EXCEPT !.at = "done", !.verdict = v, !.key = None, !.gen = 0 ]
<1> DEFINE r == [ caller[c] EXCEPT !.at = "done", !.verdict = v, !.key = None, !.gen = 0 ]
<1>1. r \in CallerType
  BY DEF TypeOK, CallerType, Places
<1>2. caller' = [ caller EXCEPT ![c] = r ]
  BY DEF TypeOK, Settle
<1> HIDE DEF r
<1>3. caller' \in [ Callers -> CallerType ] /\ OnlyCaller(c) /\ caller'[c] = r
  BY <1>1, <1>2, CallerPut
<1> QED
  BY <1>3 DEF r

\* Found hands out a key of the issuer's cache, or notes the cache's generation.
LEMMA FoundDoes ==
  ASSUME TypeOK, NEW c \in Callers, NEW a \in Places, Found(c, a), Iss(c) \in Issuers
  PROVE  /\ caller' \in [ Callers -> CallerType ] /\ OnlyCaller(c)
         /\ \/ \E k \in Known(Iss(c), caller[c].tok.kid) :
                 caller'[c] = [ caller[c] EXCEPT !.at = "decode", !.key = k ]
            \/ /\ Known(Iss(c), caller[c].tok.kid) = {}
               /\ caller'[c] = [ caller[c] EXCEPT !.at = a, !.gen = cache[Iss(c)].completed ]
<1>1. caller[c] \in CallerType /\ cache[Iss(c)] \in CacheType
  BY DEF TypeOK
<1>2. CASE Known(Iss(c), caller[c].tok.kid) # {}
  <2>1. PICK k \in Known(Iss(c), caller[c].tok.kid) :
          caller' = [ caller EXCEPT ![c].at = "decode", ![c].key = k ]
    BY <1>2 DEF Found, Iss
  <2> DEFINE r == [ caller[c] EXCEPT !.at = "decode", !.key = k ]
  <2>2. k \in Keys
    BY <1>1 DEF Known, CacheType
  <2>3. r \in CallerType
    BY <1>1, <2>2 DEF CallerType, Places
  <2>4. caller' = [ caller EXCEPT ![c] = r ]
    BY <2>1 DEF TypeOK
  <2> HIDE DEF r
  <2>5. caller' \in [ Callers -> CallerType ] /\ OnlyCaller(c) /\ caller'[c] = r
    BY <2>3, <2>4, CallerPut
  <2> QED
    BY <2>5 DEF r
<1>3. CASE Known(Iss(c), caller[c].tok.kid) = {}
  <2> DEFINE r == [ caller[c] EXCEPT !.at = a, !.gen = cache[Iss(c)].completed ]
  <2>1. caller' = [ caller EXCEPT ![c] = r ]
    BY <1>3 DEF Found, Iss, TypeOK
  <2>2. r \in CallerType
    BY <1>1 DEF CallerType, CacheType
  <2> HIDE DEF r
  <2>3. caller' \in [ Callers -> CallerType ] /\ OnlyCaller(c) /\ caller'[c] = r
    BY <2>1, <2>2, CallerPut
  <2> QED
    BY <1>3, <2>3 DEF r
<1> QED
  BY <1>2, <1>3

\* A new call that fails its header's checks is done, with an error; another one
\* is for a configured issuer and an allowed algorithm.
LEMMA PresentDoes ==
  ASSUME TypeOK, NEW c \in Callers, NEW tok \in Tokens, Present(c, tok)
  PROVE  /\ caller' \in [ Callers -> CallerType ] /\ OnlyCaller(c)
         /\ caller'[c].begun = now
         /\ \/ caller'[c].at = "done" /\ caller'[c].verdict \in { "Malformed", "Invalid" }
            \/ /\ caller'[c].at = "peek" /\ caller'[c].verdict = None
               /\ Iss(c)' \in verifier.issuers /\ caller'[c].tok.alg \in ALLOWED_ALGS
<1> DEFINE start == [ Idle EXCEPT !.tok = tok, !.begun = now, !.nth = caller[c].nth + 1 ]
           fails == CASE tok.shape # "jws" -> "Malformed"
                      [] tok.alg \notin ALLOWED_ALGS -> "Invalid"
                      [] tok.kid = None \/ tok.iss = None -> "Malformed"
                      [] tok.iss \notin verifier.issuers -> "Invalid"
                      [] OTHER -> None
           r == IF fails # None THEN [ start EXCEPT !.at = "done", !.verdict = fails ]
                ELSE [ start EXCEPT !.at = "peek" ]
<1>1. caller' = [ caller EXCEPT ![c] = r ]
  BY DEF Present
<1>2. caller[c].nth \in Nat /\ now \in Nat
  BY DEF TypeOK, CallerType
<1>3. start \in CallerType /\ start.verdict = None /\ start.begun = now /\ start.tok = tok
  <2>1. Idle \in CallerType /\ Idle.verdict = None
    BY DEF Idle, CallerType, Places, Verdicts
  <2>2. start \in CallerType
    <3>1. ASSUME NEW n \in Nat, NEW b \in Nat
          PROVE  [ Idle EXCEPT !.tok = tok, !.begun = b, !.nth = n ] \in CallerType
      BY <2>1 DEF CallerType
    <3>2. PICK n \in Nat : n = caller[c].nth + 1
      BY <1>2
    <3>3. start = [ Idle EXCEPT !.tok = tok, !.begun = now, !.nth = n ]
      BY <3>2
    <3> HIDE DEF start
    <3> QED
      BY <1>2, <3>1, <3>3
  <2>3. start.verdict = Idle.verdict /\ start.begun = now /\ start.tok = tok
    BY <2>1 DEF CallerType
  <2> QED
    BY <2>1, <2>2, <2>3
<1>4. fails # None => fails \in { "Malformed", "Invalid" }
  OBVIOUS
<1>5. fails = None => tok.iss \in verifier.issuers /\ tok.alg \in ALLOWED_ALGS
  BY AuthAssumption
<1> HIDE DEF start, fails
<1>6. /\ r \in CallerType /\ r.begun = now /\ r.tok = tok
      /\ \/ r.at = "done" /\ r.verdict \in { "Malformed", "Invalid" }
         \/ r.at = "peek" /\ r.verdict = None /\ fails = None
  <2>1. CASE fails # None
    BY <1>3, <1>4, <2>1 DEF CallerType, Places, Verdicts
  <2>2. CASE fails = None
    BY <1>3, <2>2 DEF CallerType, Places, Verdicts
  <2> QED
    BY <2>1, <2>2
<1> HIDE DEF r
<1>7. caller' \in [ Callers -> CallerType ] /\ OnlyCaller(c) /\ caller'[c] = r
  BY <1>1, <1>6, CallerPut
<1> QED
  BY <1>5, <1>6, <1>7 DEF Iss

\* refresh_once before the guard.
LEMMA GateDoes ==
  ASSUME TypeOK, NEW c \in Callers, Gate(c), Iss(c) \in Issuers
  PROVE  /\ caller' \in [ Callers -> CallerType ] /\ OnlyCaller(c)
         /\ \/ too_soon(cache[Iss(c)]) /\ caller'[c] = [ caller[c] EXCEPT !.at = "reread" ]
            \/ caller'[c] = [ caller[c] EXCEPT !.at = "queue", !.gen = cache[Iss(c)].completed ]
<1>1. CASE too_soon(cache[Iss(c)])
  BY <1>1, GotoDoes DEF Gate, Places
<1>2. CASE ~ too_soon(cache[Iss(c)])
  <2> DEFINE r == [ caller[c] EXCEPT !.at = "queue", !.gen = cache[Iss(c)].completed ]
  <2>1. caller[c] \in CallerType /\ cache[Iss(c)] \in CacheType
    BY DEF TypeOK
  <2>2. r \in CallerType
    BY <2>1 DEF CallerType, CacheType, Places
  <2>3. caller' = [ caller EXCEPT ![c] = r ]
    BY <1>2 DEF Gate, TypeOK
  <2> HIDE DEF r
  <2>4. caller' \in [ Callers -> CallerType ] /\ OnlyCaller(c) /\ caller'[c] = r
    BY <2>2, <2>3, CallerPut
  <2> QED
    BY <2>4 DEF r
<1> QED
  BY <1>1, <1>2

\* The guard is had, and the refresh ridden or begun.
LEMMA LockDoes ==
  ASSUME TypeOK, NEW c \in Callers, Lock(c), Iss(c) \in Issuers
  PROVE  /\ caller' \in [ Callers -> CallerType ] /\ OnlyCaller(c)
         /\ cache' \in [ Issuers -> CacheType ] /\ OnlyCache(Iss(c))
         /\ \/ /\ cache[Iss(c)].completed # caller[c].gen \/ too_soon(cache[Iss(c)])
               /\ caller'[c] = [ caller[c] EXCEPT !.at = "reread" ]
               /\ cache' = cache
            \/ /\ caller'[c] = [ caller[c] EXCEPT !.at = "fetching" ]
               /\ cache'[Iss(c)] = [ cache[Iss(c)] EXCEPT !.flight = c, !.doc = None, !.since = now ]
<1>1. CASE cache[Iss(c)].completed # caller[c].gen \/ too_soon(cache[Iss(c)])
  <2>1. cache' = cache /\ Goto(c, "reread")
    BY <1>1 DEF Lock
  <2>2. cache' \in [ Issuers -> CacheType ] /\ OnlyCache(Iss(c))
    BY <2>1 DEF TypeOK, OnlyCache
  <2> QED
    BY <1>1, <2>1, <2>2, GotoDoes DEF Places
<1>2. CASE ~ (cache[Iss(c)].completed # caller[c].gen \/ too_soon(cache[Iss(c)]))
  <2> DEFINE i == Iss(c)
             j == [ cache[i] EXCEPT !.flight = c, !.doc = None, !.since = now ]
  <2> HIDE DEF i
  <2>1. Goto(c, "fetching")
    BY <1>2 DEF Lock
  <2>2. cache' = [ cache EXCEPT ![i].flight = c, ![i].doc = None, ![i].since = now ]
    BY <1>2 DEF Lock, i
  <2>3. i \in Issuers /\ cache[i] \in CacheType /\ now \in Nat
    BY DEF TypeOK, i
  <2>4. cache' = [ cache EXCEPT ![i] = j ]
    BY <2>2, <2>3 DEF TypeOK
  <2>5. j \in CacheType
    BY <2>3 DEF CacheType
  <2> HIDE DEF j
  <2>6. cache' \in [ Issuers -> CacheType ] /\ OnlyCache(i) /\ cache'[i] = j
    BY <2>3, <2>4, <2>5, CachePut
  <2> QED
    BY <2>1, <2>6, GotoDoes DEF Places, Holding, i, j
<1> QED
  BY <1>1, <1>2

\* The endpoint fails, or its document is noted.
LEMMA FetchDoes ==
  ASSUME TypeOK, NEW c \in Callers, fetch(c), Iss(c) \in Issuers
  PROVE  /\ caller' \in [ Callers -> CallerType ] /\ OnlyCaller(c)
         /\ cache' \in [ Issuers -> CacheType ] /\ OnlyCache(Iss(c))
         /\ \/ /\ caller'[c] = [ caller[c] EXCEPT !.at = "failing" ]
               /\ cache' = cache /\ taken' = taken
            \/ /\ caller'[c] = [ caller[c] EXCEPT !.at = "installing" ]
               /\ cache'[Iss(c)] = [ cache[Iss(c)] EXCEPT !.doc = idp[Iss(c)] ]
               /\ taken' = [ taken EXCEPT ![Iss(c)] =
                               { t \in @ : t.doc # idp[Iss(c)] }
                                 \cup { [ doc |-> idp[Iss(c)], at |-> now ] } ]
<1>1. CASE Iss(c) \in down
  <2>1. cache' = cache /\ taken' = taken /\ Goto(c, "failing")
    BY <1>1 DEF fetch
  <2>2. cache' \in [ Issuers -> CacheType ] /\ OnlyCache(Iss(c))
    BY <2>1 DEF TypeOK, OnlyCache
  <2> QED
    BY <2>1, <2>2, GotoDoes DEF Places, Holding
<1>2. CASE Iss(c) \notin down
  <2> DEFINE i == Iss(c)
             j == [ cache[i] EXCEPT !.doc = idp[i] ]
  <2>1. /\ Goto(c, "installing") /\ cache' = [ cache EXCEPT ![i].doc = idp[i] ]
        /\ taken' = [ taken EXCEPT ![i] =
                        { t \in @ : t.doc # idp[i] } \cup { [ doc |-> idp[i], at |-> now ] } ]
    BY <1>2 DEF fetch
  <2> HIDE DEF i
  <2>2. i \in Issuers /\ cache[i] \in CacheType /\ idp[i] \in SUBSET Keys
    BY DEF TypeOK, i
  <2>3. cache' = [ cache EXCEPT ![i] = j ]
    BY <2>1, <2>2 DEF TypeOK
  <2>4. j \in CacheType
    BY <2>2 DEF CacheType
  <2> HIDE DEF j
  <2>5. cache' \in [ Issuers -> CacheType ] /\ OnlyCache(i) /\ cache'[i] = j
    BY <2>2, <2>3, <2>4, CachePut
  <2>6. /\ caller' \in [ Callers -> CallerType ] /\ OnlyCaller(c)
        /\ caller'[c] = [ caller[c] EXCEPT !.at = "installing" ]
    BY <2>1, GotoDoes DEF Places, Holding
  <2> QED
    BY <2>1, <2>5, <2>6 DEF i, j
<1> QED
  BY <1>1, <1>2

\* The fetched document's signing keys replace the cache's.
LEMMA InstallDoes ==
  ASSUME TypeOK, NEW c \in Callers, Install(c), Iss(c) \in Issuers,
         refresh_inner(cache[Iss(c)].doc) \subseteq Keys
  PROVE  /\ caller' \in [ Callers -> CallerType ] /\ OnlyCaller(c)
         /\ cache' \in [ Issuers -> CacheType ] /\ OnlyCache(Iss(c))
         /\ caller'[c] = [ caller[c] EXCEPT !.at = "stamping" ]
         /\ cache'[Iss(c)] = [ cache[Iss(c)] EXCEPT !.keys = refresh_inner(cache[Iss(c)].doc) ]
<1> DEFINE i == Iss(c)
           ks == refresh_inner(cache[i].doc)
           j == [ cache[i] EXCEPT !.keys = ks ]
<1>1. Goto(c, "stamping") /\ cache' = [ cache EXCEPT ![i].keys = ks ]
  BY DEF Install
<1>2. i \in Issuers /\ cache[i] \in CacheType /\ ks \in SUBSET Keys
  BY DEF TypeOK
<1> HIDE DEF i, ks
<1>3. cache' = [ cache EXCEPT ![i] = j ]
  BY <1>1, <1>2 DEF TypeOK
<1>4. j \in CacheType
  BY <1>2 DEF CacheType
<1> HIDE DEF j
<1>5. cache' \in [ Issuers -> CacheType ] /\ OnlyCache(i) /\ cache'[i] = j
  BY <1>2, <1>3, <1>4, CachePut
<1>6. /\ caller' \in [ Callers -> CallerType ] /\ OnlyCaller(c)
      /\ caller'[c] = [ caller[c] EXCEPT !.at = "stamping" ]
  BY <1>1, GotoDoes DEF Places, Holding
<1> QED
  BY <1>5, <1>6 DEF i, j, ks

\* A refresh is stamped, and the guard released.
LEMMA RefreshDoes ==
  ASSUME TypeOK, NEW c \in Callers, refresh(c), Iss(c) \in Issuers
  PROVE  /\ caller' \in [ Callers -> CallerType ] /\ OnlyCaller(c)
         /\ cache' \in [ Issuers -> CacheType ] /\ OnlyCache(Iss(c))
         /\ cache'[Iss(c)] = Stamped(cache[Iss(c)], caller[c].at = "stamping")
         /\ \/ caller[c].at = "stamping" /\ caller'[c] = [ caller[c] EXCEPT !.at = "reread" ]
            \/ /\ caller[c].at = "failing"
               /\ caller'[c] = [ caller[c] EXCEPT !.at = "done", !.verdict = "Jwks",
                                                  !.key = None, !.gen = 0 ]
<1> DEFINE i == Iss(c)
           j == Stamped(cache[i], caller[c].at = "stamping")
<1>1. cache' = [ cache EXCEPT ![i] = j ]
  BY DEF refresh, TypeOK
<1>2. i \in Issuers /\ cache[i] \in CacheType /\ now \in Nat
  BY DEF TypeOK
<1> HIDE DEF i
<1>3. j \in CacheType
  <2>1. cache[i].failures \in Nat /\ cache[i].completed \in Nat
    BY <1>2 DEF CacheType
  <2>2. ASSUME NEW f \in Nat, NEW m \in Nat
        PROVE  [ cache[i] EXCEPT !.completed_at = now, !.failures = f, !.completed = m,
                                 !.flight = None, !.doc = None, !.since = 0 ] \in CacheType
    BY <1>2 DEF CacheType
  <2>3. PICK f \in Nat : f = IF caller[c].at = "stamping" THEN 0 ELSE cache[i].failures + 1
    BY <2>1
  <2>4. PICK m \in Nat : m = cache[i].completed + 1
    BY <2>1
  <2>5. j = [ cache[i] EXCEPT !.completed_at = now, !.failures = f, !.completed = m,
                              !.flight = None, !.doc = None, !.since = 0 ]
    BY <1>2, <2>3, <2>4 DEF Stamped, CacheType
  <2> HIDE DEF j
  <2> QED
    BY <2>2, <2>5
<1> HIDE DEF j
<1>4. cache' \in [ Issuers -> CacheType ] /\ OnlyCache(i) /\ cache'[i] = j
  BY <1>1, <1>2, <1>3, CachePut
<1>5. CASE caller[c].at = "stamping"
  <2>1. Goto(c, "reread")
    BY <1>5 DEF refresh
  <2> QED
    BY <1>4, <1>5, <2>1, GotoDoes DEF Places, i, j
<1>6. CASE caller[c].at # "stamping"
  <2>1. Settle(c, "Jwks") /\ caller[c].at = "failing"
    BY <1>6 DEF refresh
  <2> QED
    BY <1>4, <2>1, SettleDoes DEF Verdicts, i, j
<1> QED
  BY <1>5, <1>6

\* The error of a key that is still missing.
LEMMA BlameDoes ==
  ASSUME TypeOK, NEW c \in Callers, Blame(c)
  PROVE  /\ caller' \in [ Callers -> CallerType ] /\ OnlyCaller(c)
         /\ caller'[c].at = "done"
         /\ caller'[c].verdict = IF last_failed(cache[Iss(c)]) THEN "Jwks" ELSE "UnknownKid"
         /\ caller'[c].passed = (caller[c].gen # cache[Iss(c)].completed)
         /\ caller'[c].tok = caller[c].tok /\ caller'[c].begun = caller[c].begun
<1>1. \E v \in { "Jwks", "UnknownKid" }, b \in BOOLEAN :
         /\ v = IF last_failed(cache[Iss(c)]) THEN "Jwks" ELSE "UnknownKid"
         /\ b = (caller[c].gen # cache[Iss(c)].completed)
         /\ caller' = [ caller EXCEPT ![c].at = "done", ![c].verdict = v,
                                      ![c].gen = 0, ![c].passed = b ]
  <2> DEFINE v == IF last_failed(cache[Iss(c)]) THEN "Jwks" ELSE "UnknownKid"
             b == (caller[c].gen # cache[Iss(c)].completed)
  <2>1. v \in { "Jwks", "UnknownKid" } /\ b \in BOOLEAN
    OBVIOUS
  <2>2. caller' = [ caller EXCEPT ![c].at = "done", ![c].verdict = v, ![c].gen = 0, ![c].passed = b ]
    BY DEF Blame
  <2> HIDE DEF v, b
  <2>3. \E w \in { "Jwks", "UnknownKid" }, d \in BOOLEAN :
           w = v /\ d = b /\ caller' = [ caller EXCEPT ![c].at = "done", ![c].verdict = w,
                                                       ![c].gen = 0, ![c].passed = d ]
    BY <2>1, <2>2
  <2> QED
    BY <2>3 DEF v, b
<1>2. PICK v \in { "Jwks", "UnknownKid" }, b \in BOOLEAN :
         /\ v = IF last_failed(cache[Iss(c)]) THEN "Jwks" ELSE "UnknownKid"
         /\ b = (caller[c].gen # cache[Iss(c)].completed)
         /\ caller' = [ caller EXCEPT ![c].at = "done", ![c].verdict = v,
                                      ![c].gen = 0, ![c].passed = b ]
  BY <1>1
<1> DEFINE r == [ caller[c] EXCEPT !.at = "done", !.verdict = v, !.gen = 0, !.passed = b ]
<1>3. r \in CallerType
  BY DEF TypeOK, CallerType, Places, Verdicts
<1>4. caller' = [ caller EXCEPT ![c] = r ]
  BY <1>2 DEF TypeOK
<1>5. r.at = "done" /\ r.verdict = v /\ r.passed = b /\ r.tok = caller[c].tok /\ r.begun = caller[c].begun
  BY DEF TypeOK, CallerType
<1> HIDE DEF r
<1>6. caller' \in [ Callers -> CallerType ] /\ OnlyCaller(c) /\ caller'[c] = r
  BY <1>3, <1>4, CallerPut
<1> QED
  BY <1>2, <1>5, <1>6

\* The token's claims against the key, and the verdict.
LEMMA DecodeDoes ==
  ASSUME TypeOK, NEW c \in Callers, Decode(c)
  PROVE  /\ caller' \in [ Callers -> CallerType ] /\ OnlyCaller(c)
         /\ caller'[c].at = "done" /\ caller'[c].tok = caller[c].tok
         /\ \/ caller'[c].verdict = "Invalid"
            \/ LET tok == caller[c].tok
               IN /\ caller'[c].verdict = "ok"
                  /\ caller[c].key.alg \in { None, tok.alg } /\ tok.secret = caller[c].key.secret
                  /\ tok.aud = verifier.audience /\ tok.sub # None
<1> DEFINE tok == caller[c].tok
           good == /\ caller[c].key.alg \in { None, tok.alg }
                   /\ tok.secret = caller[c].key.secret
                   /\ tok.aud = verifier.audience
                   /\ now <= tok.exp
                   /\ tok.sub # None
<1>1. CASE good
  <2>1. Settle(c, "ok")
    BY <1>1 DEF Decode
  <2>2. /\ caller' \in [ Callers -> CallerType ] /\ OnlyCaller(c)
        /\ caller'[c] = [ caller[c] EXCEPT !.at = "done", !.verdict = "ok", !.key = None, !.gen = 0 ]
    BY <2>1, SettleDoes DEF Verdicts
  <2>3. caller'[c].at = "done" /\ caller'[c].tok = caller[c].tok /\ caller'[c].verdict = "ok"
    BY <2>2 DEF TypeOK, CallerType
  <2> QED
    BY <1>1, <2>2, <2>3
<1>2. CASE ~ good
  <2>1. Settle(c, "Invalid")
    BY <1>2 DEF Decode
  <2>2. /\ caller' \in [ Callers -> CallerType ] /\ OnlyCaller(c)
        /\ caller'[c] = [ caller[c] EXCEPT !.at = "done", !.verdict = "Invalid", !.key = None, !.gen = 0 ]
    BY <2>1, SettleDoes DEF Verdicts
  <2>3. caller'[c].at = "done" /\ caller'[c].tok = caller[c].tok /\ caller'[c].verdict = "Invalid"
    BY <2>2 DEF TypeOK, CallerType
  <2> QED
    BY <2>2, <2>3
<1> QED
  BY <1>1, <1>2

\* The guard goes with a dropped call, and nothing is stamped.
LEMMA DroppedDoes ==
  ASSUME TypeOK, NEW c \in Callers, Dropped(c), Iss(c) \in Issuers
  PROVE  /\ caller' \in [ Callers -> CallerType ] /\ OnlyCaller(c)
         /\ caller'[c] = [ caller[c] EXCEPT !.at = "done", !.verdict = "dropped",
                                            !.key = None, !.gen = 0 ]
         /\ cache' \in [ Issuers -> CacheType ] /\ OnlyCache(Iss(c))
         /\ cache'[Iss(c)] = [ cache[Iss(c)] EXCEPT !.flight = None, !.doc = None, !.since = 0 ]
<1> DEFINE i == Iss(c)
           j == [ cache[i] EXCEPT !.flight = None, !.doc = None, !.since = 0 ]
<1>1. Settle(c, "dropped") /\ cache' = [ cache EXCEPT ![i].flight = None, ![i].doc = None, ![i].since = 0 ]
  BY DEF Dropped
<1>2. i \in Issuers /\ cache[i] \in CacheType
  BY DEF TypeOK
<1> HIDE DEF i
<1>3. cache' = [ cache EXCEPT ![i] = j ]
  BY <1>1, <1>2 DEF TypeOK
<1>4. j \in CacheType
  BY <1>2 DEF CacheType
<1> HIDE DEF j
<1>5. cache' \in [ Issuers -> CacheType ] /\ OnlyCache(i) /\ cache'[i] = j
  BY <1>2, <1>3, <1>4, CachePut
<1> QED
  BY <1>1, <1>5, SettleDoes DEF Verdicts, i, j

-----------------------------------------------------------------------------
(* Whose keys are used. *)

\* Only the guard's holder, or the caller that takes it, changes a cache.
ByHolder(c) == \A i \in Issuers : cache'[i] = cache[i] \/ cache[i].flight \in { c, None }

\* A step of one caller leaves the facts about the others alone.
LEMMA OthersSound ==
  ASSUME SoundInv, NEW c \in Callers, OnlyCaller(c), ByHolder(c), UNCHANGED << verifier, vouched >>
  PROVE  \A d \in Callers \ { c } : HeaderInv(d)' /\ VouchInv(d)'
<1> SUFFICES ASSUME NEW d \in Callers \ { c } PROVE HeaderInv(d)' /\ VouchInv(d)'
  OBVIOUS
<1>1. caller'[d] = caller[d] /\ HeaderInv(d) /\ VouchInv(d)
  BY DEF SoundInv, OnlyCaller
<1>2. caller[d].at \in Holding => cache'[Iss(d)] = cache[Iss(d)]
  <2>1. caller[d].at \in Holding => Iss(d) \in Issuers /\ cache[Iss(d)].flight = d
    BY <1>1 DEF HeaderInv, Holding, SoundInv, TypeOK
  <2> QED
    BY <2>1, AuthAssumption DEF ByHolder
<1> QED
  BY <1>1, <1>2 DEF HeaderInv, VouchInv, Accepted, Iss, Holding

\* A verification's own steps.
LEMMA CallerSound ==
  ASSUME SoundInv, NEW c \in Callers, Step(c)
  PROVE  SoundInv'
<1>1. TypeOK /\ HeaderInv(c) /\ VouchInv(c) /\ caller[c] \in CallerType
  BY DEF SoundInv, TypeOK
<1>2. caller[c].at \notin { "idle", "done" } => Iss(c) \in Issuers /\ KeysInv(Iss(c))
  BY <1>1 DEF HeaderInv, SoundInv, TypeOK
<1>3. verifier' = verifier /\ now' = now /\ idp' = idp /\ vouched' = vouched
  BY DEF Step, Present, Peek, Gate, Lock, fetch, Install, refresh, Reread, Blame, Decode, Dropped
<1>4. \A i \in Issuers : KeysInv(i)
  BY DEF SoundInv
<1> DEFINE Typed == TypeOK' /\ OnlyCaller(c) /\ ByHolder(c)
           Mine  == HeaderInv(c)' /\ VouchInv(c)'
           Rest  == \A i \in Issuers : KeysInv(i)'
<1>5. ASSUME Typed, Mine, Rest PROVE SoundInv'
  <2>1. \A d \in Callers \ { c } : HeaderInv(d)' /\ VouchInv(d)'
    BY <1>3, <1>5, OthersSound
  <2> QED
    BY <1>5, <2>1 DEF SoundInv
<1>6. ASSUME cache' = cache, taken' = taken, caller' \in [ Callers -> CallerType ], OnlyCaller(c)
      PROVE  Typed /\ Rest
  BY <1>1, <1>3, <1>4, <1>6 DEF TypeOK, ByHolder, KeysInv
<1> HIDE DEF Typed, Mine, Rest
<1>7. ASSUME NEW tok \in Tokens, Present(c, tok) PROVE SoundInv'
  <2>1. /\ caller' \in [ Callers -> CallerType ] /\ OnlyCaller(c)
        /\ \/ caller'[c].at = "done" /\ caller'[c].verdict \in { "Malformed", "Invalid" }
           \/ /\ caller'[c].at = "peek" /\ caller'[c].verdict = None
              /\ Iss(c)' \in verifier.issuers /\ caller'[c].tok.alg \in ALLOWED_ALGS
    BY <1>1, <1>7, PresentDoes
  <2>2. Mine
    BY <1>3, <2>1, AuthAssumption DEF Mine, HeaderInv, VouchInv, Holding
  <2> QED
    BY <1>5, <1>6, <1>7, <2>1, <2>2 DEF Present
<1>8. ASSUME NEW a \in { "gate", "blame" }, caller[c].at \in { "peek", "reread" }, Found(c, a),
             cache' = cache, taken' = taken
      PROVE  SoundInv'
  <2>1. /\ caller' \in [ Callers -> CallerType ] /\ OnlyCaller(c)
        /\ \/ \E k \in Known(Iss(c), caller[c].tok.kid) :
                 caller'[c] = [ caller[c] EXCEPT !.at = "decode", !.key = k ]
           \/ caller'[c] = [ caller[c] EXCEPT !.at = a, !.gen = cache[Iss(c)].completed ]
    BY <1>1, <1>2, <1>8, FoundDoes DEF Places
  <2>2. \A k \in Known(Iss(c), caller[c].tok.kid) : k \in vouched[Iss(c)] /\ k.kid = caller[c].tok.kid
    BY <1>2, <1>8 DEF Known, KeysInv
  <2>3. /\ caller'[c].tok = caller[c].tok /\ caller'[c].verdict = caller[c].verdict
        /\ \/ caller'[c].at = "decode" /\ caller'[c].key \in Known(Iss(c), caller[c].tok.kid)
           \/ caller'[c].at = a
    BY <1>1, <2>1 DEF CallerType
  <2>4. Mine
    BY <1>1, <1>3, <1>8, <2>2, <2>3, AuthAssumption DEF Mine, HeaderInv, VouchInv, Iss, Holding
  <2> QED
    BY <1>5, <1>6, <1>8, <2>1, <2>4
<1>9. ASSUME Gate(c) PROVE SoundInv'
  <2>1. caller[c].at = "gate"
    BY <1>9 DEF Gate
  <2>2. /\ caller' \in [ Callers -> CallerType ] /\ OnlyCaller(c)
        /\ \/ caller'[c] = [ caller[c] EXCEPT !.at = "reread" ]
           \/ caller'[c] = [ caller[c] EXCEPT !.at = "queue", !.gen = cache[Iss(c)].completed ]
    BY <1>1, <1>2, <1>9, <2>1, GateDoes
  <2>3. /\ caller'[c].tok = caller[c].tok /\ caller'[c].verdict = caller[c].verdict
        /\ caller'[c].at \in { "reread", "queue" }
    BY <1>1, <2>2 DEF CallerType
  <2>4. Mine
    BY <1>1, <1>3, <2>1, <2>3, AuthAssumption DEF Mine, HeaderInv, VouchInv, Iss, Holding
  <2> QED
    BY <1>5, <1>6, <1>9, <2>2, <2>4 DEF Gate
<1>10. ASSUME Lock(c) PROVE SoundInv'
  <2>1. caller[c].at = "queue" /\ cache[Iss(c)].flight = None /\ taken' = taken
    BY <1>10 DEF Lock
  <2>2. /\ caller' \in [ Callers -> CallerType ] /\ OnlyCaller(c)
        /\ cache' \in [ Issuers -> CacheType ] /\ OnlyCache(Iss(c))
        /\ \/ caller'[c] = [ caller[c] EXCEPT !.at = "reread" ] /\ cache' = cache
           \/ /\ caller'[c] = [ caller[c] EXCEPT !.at = "fetching" ]
              /\ cache'[Iss(c)] = [ cache[Iss(c)] EXCEPT !.flight = c, !.doc = None, !.since = now ]
    BY <1>1, <1>2, <1>10, <2>1, LockDoes
  <2>3. /\ caller'[c].tok = caller[c].tok /\ caller'[c].verdict = caller[c].verdict
        /\ cache'[Iss(c)].keys = cache[Iss(c)].keys
        /\ caller'[c].at = "reread" \/ (caller'[c].at = "fetching" /\ cache'[Iss(c)].flight = c)
    BY <1>1, <1>2, <2>1, <2>2 DEF TypeOK, CallerType, CacheType
  <2>4. Typed
    BY <1>1, <1>3, <2>1, <2>2 DEF Typed, TypeOK, ByHolder, OnlyCache
  <2>5. Mine
    BY <1>1, <1>3, <2>1, <2>3, AuthAssumption DEF Mine, HeaderInv, VouchInv, Iss, Holding
  <2>6. Rest
    BY <1>3, <1>4, <2>2, <2>3 DEF Rest, KeysInv, OnlyCache
  <2> QED
    BY <1>5, <2>4, <2>5, <2>6
<1>11. ASSUME fetch(c) PROVE SoundInv'
  <2>1. caller[c].at = "fetching"
    BY <1>11 DEF fetch
  <2>2. cache[Iss(c)].flight = c
    BY <1>1, <2>1 DEF HeaderInv, Holding
  <2>3. /\ caller' \in [ Callers -> CallerType ] /\ OnlyCaller(c)
        /\ cache' \in [ Issuers -> CacheType ] /\ OnlyCache(Iss(c))
        /\ \/ /\ caller'[c] = [ caller[c] EXCEPT !.at = "failing" ]
              /\ cache' = cache /\ taken' = taken
           \/ /\ caller'[c] = [ caller[c] EXCEPT !.at = "installing" ]
              /\ cache'[Iss(c)] = [ cache[Iss(c)] EXCEPT !.doc = idp[Iss(c)] ]
              /\ taken' = [ taken EXCEPT ![Iss(c)] =
                              { t \in @ : t.doc # idp[Iss(c)] }
                                \cup { [ doc |-> idp[Iss(c)], at |-> now ] } ]
    BY <1>1, <1>2, <1>11, <2>1, FetchDoes
  <2>4. /\ caller'[c].tok = caller[c].tok /\ caller'[c].verdict = caller[c].verdict
        /\ cache'[Iss(c)].keys = cache[Iss(c)].keys /\ cache'[Iss(c)].flight = c
        /\ \/ caller'[c].at = "failing"
           \/ caller'[c].at = "installing" /\ cache'[Iss(c)].doc = idp[Iss(c)]
    BY <1>1, <1>2, <2>1, <2>2, <2>3 DEF TypeOK, CallerType, CacheType
  <2>5. taken' \in [ Issuers -> SUBSET [ doc : SUBSET Keys, at : Nat ] ]
    <3>1. [ doc |-> idp[Iss(c)], at |-> now ] \in [ doc : SUBSET Keys, at : Nat ]
      BY <1>1, <1>2, <2>1 DEF TypeOK
    <3> QED
      BY <1>1, <1>2, <2>1, <2>3, <3>1 DEF TypeOK
  <2>6. Typed
    BY <1>1, <1>3, <2>2, <2>3, <2>5 DEF Typed, TypeOK, ByHolder, OnlyCache
  <2>7. Mine
    BY <1>1, <1>2, <1>3, <2>1, <2>4, AuthAssumption
    DEF Mine, HeaderInv, VouchInv, KeysInv, Iss, Holding
  <2>8. Rest
    BY <1>3, <1>4, <2>3, <2>4 DEF Rest, KeysInv, OnlyCache
  <2> QED
    BY <1>5, <2>6, <2>7, <2>8
<1>12. ASSUME Install(c) PROVE SoundInv'
  <2>1. caller[c].at = "installing" /\ taken' = taken
    BY <1>12 DEF Install
  <2>2. cache[Iss(c)].flight = c /\ refresh_inner(cache[Iss(c)].doc) \subseteq vouched[Iss(c)]
    BY <1>1, <2>1 DEF HeaderInv, VouchInv, Holding
  <2>3. refresh_inner(cache[Iss(c)].doc) \subseteq Keys
    BY <1>1, <1>2, <2>1, <2>2 DEF TypeOK
  <2>4. /\ caller' \in [ Callers -> CallerType ] /\ OnlyCaller(c)
        /\ cache' \in [ Issuers -> CacheType ] /\ OnlyCache(Iss(c))
        /\ caller'[c] = [ caller[c] EXCEPT !.at = "stamping" ]
        /\ cache'[Iss(c)] = [ cache[Iss(c)] EXCEPT !.keys = refresh_inner(cache[Iss(c)].doc) ]
    BY <1>1, <1>2, <1>12, <2>1, <2>3, InstallDoes
  <2>5. /\ caller'[c].tok = caller[c].tok /\ caller'[c].verdict = caller[c].verdict
        /\ caller'[c].at = "stamping" /\ cache'[Iss(c)].flight = c
        /\ cache'[Iss(c)].keys = refresh_inner(cache[Iss(c)].doc)
    BY <1>1, <1>2, <2>1, <2>2, <2>4 DEF TypeOK, CallerType, CacheType
  <2>6. Typed
    BY <1>1, <1>3, <2>1, <2>2, <2>4 DEF Typed, TypeOK, ByHolder, OnlyCache
  <2>7. Mine
    BY <1>1, <1>3, <2>1, <2>5, AuthAssumption DEF Mine, HeaderInv, VouchInv, Iss, Holding
  <2>8. Rest
    BY <1>3, <1>4, <2>2, <2>4, <2>5 DEF Rest, KeysInv, OnlyCache
  <2> QED
    BY <1>5, <2>6, <2>7, <2>8
<1>13. ASSUME refresh(c) PROVE SoundInv'
  <2>1. caller[c].at \in { "stamping", "failing" } /\ taken' = taken
    BY <1>13 DEF refresh
  <2>2. cache[Iss(c)].flight = c
    BY <1>1, <2>1 DEF HeaderInv, Holding
  <2>3. /\ caller' \in [ Callers -> CallerType ] /\ OnlyCaller(c)
        /\ cache' \in [ Issuers -> CacheType ] /\ OnlyCache(Iss(c))
        /\ cache'[Iss(c)] = Stamped(cache[Iss(c)], caller[c].at = "stamping")
        /\ \/ caller'[c] = [ caller[c] EXCEPT !.at = "reread" ]
           \/ caller'[c] = [ caller[c] EXCEPT !.at = "done", !.verdict = "Jwks",
                                              !.key = None, !.gen = 0 ]
    BY <1>1, <1>2, <1>13, <2>1, RefreshDoes
  <2>4. /\ caller'[c].tok = caller[c].tok
        /\ \/ caller'[c].at = "reread" /\ caller'[c].verdict = caller[c].verdict
           \/ caller'[c].at = "done" /\ caller'[c].verdict = "Jwks"
    BY <1>1, <2>3 DEF CallerType
  <2>5. cache'[Iss(c)].keys = cache[Iss(c)].keys
    BY <1>1, <1>2, <2>1, <2>3 DEF TypeOK, CacheType, Stamped
  <2>6. Typed
    BY <1>1, <1>3, <2>1, <2>2, <2>3 DEF Typed, TypeOK, ByHolder, OnlyCache
  <2>7. Mine
    BY <1>1, <1>3, <2>1, <2>4, AuthAssumption DEF Mine, HeaderInv, VouchInv, Iss, Holding
  <2>8. Rest
    BY <1>3, <1>4, <2>3, <2>5 DEF Rest, KeysInv, OnlyCache
  <2> QED
    BY <1>5, <2>6, <2>7, <2>8
<1>14. ASSUME Blame(c) PROVE SoundInv'
  <2>1. caller[c].at = "blame" /\ cache' = cache /\ taken' = taken
    BY <1>14 DEF Blame
  <2>2. /\ caller' \in [ Callers -> CallerType ] /\ OnlyCaller(c)
        /\ caller'[c].at = "done" /\ caller'[c].tok = caller[c].tok
        /\ caller'[c].verdict \in { "Jwks", "UnknownKid" }
    BY <1>1, <1>14, BlameDoes
  <2>3. Mine
    BY <1>1, <1>3, <2>1, <2>2 DEF Mine, HeaderInv, VouchInv, Iss, Holding
  <2> QED
    BY <1>5, <1>6, <2>1, <2>2, <2>3
<1>15. ASSUME Decode(c) PROVE SoundInv'
  <2>1. caller[c].at = "decode" /\ cache' = cache /\ taken' = taken
    BY <1>15 DEF Decode
  <2>2. /\ caller' \in [ Callers -> CallerType ] /\ OnlyCaller(c)
        /\ caller'[c].at = "done" /\ caller'[c].tok = caller[c].tok
        /\ \/ caller'[c].verdict = "Invalid"
           \/ /\ caller'[c].verdict = "ok"
              /\ caller[c].key.alg \in { None, caller[c].tok.alg }
              /\ caller[c].tok.secret = caller[c].key.secret
              /\ caller[c].tok.aud = verifier.audience /\ caller[c].tok.sub # None
    BY <1>1, <1>15, DecodeDoes
  <2>3. /\ Iss(c) \in verifier.issuers /\ caller[c].tok.alg \in ALLOWED_ALGS
        /\ caller[c].key \in vouched[Iss(c)] /\ caller[c].key.kid = caller[c].tok.kid
    BY <1>1, <2>1 DEF HeaderInv, VouchInv
  <2>4. caller'[c].verdict = "ok" => Accepted(c)'
    BY <1>3, <2>2, <2>3 DEF Accepted, Iss
  <2>5. Mine
    BY <1>1, <1>3, <2>2, <2>3, <2>4 DEF Mine, HeaderInv, VouchInv, Iss, Holding
  <2> QED
    BY <1>5, <1>6, <2>1, <2>2, <2>5
<1>16. ASSUME Dropped(c) PROVE SoundInv'
  <2>1. caller[c].at \in Holding /\ taken' = taken
    BY <1>16 DEF Dropped, Holding
  <2>2. cache[Iss(c)].flight = c /\ Iss(c) \in Issuers
    BY <1>1, <1>2, <2>1 DEF HeaderInv, Holding
  <2>3. /\ caller' \in [ Callers -> CallerType ] /\ OnlyCaller(c)
        /\ caller'[c] = [ caller[c] EXCEPT !.at = "done", !.verdict = "dropped",
                                           !.key = None, !.gen = 0 ]
        /\ cache' \in [ Issuers -> CacheType ] /\ OnlyCache(Iss(c))
        /\ cache'[Iss(c)] = [ cache[Iss(c)] EXCEPT !.flight = None, !.doc = None, !.since = 0 ]
    BY <1>1, <1>16, <2>2, DroppedDoes
  <2>4. caller'[c].at = "done" /\ caller'[c].verdict = "dropped"
    BY <1>1, <2>3 DEF CallerType
  <2>5. cache'[Iss(c)].keys = cache[Iss(c)].keys
    BY <1>1, <2>2, <2>3 DEF TypeOK, CacheType
  <2>6. Typed
    BY <1>1, <1>3, <2>1, <2>2, <2>3 DEF Typed, TypeOK, ByHolder, OnlyCache
  <2>7. Mine
    BY <2>4 DEF Mine, HeaderInv, VouchInv, Holding
  <2>8. Rest
    BY <1>3, <1>4, <2>3, <2>5 DEF Rest, KeysInv, OnlyCache
  <2> QED
    BY <1>5, <2>6, <2>7, <2>8
<1> QED
  BY <1>7, <1>8, <1>9, <1>10, <1>11, <1>12, <1>13, <1>14, <1>15, <1>16 DEF Step, Peek, Reread

\* Rotations, outages and the clock.
LEMMA WorldSound ==
  ASSUME SoundInv,
         (\E i \in Issuers : Rotate(i) \/ Outage(i) \/ Recovers(i)) \/ Tick \/ UNCHANGED vars
  PROVE  SoundInv'
<1>1. UNCHANGED << verifier, cache, caller, taken >>
  BY DEF Rotate, Outage, Recovers, Tick, vars
<1>2. /\ now' \in Nat
      /\ idp' \in [ Issuers -> SUBSET Keys ] /\ vouched' \in [ Issuers -> SUBSET Keys ]
      /\ \A i \in Issuers : vouched[i] \subseteq vouched'[i] /\ refresh_inner(idp'[i]) \subseteq vouched'[i]
  <2>1. CASE UNCHANGED << idp, vouched >>
    BY <2>1 DEF SoundInv, TypeOK, KeysInv, Rotate, Outage, Recovers, Tick, vars
  <2>2. ASSUME NEW k \in Issuers, Rotate(k)
        PROVE  /\ now' \in Nat
               /\ idp' \in [ Issuers -> SUBSET Keys ] /\ vouched' \in [ Issuers -> SUBSET Keys ]
               /\ \A i \in Issuers : vouched[i] \subseteq vouched'[i]
                                       /\ refresh_inner(idp'[i]) \subseteq vouched'[i]
    <3>1. NextKeys[k] \subseteq Keys
      BY DEF Keys
    <3>2. idp' = [ idp EXCEPT ![k] = NextKeys[k] ] /\ now' = now
          /\ vouched' = [ vouched EXCEPT ![k] = @ \cup refresh_inner(NextKeys[k]) ]
      BY <2>2 DEF Rotate
    <3>3. refresh_inner(NextKeys[k]) \subseteq Keys
      BY <3>1 DEF refresh_inner
    <3>4. /\ idp' \in [ Issuers -> SUBSET Keys ] /\ vouched' \in [ Issuers -> SUBSET Keys ]
      BY <3>1, <3>2, <3>3 DEF SoundInv, TypeOK
    <3>5. \A i \in Issuers : /\ idp'[i] = IF i = k THEN NextKeys[k] ELSE idp[i]
                             /\ vouched'[i] = IF i = k THEN vouched[i] \cup refresh_inner(NextKeys[k])
                                              ELSE vouched[i]
      BY <3>2 DEF SoundInv, TypeOK
    <3>6. \A i \in Issuers : refresh_inner(idp[i]) \subseteq vouched[i]
      BY DEF SoundInv, KeysInv
    <3>7. \A i \in Issuers : vouched[i] \subseteq vouched'[i] /\ refresh_inner(idp'[i]) \subseteq vouched'[i]
      BY <3>5, <3>6
    <3> QED
      BY <3>2, <3>4, <3>7 DEF SoundInv, TypeOK
  <2> QED
    BY <2>1, <2>2 DEF Outage, Recovers, Tick, vars
<1>3. TypeOK'
  BY <1>1, <1>2 DEF SoundInv, TypeOK
<1>4. ASSUME NEW c \in Callers PROVE HeaderInv(c)' /\ VouchInv(c)'
  <2>1. HeaderInv(c) /\ VouchInv(c) /\ caller' = caller /\ cache' = cache /\ verifier' = verifier
    BY <1>1 DEF SoundInv
  <2>2. Iss(c) \in verifier.issuers => vouched[Iss(c)] \subseteq vouched'[Iss(c)]
    BY <1>2 DEF SoundInv, TypeOK
  <2>3. Accepted(c) => Accepted(c)'
    BY <2>1, <2>2 DEF Accepted, Iss
  <2> QED
    BY <2>1, <2>2, <2>3 DEF HeaderInv, VouchInv, Iss
<1>5. ASSUME NEW i \in Issuers PROVE KeysInv(i)'
  <2>1. cache'[i].keys \subseteq vouched[i]
    BY <1>1 DEF SoundInv, KeysInv
  <2> QED
    BY <1>2, <2>1 DEF KeysInv
<1> QED
  BY <1>3, <1>4, <1>5 DEF SoundInv

\* What Verifier::new makes of the flags, and cold caches.
LEMMA InitSound == Init => SoundInv
<1> SUFFICES ASSUME Init PROVE SoundInv
  OBVIOUS
<1>1. verifier.issuers \subseteq Issuers
  <2>1. PICK f \in Flags : verifier = Verifier_new(f)
    BY DEF Init
  <2>2. \A i \in DOMAIN f.issuers : f.issuers[i] \in Issuers
    BY AuthAssumption DEF Issuers
  <2> QED
    BY <2>1, <2>2 DEF Verifier_new
<1>2. \A i \in Issuers : FirstKeys[i] \subseteq Keys /\ refresh_inner(FirstKeys[i]) \subseteq Keys
  BY DEF Keys, refresh_inner
<1>3. EmptyCache \in CacheType /\ EmptyCache.keys = {}
  BY DEF EmptyCache, CacheType
<1>4. Idle \in CallerType /\ Idle.at = "idle" /\ Idle.verdict = None
  BY DEF Idle, CallerType, Places, Verdicts
<1>5. idp \in [ Issuers -> SUBSET Keys ]
  BY <1>2, AuthAssumption DEF Init, Issuers
<1>6. TypeOK
  BY <1>1, <1>2, <1>3, <1>4, <1>5 DEF Init, TypeOK
<1>7. \A c \in Callers : HeaderInv(c) /\ VouchInv(c)
  BY <1>4, AuthAssumption DEF Init, HeaderInv, VouchInv, Holding
<1>8. \A i \in Issuers : KeysInv(i)
  BY <1>3 DEF Init, KeysInv
<1> QED
  BY <1>6, <1>7, <1>8 DEF SoundInv

\* The caches hold published signing keys only, whatever the callers do.
LEMMA SoundInvariant == Spec => []SoundInv
<1>1. SoundInv /\ [Next]_vars => SoundInv'
  BY CallerSound, WorldSound DEF Next
<1> QED
  BY <1>1, InitSound, PTL DEF Spec

\* verify accepts a token only with a signing key that the token's own, configured
\* issuer published, whichever rotations, outages, concurrent refreshes and
\* dropped fetches the caches have been through.
THEOREM AcceptedIsVouchedHolds == Spec => []AcceptedIsVouched
<1>1. SoundInv => AcceptedIsVouched
  BY DEF SoundInv, VouchInv, Accepted, AcceptedIsVouched, Iss
<1> QED
  BY <1>1, SoundInvariant, PTL

-----------------------------------------------------------------------------
(* When a key is called unknown. *)

\* However many refreshes have failed, the wait is never more than the interval.
LEMMA FloorBound ==
  ASSUME NEW j \in CacheType, now \in Nat, too_soon(j)
  PROVE  j.completed_at \in Nat /\ j.completed_at > now - Interval
<1>1. j.completed_at \in Nat /\ now - j.completed_at < floor(j)
  BY DEF too_soon, CacheType
<1>2. Interval \in Nat /\ Base \in Nat /\ j.failures \in Nat
  BY AuthAssumption DEF CacheType
<1>3. floor(j) \in Int /\ floor(j) <= Interval
  <2>1. CASE j.failures = 0
    BY <1>2, <2>1 DEF floor, last_failed
  <2>2. CASE j.failures > 0
    BY <1>2, <2>2 DEF floor, last_failed
  <2> QED
    BY <1>2, <2>1, <2>2
<1> HIDE DEF floor
<1> QED
  BY <1>1, <1>2, <1>3

\* Every document that was taken is still there, taken then or later.
Grown(i) == \A t \in taken[i] : \E u \in taken'[i] : u.doc = t.doc /\ u.at >= t.at

\* A cache completes a refresh now, or its record of the last one is unchanged.
Moves(i) ==
  \/ /\ cache'[i].completed = cache[i].completed
     /\ cache'[i].completed_at = cache[i].completed_at
     /\ cache'[i].failures = cache[i].failures
  \/ cache'[i].completed > cache[i].completed /\ cache'[i].completed_at = now

\* What backs an error goes on backing it.
LEMMA BackedKept ==
  ASSUME TypeOK, TypeOK', NEW c \in Callers, Backed(c), Iss(c) \in Issuers, Grown(Iss(c)),
         caller'[c].begun = caller[c].begun, caller'[c].tok = caller[c].tok
  PROVE  Backed(c)'
<1>1. Iss(c)' = Iss(c)
  BY DEF Iss
<1>2. PICK t \in taken[Iss(c)] :
         /\ t.at >= caller[c].begun - (Interval + FetchMax)
         /\ \A k \in refresh_inner(t.doc) : k.kid # caller[c].tok.kid
  BY DEF Backed
<1>3. PICK u \in taken'[Iss(c)] : u.doc = t.doc /\ u.at >= t.at
  BY DEF Grown
<1>4. t.at \in Nat /\ u.at \in Nat /\ caller[c].begun \in Nat /\ Interval \in Nat /\ FetchMax \in Nat
  BY AuthAssumption DEF TypeOK, CallerType
<1>5. u.at >= caller[c].begun - (Interval + FetchMax)
  BY <1>2, <1>3, <1>4
<1> QED
  BY <1>1, <1>2, <1>3, <1>5 DEF Backed

\* A step of one caller leaves what the others know true.
LEMMA OthersFresh ==
  ASSUME SoundInv, FreshInv, TypeOK', NEW c \in Callers, OnlyCaller(c), ByHolder(c), now' = now,
         \A i \in Issuers : Grown(i) /\ Moves(i)
  PROVE  \A d \in Callers \ { c } : WaitInv(d)'
<1> SUFFICES ASSUME NEW d \in Callers \ { c } PROVE WaitInv(d)'
  OBVIOUS
<1> DEFINE i == Iss(d)
<1>1. TypeOK /\ caller'[d] = caller[d] /\ HeaderInv(d) /\ WaitInv(d) /\ Iss(d)' = i
  BY DEF SoundInv, FreshInv, OnlyCaller, Iss
<1>2. /\ caller[d].begun \in Nat /\ caller[d].gen \in Nat /\ now \in Nat
      /\ Interval \in Nat /\ caller[d].begun <= now
  BY <1>1, AuthAssumption DEF TypeOK, CallerType, WaitInv
<1>3. caller[d].at \notin { "idle", "done" } \/ caller[d].verdict = "UnknownKid" => i \in Issuers
  BY <1>1 DEF HeaderInv, TypeOK
<1>4. Backed(d) /\ i \in Issuers => Backed(d)'
  BY <1>1, BackedKept
<1>5. i \in Issuers => /\ cache[i].completed \in Nat /\ cache'[i].completed \in Nat
                       /\ cache[i].completed_at \in Nat \cup { None }
                       /\ Moves(i) /\ Grown(i)
  BY <1>1 DEF TypeOK, CacheType
<1>6. caller[d].at \in Holding => cache'[i] = cache[i]
  BY <1>1, <1>3, AuthAssumption DEF HeaderInv, ByHolder, Holding
<1> HIDE DEF i
<1>7. caller[d].at = "installing" =>
        \E t \in taken'[i] : t.at >= cache'[i].since /\ t.doc = cache'[i].doc
  <2> SUFFICES ASSUME caller[d].at = "installing"
               PROVE  \E t \in taken'[i] : t.at >= cache[i].since /\ t.doc = cache[i].doc
    BY <1>6 DEF Holding
  <2>1. PICK t \in taken[i] : t.at >= cache[i].since /\ t.doc = cache[i].doc
    BY <1>1 DEF WaitInv, i
  <2>2. PICK u \in taken'[i] : u.doc = t.doc /\ u.at >= t.at
    BY <1>3, <1>5 DEF Grown
  <2>3. u.at \in Nat /\ t.at \in Nat /\ cache[i].since \in Nat
    BY <1>1, <1>3 DEF TypeOK, CacheType
  <2> QED
    BY <2>1, <2>2, <2>3
<1>8. caller[d].at = "stamping" =>
        \E t \in taken'[i] : t.at >= cache'[i].since /\ refresh_inner(t.doc) = cache'[i].keys
  <2> SUFFICES ASSUME caller[d].at = "stamping"
               PROVE  \E t \in taken'[i] : t.at >= cache[i].since /\ refresh_inner(t.doc) = cache[i].keys
    BY <1>6 DEF Holding
  <2>1. PICK t \in taken[i] : t.at >= cache[i].since /\ refresh_inner(t.doc) = cache[i].keys
    BY <1>1 DEF WaitInv, i
  <2>2. PICK u \in taken'[i] : u.doc = t.doc /\ u.at >= t.at
    BY <1>3, <1>5 DEF Grown
  <2>3. u.at \in Nat /\ t.at \in Nat /\ cache[i].since \in Nat
    BY <1>1, <1>3 DEF TypeOK, CacheType
  <2> QED
    BY <2>1, <2>2, <2>3
<1>9. caller[d].at = "queue" /\ caller[d].gen # cache'[i].completed =>
        cache'[i].completed_at # None /\ cache'[i].completed_at >= caller[d].begun
  BY <1>1, <1>2, <1>3, <1>5, AuthAssumption DEF WaitInv, Moves, i
<1>10. caller[d].at = "reread" =>
        cache'[i].completed_at # None /\ cache'[i].completed_at >= caller[d].begun - Interval
  BY <1>1, <1>2, <1>3, <1>5, AuthAssumption DEF WaitInv, Moves, i
<1>11. caller[d].at = "blame" =>
        /\ caller[d].gen <= cache'[i].completed
        /\ caller[d].gen = cache'[i].completed /\ cache'[i].failures = 0 => Backed(d)'
  BY <1>1, <1>2, <1>3, <1>4, <1>5 DEF WaitInv, Moves, i
<1>12. caller[d].verdict = "UnknownKid" /\ ~ caller[d].passed => Backed(d)'
  BY <1>1, <1>3, <1>4 DEF WaitInv
<1> QED
  BY <1>1, <1>2, <1>7, <1>8, <1>9, <1>10, <1>11, <1>12 DEF WaitInv, i

\* A cache that a step leaves alone ages no further, but for the clock.
LEMMA AgeKept ==
  ASSUME TypeOK, NEW i \in Issuers, AgeInv(i), cache'[i] = cache[i], taken'[i] = taken[i], now' = now
  PROVE  AgeInv(i)' /\ Grown(i) /\ Moves(i)
<1>1. AgeInv(i)' /\ Moves(i)
  BY DEF AgeInv, Moves
<1>2. \A t \in taken[i] : t.at \in Nat
  BY DEF TypeOK
<1> QED
  BY <1>1, <1>2 DEF Grown

\* A verification's own steps: what it learns, and what it does to its cache.
LEMMA CallerFresh ==
  ASSUME SoundInv, FreshInv, NEW c \in Callers, Step(c)
  PROVE  FreshInv'
<1> DEFINE i == Iss(c)
<1>1. /\ TypeOK /\ HeaderInv(c) /\ WaitInv(c) /\ caller[c] \in CallerType
      /\ \A k \in Issuers : AgeInv(k)
  BY DEF SoundInv, FreshInv, TypeOK
<1>2. /\ caller[c].begun \in Nat /\ caller[c].gen \in Nat /\ now \in Nat
      /\ Interval \in Nat /\ FetchMax \in Nat /\ caller[c].begun <= now
  BY <1>1, AuthAssumption DEF TypeOK, CallerType, WaitInv
<1>3. SoundInv' /\ TypeOK' /\ now' = now
  <2>1. SoundInv'
    BY CallerSound
  <2> QED
    BY <2>1 DEF SoundInv, Step, Present, Peek, Gate, Lock, fetch, Install, refresh, Reread, Blame,
                Decode, Dropped
<1>4. caller[c].at \notin { "idle", "done" } => /\ i \in Issuers /\ cache[i] \in CacheType
                                                /\ AgeInv(i) /\ caller[c].verdict = None
  BY <1>1 DEF HeaderInv, TypeOK
<1> DEFINE Mine == WaitInv(c)'
           Rest == \A k \in Issuers : AgeInv(k)' /\ Grown(k) /\ Moves(k)
<1>5. ASSUME OnlyCaller(c), ByHolder(c), Mine, Rest PROVE FreshInv'
  <2>1. \A d \in Callers \ { c } : WaitInv(d)'
    BY <1>3, <1>5, OthersFresh
  <2> QED
    BY <1>5, <2>1 DEF FreshInv
<1>6. ASSUME cache' = cache, taken' = taken PROVE ByHolder(c) /\ Rest
  BY <1>1, <1>3, <1>6, AgeKept DEF ByHolder
<1>7. ASSUME NEW m \in Issuers, OnlyCache(m), taken' = taken, AgeInv(m)', Moves(m),
             cache[m].flight \in { c, None }
      PROVE  ByHolder(c) /\ Rest
  <2>1. ByHolder(c)
    BY <1>7 DEF ByHolder, OnlyCache
  <2>2. ASSUME NEW k \in Issuers PROVE AgeInv(k)' /\ Grown(k) /\ Moves(k)
    <3>1. CASE k = m
      <4>1. \A t \in taken[k] : t.at \in Nat
        BY <1>1 DEF TypeOK
      <4>2. Grown(k)
        BY <1>7, <4>1 DEF Grown
      <4> QED
        BY <1>7, <3>1, <4>2
    <3>2. CASE k # m
      BY <1>1, <1>3, <1>7, <3>2, AgeKept DEF OnlyCache
    <3> QED
      BY <3>1, <3>2
  <2> QED
    BY <2>1, <2>2
<1> HIDE DEF Mine, Rest, i
<1>8. ASSUME NEW tok \in Tokens, Present(c, tok) PROVE FreshInv'
  <2>1. /\ OnlyCaller(c) /\ caller'[c].begun = now
        /\ caller'[c].at \in { "done", "peek" } /\ caller'[c].verdict \in { "Malformed", "Invalid", None }
    BY <1>1, <1>8, PresentDoes
  <2>2. Mine
    BY <1>2, <1>3, <2>1, AuthAssumption DEF Mine, WaitInv
  <2> QED
    BY <1>5, <1>6, <1>8, <2>1, <2>2 DEF Present
<1>9. ASSUME Peek(c) PROVE FreshInv'
  <2>1. caller[c].at = "peek" /\ Found(c, "gate") /\ cache' = cache /\ taken' = taken
    BY <1>9 DEF Peek
  <2>2. /\ OnlyCaller(c)
        /\ \/ \E k \in Known(i, caller[c].tok.kid) :
                 caller'[c] = [ caller[c] EXCEPT !.at = "decode", !.key = k ]
           \/ caller'[c] = [ caller[c] EXCEPT !.at = "gate", !.gen = cache[i].completed ]
    BY <1>1, <1>4, <2>1, FoundDoes DEF Places, i
  <2>3. /\ caller'[c].begun = caller[c].begun /\ caller'[c].verdict = caller[c].verdict
        /\ caller'[c].at \in { "decode", "gate" }
    BY <1>1, <2>2 DEF CallerType
  <2>4. Mine
    BY <1>2, <1>3, <1>4, <2>1, <2>3, AuthAssumption DEF Mine, WaitInv
  <2> QED
    BY <1>5, <1>6, <2>1, <2>2, <2>4
<1>10. ASSUME Reread(c) PROVE FreshInv'
  <2>1. caller[c].at = "reread" /\ Found(c, "blame") /\ cache' = cache /\ taken' = taken
    BY <1>10 DEF Reread
  <2>2. /\ OnlyCaller(c)
        /\ \/ \E k \in Known(i, caller[c].tok.kid) :
                 caller'[c] = [ caller[c] EXCEPT !.at = "decode", !.key = k ]
           \/ /\ Known(i, caller[c].tok.kid) = {}
              /\ caller'[c] = [ caller[c] EXCEPT !.at = "blame", !.gen = cache[i].completed ]
    BY <1>1, <1>4, <2>1, FoundDoes DEF Places, i
  <2>3. /\ caller'[c].begun = caller[c].begun /\ caller'[c].verdict = caller[c].verdict
        /\ caller'[c].tok = caller[c].tok
        /\ \/ caller'[c].at = "decode"
           \/ /\ Known(i, caller[c].tok.kid) = {}
              /\ caller'[c].at = "blame" /\ caller'[c].gen = cache[i].completed
    BY <1>1, <2>2 DEF CallerType
  <2>4. ASSUME Known(i, caller[c].tok.kid) = {}, cache[i].failures = 0 PROVE Backed(c)
    <3>1. cache[i].completed_at \in Nat /\ cache[i].completed_at >= caller[c].begun - Interval
      BY <1>1, <1>4, <2>1 DEF WaitInv, CacheType, i
    <3>2. PICK t \in taken[i] : /\ t.at >= cache[i].completed_at - FetchMax
                                /\ refresh_inner(t.doc) = cache[i].keys
      BY <1>4, <2>1, <2>4, <3>1, AuthAssumption DEF AgeInv
    <3>3. t.at \in Nat
      BY <1>1, <1>4, <2>1 DEF TypeOK
    <3>4. t.at >= caller[c].begun - (Interval + FetchMax)
      BY <1>2, <3>1, <3>2, <3>3
    <3>5. \A k \in refresh_inner(t.doc) : k.kid # caller[c].tok.kid
      BY <2>4, <3>2 DEF Known
    <3> QED
      BY <3>4, <3>5 DEF Backed, i
  <2>5. Backed(c)' <=> Backed(c)
    BY <2>1, <2>3 DEF Backed, Iss
  <2>6. cache[i].completed \in Nat /\ Iss(c)' = i
    BY <1>4, <2>1, <2>3 DEF CacheType, i, Iss
  <2>7. Mine
    BY <1>2, <1>3, <1>4, <2>1, <2>3, <2>4, <2>5, <2>6, AuthAssumption DEF Mine, WaitInv
  <2> QED
    BY <1>5, <1>6, <2>1, <2>2, <2>7
<1>11. ASSUME Gate(c) PROVE FreshInv'
  <2>1. caller[c].at = "gate" /\ cache' = cache /\ taken' = taken
    BY <1>11 DEF Gate
  <2>2. /\ OnlyCaller(c)
        /\ \/ too_soon(cache[i]) /\ caller'[c] = [ caller[c] EXCEPT !.at = "reread" ]
           \/ caller'[c] = [ caller[c] EXCEPT !.at = "queue", !.gen = cache[i].completed ]
    BY <1>1, <1>4, <1>11, <2>1, GateDoes DEF i
  <2>3. /\ caller'[c].begun = caller[c].begun /\ caller'[c].verdict = caller[c].verdict
        /\ caller'[c].tok = caller[c].tok
        /\ \/ caller'[c].at = "reread" /\ too_soon(cache[i])
           \/ caller'[c].at = "queue" /\ caller'[c].gen = cache[i].completed
    BY <1>1, <2>2 DEF CallerType
  <2>4. too_soon(cache[i]) => cache[i].completed_at \in Nat /\ cache[i].completed_at > now - Interval
    BY <1>2, <1>4, <2>1, FloorBound
  <2>5. too_soon(cache[i]) => /\ cache[i].completed_at # None
                              /\ cache[i].completed_at >= caller[c].begun - Interval
    BY <1>2, <2>4, AuthAssumption
  <2>6. Iss(c)' = i
    BY <2>3 DEF i, Iss
  <2>7. Mine
    BY <1>2, <1>3, <1>4, <2>1, <2>3, <2>5, <2>6, AuthAssumption DEF Mine, WaitInv
  <2> QED
    BY <1>5, <1>6, <2>1, <2>2, <2>7
<1>12. ASSUME Lock(c) PROVE FreshInv'
  <2>1. caller[c].at = "queue" /\ cache[i].flight = None /\ taken' = taken
    BY <1>12 DEF Lock, i
  <2>2. PICK m \in Issuers : m = i
    BY <1>4, <2>1
  <2>3. /\ OnlyCaller(c) /\ OnlyCache(m)
        /\ \/ /\ cache[m].completed # caller[c].gen \/ too_soon(cache[m])
              /\ caller'[c] = [ caller[c] EXCEPT !.at = "reread" ]
              /\ cache' = cache
           \/ /\ caller'[c] = [ caller[c] EXCEPT !.at = "fetching" ]
              /\ cache'[m] = [ cache[m] EXCEPT !.flight = c, !.doc = None, !.since = now ]
    BY <1>1, <1>4, <1>12, <2>1, <2>2, LockDoes DEF i
  <2>4. /\ caller'[c].begun = caller[c].begun /\ caller'[c].verdict = caller[c].verdict
        /\ caller'[c].tok = caller[c].tok /\ caller'[c].at \in { "reread", "fetching" }
    BY <1>1, <2>3 DEF CallerType
  <2>5. Iss(c)' = m
    BY <2>2, <2>4 DEF i, Iss
  <2>6. CASE /\ cache[m].completed # caller[c].gen \/ too_soon(cache[m])
             /\ caller'[c] = [ caller[c] EXCEPT !.at = "reread" ]
             /\ cache' = cache
    <3>1. caller'[c].at = "reread"
      BY <1>1, <2>6 DEF CallerType
    <3>2. cache[m].completed # caller[c].gen =>
            cache[m].completed_at # None /\ cache[m].completed_at >= caller[c].begun
      BY <1>1, <2>1, <2>2 DEF WaitInv, i
    <3>3. too_soon(cache[m]) => cache[m].completed_at \in Nat /\ cache[m].completed_at > now - Interval
      BY <1>2, <1>4, <2>1, <2>2, FloorBound
    <3>4. cache[m].completed_at \in Nat \cup { None }
      BY <1>4, <2>1, <2>2 DEF CacheType
    <3>5. cache[m].completed_at # None /\ cache[m].completed_at >= caller[c].begun - Interval
      BY <1>2, <2>6, <3>2, <3>3, <3>4, AuthAssumption
    <3>6. Mine
      BY <1>2, <1>3, <1>4, <2>1, <2>4, <2>5, <2>6, <3>1, <3>5, AuthAssumption DEF Mine, WaitInv
    <3> QED
      BY <1>5, <1>6, <2>1, <2>3, <2>6, <3>6
  <2>7. CASE /\ caller'[c] = [ caller[c] EXCEPT !.at = "fetching" ]
             /\ cache'[m] = [ cache[m] EXCEPT !.flight = c, !.doc = None, !.since = now ]
    <3>1. caller'[c].at = "fetching"
      BY <1>1, <2>7 DEF CallerType
    <3>2. Mine
      BY <1>2, <1>3, <1>4, <2>1, <2>4, <3>1, AuthAssumption DEF Mine, WaitInv
    <3>3. /\ cache'[m].keys = cache[m].keys /\ cache'[m].completed_at = cache[m].completed_at
          /\ cache'[m].failures = cache[m].failures /\ cache'[m].completed = cache[m].completed
          /\ cache'[m].since = now
      BY <1>4, <2>1, <2>2, <2>7 DEF CacheType
    <3>4. AgeInv(m)'
      BY <1>1, <1>2, <1>3, <2>1, <3>3 DEF AgeInv
    <3>5. Moves(m)
      BY <3>3 DEF Moves
    <3> QED
      BY <1>5, <1>7, <2>1, <2>2, <2>3, <3>2, <3>4, <3>5
  <2> QED
    BY <2>3, <2>6, <2>7
<1>13. ASSUME fetch(c) PROVE FreshInv'
  <2>1. caller[c].at = "fetching"
    BY <1>13 DEF fetch
  <2>2. PICK m \in Issuers : m = i /\ cache[m].flight = c /\ cache[m] \in CacheType
    BY <1>1, <1>4, <2>1 DEF HeaderInv, Holding, i
  <2>3. /\ OnlyCaller(c) /\ OnlyCache(m)
        /\ \/ /\ caller'[c] = [ caller[c] EXCEPT !.at = "failing" ]
              /\ cache' = cache /\ taken' = taken
           \/ /\ caller'[c] = [ caller[c] EXCEPT !.at = "installing" ]
              /\ cache'[m] = [ cache[m] EXCEPT !.doc = idp[m] ]
              /\ taken' = [ taken EXCEPT ![m] =
                              { t \in @ : t.doc # idp[m] } \cup { [ doc |-> idp[m], at |-> now ] } ]
    BY <1>1, <1>13, <2>2, FetchDoes DEF i
  <2>4. /\ caller'[c].begun = caller[c].begun /\ caller'[c].verdict = caller[c].verdict
        /\ caller'[c].tok = caller[c].tok /\ caller'[c].at \in { "failing", "installing" }
    BY <1>1, <2>3 DEF CallerType
  <2>5. Iss(c)' = m
    BY <2>2, <2>4 DEF i, Iss
  <2>6. CASE caller'[c] = [ caller[c] EXCEPT !.at = "failing" ] /\ cache' = cache /\ taken' = taken
    <3>1. caller'[c].at = "failing"
      BY <1>1, <2>6 DEF CallerType
    <3>2. Mine
      BY <1>2, <1>3, <1>4, <2>1, <2>4, <3>1, AuthAssumption DEF Mine, WaitInv
    <3> QED
      BY <1>5, <1>6, <2>3, <2>6, <3>2
  <2>7. CASE /\ caller'[c] = [ caller[c] EXCEPT !.at = "installing" ]
             /\ cache'[m] = [ cache[m] EXCEPT !.doc = idp[m] ]
             /\ taken' = [ taken EXCEPT ![m] =
                             { t \in @ : t.doc # idp[m] } \cup { [ doc |-> idp[m], at |-> now ] } ]
    <3>1. caller'[c].at = "installing"
      BY <1>1, <2>7 DEF CallerType
    <3>2. /\ cache'[m].keys = cache[m].keys /\ cache'[m].completed_at = cache[m].completed_at
          /\ cache'[m].failures = cache[m].failures /\ cache'[m].completed = cache[m].completed
          /\ cache'[m].since = cache[m].since /\ cache'[m].doc = idp[m] /\ cache'[m].flight = c
      BY <2>2, <2>7 DEF CacheType
    <3>3. \A k \in Issuers \ { m } : taken'[k] = taken[k]
      BY <1>1, <2>7 DEF TypeOK
    <3> DEFINE u == [ doc |-> idp[m], at |-> now ]
    <3>4. taken'[m] = { t \in taken[m] : t.doc # idp[m] } \cup { u }
      BY <1>1, <2>7 DEF TypeOK
    <3>5. u.doc = idp[m] /\ u.at = now
      OBVIOUS
    <3> HIDE DEF u
    <3>6. \A t \in taken[m] : t.at \in Nat /\ t.at <= now
      BY <1>1 DEF TypeOK, AgeInv
    <3>7. Grown(m)
      <4> SUFFICES ASSUME NEW t \in taken[m] PROVE \E w \in taken'[m] : w.doc = t.doc /\ w.at >= t.at
        BY DEF Grown
      <4>1. CASE t.doc = idp[m]
        BY <1>2, <3>4, <3>5, <3>6, <4>1
      <4>2. CASE t.doc # idp[m]
        BY <3>4, <3>6, <4>2
      <4> QED
        BY <4>1, <4>2
    <3>8. cache[m].since \in Nat /\ cache[m].since <= now
      BY <1>1, <2>2, AuthAssumption DEF AgeInv, CacheType
    <3>9. Mine
      <4>1. \E t \in taken'[m] : t.at >= cache'[m].since /\ t.doc = cache'[m].doc
        BY <1>2, <3>2, <3>4, <3>5, <3>8
      <4> QED
        BY <1>2, <1>3, <1>4, <2>1, <2>4, <2>5, <3>1, <4>1, AuthAssumption DEF Mine, WaitInv
    <3>10. AgeInv(m)'
      <4>1. \A t \in taken'[m] : t.at <= now
        BY <1>2, <3>4, <3>5, <3>6
      <4>2. ASSUME cache[m].completed_at # None, cache[m].failures = 0
            PROVE  \E t \in taken'[m] : /\ t.at >= cache[m].completed_at - FetchMax
                                        /\ refresh_inner(t.doc) = cache[m].keys
        <5>1. PICK t \in taken[m] : /\ t.at >= cache[m].completed_at - FetchMax
                                    /\ refresh_inner(t.doc) = cache[m].keys
          BY <1>1, <4>2 DEF AgeInv
        <5>2. PICK w \in taken'[m] : w.doc = t.doc /\ w.at >= t.at
          BY <3>7 DEF Grown
        <5>3. w.at \in Nat /\ t.at \in Nat /\ cache[m].completed_at \in Nat
          BY <1>1, <1>3, <2>2, <4>2 DEF TypeOK, CacheType
        <5> QED
          BY <1>2, <5>1, <5>2, <5>3
      <4> QED
        BY <1>1, <1>3, <2>2, <3>2, <4>1, <4>2, AuthAssumption DEF AgeInv
    <3>11. Moves(m)
      BY <3>2 DEF Moves
    <3>12. Rest
      BY <1>1, <1>3, <2>3, <3>3, <3>7, <3>10, <3>11, AgeKept DEF Rest, OnlyCache
    <3>13. ByHolder(c)
      BY <2>2, <2>3 DEF ByHolder, OnlyCache
    <3> QED
      BY <1>5, <2>3, <3>9, <3>12, <3>13
  <2> QED
    BY <2>3, <2>6, <2>7
<1>14. ASSUME Install(c) PROVE FreshInv'
  <2>1. caller[c].at = "installing" /\ taken' = taken
    BY <1>14 DEF Install
  <2>2. PICK m \in Issuers : m = i /\ cache[m].flight = c /\ cache[m] \in CacheType
    BY <1>1, <1>4, <2>1 DEF HeaderInv, Holding, i
  <2>3. refresh_inner(cache[m].doc) \subseteq Keys
    BY <1>1, <2>1, <2>2 DEF SoundInv, VouchInv, TypeOK, i
  <2>4. /\ OnlyCaller(c) /\ OnlyCache(m)
        /\ caller'[c] = [ caller[c] EXCEPT !.at = "stamping" ]
        /\ cache'[m] = [ cache[m] EXCEPT !.keys = refresh_inner(cache[m].doc) ]
    BY <1>1, <1>14, <2>2, <2>3, InstallDoes DEF i
  <2>5. /\ caller'[c].begun = caller[c].begun /\ caller'[c].verdict = caller[c].verdict
        /\ caller'[c].tok = caller[c].tok /\ caller'[c].at = "stamping"
    BY <1>1, <2>4 DEF CallerType
  <2>6. Iss(c)' = m
    BY <2>2, <2>5 DEF i, Iss
  <2>7. /\ cache'[m].keys = refresh_inner(cache[m].doc)
        /\ cache'[m].completed_at = cache[m].completed_at /\ cache'[m].failures = cache[m].failures
        /\ cache'[m].completed = cache[m].completed /\ cache'[m].since = cache[m].since
        /\ cache'[m].flight = c
    BY <2>2, <2>4 DEF CacheType
  <2>8. PICK t \in taken[m] : t.at >= cache[m].since /\ t.doc = cache[m].doc
    BY <1>1, <2>1, <2>2 DEF WaitInv, i
  <2>9. Mine
    <3>1. \E w \in taken'[m] : w.at >= cache'[m].since /\ refresh_inner(w.doc) = cache'[m].keys
      BY <2>1, <2>7, <2>8
    <3> QED
      BY <1>2, <1>3, <1>4, <2>1, <2>5, <2>6, <3>1, AuthAssumption DEF Mine, WaitInv
  <2>10. AgeInv(m)'
    <3>1. ASSUME cache[m].completed_at # None
          PROVE  t.at >= cache[m].completed_at - FetchMax
      <4>1. cache[m].completed_at <= cache[m].since
        BY <1>1, <2>2, <3>1, AuthAssumption DEF AgeInv
      <4>2. t.at \in Nat /\ cache[m].completed_at \in Nat /\ cache[m].since \in Nat
        BY <1>1, <2>2, <3>1 DEF TypeOK, CacheType
      <4> QED
        BY <1>2, <2>8, <4>1, <4>2
    <3>2. refresh_inner(t.doc) = cache'[m].keys /\ t \in taken'[m]
      BY <2>1, <2>7, <2>8
    <3> QED
      BY <1>1, <1>3, <2>1, <2>2, <2>7, <3>1, <3>2, AuthAssumption DEF AgeInv
  <2>11. Moves(m)
    BY <2>7 DEF Moves
  <2> QED
    BY <1>5, <1>7, <2>1, <2>2, <2>4, <2>9, <2>10, <2>11
<1>15. ASSUME refresh(c) PROVE FreshInv'
  <2>1. caller[c].at \in { "stamping", "failing" } /\ taken' = taken
    BY <1>15 DEF refresh
  <2>2. PICK m \in Issuers : m = i /\ cache[m].flight = c /\ cache[m] \in CacheType
    BY <1>1, <1>4, <2>1 DEF HeaderInv, Holding, i
  <2>3. /\ OnlyCaller(c) /\ OnlyCache(m)
        /\ cache'[m] = Stamped(cache[m], caller[c].at = "stamping")
        /\ \/ caller[c].at = "stamping" /\ caller'[c] = [ caller[c] EXCEPT !.at = "reread" ]
           \/ /\ caller[c].at = "failing"
              /\ caller'[c] = [ caller[c] EXCEPT !.at = "done", !.verdict = "Jwks",
                                                 !.key = None, !.gen = 0 ]
    BY <1>1, <1>15, <2>2, RefreshDoes DEF i
  <2>4. /\ caller'[c].begun = caller[c].begun /\ caller'[c].tok = caller[c].tok
        /\ \/ caller'[c].at = "reread" /\ caller'[c].verdict = caller[c].verdict
           \/ caller'[c].at = "done" /\ caller'[c].verdict = "Jwks"
    BY <1>1, <2>3 DEF CallerType
  <2>5. Iss(c)' = m
    BY <2>2, <2>4 DEF i, Iss
  <2>6. /\ cache[m].failures \in Nat /\ cache[m].completed \in Nat /\ cache[m].since \in Nat
        /\ cache[m].completed_at \in Nat \cup { None }
    BY <2>2 DEF CacheType
  <2>7. /\ cache'[m].keys = cache[m].keys /\ cache'[m].completed_at = now
        /\ cache'[m].completed = cache[m].completed + 1 /\ cache'[m].flight = None
        /\ cache'[m].failures = IF caller[c].at = "stamping" THEN 0 ELSE cache[m].failures + 1
    BY <2>2, <2>3 DEF CacheType, Stamped
  <2>8. Mine
    BY <1>2, <1>3, <1>4, <2>1, <2>4, <2>5, <2>7, AuthAssumption DEF Mine, WaitInv
  <2>9. AgeInv(m)'
    <3>1. ASSUME caller[c].at = "stamping"
          PROVE  \E t \in taken[m] : t.at >= now - FetchMax /\ refresh_inner(t.doc) = cache[m].keys
      <4>1. PICK t \in taken[m] : t.at >= cache[m].since /\ refresh_inner(t.doc) = cache[m].keys
        BY <1>1, <2>2, <3>1 DEF WaitInv, i
      <4>2. t.at \in Nat /\ now - cache[m].since <= FetchMax
        BY <1>1, <2>2, AuthAssumption DEF TypeOK, AgeInv
      <4> QED
        BY <1>2, <2>6, <4>1, <4>2
    <3>2. caller[c].at # "stamping" => cache'[m].failures # 0
      BY <2>6, <2>7
    <3> QED
      BY <1>1, <1>2, <1>3, <2>1, <2>7, <3>1, <3>2 DEF AgeInv
  <2>10. Moves(m)
    BY <2>6, <2>7 DEF Moves
  <2> QED
    BY <1>5, <1>7, <2>1, <2>2, <2>3, <2>8, <2>9, <2>10
<1>16. ASSUME Blame(c) PROVE FreshInv'
  <2>1. caller[c].at = "blame" /\ cache' = cache /\ taken' = taken
    BY <1>16 DEF Blame
  <2>2. /\ OnlyCaller(c) /\ caller'[c].at = "done"
        /\ caller'[c].verdict = IF last_failed(cache[i]) THEN "Jwks" ELSE "UnknownKid"
        /\ caller'[c].passed = (caller[c].gen # cache[i].completed)
        /\ caller'[c].tok = caller[c].tok /\ caller'[c].begun = caller[c].begun
    BY <1>1, <1>16, BlameDoes DEF i
  <2>3. cache[i].failures \in Nat
    BY <1>4, <2>1 DEF CacheType
  <2>4. caller'[c].verdict = "UnknownKid" /\ ~ caller'[c].passed => Backed(c)
    <3>1. ~ caller'[c].passed => caller[c].gen = cache[i].completed
      BY <2>2, Zenon
    <3>2. caller'[c].verdict = "UnknownKid" => cache[i].failures = 0
      BY <2>2, <2>3 DEF last_failed
    <3> QED
      BY <1>1, <2>1, <3>1, <3>2 DEF WaitInv, i
  <2>5. Backed(c)' <=> Backed(c)
    BY <2>1, <2>2 DEF Backed, Iss
  <2>6. Mine
    BY <1>2, <1>3, <2>2, <2>4, <2>5 DEF Mine, WaitInv
  <2> QED
    BY <1>5, <1>6, <2>1, <2>2, <2>6
<1>17. ASSUME Decode(c) PROVE FreshInv'
  <2>1. cache' = cache /\ taken' = taken /\ caller[c].at = "decode"
    BY <1>17 DEF Decode
  <2>2. /\ OnlyCaller(c) /\ caller'[c].at = "done" /\ caller'[c].verdict \in { "ok", "Invalid" }
    BY <1>1, <1>17, DecodeDoes
  <2>3. caller'[c].begun = caller[c].begun
    BY <1>1, <1>17 DEF Decode, Settle, CallerType, TypeOK
  <2>4. Mine
    BY <1>2, <1>3, <2>2, <2>3 DEF Mine, WaitInv
  <2> QED
    BY <1>5, <1>6, <2>1, <2>2, <2>4
<1>18. ASSUME Dropped(c) PROVE FreshInv'
  <2>1. caller[c].at \in { "fetching", "installing" } /\ taken' = taken
    BY <1>18 DEF Dropped
  <2>2. PICK m \in Issuers : m = i /\ cache[m].flight = c /\ cache[m] \in CacheType
    BY <1>1, <1>4, <2>1 DEF HeaderInv, Holding, i
  <2>3. /\ OnlyCaller(c) /\ OnlyCache(m)
        /\ caller'[c] = [ caller[c] EXCEPT !.at = "done", !.verdict = "dropped",
                                           !.key = None, !.gen = 0 ]
        /\ cache'[m] = [ cache[m] EXCEPT !.flight = None, !.doc = None, !.since = 0 ]
    BY <1>1, <1>18, <2>2, DroppedDoes DEF i
  <2>4. caller'[c].at = "done" /\ caller'[c].verdict = "dropped" /\ caller'[c].begun = caller[c].begun
    BY <1>1, <2>3 DEF CallerType
  <2>5. /\ cache'[m].keys = cache[m].keys /\ cache'[m].completed_at = cache[m].completed_at
        /\ cache'[m].failures = cache[m].failures /\ cache'[m].completed = cache[m].completed
        /\ cache'[m].flight = None
    BY <2>2, <2>3 DEF CacheType
  <2>6. Mine
    BY <1>2, <1>3, <2>4 DEF Mine, WaitInv
  <2>7. AgeInv(m)'
    BY <1>1, <1>3, <2>1, <2>5 DEF AgeInv
  <2>8. Moves(m)
    BY <2>5 DEF Moves
  <2> QED
    BY <1>5, <1>7, <2>1, <2>2, <2>3, <2>6, <2>7, <2>8
<1> QED
  BY <1>8, <1>9, <1>10, <1>11, <1>12, <1>13, <1>14, <1>15, <1>16, <1>17, <1>18 DEF Step

\* Rotations, outages and the clock, which a fetch does not outlast.
LEMMA WorldFresh ==
  ASSUME SoundInv, FreshInv,
         (\E i \in Issuers : Rotate(i) \/ Outage(i) \/ Recovers(i)) \/ Tick \/ UNCHANGED vars
  PROVE  FreshInv'
<1>1. UNCHANGED << cache, caller, taken >> /\ now \in Nat /\ now' \in { now, now + 1 }
  BY DEF Rotate, Outage, Recovers, Tick, vars, SoundInv, TypeOK
<1>2. ASSUME NEW c \in Callers PROVE WaitInv(c)'
  <2>1. WaitInv(c) /\ caller[c].begun \in Nat
    BY DEF SoundInv, FreshInv, TypeOK, CallerType
  <2>2. Backed(c)' <=> Backed(c)
    BY <1>1 DEF Backed, Iss
  <2> QED
    BY <1>1, <2>1, <2>2 DEF WaitInv, Iss
<1>3. ASSUME NEW i \in Issuers PROVE AgeInv(i)'
  <2>1. AgeInv(i) /\ cache[i] \in CacheType /\ (\A t \in taken[i] : t.at \in Nat) /\ FetchMax \in Nat
    BY AuthAssumption DEF SoundInv, FreshInv, TypeOK
  <2>2. cache[i].since \in Nat /\ cache[i].completed_at \in Nat \cup { None }
    BY <2>1 DEF CacheType
  <2>3. cache[i].flight # None => now' - cache[i].since <= FetchMax
    BY <1>1, <2>1, <2>2 DEF AgeInv, Tick, Rotate, Outage, Recovers, vars
  <2> QED
    BY <1>1, <2>1, <2>2, <2>3 DEF AgeInv
<1> QED
  BY <1>2, <1>3 DEF FreshInv

\* A caller is told that a key is unknown only when a document of the issuer, no
\* older than one refresh interval and one fetch when the call began, lacked it
\* (key_for, refresh_once) - unless a refresh completed between its last two looks.
THEOREM UnknownIsBackedHolds == Spec => []UnknownIsBacked
<1>1. Init => FreshInv
  <2> SUFFICES ASSUME Init PROVE FreshInv
    OBVIOUS
  <2>1. /\ Idle.at = "idle" /\ Idle.verdict = None /\ Idle.begun = 0
        /\ EmptyCache.completed_at = None /\ EmptyCache.flight = None
    BY DEF Idle, EmptyCache
  <2>2. \A c \in Callers : WaitInv(c)
    BY <2>1, AuthAssumption DEF Init, WaitInv
  <2>3. \A i \in Issuers : AgeInv(i)
    BY <2>1 DEF Init, AgeInv
  <2> QED
    BY <2>2, <2>3 DEF FreshInv
<1>2. SoundInv /\ FreshInv /\ [Next]_vars => FreshInv'
  BY CallerFresh, WorldFresh DEF Next
<1>3. FreshInv => UnknownIsBacked
  BY DEF FreshInv, WaitInv, Backed, UnknownIsBacked
<1> QED
  BY <1>1, <1>2, <1>3, SoundInvariant, PTL DEF Spec
=============================================================================
