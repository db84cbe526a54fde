-------------------------------- MODULE Auth --------------------------------
(***************************************************************************)
(* Token verification: the flags that configure it (latiq lib.rs           *)
(* auth_config), the verifier (latiq-auth verify.rs), and one cache of     *)
(* signing keys per issuer with its single-flight, rate-limited refresh    *)
(* (jwks.rs).  A caller is one verify(); its only awaits are in key_for.   *)
(*                                                                         *)
(* Time is counted in ticks.  A token is a record of what the checks tell  *)
(* apart; its `secret' is the key it is signed with.                       *)
(***************************************************************************)
EXTENDS Integers, Sequences, FiniteSets

CONSTANTS
  None,
  Flags,      \* the settings a node may be started with
  Callers,    \* concurrent verifications
  Tokens,     \* what they may present
  FirstKeys,  \* issuer -> the keys it publishes at first
  NextKeys,   \* issuer -> the keys it publishes after its rotation
  Interval,   \* DEFAULT_MIN_REFRESH_INTERVAL
  Base,       \* DEFAULT_FAILURE_BACKOFF_BASE
  FetchMax,   \* the HTTP client's timeout
  MaxTime,    \* bound on the clock
  MaxCalls,   \* bound on the calls of one caller
  MaxEvents   \* bound on rotations and outages

ASSUME AuthAssumption ==
  /\ { Interval, Base, FetchMax, MaxTime, MaxCalls, MaxEvents } \subseteq Nat
  /\ FirstKeys = [ i \in DOMAIN FirstKeys |-> FirstKeys[i] ]
  /\ NextKeys = [ i \in DOMAIN FirstKeys |-> NextKeys[i] ]
  /\ \A f \in Flags : f.issuers \in Seq(DOMAIN FirstKeys)
  /\ None \notin Callers \cup Nat \cup { "ok", "UnknownKid", "Malformed", "Invalid" }

VARIABLES
  verifier,  \* what Verifier::new made of the flags
  now,
  idp,       \* issuer -> the keys it publishes now
  down,      \* the issuers that do not answer
  events,    \* rotations and outages so far
  cache,     \* issuer -> its JwksCache
  caller,    \* caller -> how far its verification is
  vouched,   \* history: issuer -> every signing key it has published
  taken      \* history: issuer -> the documents fetched, and when each was last taken

vars == << verifier, now, idp, down, events, cache, caller, vouched, taken >>

Issuers == DOMAIN FirstKeys

(***************************************************************************)
(* Configuration.                                                          *)
(***************************************************************************)
(* One or none: issuers without an audience, and one JWKS uri for several  *)
(* issuers, are refused.                                                   *)
auth_config(f) ==
  IF f.issuers = << >> THEN "off"
  ELSE IF f.audience = None \/ (f.uri # None /\ Len(f.issuers) > 1) THEN "refused"
  ELSE "on"

(* A JWKS uri is a scheme and whether its parsed host is loopback.         *)
checked_jwks_uri(uri, allow) ==
  \/ uri.scheme = "https"
  \/ uri.scheme = "http" /\ (uri.loopback \/ allow)

discover_uri(issuer) == [ scheme |-> "https", loopback |-> FALSE ]

(* Verifier::new: an audience, at least one issuer, none of them twice,    *)
(* every uri fit to be fetched; else the node does not start.              *)
Verifier_new(f) ==
  LET known == { f.issuers[i] : i \in DOMAIN f.issuers }
      uri(i) == IF f.uri # None THEN f.uri ELSE discover_uri(i)
  IN IF Cardinality(known) = Len(f.issuers) /\ \A i \in known : checked_jwks_uri(uri(i), f.allow)
     THEN [ on |-> TRUE, audience |-> f.audience, issuers |-> known ]
     ELSE [ on |-> FALSE, audience |-> None, issuers |-> {} ]

(***************************************************************************)
(* The cache.                                                              *)
(***************************************************************************)
EmptyCache ==
  [ keys |-> {}, completed_at |-> None, failures |-> 0, completed |-> 0,
    flight |-> None, doc |-> None, since |-> 0 ]

last_failed(j) == j.failures > 0

(* Base, twice that, four times ... and never more than the interval.      *)
floor(j) ==
  LET backoff == Base * 2 ^ (j.failures - 1)
  IN IF ~ last_failed(j) \/ backoff > Interval THEN Interval ELSE backoff

too_soon(j) == j.completed_at # None /\ now - j.completed_at < floor(j)

(* refresh_inner keeps what can check a signature: not a key without a     *)
(* kid, not one marked for encryption, not one whose algorithm signs       *)
(* nothing.  It replaces the whole map.                                    *)
refresh_inner(doc) == { k \in doc : k.kid # None /\ k.use # "enc" /\ k.alg # "RSA-OAEP" }

(* Mutant: the caches pooled, whoever's key has the kid will do.           *)
KnownPooled(iss, kid) == UNION { { k \in cache[i].keys : k.kid = kid } : i \in Issuers }

Known(iss, kid) == { k \in cache[iss].keys : k.kid = kid }

(***************************************************************************)
(* One verification.                                                       *)
(***************************************************************************)
ALLOWED_ALGS == { "RS256", "RS512", "ES256", "EdDSA" }

Idle == [ at |-> "idle", tok |-> None, begun |-> 0, gen |-> 0, key |-> None,
          verdict |-> None, passed |-> FALSE, nth |-> 0 ]

Goto(c, at) == caller' = [ caller EXCEPT ![c].at = at ]

Settle(c, v) ==
  caller' = [ caller EXCEPT ![c].at = "done", ![c].verdict = v, ![c].key = None, ![c].gen = 0 ]

(* A new call.  verify up to the key: an empty or oversized token, an      *)
(* algorithm off the list, no kid, a payload without an issuer, an issuer  *)
(* not configured.                                                         *)
Present(c, tok) ==
  LET start == [ Idle EXCEPT !.tok = tok, !.begun = now, !.nth = caller[c].nth + 1 ]
      fails == CASE tok.shape # "jws" -> "Malformed"
                 [] tok.alg \notin ALLOWED_ALGS -> "Invalid"
                 [] tok.kid = None \/ tok.iss = None -> "Malformed"
                 [] tok.iss \notin verifier.issuers -> "Invalid"
                 [] OTHER -> None
  IN /\ verifier.on /\ caller[c].at \in { "idle", "done" } /\ caller[c].nth < MaxCalls
     /\ caller' = [ caller EXCEPT ![c] =
                      IF fails # None THEN [ start EXCEPT !.at = "done", !.verdict = fails ]
                      ELSE [ start EXCEPT !.at = "peek" ] ]
     /\ UNCHANGED << verifier, now, idp, down, events, cache, vouched, taken >>

Found(c, next) ==
  LET tok == caller[c].tok
  IN IF Known(tok.iss, tok.kid) # {}
     THEN \E k \in Known(tok.iss, tok.kid) :
            caller' = [ caller EXCEPT ![c].at = "decode", ![c].key = k ]
     ELSE caller' = [ caller EXCEPT ![c].at = next, ![c].gen = cache[tok.iss].completed ]

Iss(c) == caller[c].tok.iss

(* key_for: a hit is served from memory, a miss goes to refresh_once.      *)
Peek(c) ==
  /\ caller[c].at = "peek" /\ Found(c, "gate")
  /\ UNCHANGED << verifier, now, idp, down, events, cache, vouched, taken >>

(* refresh_once before the guard: nothing to gain, or the generation is    *)
(* noted and the caller queues.                                            *)
Gate(c) ==
  /\ caller[c].at = "gate"
  /\ IF too_soon(cache[Iss(c)]) THEN Goto(c, "reread")
     ELSE caller' = [ caller EXCEPT ![c].at = "queue", ![c].gen = cache[Iss(c)].completed ]
  /\ UNCHANGED << verifier, now, idp, down, events, cache, vouched, taken >>

(* Mutant, the one the comment on completed_at warns of: stamped on entry. *)
LockStamping(c) ==
  LET j == cache[Iss(c)]
  IN /\ caller[c].at = "queue" /\ j.flight = None
     /\ IF j.completed # caller[c].gen \/ too_soon(j)
        THEN Goto(c, "reread") /\ UNCHANGED cache
        ELSE /\ Goto(c, "fetching")
             /\ cache' = [ cache EXCEPT ![Iss(c)] = [ j EXCEPT !.flight = c, !.since = now, !.completed_at = now ] ]
     /\ UNCHANGED << verifier, now, idp, down, events, vouched, taken >>

(* The guard is had: either a refresh has completed meanwhile and is       *)
(* ridden, or this caller fetches.                                         *)
Lock(c) ==
  LET j == cache[Iss(c)]
  IN /\ caller[c].at = "queue" /\ j.flight = None
     /\ IF j.completed # caller[c].gen \/ too_soon(j)
        THEN Goto(c, "reread") /\ UNCHANGED cache
        ELSE /\ Goto(c, "fetching")
             /\ cache' = [ cache EXCEPT ![Iss(c)].flight = c, ![Iss(c)].doc = None, ![Iss(c)].since = now ]
     /\ UNCHANGED << verifier, now, idp, down, events, vouched, taken >>

(* The endpoint answers: a document as it is at this moment, or nothing of *)
(* use (no answer, an error, a body too large or not JSON).                *)
fetch(c) ==
  LET i == Iss(c)
  IN /\ caller[c].at = "fetching"
     /\ IF i \in down
        THEN Goto(c, "failing") /\ UNCHANGED << cache, taken >>
        ELSE /\ Goto(c, "installing")
             /\ cache' = [ cache EXCEPT ![i].doc = idp[i] ]
             /\ taken' = [ taken EXCEPT ![i] =
                             { t \in @ : t.doc # idp[i] } \cup { [ doc |-> idp[i], at |-> now ] } ]
     /\ UNCHANGED << verifier, now, idp, down, events, vouched >>

Install(c) ==
  /\ caller[c].at = "installing"
  /\ cache' = [ cache EXCEPT ![Iss(c)].keys = refresh_inner(cache[Iss(c)].doc) ]
  /\ Goto(c, "stamping")
  /\ UNCHANGED << verifier, now, idp, down, events, vouched, taken >>

(* refresh: completion is stamped on every exit, and the guard released.   *)
Stamped(j, ok) ==
  [ j EXCEPT !.completed_at = now, !.failures = IF ok THEN 0 ELSE @ + 1,
             !.completed = @ + 1, !.flight = None, !.doc = None, !.since = 0 ]

refresh(c) ==
  /\ caller[c].at \in { "stamping", "failing" }
  /\ cache' = [ cache EXCEPT ![Iss(c)] = Stamped(@, caller[c].at = "stamping") ]
  /\ IF caller[c].at = "stamping" THEN Goto(c, "reread") ELSE Settle(c, "Jwks")
  /\ UNCHANGED << verifier, now, idp, down, events, vouched, taken >>

(* The second look.                                                        *)
Reread(c) ==
  /\ caller[c].at = "reread" /\ Found(c, "blame")
  /\ UNCHANGED << verifier, now, idp, down, events, cache, vouched, taken >>

(* Still missing: an outage if the last refresh failed, else a bad kid.    *)
(* `passed' notes a refresh that completed since the second look.          *)
Blame(c) ==
  /\ caller[c].at = "blame"
  /\ caller' = [ caller EXCEPT ![c].at = "done",
                               ![c].verdict = IF last_failed(cache[Iss(c)]) THEN "Jwks" ELSE "UnknownKid",
                               ![c].gen = 0,
                               ![c].passed = caller[c].gen # cache[Iss(c)].completed ]
  /\ UNCHANGED << verifier, now, idp, down, events, cache, vouched, taken >>

(* The key's own algorithm, the signature, issuer, audience, expiry, and a *)
(* subject to attribute the call to.                                       *)
Decode(c) ==
  LET tok == caller[c].tok
      key == caller[c].key
  IN /\ caller[c].at = "decode"
     /\ Settle(c, IF /\ key.alg \in { None, tok.alg }
                     /\ tok.secret = key.secret
                     /\ tok.aud = verifier.audience
                     /\ now <= tok.exp
                     /\ tok.sub # None
                  THEN "ok" ELSE "Invalid")
     /\ UNCHANGED << verifier, now, idp, down, events, cache, vouched, taken >>

(* The call is dropped at one of its awaits with the guard held, which     *)
(* goes with it; nothing is stamped.  (At its other awaits a dropped call  *)
(* leaves nothing behind.)                                                 *)
Dropped(c) ==
  /\ caller[c].at \in { "fetching", "installing" }
  /\ events < MaxEvents /\ events' = events + 1
  /\ Settle(c, "dropped")
  /\ cache' = [ cache EXCEPT ![Iss(c)].flight = None, ![Iss(c)].doc = None, ![Iss(c)].since = 0 ]
  /\ UNCHANGED << verifier, now, idp, down, vouched, taken >>

(***************************************************************************)
(* The world (external).                                                   *)
(***************************************************************************)
Rotate(i) ==
  /\ events < MaxEvents /\ idp[i] # NextKeys[i]
  /\ idp' = [ idp EXCEPT ![i] = NextKeys[i] ]
  /\ vouched' = [ vouched EXCEPT ![i] = @ \cup refresh_inner(NextKeys[i]) ]
  /\ events' = events + 1
  /\ UNCHANGED << verifier, now, down, cache, caller, taken >>

Outage(i) ==
  /\ events < MaxEvents /\ i \notin down
  /\ down' = down \cup { i } /\ events' = events + 1
  /\ UNCHANGED << verifier, now, idp, cache, caller, vouched, taken >>

Recovers(i) ==
  /\ down' = down \ { i } /\ i \in down
  /\ UNCHANGED << verifier, now, idp, events, cache, caller, vouched, taken >>

(* A fetch is over within the client's timeout.                            *)
Tick ==
  /\ now < MaxTime
  /\ \A i \in Issuers : cache[i].flight # None => now - cache[i].since < FetchMax
  /\ now' = now + 1
  /\ UNCHANGED << verifier, idp, down, events, cache, caller, vouched, taken >>

Init ==
  /\ \E f \in { g \in Flags : auth_config(g) = "on" } : verifier = Verifier_new(f)
  /\ now = 0 /\ down = {} /\ events = 0
  /\ idp = FirstKeys
  /\ cache = [ i \in Issuers |-> EmptyCache ]
  /\ caller = [ c \in Callers |-> Idle ]
  /\ vouched = [ i \in Issuers |-> refresh_inner(FirstKeys[i]) ]
  /\ taken = [ i \in Issuers |-> {} ]

Step(c) ==
  \/ \E tok \in Tokens : Present(c, tok)
  \/ Peek(c) \/ Gate(c) \/ Lock(c) \/ fetch(c) \/ Install(c) \/ refresh(c) \/ Reread(c)
  \/ Blame(c) \/ Decode(c) \/ Dropped(c)

Next ==
  \/ \E c \in Callers : Step(c)
  \/ \E i \in Issuers : Rotate(i) \/ Outage(i) \/ Recovers(i)
  \/ Tick

Spec == Init /\ [][Next]_vars

(***************************************************************************)
(* Properties.                                                             *)
(***************************************************************************)
(* A key is called unknown only by someone who knows (jwks.rs key_for,     *)
(* refresh_once): the issuer's document, taken no earlier than one refresh *)
(* interval and one fetch before the call began, did not have it.  So a    *)
(* cold start, a burst of callers, an outage or a dropped fetch never      *)
(* turns a published key away, and a rotation is picked up in that time.   *)
(* The exception is a refresh that completes between a caller's last look  *)
(* at the keys and its look at how the last refresh went.                  *)
UnknownIsBacked ==
  \A c \in Callers : caller[c].verdict = "UnknownKid" /\ ~ caller[c].passed =>
    \E t \in taken[Iss(c)] :
      /\ t.at >= caller[c].begun - (Interval + FetchMax)
      /\ \A k \in refresh_inner(t.doc) : k.kid # caller[c].tok.kid

(* An accepted token (verify.rs verify) is for this deployment, names a    *)
(* subject, comes from a configured issuer and is signed, with an          *)
(* algorithm on the list and the one the key declares, by a signing key    *)
(* THAT issuer published, whatever kid another issuer uses.                *)
AcceptedIsVouched ==
  \A c \in Callers : caller[c].verdict = "ok" =>
    LET tok == caller[c].tok
    IN /\ tok.iss \in verifier.issuers /\ tok.aud = verifier.audience /\ tok.sub # None
       /\ tok.alg \in ALLOWED_ALGS
       /\ \E k \in vouched[tok.iss] :
            k.kid = tok.kid /\ k.secret = tok.secret /\ k.alg \in { None, tok.alg }
=============================================================================
