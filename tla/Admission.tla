------------------------------ MODULE Admission ------------------------------
(***************************************************************************)
(* What a request passes before it reaches a handler: the layers           *)
(* build_router (src/src/router.rs) puts around every route, with          *)
(* auth_middleware and rate_limit_middleware (src/src/middleware/), and    *)
(* the HTTP response an error becomes (src/src/error.rs).                  *)
(*                                                                         *)
(* Outermost is the concurrency limit, a semaphore per route; then, if     *)
(* auth is enabled, authentication and the rate limiter.  A request is     *)
(* dropped with everything it holds when its client disconnects.           *)
(***************************************************************************)
EXTENDS RateLimiter, Sequences, Functions

CONSTANTS Connections,       \* what requests arrive on
          Paths,             \* the registered routes
          MaxConnections,    \* max_concurrent_connections
          AuthConfigs,       \* the `auth` sections the gateway may be started with
          Credentials,       \* tokens that clients present
          HandlerErrors      \* the errors handlers answer with

VARIABLES auth,              \* the gateway's auth section
          visit              \* the request on each connection

vars == <<limiterVars, auth, visit>>

\* The errors of the layers, and of a handler, as HTTP statuses.
StatusOf ==
  [BadRequest |-> 400, Unauthorized |-> 401, RateLimited |-> 429, PayloadTooLarge |-> 413,
   ServiceUnavailable |-> 503, Internal |-> 500, ProviderError |-> 502]

\* The rate limit of a key: its own, or the gateway's default.
EffectiveLimit(config, entry) == IF entry.override THEN entry.limit ELSE config.rateLimit

ASSUME AdmissionAssumption ==
  /\ HandlerErrors \subseteq DOMAIN StatusOf
  /\ MaxConnections \in Nat \ {0}
  /\ \A config \in AuthConfigs :
       /\ config.apiKeys \in Seq(Range(config.apiKeys))
       /\ \A entry \in Range(config.apiKeys) :
            entry.client \in Clients /\ EffectiveLimit(config, entry) \in LimitsOf[entry.client]

\* What auth_middleware finds in the Authorization header: a bearer token, or
\* none (no header, no text, or not of the form "Bearer <token>").
Headers == {"none"} \cup Credentials

\* into_response: the status, and Retry-After for a request over its limit.
Response(error, retryAfter) ==
  [status |-> StatusOf[error], retryAfter |-> IF error = "RateLimited" THEN retryAfter ELSE 0]

Idle == [stage |-> "idle", path |-> "none", header |-> "none", identity |-> {},
         token |-> "none", response |-> [status |-> 0, retryAfter |-> 0]]

Init ==
  /\ LimiterInit
  /\ auth \in AuthConfigs
  /\ visit = [v \in Connections |-> Idle]


\* The requests that hold a permit of the route.
Holders(path) ==
  {v \in Connections : visit[v].path = path
                       /\ visit[v].stage \in {"authenticating", "limiting", "handling"}}

Answered(v, response) ==
  visit' = [visit EXCEPT ![v] = [Idle EXCEPT !.stage = "answered", !.response = response]]

Arrive(v, path, header) ==
  /\ visit[v].stage \in {"idle", "answered"}
  /\ visit' = [visit EXCEPT ![v] = [Idle EXCEPT !.stage = "queued", !.path = path,
                                                !.header = header]]
  /\ UNCHANGED <<limiterVars, auth>>

\* The concurrency limit lets a request in; without auth there is no other layer.
Enter(v) ==
  /\ visit[v].stage = "queued"
  /\ Cardinality(Holders(visit[v].path)) < MaxConnections
  /\ visit' = [visit EXCEPT ![v].stage = IF auth.enabled THEN "authenticating"
                                                         ELSE "handling"]
  /\ UNCHANGED <<limiterVars, auth>>

\* ConfigAuthValidator::validate: the first entry with this key, if there is one.
Validate(token) ==
  LET matching == {i \in DOMAIN auth.apiKeys : auth.apiKeys[i].key = token}
  IN IF matching = {} THEN {} ELSE {auth.apiKeys[Min(matching)]}

Authenticate(v) ==
  LET header == visit[v].header
  IN /\ visit[v].stage = "authenticating"
     /\ \/ /\ header = "none" \/ Validate(header) = {}
           /\ Answered(v, Response("Unauthorized", 0))
        \/ /\ header # "none" /\ Validate(header) # {}
           /\ visit' = [visit EXCEPT ![v].stage = "limiting", ![v].identity = Validate(header)]
     /\ UNCHANGED <<limiterVars, auth>>

\* The limiter has spoken: with a token, or without one and a wait of 0.
Admit(v, token) ==
  visit' = [visit EXCEPT ![v].stage = "handling", ![v].token = token]

\* rate_limit_middleware's match on the limiter's answer: a wait of 0 is how a
\* failing backend shows, and lets the request in.
Refuse(v, wait) ==
  IF wait = 0 THEN Admit(v, "failOpen")
              ELSE Answered(v, Response("RateLimited", wait))

\* rate_limit_middleware over the in-memory bucket: one step, under its mutex.
LimitLocally(v) ==
  \E entry \in visit[v].identity, lag \in 0..MaxLag :
    LET limit == EffectiveLimit(auth, entry)
    IN /\ visit[v].stage = "limiting"
       /\ \/ LocalAdmits(entry.client, limit, lag) /\ Admit(v, "paid")
          \/ LocalRefuses(entry.client, limit, lag)
             /\ Refuse(v, WaitFor(entry.client, limit, age[entry.client] + lag))
       /\ UNCHANGED auth

\* ... and over Redis, with the clock of this or of another gateway, read when
\* the call was sent.  The answer may be lost although the script has run.
LimitInRedis(v) ==
  \E entry \in visit[v].identity, offset \in Offsets :
    LET limit == EffectiveLimit(auth, entry)
    IN /\ visit[v].stage = "limiting"
       /\ \/ RedisAdmits(entry.client, limit, offset) /\ Admit(v, "paid")
          \/ RedisAdmits(entry.client, limit, offset) /\ Refuse(v, 0)
          \/ RedisRefuses(entry.client, limit, offset)
             /\ Refuse(v, WaitFor(entry.client, limit, age[entry.client] + offset))
       /\ UNCHANGED auth

\* Redis cannot be reached.
RedisFails(v) ==
  /\ visit[v].stage = "limiting" /\ backend = "redis"
  /\ Refuse(v, 0)
  /\ UNCHANGED <<limiterVars, auth>>

\* The handler answers.  /metrics and the probes always can; the flag readyz
\* reads is set at the start and never cleared.
Handle(v, error) ==
  /\ visit[v].stage = "handling"
  /\ \/ error = "none" /\ Answered(v, [status |-> 200, retryAfter |-> 0])
     \/ /\ error \in HandlerErrors
        /\ visit[v].path \notin {"/metrics", "/healthz", "/readyz"}
        /\ Answered(v, Response(error, 1))
  /\ UNCHANGED <<limiterVars, auth>>

\* The future of a waiting request is dropped, and its permit with it.
Disconnect(v) ==
  /\ \/ visit[v].stage \in {"queued", "handling"}
     \/ visit[v].stage = "limiting" /\ backend = "redis"
  /\ visit' = [visit EXCEPT ![v] = Idle]
  /\ UNCHANGED <<limiterVars, auth>>

Tick == Elapse /\ UNCHANGED <<auth, visit>>

Progress(v) ==
  \/ Authenticate(v) \/ LimitLocally(v) \/ LimitInRedis(v) \/ RedisFails(v)
  \/ \E error \in {"none"} \cup HandlerErrors : Handle(v, error)

Next ==
  \/ \E v \in Connections :
       \/ \E path \in Paths, header \in Headers : Arrive(v, path, header)
       \/ Enter(v) \/ Progress(v) \/ Disconnect(v)
  \/ \E c \in Clients : Expire(c) /\ UNCHANGED <<auth, visit>>
  \/ Tick

Spec == Init /\ [][Next]_vars

\* The semaphore is first come, first served: nobody waits for ever while
\* permits come free.
Fairness == \A v \in Connections : WF_vars(Progress(v)) /\ SF_vars(Enter(v))
FairSpec == Spec /\ Fairness
-----------------------------------------------------------------------------
(* Properties.                                                             *)

Stages == {"idle", "queued", "authenticating", "limiting", "handling", "answered"}

Entries == UNION {Range(config.apiKeys) : config \in AuthConfigs}

TypeOK ==
  /\ LimiterTypeOK
  /\ auth \in AuthConfigs
  /\ visit \in [Connections ->
       [stage : Stages, path : Paths \cup {"none"}, header : Headers,
        identity : SUBSET Entries, token : {"none", "paid", "failOpen"},
        response : [status : {0, 200} \cup Range(StatusOf), retryAfter : Nat]]]

\* The keys whose wait may be 0 although nothing failed: those that drain.
Drains(entry) == EffectiveLimit(auth, entry).rate < 0

\* With auth on, a request in a handler has presented a configured key, and its
\* client has paid a token, unless Redis failed or the key drains: of any other
\* key, also a very fast one or one that never refills, the wait in whole seconds
\* is never 0, which the middleware would take for a failure of Redis.
HandledHavePaid ==
  \A v \in Connections :
    visit[v].stage = "handling" /\ auth.enabled =>
      /\ visit[v].header \in {entry.key : entry \in visit[v].identity}
      /\ \/ visit[v].token = "paid"
         \/ visit[v].token = "failOpen"
            /\ (backend = "redis" \/ \E entry \in visit[v].identity : Drains(entry))

=============================================================================
