------------------------------ MODULE Lifecycle ------------------------------
(***************************************************************************)
(* The life of the process (src/src/main.rs): its configuration is loaded, *)
(* the route manager starts, the router is built for the routes of that    *)
(* moment, requests are served while routes.yaml changes, and a signal     *)
(* ends it once the requests in flight are done.                           *)
(***************************************************************************)
EXTENDS RouteReload, GatewayConfig

CONSTANTS ConfigFiles,       \* contents of config.yaml; <<>> if it cannot be read
          Environments,      \* the MELIS_* variables that are set
          RoutablePaths,     \* paths axum accepts: those that start with "/"
          RequestPaths,      \* paths that clients ask for
          Connections

VARIABLES phase,             \* of main
          config,            \* gateway_config: at most one
          registered,        \* the paths the router was built with
          request            \* on each connection

vars == <<reloadVars, phase, config, registered, request>>

\* Whatever path is configured, the operating system can make it absolute.
ASSUME PathAssumption ==
  \A file \in ConfigFiles \cup {DevFile}, env \in Environments :
    \A c \in Load(file, env) : c.routesConfigPath \in DOMAIN AbsolutePath

NoRequest == [stage |-> "idle", path |-> "none", route |-> <<>>]

Init ==
  /\ ReloadInit
  /\ phase = "starting" /\ config = {} /\ registered = {}
  /\ request = [v \in Connections |-> NoRequest]

Panic ==
  /\ phase' = "panicked"
  /\ loop' = "dead"
  /\ UNCHANGED <<editorVars, notices, channel, watchedFile, fetched, inForce, unseen, registered,
                 request>>

\* main: a config.yaml that cannot be loaded is replaced by the development
\* configuration, which has to be valid in this environment.
Configure(file, env) ==
  LET own == Load(file, env)
      loaded == IF own = {} THEN Load(DevFile, env) ELSE own
  IN /\ phase = "starting"
     /\ config' = loaded
     /\ \/ loaded = {} /\ Panic
        \/ loaded # {} /\ phase' = "configured"
           /\ UNCHANGED <<reloadVars, registered, request>>

\* RouteConfigManager::new, in two steps: what happens to the file in between
\* is not noticed.
LoadRoutes ==
  /\ phase = "configured"
  /\ \E c \in config : LoadInitial(c.routesConfigPath)
  /\ phase' = IF loop' = "dead" THEN "panicked" ELSE phase
  /\ UNCHANGED <<config, registered, request>>

WatchRoutes ==
  /\ phase = "configured"
  /\ Watch
  /\ phase' = "managed"
  /\ UNCHANGED <<config, registered, request>>

\* TcpListener::bind, which may find the address taken.
Bind ==
  /\ phase = "managed"
  /\ \/ Panic
     \/ phase' = "bound" /\ UNCHANGED <<reloadVars, registered, request>>
  /\ UNCHANGED config

\* build_router: every path of the configuration that is in force now, and one
\* for chat; /v1/embeddings has a handler of its own.
BuildRouter ==
  LET paths == {inForce.routes[i].path : i \in DOMAIN inForce.routes}
  IN /\ phase = "bound"
     /\ \/ /\ paths \subseteq RoutablePaths
           /\ registered' = paths \cup {"/v1/chat/completions", "/v1/embeddings"}
           /\ phase' = "serving"
           /\ UNCHANGED <<reloadVars, request>>
        \/ ~(paths \subseteq RoutablePaths) /\ Panic
     /\ UNCHANGED config

\* Fault: the listener stays open after the signal.
ReceiveWhileDraining(v, path) ==
  /\ phase \in {"serving", "draining"} /\ request[v].stage # "handling"
  /\ path \in registered
  /\ request' = [request EXCEPT ![v] = [stage |-> "handling", path |-> path, route |-> <<>>]]
  /\ UNCHANGED <<reloadVars, phase, config, registered>>

\* A request to a path the router does not know is answered 404.  Any other
\* takes the resolver of the moment and keeps it to its end.
Receive(v, path) ==
  /\ phase = "serving" /\ request[v].stage # "handling"
  /\ request' = [request EXCEPT ![v] =
       IF path \in registered
         THEN [stage |-> "handling", path |-> path,
               route |-> ResolvedRoute(inForce, path, "asked", CompactorDefaults).providers]
         ELSE [stage |-> "notFound", path |-> path, route |-> <<>>]]
  /\ UNCHANGED <<reloadVars, phase, config, registered>>

\* The handler ends, or its client leaves.
Finish(v) ==
  /\ request[v].stage = "handling"
  /\ request' = [request EXCEPT ![v] = NoRequest]
  /\ UNCHANGED <<reloadVars, phase, config, registered>>

\* SIGTERM or SIGINT: no new requests.  The configured timeout is only logged.
Signal ==
  /\ phase = "serving"
  /\ phase' = "draining"
  /\ UNCHANGED <<reloadVars, config, registered, request>>

\* with_graceful_shutdown returns; the runtime ends and the reload task with it.
Stop ==
  /\ phase = "draining"
  /\ \A v \in Connections : request[v].stage # "handling"
  /\ phase' = "stopped"
  /\ loop' = "dead"
  /\ UNCHANGED <<editorVars, notices, channel, watchedFile, fetched, inForce, unseen, config,
                 registered, request>>

Background == Edit \/ Notify \/ Reload

StartUp ==
  \/ \E file \in ConfigFiles, env \in Environments : Configure(file, env)
  \/ LoadRoutes \/ WatchRoutes \/ Bind \/ BuildRouter

Running == phase \notin {"panicked", "stopped"}

Next ==
  \/ StartUp \/ Signal \/ Stop
  \/ \E v \in Connections : Finish(v) \/ \E path \in RequestPaths : Receive(v, path)
  \/ Running /\ Background /\ UNCHANGED <<phase, config, registered, request>>

Spec == Init /\ [][Next]_vars

Live(action) == Running /\ action /\ UNCHANGED <<phase, config, registered, request>>

\* The callback's thread and the reload task run, and the server notices that the
\* last handler has ended.  That a handler ends is not promised: a client that
\* reads its stream no further, or does not send the rest of its request, holds
\* its connection, and no timeout covers that.
Fairness == WF_vars(Live(Notify)) /\ WF_vars(Live(Reload)) /\ WF_vars(Stop)
FairSpec == Spec /\ Fairness
-----------------------------------------------------------------------------
(* Properties.                                                             *)

TypeOK ==
  /\ ReloadTypeOK
  /\ phase \in {"starting", "configured", "managed", "bound", "serving", "draining",
                "stopped", "panicked"}
  /\ Cardinality(config) <= 1
  /\ \A v \in Connections : request[v].stage \in {"idle", "handling", "notFound"}

\* The process never serves on settings that validation would refuse, whatever
\* the environment sets after the file has been read.
ServesOnValidConfig ==
  phase \in {"serving", "draining"} => \E c \in config : ConfigErrors(c) = {}

\* Of the routes in force at most one answers to a path and a method, however
\* the method is written: it does not matter which one lookup prefers.
RoutesAreUnambiguous ==
  phase \in {"serving", "draining"} =>
    \A i, j \in DOMAIN inForce.routes :
      RouteKey(inForce.routes[i]) = RouteKey(inForce.routes[j]) => i = j

\* Once told to stop, the process ends, unless one of the requests that were in
\* flight never does: those that keep coming cannot hold it, not even in turns.
StopsGracefully ==
  phase = "draining" ~>
    phase = "stopped" \/ \E v \in Connections : [](request[v].stage = "handling")

\* What README.md says of a route that is added ("Save the file. The gateway
\* detects changes in ~5 seconds (hot-reload)."): a path in force is served.
AddedRoutesAreServed ==
  [][\A v \in Connections :
       request'[v].stage = "notFound" /\ request'[v] # request[v] =>
         request'[v].path \notin {inForce.routes[i].path : i \in DOMAIN inForce.routes}]_vars
=============================================================================
