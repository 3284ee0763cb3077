-------------------------------- MODULE Routes --------------------------------
(***************************************************************************)
(* The contents of routes.yaml and what the gateway makes of them:         *)
(* validation and lookup (src/src/route_config.rs) and the resolution of a *)
(* request's route (src/src/router.rs).                                    *)
(*                                                                         *)
(* Optional values are sets of at most one element.  A route is a record   *)
(* [path, method, provider, providers, model, tokens]: `provider` an       *)
(* optional name, `providers` an optional sequence of [name, weight],      *)
(* `model` an optional name, `tokens` an optional partial configuration of *)
(* the compactor.                                                          *)
(***************************************************************************)
EXTENDS Naturals, Sequences, FiniteSetsExt, TLC

CONSTANTS Blank,            \* the strings that are empty once trimmed
          Uppercase,        \* to_uppercase, as a function on method names
          KnownProviders    \* KNOWN_PROVIDERS

\* load_routes: what reading and parsing can come to.
Yaml(routes, custom) == [parsed |-> TRUE, routes |-> routes, custom |-> custom]
Unreadable == [parsed |-> FALSE, routes |-> <<>>, custom |-> {}]

MissingField(i, field) == [error |-> "MissingField", route |-> i, about |-> field]
InvalidProvider(i, name) == [error |-> "InvalidProvider", route |-> i, about |-> name]
DuplicateRoute(i, first) == [error |-> "DuplicateRoute", route |-> i, about |-> first]

MissingFields(i, route) ==
     (IF route.path \in Blank THEN {MissingField(i, "path")} ELSE {})
\cup (IF route.method \in Blank THEN {MissingField(i, "method")} ELSE {})
\cup (IF route.provider \subseteq Blank /\ route.providers \subseteq {<<>>}
        THEN {MissingField(i, "provider ou providers")} ELSE {})

InvalidProviders(i, route, custom) ==
  LET listed == UNION {{list[k].name : k \in DOMAIN list} : list \in route.providers}
      named == (route.provider \ Blank) \cup listed
  IN {InvalidProvider(i, name) : name \in named \ (KnownProviders \cup custom)}

\* The key of the lookup map: the path as it is, the method in upper case.
RouteKey(route) == <<route.path, Uppercase[route.method]>>

\* Fault: methods are compared as they are written.
DuplicatesAsWritten(routes, i) ==
  {DuplicateRoute(i, first) : first \in
     {j \in 1..(i - 1) : /\ routes[j].path = routes[i].path /\ routes[j].method = routes[i].method
                         /\ routes[i].path \notin Blank /\ routes[i].method \notin Blank}}

Duplicates(routes, i) ==
  LET earlier == {j \in 1..(i - 1) : RouteKey(routes[j]) = RouteKey(routes[i])}
  IN IF earlier = {} \/ routes[i].path \in Blank \/ routes[i].method \in Blank
       THEN {} ELSE {DuplicateRoute(i, Min(earlier))}

\* validate: all the errors of a parsed file.
ErrorsOf(file) ==
  UNION {   MissingFields(i, file.routes[i])
       \cup InvalidProviders(i, file.routes[i], file.custom)
       \cup Duplicates(file.routes, i) : i \in DOMAIN file.routes}

Usable(file) == file.parsed /\ ErrorsOf(file) = {}
-----------------------------------------------------------------------------
\* RouteResolver::new and resolve_route: a later entry replaces an earlier one.
ResolveRoute(file, path, method) ==
  LET matching == {i \in DOMAIN file.routes :
                     RouteKey(file.routes[i]) = <<path, Uppercase[method]>>}
  IN IF matching = {} THEN {} ELSE {file.routes[Max(matching)]}

\* What a route's `token_optimization` says where it is silent, whatever the
\* global values are.
RouteTokenDefaults ==
  [maxHistoryMessages |-> 20, tokenThreshold |-> 4096, tokenizerName |-> "cl100k_base"]

\* effective_token_config: what the route sets replaces the global values; it
\* cannot set the stop words nor whether critical markers are kept.
EffectiveTokens(route, global) ==
  IF route.tokens = {} THEN global
  ELSE (CHOOSE own \in route.tokens : TRUE) @@ RouteTokenDefaults @@ global

\* extract_providers: a list, even an empty one, hides the single provider.
ExtractProviders(route) ==
  IF route.providers # {} THEN CHOOSE list \in route.providers : TRUE
  ELSE IF route.provider # {}
    THEN <<[name |-> CHOOSE name \in route.provider : TRUE, weight |-> 1]>>
  ELSE <<>>

\* resolve_route_config: without a route, the client's model and nobody to ask.
ResolvedRoute(file, path, model, global) ==
  LET found == ResolveRoute(file, path, "POST")
  IN IF found = {}
       THEN [model |-> model, tokens |-> global, providers |-> <<>>]
       ELSE LET route == CHOOSE r \in found : TRUE
            IN [model |-> IF route.model = {} THEN model ELSE CHOOSE m \in route.model : TRUE,
                tokens |-> EffectiveTokens(route, global),
                providers |-> ExtractProviders(route)]
=============================================================================
