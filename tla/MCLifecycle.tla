----------------------------- MODULE MCLifecycle -----------------------------
(* A routes file, one with a second route, one whose two routes differ only  *)
(* in the case of the method, one with an unknown provider, and one that is  *)
(* no YAML; settings that are complete, incomplete, or wrong.                *)
EXTENDS Lifecycle

MCUppercase == [method \in {"POST", "post", ""} |-> IF method = "post" THEN "POST" ELSE method]

RouteTo(path, method, provider) ==
  [path |-> path, method |-> method, provider |-> {provider}, providers |-> {},
   model |-> {}, tokens |-> {}]
Small == Yaml(<<RouteTo("/a", "POST", "openai")>>, {})
Grown == Yaml(<<RouteTo("/a", "POST", "ollama"),
               [RouteTo("/b", "post", "mine") EXCEPT !.model = {"m"}]>>, {"mine"})
Twice == Yaml(<<RouteTo("/a", "POST", "openai"), RouteTo("/a", "post", "ollama")>>, {})
MCFiles == {Small, Grown, Twice}

Provider(type, key) ==
  [id |-> "p", providerType |-> type, baseUrl |-> "http://p", apiKey |-> key]
Complete ==
  [clusterUrls |-> <<"redis://r">>, port |-> 9090,
   providers |-> <<Provider("openai", "k"), Provider("vertex_anthropic", "")>>]
WithoutKey == [clusterUrls |-> <<"redis://r">>, providers |-> <<Provider("openai", " ")>>]
Incomplete == [port |-> 9090]
MCConfigFiles == {Complete, WithoutKey, Incomplete}

\* The path of routes.yaml is the relative default or set in the environment.
MCEnvironments ==
  {<<>>, [port |-> 0],
   [port |-> 70000, host |-> "h", routesConfigPath |-> "/app/routes.yaml"]}

MCAbsolutePath ==
  [path \in {"./routes.yaml", "/app/routes.yaml"} |->
     IF path = "./routes.yaml" THEN "/melis/./routes.yaml" ELSE path]
=============================================================================
