---------------------------- MODULE GatewayConfig ----------------------------
(***************************************************************************)
(* src/src/config.rs: config.yaml, its defaults, the environment and       *)
(* validation.  A configuration is a function from the names of settings   *)
(* to values; a file gives some of them.                                   *)
(*                                                                         *)
(* Strings are told apart only as blank or not, and by what validation     *)
(* compares them with.  Fractions are in hundredths.                       *)
(***************************************************************************)
EXTENDS Integers, Sequences, TLC

CONSTANT BlankText           \* the strings that are empty once trimmed

\* What serde fills in for settings that are absent.
ServerDefaults ==
  [host |-> "0.0.0.0", port |-> 8080, maxPayloadSize |-> 10485760,
   gracefulShutdownTimeoutSecs |-> 30, maxConcurrentConnections |-> 5000]

RedisDefaults == [poolSize |-> 10, connectTimeoutSecs |-> 5, commandTimeoutSecs |-> 2]

CompactorDefaults ==
  [tokenThreshold |-> 4096, maxHistoryMessages |-> 20, stopWords |-> <<>>,
   tokenizerName |-> "cl100k_base", targetTokenRatio |-> 45, minFinalTokens |-> 200,
   criticalMarkers |-> <<>>, preserveCriticalMarkers |-> TRUE,
   strategy |-> "adaptive_trimming"]

CircuitBreakerDefaults ==
  [failureThresholdPercent |-> 5000, windowDurationSecs |-> 60, minRequestsInWindow |-> 5,
   openTtlSecs |-> 30, maxTtlSecs |-> 300, backoffFactor |-> 200]

RateLimitDefaults == [burstCapacity |-> 100, refillRate |-> 1000]

OtelDefaults ==
  [otlpEndpoint |-> "http://localhost:4317", serviceName |-> "melis-gateway",
   otelEnabled |-> FALSE]

OtherDefaults ==
  [providers |-> <<>>, apiKeys |-> <<>>, authEnabled |-> FALSE,
   routesConfigPath |-> "./routes.yaml"]

ProviderDefaults ==
  [apiKey |-> "", weight |-> 1, timeoutSecs |-> 30, models |-> {}, projectId |-> "",
   region |-> ""]

Defaults ==
  ServerDefaults @@ RedisDefaults @@ CompactorDefaults @@ CircuitBreakerDefaults
    @@ RateLimitDefaults @@ OtelDefaults @@ OtherDefaults

\* The settings without a default, and those without one in each provider.
Required == {"clusterUrls"}
ProviderRequired == {"id", "providerType", "baseUrl"}

\* serde_yaml::from_str: the settings of a file completed, or no configuration.
Parse(file) ==
  LET config == file @@ Defaults
      complete(provider) == provider @@ ProviderDefaults
  IN IF /\ Required \subseteq DOMAIN file
        /\ \A i \in DOMAIN config.providers :
             ProviderRequired \subseteq DOMAIN config.providers[i]
       THEN {[config EXCEPT !.providers =
                [i \in DOMAIN config.providers |-> complete(config.providers[i])]]}
       ELSE {}

\* apply_env_overrides: four settings; a port that is no u16 is ignored.
WithEnvironment(config, env) ==
  LET usable == {name \in DOMAIN env \cap {"routesConfigPath", "host", "port", "otlpEndpoint"} :
                   name = "port" => env[name] \in 0..65535}
  IN [name \in usable |-> env[name]] @@ config

ServerErrors(config) ==
  {name \in {"port", "maxPayloadSize", "maxConcurrentConnections"} : config[name] = 0}

RedisErrors(config) ==
     (IF config.clusterUrls = <<>> THEN {"clusterUrls"} ELSE {})
\cup (IF \E i \in DOMAIN config.clusterUrls : config.clusterUrls[i] \in BlankText
        THEN {"clusterUrls"} ELSE {})
\cup (IF config.poolSize = 0 THEN {"poolSize"} ELSE {})

ProviderTypes ==
  {"openai", "anthropic", "google_vertex_ai", "vertex_anthropic", "oci_genai", "ollama"}

\* Vertex authenticates by ADC and needs no key.
ProviderErrors(provider) ==
     {name \in {"id", "baseUrl"} : provider[name] \in BlankText}
\cup (IF provider.providerType # "vertex_anthropic" /\ provider.apiKey \in BlankText
        THEN {"apiKey"} ELSE {})
\cup (IF provider.weight = 0 THEN {"weight"} ELSE {})
\cup (IF provider.providerType \notin ProviderTypes THEN {"providerType"} ELSE {})

CompactorErrors(config) ==
     (IF config.tokenThreshold \notin 512..128000 THEN {"tokenThreshold"} ELSE {})
\cup (IF config.tokenizerName \in BlankText THEN {"tokenizerName"} ELSE {})

RateLimitErrors(config) == {name \in {"burstCapacity", "refillRate"} : config[name] <= 0}

CircuitBreakerErrors(config) ==
     (IF config.failureThresholdPercent <= 0 \/ config.failureThresholdPercent > 10000
        THEN {"failureThresholdPercent"} ELSE {})
\cup {name \in {"windowDurationSecs", "openTtlSecs"} : config[name] = 0}
\cup (IF config.maxTtlSecs < config.openTtlSecs THEN {"maxTtlSecs"} ELSE {})
\cup (IF config.backoffFactor < 100 THEN {"backoffFactor"} ELSE {})

AuthErrors(config) ==
     (IF config.authEnabled /\ config.apiKeys = <<>> THEN {"apiKeys"} ELSE {})
\cup UNION {{name \in {"key", "clientId"} : config.apiKeys[i][name] \in BlankText} :
              i \in DOMAIN config.apiKeys}

\* validate: what is wrong with a configuration, all at once.
ConfigErrors(config) ==
  ServerErrors(config) \cup RedisErrors(config)
    \cup UNION {ProviderErrors(config.providers[i]) : i \in DOMAIN config.providers}
    \cup CompactorErrors(config) \cup RateLimitErrors(config)
    \cup CircuitBreakerErrors(config) \cup AuthErrors(config)

\* Fault: the environment is applied to a configuration that has been validated.
LoadThenOverride(file, env) ==
  {WithEnvironment(config, env) : config \in {c \in Parse(file) : ConfigErrors(c) = {}}}

\* from_yaml, and load where the file can be read: at most one configuration.
Load(file, env) ==
  {config \in {WithEnvironment(parsed, env) : parsed \in Parse(file)} :
     ConfigErrors(config) = {}}

\* default_dev_config.
DevFile ==
  [host |-> "0.0.0.0", port |-> 8080, clusterUrls |-> <<"redis://localhost:6379">>,
   routesConfigPath |-> "./routes.yaml"]
=============================================================================
