----------------------------- MODULE MCAdmission -----------------------------
(* Two connections and six gateways to start: for a client whose keys       *)
(* differ in burst, for one whose keys differ in rate, for keys that fill   *)
(* too slowly for Redis, that never refill and that drain, and without auth.*)
EXTENDS Admission, TLC

CONSTANTS alice, bob, carol, dave, erin, v1, v2

MCClients == {alice, bob, carol, dave, erin}
MCOffsets == {-1, 0}       \* a call that took a tick, or a gateway that is behind
MCConnections == {v1, v2}

Default == [capacity |-> 1, rate |-> 1]
Large == [capacity |-> 2, rate |-> 1]
Fast == [capacity |-> 2, rate |-> 3]
Slow == [capacity |-> 3, rate |-> 1]
Frozen == [capacity |-> 1, rate |-> 0]
Draining == [capacity |-> 2, rate |-> -3]

MCLimitsOf ==
  [c \in MCClients |-> CASE c = alice -> {Default, Large} [] c = bob -> {Default, Fast}
                         [] c = carol -> {Slow} [] c = dave -> {Frozen}
                         [] c = erin -> {Draining}]

Key(key, client, override, limit) ==
  [key |-> key, client |-> client, override |-> override, limit |-> limit]
Auth(enabled, apiKeys) ==
  [enabled |-> enabled, rateLimit |-> Default, apiKeys |-> apiKeys]

\* The key "k1" is listed twice.
MCAuthConfigs ==
  {Auth(TRUE, <<Key("k1", alice, FALSE, Large), Key("k2", alice, TRUE, Large),
                Key("k1", alice, TRUE, Large)>>),
   Auth(TRUE, <<Key("k1", bob, FALSE, Fast), Key("k2", bob, TRUE, Fast)>>),
   Auth(TRUE, <<Key("k1", dave, TRUE, Frozen)>>),
   Auth(TRUE, <<Key("k1", carol, TRUE, Slow)>>),
   Auth(TRUE, <<Key("k1", erin, TRUE, Draining)>>),
   Auth(FALSE, <<>>)}
=============================================================================
