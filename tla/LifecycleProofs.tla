--------------------------- MODULE LifecycleProofs ---------------------------
(***************************************************************************)
(* Proofs about Lifecycle: whatever editors do to routes.yaml, whenever    *)
(* events arrive, are dropped or are drained, and whatever the files and   *)
(* the environment contain.                                                *)
(***************************************************************************)
EXTENDS Lifecycle, FiniteSetTheorems, TLAPS

\* The routes of a file are a list.
Listed(file) == \E n \in Nat : DOMAIN file.routes = 1..n

\* In a usable file no two routes have one key.
LEMMA UsableIsUnambiguous ==
  ASSUME NEW file, Usable(file), Listed(file),
         NEW i \in DOMAIN file.routes, NEW j \in DOMAIN file.routes,
         RouteKey(file.routes[i]) = RouteKey(file.routes[j])
  PROVE  i = j
<1> DEFINE routes == file.routes
<1>1. PICK n \in Nat : DOMAIN routes = 1..n
  BY DEF Listed
<1>2. ASSUME NEW k \in DOMAIN routes
      PROVE  /\ MissingFields(k, routes[k]) = {}
             /\ Duplicates(routes, k) = {}
  BY DEF Usable, ErrorsOf
<1>3. ASSUME NEW k \in DOMAIN routes
      PROVE  routes[k].path \notin Blank /\ routes[k].method \notin Blank
  BY <1>2 DEF MissingFields
<1>4. ASSUME NEW k \in DOMAIN routes, NEW l \in DOMAIN routes, k < l,
             RouteKey(routes[k]) = RouteKey(routes[l])
      PROVE  FALSE
  <2>1. k \in {m \in 1..(l - 1) : RouteKey(routes[m]) = RouteKey(routes[l])}
    BY <1>1, <1>4
  <2>2. Duplicates(routes, l) # {}
    BY <1>3, <2>1 DEF Duplicates
  <2> QED
    BY <1>2, <2>2
<1>5. i \in Int /\ j \in Int
  BY <1>1
<1> QED
  BY <1>4, <1>5

\* What editors leave on the disk is a list of routes.
LEMMA FilesAreListed ==
  ASSUME NEW file \in Files
  PROVE  Listed(file) /\ \A torn \in Torn(file) : Listed(torn)
<1>1. file = Yaml(file.routes, file.custom) /\ file.routes \in Seq(Range(file.routes))
  BY ReloadAssumption
<1>2. DOMAIN file.routes = 1..Len(file.routes) /\ Len(file.routes) \in Nat
  BY <1>1
<1>3. Listed(Unreadable)
  <2>1. DOMAIN Unreadable.routes = 1..0
    BY DEF Unreadable
  <2> QED
    BY <2>1 DEF Listed
<1>4. ASSUME NEW n \in DOMAIN file.routes, NEW last
      PROVE  Listed([file EXCEPT !.routes = Append(SubSeq(file.routes, 1, n - 1), last)])
  <2> DEFINE routes == Append(SubSeq(file.routes, 1, n - 1), last)
             S == Range(file.routes) \cup {last}
  <2>1. [file EXCEPT !.routes = routes].routes = routes
    BY <1>1 DEF Yaml
  <2>2. SubSeq(file.routes, 1, n - 1) \in Seq(S) /\ last \in S
    <3>1. file.routes \in Seq(S)
      BY <1>1
    <3>2. n \in Int /\ n <= Len(file.routes)
      BY <1>2
    <3>3. last \in S
      OBVIOUS
    <3> HIDE DEF S
    <3> DEFINE list == file.routes
    <3>4. list \in Seq(S) /\ Len(list) \in Nat
      BY <3>1, <1>2
    <3> HIDE DEF list
    <3>5. \A k \in Int : k <= Len(list) => SubSeq(list, 1, k) \in Seq(S)
      BY <3>4
    <3> QED
      BY <3>2, <3>3, <3>5 DEF list
  <2> HIDE DEF S
  <2>3. routes \in Seq(S)
    BY <2>2
  <2>4. DOMAIN routes = 1..Len(routes) /\ Len(routes) \in Nat
    BY <2>3
  <2> HIDE DEF routes
  <2>5. Listed([file EXCEPT !.routes = routes])
    BY <2>1, <2>4 DEF Listed
  <2> QED
    BY <2>5 DEF routes
<1>5. ASSUME NEW torn \in Torn(file) PROVE Listed(torn)
  <2>1. CASE torn = Unreadable
    BY <1>3, <2>1
  <2>2. CASE torn # Unreadable
    <3>1. PICK n \in DOMAIN file.routes : \E last \in CutShort(file.routes[n]) :
            torn = [file EXCEPT !.routes = Append(SubSeq(file.routes, 1, n - 1), last)]
      <4> DEFINE cut(n) == {[file EXCEPT !.routes = Append(SubSeq(file.routes, 1, n - 1), last)] :
                              last \in CutShort(file.routes[n])}
      <4>1. torn \in UNION {cut(n) : n \in DOMAIN file.routes}
        BY <2>2, Zenon DEF Torn
      <4>2. PICK n \in DOMAIN file.routes : torn \in cut(n)
        BY <4>1, Zenon
      <4> QED
        BY <4>2, Zenon
    <3> QED
      BY <1>4, <3>1
  <2> QED
    BY <2>1, <2>2
<1> QED
  BY <1>2, <1>5 DEF Listed
-----------------------------------------------------------------------------
(* The inductive invariant.                                                *)

Loops == {"off", "loaded", "dead", "waiting", "debouncing", "reading", "storing"}

Counts ==
  /\ channel \in Nat /\ notices \in Nat
  /\ loop \in Loops /\ unseen \in BOOLEAN

\* Before the directory is watched nothing is seen to change.
NothingMissedYet == loop \in {"off", "loaded"} => ~unseen

ContentsListed ==
  /\ Listed(disk) /\ Listed(fetched) /\ Listed(inForce)
  /\ writing \subseteq Files

\* The router is built and used while the reload task runs.
ManagedIsWatched == phase \in {"managed", "bound", "serving", "draining"} => Watching

ConfigIsValid ==
  phase \notin {"starting", "panicked", "stopped"} => \E c \in config : ConfigErrors(c) = {}

IInv ==
  /\ Counts /\ NothingMissedYet /\ ContentsListed /\ ManagedIsWatched /\ ConfigIsValid
  /\ InForceIsUsable /\ ChangesArePending

RouteInv ==
  Counts /\ NothingMissedYet /\ ContentsListed /\ InForceIsUsable /\ ChangesArePending

LEMMA InitEstablishes == Init => IInv
<1> SUFFICES ASSUME Init PROVE IInv
  OBVIOUS
<1>1. Listed(Unreadable)
  <2>1. DOMAIN Unreadable.routes = 1..0
    BY DEF Unreadable
  <2> QED
    BY <2>1 DEF Listed
<1>2. Listed(disk) /\ Listed(fetched) /\ Listed(inForce)
  BY <1>1, FilesAreListed DEF Init, ReloadInit
<1> QED
  BY <1>2
     DEF Init, ReloadInit, IInv, Counts, Loops, NothingMissedYet, ContentsListed, Watching,
         ManagedIsWatched, ConfigIsValid, InForceIsUsable, ChangesArePending

\* Edits, noticed or not.
LEMMA EditKeeps ==
  ASSUME RouteInv, Edit
  PROVE  RouteInv' /\ loop' = loop
<1>1. UNCHANGED <<channel, watchedFile, loop, fetched, inForce>>
  BY DEF Edit, StartWriting, RenameOver, FinishWriting, Remove, loopVars
<1>2. Changed \/ UNCHANGED <<notices, unseen>>
  BY DEF Edit, StartWriting, RenameOver, FinishWriting, Remove
<1>3. Listed(disk') /\ writing' \subseteq Files
  <2>1. ASSUME NEW file \in Files, StartWriting(file)
        PROVE  Listed(disk') /\ writing' \subseteq Files
    BY <2>1, FilesAreListed DEF StartWriting
  <2>2. ASSUME NEW file \in Files, RenameOver(file)
        PROVE  Listed(disk') /\ writing' \subseteq Files
    BY <2>2, FilesAreListed DEF RenameOver, RouteInv, ContentsListed
  <2>3. ASSUME FinishWriting PROVE Listed(disk') /\ writing' \subseteq Files
    BY <2>3, FilesAreListed DEF FinishWriting, RouteInv, ContentsListed
  <2>4. ASSUME Remove PROVE Listed(disk') /\ writing' \subseteq Files
    <3>1. DOMAIN Unreadable.routes = 1..0
      BY DEF Unreadable
    <3> QED
      BY <2>4, <3>1 DEF Remove, RouteInv, ContentsListed, Listed
  <2> QED
    BY <2>1, <2>2, <2>3, <2>4 DEF Edit
<1>4. ContentsListed'
  BY <1>1, <1>3 DEF RouteInv, ContentsListed, Listed
<1>5. InForceIsUsable'
  BY <1>1 DEF RouteInv, InForceIsUsable
<1>6. Counts' /\ NothingMissedYet' /\ ChangesArePending'
  <2>1. CASE UNCHANGED <<notices, unseen>>
    BY <1>1, <2>1 DEF RouteInv, Counts, NothingMissedYet, ChangesArePending, Watching
  <2>2. CASE Watching /\ notices' = notices + 1 /\ unseen' = TRUE
    BY <1>1, <2>2 DEF RouteInv, Counts, NothingMissedYet, ChangesArePending, Watching
  <2> QED
    BY <1>2, <2>1, <2>2 DEF Changed
<1> QED
  BY <1>1, <1>4, <1>5, <1>6 DEF RouteInv

\* The callback: when it gives up, the channel holds an event that will be followed.
LEMMA NotifyKeeps ==
  ASSUME RouteInv, Notify
  PROVE  RouteInv' /\ loop' = loop
<1>1. UNCHANGED <<disk, writing, watchedFile, loop, fetched, inForce, unseen>>
  BY DEF Notify, loopVars, editorVars
<1>2. channel' \in Nat /\ (IsOurFile(watchedFile) => channel' > 0) /\ notices' \in Nat
  BY ReloadAssumption DEF RouteInv, Counts, Notify
<1> QED
  BY <1>1, <1>2
     DEF RouteInv, Counts, NothingMissedYet, ChangesArePending, ContentsListed, Listed,
         InForceIsUsable, IsOurFile, Watching

LEMMA ReloadKeeps ==
  ASSUME RouteInv, Reload
  PROVE  RouteInv' /\ (Watching => Watching')
<1>1. UNCHANGED <<disk, writing, notices, watchedFile>>
  BY DEF Reload, Wake, Drain, Read, Store, editorVars
<1>2. ASSUME Wake PROVE RouteInv' /\ (Watching => Watching')
  BY <1>1, <1>2
     DEF Wake, RouteInv, Counts, Loops, NothingMissedYet, ChangesArePending, ContentsListed,
         Listed, InForceIsUsable, Watching
<1>3. ASSUME Drain PROVE RouteInv' /\ (Watching => Watching')
  BY <1>1, <1>3
     DEF Drain, RouteInv, Counts, Loops, NothingMissedYet, ChangesArePending, ContentsListed,
         Listed, InForceIsUsable, Watching
<1>4. ASSUME Read PROVE RouteInv' /\ (Watching => Watching')
  BY <1>1, <1>4
     DEF Read, RouteInv, Counts, Loops, NothingMissedYet, ChangesArePending, ContentsListed,
         Listed, InForceIsUsable, Watching
<1>5. ASSUME Store PROVE RouteInv' /\ (Watching => Watching')
  <2>1. /\ inForce' = (IF Usable(fetched) THEN fetched ELSE inForce)
        /\ loop = "storing" /\ loop' = "waiting" /\ fetched' = Unreadable
        /\ UNCHANGED <<channel, unseen>>
    BY <1>5 DEF Store
  <2>2. Usable(inForce')
    BY <2>1 DEF RouteInv, InForceIsUsable
  <2>3. Listed(inForce') /\ Listed(fetched')
    <3>1. DOMAIN Unreadable.routes = 1..0
      BY DEF Unreadable
    <3> QED
      BY <2>1, <3>1 DEF RouteInv, ContentsListed, Listed
  <2>4. InForceIsUsable' /\ ContentsListed'
    BY <1>1, <2>2, <2>3 DEF InForceIsUsable, ContentsListed, RouteInv, Listed
  <2> QED
    BY <1>1, <2>1, <2>4
       DEF RouteInv, Counts, Loops, NothingMissedYet, ChangesArePending, Watching
<1> QED
  BY <1>2, <1>3, <1>4, <1>5 DEF Reload

LEMMA StartUpKeeps ==
  ASSUME IInv, StartUp
  PROVE  IInv'
<1>1. RouteInv /\ ManagedIsWatched /\ ConfigIsValid
  BY DEF IInv, RouteInv
<1>d. ASSUME Panic PROVE RouteInv' /\ ManagedIsWatched'
  BY <1>1, <1>d
     DEF Panic, RouteInv, Counts, Loops, NothingMissedYet, ChangesArePending, ContentsListed,
         Listed, InForceIsUsable, Watching, ManagedIsWatched, editorVars
<1>u. ASSUME UNCHANGED reloadVars PROVE RouteInv' /\ (Watching' <=> Watching)
  BY <1>1, <1>u
     DEF RouteInv, Counts, Loops, NothingMissedYet, ChangesArePending, ContentsListed,
         Listed, InForceIsUsable, Watching, reloadVars, editorVars, loopVars
<1>2. ASSUME NEW file \in ConfigFiles, NEW env \in Environments, Configure(file, env)
      PROVE  IInv'
  <2> DEFINE own == Load(file, env)
             loaded == IF own = {} THEN Load(DevFile, env) ELSE own
  <2>1. \A c \in loaded : ConfigErrors(c) = {}
    BY DEF Load
  <2> HIDE DEF loaded
  <2>2. /\ config' = loaded
        /\ \/ Panic
           \/ loaded # {} /\ phase' = "configured" /\ UNCHANGED reloadVars
    BY <1>2 DEF Configure, loaded
  <2>3. ConfigIsValid'
    BY <2>1, <2>2 DEF ConfigIsValid, Panic
  <2>4. RouteInv' /\ ManagedIsWatched'
    BY <1>d, <1>u, <2>2 DEF ManagedIsWatched
  <2> QED
    BY <2>3, <2>4 DEF IInv, RouteInv
<1>3. ASSUME LoadRoutes PROVE IInv'
  <2>1. /\ UNCHANGED <<disk, writing, notices, channel, fetched, unseen, config>>
        /\ phase = "configured" /\ loop = "off"
        /\ \/ Usable(disk) /\ loop' = "loaded" /\ inForce' = disk
           \/ loop' = "dead" /\ UNCHANGED inForce
        /\ phase' = (IF loop' = "dead" THEN "panicked" ELSE phase)
    BY <1>3 DEF LoadRoutes, LoadInitial, editorVars
  <2>2. InForceIsUsable'
    BY <2>1 DEF InForceIsUsable
  <2>3. ContentsListed'
    BY <1>1, <2>1 DEF RouteInv, ContentsListed, Listed
  <2>4. Counts' /\ NothingMissedYet' /\ ChangesArePending' /\ ManagedIsWatched' /\ ConfigIsValid'
    BY <1>1, <2>1
       DEF RouteInv, Counts, Loops, NothingMissedYet, ChangesArePending, Watching,
           ManagedIsWatched, ConfigIsValid
  <2> QED
    BY <2>2, <2>3, <2>4 DEF IInv
<1>4. ASSUME WatchRoutes PROVE IInv'
  <2>1. /\ UNCHANGED <<disk, writing, notices, channel, watchedFile, fetched, inForce, unseen, config>>
        /\ phase = "configured" /\ phase' = "managed" /\ loop = "loaded" /\ loop' = "waiting"
    BY <1>4 DEF WatchRoutes, Watch, editorVars
  <2>2. InForceIsUsable' /\ ContentsListed'
    BY <1>1, <2>1 DEF RouteInv, ContentsListed, Listed, InForceIsUsable
  <2>4. Counts' /\ NothingMissedYet' /\ ChangesArePending' /\ ManagedIsWatched' /\ ConfigIsValid'
    BY <1>1, <2>1
       DEF RouteInv, Counts, Loops, NothingMissedYet, ChangesArePending, Watching,
           ManagedIsWatched, ConfigIsValid
  <2> QED
    BY <2>2, <2>4 DEF IInv
<1>5. ASSUME Bind \/ BuildRouter PROVE IInv'
  <2>1. /\ phase \in {"managed", "bound"} /\ UNCHANGED config
        /\ Panic \/ (phase' \in {"bound", "serving"} /\ UNCHANGED reloadVars)
    BY <1>5 DEF Bind, BuildRouter
  <2>2. ConfigIsValid'
    BY <1>1, <2>1 DEF ConfigIsValid, Panic
  <2>3. RouteInv' /\ ManagedIsWatched'
    BY <1>1, <1>d, <1>u, <2>1 DEF ManagedIsWatched
  <2> QED
    BY <2>2, <2>3 DEF IInv, RouteInv
<1> QED
  BY <1>2, <1>3, <1>4, <1>5 DEF StartUp

LEMMA NextPreserves == IInv /\ [Next]_vars => IInv'
<1> SUFFICES ASSUME IInv, [Next]_vars PROVE IInv'
  OBVIOUS
<1>1. RouteInv /\ ManagedIsWatched /\ ConfigIsValid
  BY DEF IInv, RouteInv
<1>2. CASE StartUp
  BY <1>2, StartUpKeeps
<1>3. ASSUME UNCHANGED <<reloadVars, config>>,
             phase' = phase \/ (phase = "serving" /\ phase' = "draining")
      PROVE  IInv'
  BY <1>1, <1>3
     DEF IInv, RouteInv, Counts, NothingMissedYet, ChangesArePending, ContentsListed,
         Listed, InForceIsUsable, Watching, ManagedIsWatched, ConfigIsValid, reloadVars,
         editorVars, loopVars
<1>4. CASE Signal
  BY <1>3, <1>4 DEF Signal
<1>5. CASE \E v \in Connections : Finish(v) \/ \E path \in RequestPaths : Receive(v, path)
  BY <1>3, <1>5 DEF Finish, Receive
<1>6. CASE Stop
  BY <1>1, <1>6
     DEF Stop, IInv, RouteInv, Counts, Loops, NothingMissedYet, ChangesArePending,
         ContentsListed, Listed, InForceIsUsable, Watching, ManagedIsWatched, ConfigIsValid,
         editorVars
<1>7. CASE Running /\ Background /\ UNCHANGED <<phase, config, registered, request>>
  <2>1. RouteInv' /\ (Watching => Watching')
    BY <1>1, <1>7, EditKeeps, NotifyKeeps, ReloadKeeps DEF Background, Watching
  <2> QED
    BY <1>1, <1>7, <2>1 DEF IInv, RouteInv, ManagedIsWatched, ConfigIsValid
<1>8. CASE UNCHANGED vars
  BY <1>3, <1>8 DEF vars
<1> QED
  BY <1>2, <1>4, <1>5, <1>6, <1>7, <1>8 DEF Next
-----------------------------------------------------------------------------
\* The invariant holds from the start of the process to its end.
THEOREM Inductive == Spec => []IInv
BY InitEstablishes, NextPreserves, PTL DEF Spec

\* From the first file on, the routes in force were valid as a whole.
THEOREM UsableInForce == Spec => []InForceIsUsable
<1>1. IInv => InForceIsUsable
  BY DEF IInv
<1> QED
  BY <1>1, Inductive, PTL

\* However small the channel and however many events it turns away, a change of
\* a file with an absolute path that has not been read is followed by a read.
THEOREM NoChangeIsLost == Spec => []ChangesArePending
<1>1. IInv => ChangesArePending
  BY DEF IInv
<1> QED
  BY <1>1, Inductive, PTL

\* Whatever config.yaml and the environment say, requests are served on settings
\* that validation accepts.
THEOREM ValidConfigServes == Spec => []ServesOnValidConfig
<1>1. IInv => ServesOnValidConfig
  BY DEF IInv, ConfigIsValid, ServesOnValidConfig
<1> QED
  BY <1>1, Inductive, PTL

\* A request finds at most one route, for every routes.yaml and every reload.
THEOREM UnambiguousRoutes == Spec => []RoutesAreUnambiguous
<1>1. IInv => RoutesAreUnambiguous
  <2> SUFFICES ASSUME IInv, phase \in {"serving", "draining"},
                      NEW i \in DOMAIN inForce.routes, NEW j \in DOMAIN inForce.routes,
                      RouteKey(inForce.routes[i]) = RouteKey(inForce.routes[j])
               PROVE  i = j
    BY DEF RoutesAreUnambiguous
  <2>1. Usable(inForce) /\ Listed(inForce)
    BY DEF IInv, ManagedIsWatched, InForceIsUsable, ContentsListed, Watching
  <2> QED
    BY <2>1, UsableIsUnambiguous
<1> QED
  BY <1>1, Inductive, PTL
-----------------------------------------------------------------------------
(* Types: every variable keeps to its values, the bounds on edits and on    *)
(* the channel among them, and the process has at most one configuration.   *)

\* Every configuration says where routes.yaml is.
PathsKnown == \A c \in config : c.routesConfigPath \in DOMAIN AbsolutePath

AtMostOne(S) == \A a, b \in S : a = b

LEMMA OneOrNone ==
  ASSUME NEW S, AtMostOne(S)
  PROVE  Cardinality(S) <= 1
<1>1. CASE S = {}
  BY <1>1, FS_EmptySet
<1>2. CASE S # {}
  <2>1. PICK x \in S : TRUE
    BY <1>2
  <2>2. S = {x}
    BY <2>1 DEF AtMostOne
  <2>3. Cardinality({x}) = 1
    BY FS_Singleton
  <2>4. Cardinality(S) = 1
    BY <2>2, <2>3, Zenon
  <2> QED
    BY <2>4
<1> QED
  BY <1>1, <1>2

\* Whatever the file and the environment, loading gives one configuration or none.
LEMMA LoadsAtMostOne ==
  ASSUME NEW file, NEW env
  PROVE  AtMostOne(Load(file, env))
<1>1. AtMostOne(Parse(file))
  BY DEF AtMostOne, Parse
<1> QED
  BY <1>1 DEF AtMostOne, Load

RequestsTyped ==
  /\ request = [v \in Connections |-> request[v]]
  /\ \A v \in Connections : request[v].stage \in {"idle", "handling", "notFound"}

Typed ==
  /\ ReloadTypeOK
  /\ phase \in {"starting", "configured", "managed", "bound", "serving", "draining",
                "stopped", "panicked"}
  /\ AtMostOne(config) /\ PathsKnown
  /\ RequestsTyped

LEMMA EditTyped ==
  ASSUME ReloadTypeOK, Edit
  PROVE  ReloadTypeOK'
<1>1. edits' \in 0..MaxEdits
  BY ReloadAssumption
     DEF Edit, StartWriting, RenameOver, FinishWriting, Remove, ReloadTypeOK
<1>2. writing' \subseteq Files
  BY DEF Edit, StartWriting, RenameOver, FinishWriting, Remove, ReloadTypeOK
<1>3. notices' \in Nat /\ unseen' \in BOOLEAN
  <2>1. Changed \/ UNCHANGED <<notices, unseen>>
    BY DEF Edit, StartWriting, RenameOver, FinishWriting, Remove
  <2>2. \/ notices' = notices + 1 /\ unseen' = TRUE
        \/ notices' = notices /\ unseen' = unseen
    BY <2>1 DEF Changed
  <2>3. notices \in Nat /\ unseen \in BOOLEAN
    BY DEF ReloadTypeOK
  <2>4. notices' \in Nat
    BY <2>2, <2>3
  <2>5. unseen' \in BOOLEAN
    BY <2>2, <2>3, Zenon
  <2> QED
    BY <2>4, <2>5
<1>4. UNCHANGED <<channel, watchedFile, loop>>
  BY DEF Edit, StartWriting, RenameOver, FinishWriting, Remove, loopVars
<1> QED
  BY <1>1, <1>2, <1>3, <1>4 DEF ReloadTypeOK

\* The callback gives up before the channel overflows, and the loop never takes
\* from an empty one.
LEMMA NotifyReloadTyped ==
  ASSUME ReloadTypeOK, Notify \/ Reload
  PROVE  ReloadTypeOK'
<1>1. CASE Notify
  BY <1>1, ReloadAssumption DEF Notify, ReloadTypeOK, editorVars, loopVars
<1>2. CASE Reload
  <2>1. UNCHANGED <<editorVars, notices, watchedFile>> /\ loop' \in Loops /\ unseen' \in BOOLEAN
    BY <1>2 DEF Reload, Wake, Drain, Read, Store, ReloadTypeOK, Loops
  <2>2. channel' \in 0..ChannelSize
    BY <1>2, ReloadAssumption DEF Reload, Wake, Drain, Read, Store, ReloadTypeOK
  <2> QED
    BY <2>1, <2>2 DEF ReloadTypeOK, Loops, editorVars
<1> QED
  BY <1>1, <1>2

LEMMA StartUpTyped ==
  ASSUME Typed, StartUp
  PROVE  Typed'
<1>1. ASSUME Panic PROVE ReloadTypeOK' /\ RequestsTyped' /\ phase' = "panicked"
  BY <1>1 DEF Panic, Typed, ReloadTypeOK, RequestsTyped, editorVars
<1>2. ASSUME UNCHANGED <<reloadVars, request>> PROVE ReloadTypeOK' /\ RequestsTyped'
  BY <1>2 DEF Typed, ReloadTypeOK, RequestsTyped, reloadVars, editorVars, loopVars
<1>3. ASSUME NEW file \in ConfigFiles, NEW env \in Environments, Configure(file, env)
      PROVE  Typed'
  <2>1. AtMostOne(config') /\ PathsKnown'
    BY <1>3, LoadsAtMostOne, PathAssumption DEF Configure, PathsKnown
  <2>2. Panic \/ (phase' = "configured" /\ UNCHANGED <<reloadVars, request>>)
    BY <1>3 DEF Configure
  <2> QED
    BY <1>1, <1>2, <2>1, <2>2 DEF Typed, AtMostOne, PathsKnown
<1>4. CASE LoadRoutes \/ WatchRoutes
  <2>1. /\ UNCHANGED <<editorVars, notices, channel, unseen, config, request>>
        /\ loop' \in {"loaded", "dead", "waiting"}
        /\ phase' \in {"configured", "panicked", "managed"}
        /\ watchedFile' \in DOMAIN AbsolutePath \cup {"none"}
    BY <1>4 DEF LoadRoutes, LoadInitial, WatchRoutes, Watch, Typed, PathsKnown, ReloadTypeOK
  <2> QED
    BY <2>1 DEF Typed, ReloadTypeOK, RequestsTyped, AtMostOne, PathsKnown, editorVars
<1>5. CASE Bind \/ BuildRouter
  <2>1. /\ UNCHANGED config
        /\ Panic \/ (phase' \in {"bound", "serving"} /\ UNCHANGED <<reloadVars, request>>)
    BY <1>5 DEF Bind, BuildRouter
  <2> QED
    BY <1>1, <1>2, <2>1 DEF Typed, AtMostOne, PathsKnown
<1> QED
  BY <1>3, <1>4, <1>5 DEF StartUp

LEMMA TypedNext == Typed /\ [Next]_vars => Typed'
<1> SUFFICES ASSUME Typed, [Next]_vars PROVE Typed'
  OBVIOUS
<1>1. ASSUME UNCHANGED reloadVars PROVE ReloadTypeOK'
  BY <1>1 DEF Typed, ReloadTypeOK, reloadVars, editorVars, loopVars
<1>2. ASSUME NEW v \in Connections, NEW r, request' = [request EXCEPT ![v] = r],
             r.stage \in {"idle", "handling", "notFound"}
      PROVE  RequestsTyped'
  BY <1>2 DEF Typed, RequestsTyped
<1>3. ASSUME NEW v \in Connections, NEW path \in RequestPaths, Receive(v, path)
      PROVE  Typed'
  <2> DEFINE r ==
        IF path \in registered
          THEN [stage |-> "handling", path |-> path,
                route |-> ResolvedRoute(inForce, path, "asked", CompactorDefaults).providers]
          ELSE [stage |-> "notFound", path |-> path, route |-> <<>>]
  <2>1. /\ request' = [request EXCEPT ![v] = r]
        /\ UNCHANGED <<reloadVars, phase, config>>
    BY <1>3 DEF Receive
  <2>2. r.stage \in {"idle", "handling", "notFound"}
    BY DEF r
  <2> HIDE DEF r
  <2>3. RequestsTyped'
    BY <1>2, <2>1, <2>2
  <2> QED
    BY <1>1, <2>1, <2>3 DEF Typed, AtMostOne, PathsKnown
<1>4. ASSUME NEW v \in Connections, Finish(v) PROVE Typed'
  <2>1. NoRequest.stage = "idle"
    BY DEF NoRequest
  <2> QED
    BY <1>1, <1>2, <1>4, <2>1 DEF Finish, Typed, AtMostOne, PathsKnown
<1>5. CASE Signal
  BY <1>1, <1>5 DEF Signal, Typed, AtMostOne, PathsKnown, RequestsTyped
<1>6. CASE Stop
  BY <1>6 DEF Stop, Typed, ReloadTypeOK, AtMostOne, PathsKnown, RequestsTyped, editorVars
<1>7. CASE Running /\ Background /\ UNCHANGED <<phase, config, registered, request>>
  <2>1. ReloadTypeOK'
    BY <1>7, EditTyped, NotifyReloadTyped DEF Background, Typed
  <2> QED
    BY <1>7, <2>1 DEF Typed, AtMostOne, PathsKnown, RequestsTyped
<1>8. CASE UNCHANGED vars
  BY <1>1, <1>8 DEF vars, Typed, AtMostOne, PathsKnown, RequestsTyped
<1> QED
  BY <1>3, <1>4, <1>5, <1>6, <1>7, <1>8, StartUpTyped DEF Next

\* The process keeps its types however it is started, edited and stopped: the
\* channel never exceeds its size and no second configuration is loaded.
THEOREM TypeCorrect == Spec => []TypeOK
<1>1. Init => Typed
  <2> SUFFICES ASSUME Init PROVE Typed
    OBVIOUS
  <2>1. ReloadTypeOK
    <3>1. 0 \in 0..MaxEdits /\ 0 \in 0..ChannelSize
      BY ReloadAssumption
    <3> QED
      BY <3>1 DEF Init, ReloadInit, ReloadTypeOK
  <2>2. RequestsTyped
    BY DEF Init, RequestsTyped, NoRequest
  <2> QED
    BY <2>1, <2>2 DEF Init, Typed, AtMostOne, PathsKnown
<1>2. Typed => TypeOK
  BY OneOrNone DEF Typed, TypeOK, RequestsTyped
<1> QED
  BY <1>1, <1>2, TypedNext, PTL DEF Spec
=============================================================================
