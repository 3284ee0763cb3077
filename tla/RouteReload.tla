----------------------------- MODULE RouteReload -----------------------------
(***************************************************************************)
(* RouteConfigManager of src/src/route_config.rs: routes.yaml is loaded    *)
(* once, then watched and reloaded when it changes.                        *)
(*                                                                         *)
(* Three parties interleave: whoever edits the file, notify's thread, which*)
(* runs the callback for each event of the watched directory, and the task *)
(* of reload_loop.  Editors write in place (the file is incomplete for a   *)
(* while, and may be valid all the same: a prefix of it), rename a new file*)
(* over it, or remove it.                                                  *)
(*                                                                         *)
(* Events are matched with the configured path as it is written.           *)
(***************************************************************************)
EXTENDS Routes

CONSTANTS Files,            \* complete files that editors produce
          AbsolutePath,     \* of each path that can be configured, as the OS sees it
          ChannelSize,      \* events that wait for the loop
          MaxEdits          \* bound: how often the file is edited

VARIABLES disk,             \* the file as a reader finds it
          writing,          \* the file being written in place, if any
          edits,            \* edits so far
          notices,          \* events the callback has not been called for
          channel,          \* events sent to the loop
          watchedFile,      \* the path that events are compared with
          loop,             \* where the manager is
          fetched,          \* what try_reload has read
          inForce,          \* the resolver behind the ArcSwap
          unseen            \* history: the file changed under watch since it was read

editorVars == <<disk, writing, edits>>
loopVars == <<loop, fetched, inForce>>
reloadVars == <<editorVars, notices, channel, watchedFile, loopVars, unseen>>

ASSUME ReloadAssumption ==
  /\ ChannelSize \in Nat \ {0} /\ MaxEdits \in Nat
  /\ \A file \in Files : /\ file = Yaml(file.routes, file.custom)
                         /\ file.routes \in Seq(Range(file.routes))

Watching == loop \in {"waiting", "debouncing", "reading", "storing"}

\* The watcher turns a relative directory into an absolute one and reports files
\* by it; a path is equal to what is reported only if it is absolute itself.
IsOurFile(path) == AbsolutePath[path] = path

\* A route whose optional fields have not all been written yet.
CutShort(route) ==
  {[route EXCEPT !.provider = provider, !.providers = providers, !.model = model,
                 !.tokens = tokens] :
     provider \in {{}, route.provider}, providers \in {{}, route.providers},
     model \in {{}, route.model}, tokens \in {{}, route.tokens}}

\* Files cut short: not YAML, or a list of routes that ends early.
Torn(file) ==
  {Unreadable} \cup
  UNION {{[file EXCEPT !.routes = Append(SubSeq(file.routes, 1, n - 1), last)] :
            last \in CutShort(file.routes[n])} : n \in DOMAIN file.routes}

ReloadInit ==
  /\ disk \in Files \cup {Unreadable}
  /\ writing = {} /\ edits = 0
  /\ notices = 0 /\ channel = 0
  /\ watchedFile = "none"
  /\ loop = "off" /\ fetched = Unreadable /\ inForce = Unreadable
  /\ unseen = FALSE

\* The file changes in a way (Modify or Create) the callback reacts to.
Changed ==
  IF Watching THEN notices' = notices + 1 /\ unseen' = TRUE
              ELSE UNCHANGED <<notices, unseen>>

StartWriting(file) ==
  /\ edits < MaxEdits /\ writing = {}
  /\ edits' = edits + 1
  /\ writing' = {file}
  /\ disk' \in Torn(file)
  /\ Changed
  /\ UNCHANGED <<channel, watchedFile, loopVars>>

FinishWriting ==
  /\ writing # {}
  /\ writing' = {}
  /\ disk' \in writing
  /\ Changed
  /\ UNCHANGED <<edits, channel, watchedFile, loopVars>>

\* Fault: only Modify events count, and a rename is a Create.
RenamedUnnoticed(file) ==
  /\ edits < MaxEdits /\ writing = {}
  /\ edits' = edits + 1
  /\ disk' = file
  /\ unseen' = Watching
  /\ UNCHANGED <<writing, notices, channel, watchedFile, loopVars>>

RenameOver(file) ==
  /\ edits < MaxEdits /\ writing = {}
  /\ edits' = edits + 1
  /\ disk' = file
  /\ Changed
  /\ UNCHANGED <<writing, channel, watchedFile, loopVars>>

\* A removal is an event of another kind: the callback ignores it.
Remove ==
  /\ edits < MaxEdits /\ writing = {}
  /\ edits' = edits + 1
  /\ disk' = Unreadable
  /\ UNCHANGED <<writing, notices, channel, watchedFile, loopVars, unseen>>

\* Fault: the callback sends into a channel without a limit.
NotifyAlways ==
  /\ notices > 0
  /\ notices' = notices - 1
  /\ channel' = IF IsOurFile(watchedFile) THEN channel + 1 ELSE channel
  /\ UNCHANGED <<editorVars, watchedFile, loopVars, unseen>>

\* The callback: an event of our file is sent by try_send, which gives up when the
\* channel is full.
Notify ==
  /\ notices > 0
  /\ notices' = notices - 1
  /\ channel' = IF IsOurFile(watchedFile) /\ channel < ChannelSize
                  THEN channel + 1 ELSE channel
  /\ UNCHANGED <<editorVars, watchedFile, loopVars, unseen>>
-----------------------------------------------------------------------------
\* new: the first file must be valid, or the process panics.
LoadInitial(path) ==
  /\ loop = "off"
  /\ watchedFile' = path
  /\ \/ Usable(disk) /\ loop' = "loaded" /\ inForce' = disk
     \/ ~Usable(disk) /\ loop' = "dead" /\ UNCHANGED inForce
  /\ UNCHANGED <<editorVars, notices, channel, fetched, unseen>>

\* new: the directory is watched, and the loop runs, from here on.
Watch ==
  /\ loop = "loaded"
  /\ loop' = "waiting"
  /\ UNCHANGED <<editorVars, notices, watchedFile, channel, fetched, inForce, unseen>>

\* reload_loop: recv returns, and the task sleeps for 200 ms.
Wake ==
  /\ loop = "waiting" /\ channel > 0
  /\ channel' = channel - 1
  /\ loop' = "debouncing"
  /\ UNCHANGED <<editorVars, notices, watchedFile, fetched, inForce, unseen>>

\* reload_loop: the events that came meanwhile are drained.
Drain ==
  /\ loop = "debouncing"
  /\ channel' = 0
  /\ loop' = "reading"
  /\ UNCHANGED <<editorVars, notices, watchedFile, fetched, inForce, unseen>>

\* try_reload: load_routes reads the file.
Read ==
  /\ loop = "reading"
  /\ fetched' = disk
  /\ unseen' = FALSE
  /\ loop' = "storing"
  /\ UNCHANGED <<editorVars, notices, watchedFile, channel, inForce>>

\* Fault: events that came while the file was read and stored are drained too.
StoreThenDrain ==
  /\ loop = "storing"
  /\ inForce' = IF Usable(fetched) THEN fetched ELSE inForce
  /\ loop' = "waiting"
  /\ fetched' = Unreadable
  /\ channel' = 0
  /\ UNCHANGED <<editorVars, notices, watchedFile, unseen>>

\* Fault: what parses is put in force.
StoreParsed ==
  /\ loop = "storing"
  /\ inForce' = IF fetched.parsed THEN fetched ELSE inForce
  /\ loop' = "waiting"
  /\ fetched' = Unreadable
  /\ UNCHANGED <<editorVars, notices, watchedFile, channel, unseen>>

\* try_reload: a valid file is swapped in, any other is dropped.
Store ==
  /\ loop = "storing"
  /\ inForce' = IF Usable(fetched) THEN fetched ELSE inForce
  /\ loop' = "waiting"
  /\ fetched' = Unreadable
  /\ UNCHANGED <<editorVars, notices, watchedFile, channel, unseen>>

Edit ==
  \/ \E file \in Files : StartWriting(file) \/ RenameOver(file)
  \/ FinishWriting
  \/ Remove

Reload == Wake \/ Drain \/ Read \/ Store
-----------------------------------------------------------------------------
(* Properties.                                                             *)

ReloadTypeOK ==
  /\ edits \in 0..MaxEdits /\ channel \in 0..ChannelSize /\ notices \in Nat
  /\ loop \in {"off", "loaded", "dead", "waiting", "debouncing", "reading", "storing"}
  /\ writing \subseteq Files
  /\ watchedFile \in DOMAIN AbsolutePath \cup {"none"}
  /\ unseen \in BOOLEAN

\* The gateway only ever runs on a configuration that was valid as a whole.
InForceIsUsable == loop \notin {"off", "dead"} => Usable(inForce)

\* No change of a file with an absolute path is forgotten: as long as the loop has
\* not read it since it changed, an event is on its way, or the loop is about to
\* read.  Events that a full channel turns away, and those the loop drains, are
\* all followed by a read.
ChangesArePending ==
  Watching /\ unseen /\ IsOurFile(watchedFile) =>
    notices > 0 \/ channel > 0 \/ loop \in {"debouncing", "reading"}

\* A valid file that was written under watch stays, and the loop has not read it.
Waits(file) == Usable(file) /\ unseen /\ disk = file
\* It is in force, or has been replaced, or the process has ended.
Settled(file) == inForce = file \/ disk # file \/ loop = "dead"

\* A valid file that stays comes into force, if its configured path is absolute.  (One
\* written to the default "./routes.yaml" does not.)
Settles == \A file \in Files : Waits(file) /\ IsOurFile(watchedFile) ~> Settled(file)
=============================================================================
