----------------------------- MODULE HotReload -----------------------------
(***************************************************************************)
(* The configuration manager of the command line: it loads the file, keeps *)
(* the result behind a lock, exports part of it into the environment, and  *)
(* loads again for every event of a watch on the file, while update        *)
(* installs a configuration from within the program.                       *)
(***************************************************************************)
EXTENDS Naturals

CONSTANTS
  None,
  Absent,        \* there is no file
  Garbage,       \* text that does not parse, or fails validation
  Config,        \* configurations: [url, key], where key may be None
  Default,       \* the one of them that the built-in defaults give
  MaxSaves,      \* bound: changes of the file
  MaxUpdates     \* bound: calls of update

VARIABLES
  file,          \* Absent, Garbage, or the configuration that the file and the defaults give
  phase,         \* of new: "new", "watching", "running" or "failed"
  watched,       \* the watch is on the file that is there
  events,        \* in the channel to the watcher task
  config,        \* behind the lock
  env,           \* what the environment says
  loader,        \* where load_config is: "idle", "read", "export" or "install"
  fresh,         \* what it has loaded
  updater,       \* None, or what an update that holds the lock has yet to export
  missed,        \* history: the last change of the file sent no event
  updated,       \* history: an update came after the last reload
  raced,         \* history: an update overlapped the last reload
  saves, updates

vars ==
  <<file, phase, watched, events, config, env, loader, fresh, updater, missed, updated, raced,
    saves, updates>>

\* An empty file adds nothing to the defaults.
Contents == Config \cup {Absent, Garbage}

Init ==
  /\ file \in Contents /\ phase = "new" /\ watched = FALSE /\ events = 0
  /\ config = Default /\ env = [url |-> None, key |-> None]
  /\ loader = "idle" /\ fresh = Default /\ updater = None
  /\ missed = FALSE /\ updated = FALSE /\ raced = FALSE /\ saves = 0 /\ updates = 0

-----------------------------------------------------------------------------
(* The file.  A watch is on the file that was there when it was set up.     *)

\* A change of the file that is watched sends an event, others are not seen.
Changed(seen) ==
  /\ saves < MaxSaves /\ saves' = saves + 1
  /\ events' = IF seen THEN events + 1 ELSE events
  /\ missed' = ~seen
  /\ UNCHANGED <<phase, config, env, loader, fresh, updater, updated, raced, updates>>

\* Saving in place: the file is emptied, and written.
Truncate == file # Absent /\ file' = Default /\ Changed(watched) /\ watched' = watched

Write ==
  /\ file # Absent
  /\ file' \in Config \cup {Garbage}
  /\ Changed(watched) /\ watched' = watched

\* Saving by a rename, or deleting: the watched file goes, and its watch with it.
Replace == file' \in Contents /\ Changed(watched) /\ watched' = FALSE

-----------------------------------------------------------------------------
(* Loading.                                                                *)

\* load_config looks whether the path exists: the defaults alone are loaded when not.
Look ==
  /\ loader' = IF file = Absent THEN "export" ELSE "read"
  /\ fresh' = Default

\* A failed load leaves everything as it is; in new, it is the end.
GiveUp ==
  /\ loader' = "idle" /\ fresh' = fresh
  /\ phase' = IF phase = "new" THEN "failed" ELSE phase

\* The builder reads the file, which must still be there, and validates.
Read ==
  /\ loader = "read"
  /\ \/ file \in Config /\ fresh' = file /\ loader' = "export" /\ phase' = phase
     \/ file \notin Config /\ GiveUp
  /\ UNCHANGED <<file, watched, events, config, env, updater, missed, updated, raced, saves,
                 updates>>

\* MUTANT of Exported: keys are not exported.
ExportedUrl(new) == [env EXCEPT !.url = new.url]

\* set_env_vars: a key that the configuration does not have is left as it is.
Exported(new) == [url |-> new.url, key |-> IF new.key = None THEN env.key ELSE new.key]

Export ==
  /\ loader = "export" /\ loader' = "install"
  /\ env' = Exported(fresh)
  /\ raced' = (updater # None)
  /\ UNCHANGED <<file, phase, watched, events, config, fresh, updater, missed, updated, saves,
                 updates>>

-----------------------------------------------------------------------------
(* new, the watcher task, and update.                                      *)

New ==
  /\ phase = "new" /\ loader = "idle"
  /\ Look
  /\ UNCHANGED <<file, phase, watched, events, config, env, updater, missed, updated, raced,
                 saves, updates>>

\* The load of new is done: what was saved since is not seen.
Loaded ==
  /\ phase = "new" /\ loader = "install"
  /\ config' = fresh /\ loader' = "idle"
  /\ phase' = IF file = Absent THEN "running" ELSE "watching"
  /\ UNCHANGED <<file, watched, events, env, fresh, updater, missed, updated, raced, saves,
                 updates>>

Watch ==
  /\ phase = "watching"
  /\ phase' = IF file = Absent THEN "failed" ELSE "running"
  /\ watched' = (file # Absent)
  /\ UNCHANGED <<file, events, config, env, loader, fresh, updater, missed, updated, raced,
                 saves, updates>>

\* One reload for each event.
Reload ==
  /\ phase = "running" /\ loader = "idle"
  /\ events > 0 /\ events' = events - 1
  /\ Look
  /\ UNCHANGED <<file, phase, watched, config, env, updater, missed, updated, raced, saves,
                 updates>>

\* MUTANT of StillQueued: what came during a reload is taken for the same change.
StillQueuedNone == 0

StillQueued == events

\* The lock is taken for the exchange only.
Install ==
  /\ phase = "running" /\ loader = "install" /\ updater = None
  /\ config' = fresh /\ loader' = "idle" /\ updated' = FALSE /\ events' = StillQueued
  /\ UNCHANGED <<file, phase, watched, env, fresh, updater, missed, raced, saves, updates>>

\* update refuses what is not valid; it exchanges and exports under the lock.
Update ==
  /\ phase = "running" /\ updater = None /\ updates < MaxUpdates
  /\ \E new \in Config : config' = new /\ updater' = new
  /\ updated' = TRUE /\ raced' = (loader = "install") /\ updates' = updates + 1
  /\ UNCHANGED <<file, phase, watched, events, env, loader, fresh, missed, saves>>

UpdateExport ==
  /\ updater # None
  /\ env' = Exported(updater) /\ updater' = None
  /\ UNCHANGED <<file, phase, watched, events, config, loader, fresh, missed, updated, raced,
                 saves, updates>>

Next ==
  \/ Truncate \/ Write \/ Replace
  \/ New \/ Loaded \/ Watch \/ Reload \/ Read \/ Export \/ Install
  \/ Update \/ UpdateExport

Spec == Init /\ [][Next]_vars

-----------------------------------------------------------------------------
(* Properties.                                                             *)

TypeOK ==
  /\ file \in Contents /\ config \in Config /\ fresh \in Config
  /\ phase \in {"new", "watching", "running", "failed"}
  /\ loader \in {"idle", "read", "export", "install"}
  /\ updater \in Config \cup {None} /\ events \in 0..MaxSaves

Settled == phase = "running" /\ loader = "idle" /\ updater = None /\ events = 0

\* When the events are handled, the manager has what the file says, and the defaults if there
\* is none, unless the file is not valid, its last change sent no event, or an update came
\* after the last reload.
ReloadCatchesUp ==
  Settled /\ ~missed /\ ~updated /\ file # Garbage =>
    config = IF file = Absent THEN Default ELSE file

\* The environment says what the configuration says of the database's address and the API
\* keys, apart from keys that it no longer has, unless an update came between the export and
\* the exchange of a reload.  (GF_PORT, which serve overwrites, is not among these.)
EnvironmentFollows ==
  Settled /\ ~raced => env.url = config.url /\ config.key \in {None, env.key}
=============================================================================
