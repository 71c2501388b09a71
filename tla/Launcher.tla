------------------------------ MODULE Launcher ------------------------------
(***************************************************************************)
(* From the command line to a running game: the launch loop of main.rs,    *)
(* the start-up screens (loreloom-tui startup.rs), the catalogue of saves  *)
(* (save_catalog.rs), the saved choice of mods (mod_selection.rs) and the  *)
(* creation or opening of the save (world.rs), over the directories they   *)
(* keep.  The process may die at any step and is started again; another    *)
(* process may delete and create saves in the same world.                  *)
(*                                                                         *)
(* Which sets of mods compile is a constant (Content says what decides     *)
(* it), the settings are good for the provider, bad, or not valid at all,  *)
(* and the form of a new player is one key (PlayerForm).  Times of last    *)
(* use are left out: the list is in some order.                            *)
(***************************************************************************)
EXTENDS Naturals, Sequences, FiniteSets, SequencesExt

CONSTANTS
  Installed,    \* the mods in the world's directory, <<mod, version>>
  Cli,          \* those given with --mod, from elsewhere
  Compilable,   \* the sets of mods with which the world compiles
  NewPaths,     \* the paths new_save_path makes up
  GivenPath, NoPath,  \* the path of --save, and none
  MaxSaves      \* how many saves are made, a bound

Settings == {"good", "bad", "invalid"}
Paths == NewPaths \cup {GivenPath}
NoSave == 0

ASSUME LauncherAssumption ==
  /\ NoPath \notin Paths /\ GivenPath \notin NewPaths /\ IsFiniteSet(NewPaths)
  /\ Installed \cap Cli = {}
  /\ MaxSaves \in Nat

VARIABLES
  saves,      \* of each path: its directory, the save in it, that of its sidecar
  loadout,    \* mods.toml
  config,     \* the configuration file
  created,    \* how many saves there have been
  pc,         \* where run_application_with is
  cli,        \* --save
  active,     \* active_mod_paths
  content,    \* the mods the StartupContent was compiled with
  entries,    \* what scan found
  force,      \* force_launcher
  configured, \* the configuration in use
  chosen,     \* the pending choice: kind, path and the save the entry is of
  page, selected, confirmation,  \* StartupApp; confirmation is <<>> or <<index, confirm>>
  mods, initial,                 \* what its Mods page has enabled, and had
  fields,     \* setting_fields
  playing,    \* the save that was opened, and whether it was made for it
  disturbed   \* paths another process has changed since this one listed them

disk == <<saves, loadout, config, created>>
app == <<page, selected, confirmation, mods, initial, fields>>
vars == <<disk, pc, cli, active, content, entries, force, configured, chosen, app, playing,
          disturbed>>

NoChoice == [kind |-> "none", path |-> NoPath, save |-> NoSave]
Nothing == [dir |-> "none", save |-> NoSave, sidecar |-> NoSave]
NotPlaying == [save |-> NoSave, new |-> FALSE]

Init ==
  /\ saves = [p \in Paths |-> Nothing] /\ created = 0
  /\ loadout = {} /\ config \in Settings \ {"invalid"}
  /\ pc = "off" /\ cli = NoPath /\ active = {} /\ content = {} /\ entries = << >>
  /\ force = FALSE /\ configured = "good" /\ chosen = NoChoice
  /\ page = "none" /\ selected = 1 /\ confirmation = << >> /\ mods = {} /\ initial = {}
  /\ fields = "good" /\ playing = NotPlaying /\ disturbed = {}

----------------------------------------------------------------------------
(* StartupApp::new: the page it opens on, the mods it shows as enabled and *)
(* the settings it shows.                                                  *)
Show(where, enabled, settings) ==
  /\ page' = where /\ selected' = 1 /\ confirmation' = << >>
  /\ mods' = enabled /\ initial' = enabled
  /\ fields' = settings

(* The screens are left for what was chosen.                               *)
Closed ==
  /\ page' = "none" /\ selected' = 1 /\ confirmation' = << >>
  /\ mods' = {} /\ initial' = {} /\ fields' = "good"

(* scan: a sidecar with a directory beside it.                             *)
Listed == {p \in Paths : saves[p].sidecar # NoSave /\ saves[p].dir # "none"}
Entry(p) == [path |-> p, save |-> saves[p].sidecar]

(* inspect_world_with, with these mods.                                    *)
Compiles(set) == set \in Compilable

(* What a start takes up: the mods of the loadout that are still there and *)
(* those of the command line.                                              *)
StartMods == (loadout \cap Installed) \cup Cli

Start ==
  /\ pc = "off" /\ pc' = "launch"
  /\ config # "invalid" /\ configured' = config
  /\ cli' \in {NoPath, GivenPath}
  /\ active' = StartMods
  /\ UNCHANGED <<disk, content, entries, force, chosen, app, playing, disturbed>>

NewGameOnly == cli # NoPath /\ ~force

(* The head of the launch loop.                                            *)
Launch ==
  /\ pc = "launch"
  /\ disturbed' = {}
  /\ IF NewGameOnly /\ saves[cli].dir # "none"
     THEN /\ chosen' = [kind |-> "open", path |-> cli, save |-> saves[cli].save]
          /\ pc' = "resolve"
          /\ UNCHANGED <<content, entries, app>>
     ELSE IF ~Compiles(active)
     THEN pc' = "ending" /\ UNCHANGED <<content, entries, chosen, app>>
     ELSE /\ pc' = "screen" /\ content' = active
          /\ entries' \in IF NewGameOnly THEN {<< >>} ELSE SetToSeqs({Entry(p) : p \in Listed})
          /\ Show(IF NewGameOnly THEN "create" ELSE "main", active, configured)
          /\ UNCHANGED chosen
  /\ UNCHANGED <<disk, cli, active, force, configured, playing>>

----------------------------------------------------------------------------
(* The keys of the launcher's pages.                                       *)
OnPage(p) == pc = "screen" /\ page = p /\ confirmation = << >>
Unchosen == UNCHANGED <<disk, cli, active, content, force, configured, playing, disturbed>>

Turn(p) == page' = p /\ selected' = 1 /\ UNCHANGED <<confirmation, mods, initial, fields>>

(* return_to_main.                                                         *)
ReturnToMain ==
  IF pc = "recovery" THEN page' = "recovery" /\ UNCHANGED pc
  ELSE IF NewGameOnly THEN pc' = "ending" /\ UNCHANGED page
  ELSE page' = "main" /\ UNCHANGED pc

Pick(kind, p, save) ==
  /\ chosen' = [kind |-> kind, path |-> p, save |-> save]
  /\ pc' = "resolve" /\ entries' = << >> /\ Closed /\ Unchosen

(* handle_main_key: Continue takes the first entry.  (Quit, which every    *)
(* page has, is Die.)                                                      *)
Main ==
  /\ OnPage("main")
  /\ \/ entries # << >> /\ Pick("open", entries[1].path, entries[1].save)
     \/ /\ \E p \in {"create", "saves", "mods", "settings"} : Turn(p)
        /\ UNCHANGED <<pc, chosen, entries>> /\ Unchosen

(* Faulty variant: a path is free when it has no sidecar.                  *)
FreeUnlisted(p) == saves[p].sidecar = NoSave

(* new_save_path.                                                          *)
Free(p) == saves[p].dir = "none" /\ saves[p].sidecar = NoSave

(* The page of the new player.                                             *)
Create ==
  /\ OnPage("create")
  /\ \/ \E p \in Paths :
          /\ IF NewGameOnly THEN p = cli ELSE p \in NewPaths /\ Free(p)
          /\ Pick("new", p, NoSave)
     \/ ReturnToMain
        /\ UNCHANGED <<selected, confirmation, mods, initial, fields, chosen, entries>>
        /\ Unchosen

Saves ==
  /\ OnPage("saves")
  /\ \/ /\ selected' \in {selected - 1, selected + 1} \cap DOMAIN entries /\ Unchosen
        /\ UNCHANGED <<pc, page, confirmation, mods, initial, fields, chosen, entries>>
     \/ /\ selected \in DOMAIN entries
        /\ confirmation' = << selected, FALSE >> /\ Unchosen
        /\ UNCHANGED <<pc, page, selected, mods, initial, fields, chosen, entries>>
     \/ /\ selected \in DOMAIN entries
        /\ Pick("open", entries[selected].path, entries[selected].save)
     \/ /\ ReturnToMain /\ Unchosen
        /\ UNCHANGED <<selected, confirmation, mods, initial, fields, chosen, entries>>

(* handle_startup_key while a deletion is to be confirmed; it is refused   *)
(* unless the choice was moved to it.                                      *)
Confirm ==
  /\ pc = "screen" /\ confirmation # << >> /\ Unchosen
  /\ \/ /\ confirmation' \in {<< confirmation[1], ~confirmation[2] >>, << >>}
        /\ UNCHANGED <<pc, page, selected, mods, initial, fields, chosen, entries>>
     \/ /\ confirmation[2]
        /\ LET e == entries[confirmation[1]]
           IN  chosen' = [kind |-> "delete", path |-> e.path, save |-> e.save]
        /\ pc' = "delete" /\ entries' = << >> /\ Closed

----------------------------------------------------------------------------
(* save_catalog::delete and what the launcher does after it.               *)
Back ==
  /\ pc' = "screen" /\ chosen' = NoChoice /\ disturbed' = {}
  /\ entries' \in SetToSeqs({Entry(p) : p \in Listed}')
  /\ Show("saves", content, configured)

DeletionRest == UNCHANGED <<loadout, config, created, cli, active, content, force, configured,
                            playing>>

(* Faulty variant: only the path is looked for again.                      *)
StillThereAtPath == chosen.path \in Listed

(* The selected entry is searched for again.                               *)
StillThere == chosen.path \in Listed /\ saves[chosen.path].sidecar = chosen.save

(* The directory is emptied first; that may fail half-way.                 *)
Delete ==
  /\ pc = "delete"
  /\ IF StillThere
     THEN /\ saves' = [saves EXCEPT ![chosen.path].dir = "removing"]
          /\ pc' = "removing" /\ UNCHANGED <<chosen, disturbed, entries, app>>
     ELSE UNCHANGED saves /\ Back
  /\ DeletionRest

RemoveDirectory ==
  /\ pc = "removing"
  /\ \/ /\ saves' = [saves EXCEPT ![chosen.path].dir = "none", ![chosen.path].save = NoSave]
        /\ pc' = "unlisting" /\ UNCHANGED <<chosen, disturbed, entries, app>>
     \/ UNCHANGED saves /\ Back
  /\ DeletionRest

RemoveSidecar ==
  /\ pc = "unlisting"
  /\ \/ saves' = [saves EXCEPT ![chosen.path].sidecar = NoSave]
     \/ UNCHANGED saves
  /\ Back
  /\ DeletionRest

----------------------------------------------------------------------------
(* The Mods page.                                                          *)
OneVersion(set) == \A m, n \in set : m[1] = n[1] => m = n

(* mod_selection::save.                                                    *)
SaveSelection(enabled) == OneVersion(enabled) /\ loadout' = enabled

ToggleMod ==
  /\ OnPage("mods")
  /\ \E m \in Installed \cup content :
       mods' = IF m \in mods THEN mods \ {m}
               ELSE {n \in mods : n[1] # m[1]} \cup {m}
  /\ UNCHANGED <<pc, page, selected, confirmation, initial, fields, chosen, entries>> /\ Unchosen

(* Esc takes the page back to what it was opened with, which after a       *)
(* refused choice is that choice.                                          *)
LeaveMods ==
  /\ OnPage("mods") /\ mods' = initial
  /\ ReturnToMain
  /\ UNCHANGED <<selected, confirmation, initial, fields, chosen, entries>> /\ Unchosen

(* Faulty variant: the loadout is saved before it is compiled.             *)
SaveFirst(candidate) ==
  /\ loadout' = candidate \cap Installed
  /\ IF Compiles(candidate) THEN active' = candidate /\ content' = candidate
     ELSE UNCHANGED <<active, content>>

(* apply_mod_selection; what is not installed in the world is not saved.   *)
(* It fails when the mods do not compile, or when they cannot be saved.    *)
Apply(candidate) ==
  \/ /\ Compiles(candidate) /\ SaveSelection(candidate \cap Installed)
     /\ active' = candidate /\ content' = candidate
  \/ UNCHANGED <<loadout, active, content>>

(* The page is shown again, with what was asked for.                       *)
ApplyMods ==
  /\ OnPage("mods")
  /\ Apply(mods \cup Cli)
  /\ Show("mods", mods \cup Cli, configured)
  /\ UNCHANGED <<saves, config, created, pc, cli, entries, force, configured, chosen, playing,
                 disturbed>>

----------------------------------------------------------------------------
(* Settings, in the launcher and in the recovery; SettingsDocument::save   *)
(* refuses what is not valid and a file that was changed meanwhile.        *)
OnSettings == pc \in {"screen", "recovery"} /\ page = "settings"

EditSetting ==
  /\ OnSettings /\ fields' \in Settings
  /\ UNCHANGED <<pc, page, selected, confirmation, mods, initial, chosen, entries>> /\ Unchosen

LeaveSettings ==
  /\ OnSettings /\ fields' = configured
  /\ ReturnToMain
  /\ UNCHANGED <<selected, confirmation, mods, initial, chosen, entries>> /\ Unchosen

ApplySettings ==
  /\ OnSettings
  /\ IF fields # "invalid" /\ config = configured
     THEN /\ config' = fields /\ configured' = fields
          /\ Show(IF pc = "recovery" THEN "recovery" ELSE "settings", content, fields)
     ELSE UNCHANGED <<config, configured>> /\ Show("settings", content, fields)
  /\ UNCHANGED <<saves, loadout, created, pc, cli, active, content, entries, force, chosen,
                 playing, disturbed>>

----------------------------------------------------------------------------
(* The provider is resolved, or the recovery screen is shown until it is.  *)
RecoveryRest == UNCHANGED <<disk, cli, active, entries, playing, disturbed>>

Resolve ==
  /\ pc = "resolve"
  /\ IF configured = "good" THEN pc' = "build" /\ UNCHANGED <<app, content>>
     ELSE IF ~Compiles(active) THEN pc' = "ending" /\ UNCHANGED <<app, content>>
     ELSE pc' = "recovery" /\ content' = active /\ Show("recovery", active, configured)
  /\ UNCHANGED <<force, configured, chosen>> /\ RecoveryRest

Retry ==
  /\ pc = "recovery" /\ page = "recovery"
  /\ configured' = IF config = "invalid" THEN configured ELSE config
  /\ IF config = "good" THEN pc' = "build" /\ Closed
     ELSE Show("recovery", content, configured') /\ UNCHANGED pc
  /\ UNCHANGED <<content, force, chosen>> /\ RecoveryRest

BackToLauncher ==
  /\ pc = "recovery" /\ page = "recovery"
  /\ force' = TRUE /\ pc' = "launch" /\ chosen' = NoChoice /\ Closed
  /\ UNCHANGED <<content, configured>> /\ RecoveryRest

RecoverySettings ==
  /\ pc = "recovery" /\ page = "recovery" /\ Turn("settings")
  /\ UNCHANGED <<pc, content, force, configured, chosen>> /\ RecoveryRest

----------------------------------------------------------------------------
(* build_world_with_player, then register.                                 *)
GameRest == UNCHANGED <<loadout, config, cli, active, content, entries, force, configured,
                        chosen, app, disturbed>>

(* A directory is opened, whatever was chosen; without one a save is made. *)
Build ==
  /\ pc = "build"
  /\ LET s == saves[chosen.path]
     IN  IF s.dir = "whole"
         THEN /\ pc' = "register" /\ playing' = [save |-> s.save, new |-> FALSE]
              /\ UNCHANGED <<saves, created>>
         ELSE IF s.dir # "none"
         THEN pc' = "ending" /\ UNCHANGED <<saves, created, playing>>
         ELSE /\ created < MaxSaves /\ created' = created + 1
              /\ saves' = [saves EXCEPT ![chosen.path].dir = "creating",
                                        ![chosen.path].save = created']
              /\ pc' = "creating" /\ playing' = [save |-> created', new |-> TRUE]
  /\ GameRest

Created ==
  /\ pc = "creating" /\ pc' = "register"
  /\ saves' = [saves EXCEPT ![chosen.path].dir = "whole"]
  /\ UNCHANGED <<created, playing>> /\ GameRest

(* A sidecar that cannot be written is only a warning.                     *)
Register ==
  /\ pc = "register" /\ pc' = "play"
  /\ \/ saves' = [saves EXCEPT ![chosen.path].sidecar = playing.save]
     \/ UNCHANGED saves
  /\ UNCHANGED <<created, playing>> /\ GameRest

(* The process ends, or dies, at any point; nothing of it stays but files. *)
Die ==
  /\ pc # "off" /\ pc' = "off"
  /\ cli' = NoPath /\ active' = {} /\ content' = {} /\ entries' = << >>
  /\ force' = FALSE /\ configured' = "good" /\ chosen' = NoChoice /\ Closed
  /\ playing' = NotPlaying /\ disturbed' = {}
  /\ UNCHANGED disk

----------------------------------------------------------------------------
(* Other processes.                                                        *)
InUse(p) == pc \in {"removing", "unlisting", "creating", "register", "play"} /\ chosen.path = p

OtherRest == UNCHANGED <<loadout, pc, cli, active, content, entries, force, configured, chosen,
                         app, playing>>

(* Another launcher deletes a save.                                        *)
OtherDeletes ==
  \E p \in Listed :
    /\ ~InUse(p) /\ pc # "off"
    /\ saves' = [saves EXCEPT ![p] = Nothing]
    /\ disturbed' = disturbed \cup {p}
    /\ UNCHANGED <<config, created>> /\ OtherRest

(* The game is run without the launcher, on the given path.                *)
OtherCreates ==
  /\ created < MaxSaves /\ ~InUse(GivenPath)
  /\ saves[GivenPath].dir = "none"
  /\ created' = created + 1
  /\ saves' = [saves EXCEPT ![GivenPath] = [dir |-> "whole", save |-> created',
                                            sidecar |-> created']]
  /\ disturbed' = disturbed \cup {GivenPath}
  /\ UNCHANGED config /\ OtherRest

(* The configuration file is edited.                                       *)
EditConfig ==
  /\ pc \in {"off", "recovery"} /\ config' \in Settings \ {config}
  /\ UNCHANGED <<saves, created, disturbed>> /\ OtherRest

Next ==
  \/ Start \/ Launch \/ Main \/ Create \/ Saves \/ Confirm
  \/ Delete \/ RemoveDirectory \/ RemoveSidecar
  \/ ToggleMod \/ LeaveMods \/ ApplyMods
  \/ EditSetting \/ LeaveSettings \/ ApplySettings
  \/ Resolve \/ Retry \/ BackToLauncher \/ RecoverySettings
  \/ Build \/ Created \/ Register \/ Die
  \/ OtherDeletes \/ OtherCreates \/ EditConfig

Spec == Init /\ [][Next]_vars

----------------------------------------------------------------------------
(* What is shown can be started again: the mods the screens are made from  *)
(* are those a new start would take up, and they compile (main.rs:381).    *)
RestartSame == pc = "screen" => content = StartMods /\ content \in Compilable

(* The game that is played is the one that was chosen, over any number of  *)
(* recoveries: a new one is new, and an entry of the list is the save the  *)
(* list showed, unless another process changed it meanwhile (world.rs:290, *)
(* main.rs:213).                                                           *)
PlayedAsChosen ==
  pc \in {"register", "play"} /\ chosen.path \notin disturbed =>
    /\ chosen.kind = "new" => playing.new
    /\ chosen.kind = "open" /\ chosen.path \in NewPaths =>
         ~playing.new /\ playing.save = chosen.save

(* Only the save the player confirmed is removed, however the list and the *)
(* directories have changed since (save_catalog.rs:131).                   *)
DeleteConfirmed ==
  [][\A p \in Paths :
       saves[p].dir = "whole" /\ saves'[p].dir # "whole" /\ ~OtherDeletes =>
         /\ pc = "delete" /\ chosen.path = p
         /\ chosen.save = saves[p].sidecar]_vars
============================================================================
