--------------------------- MODULE LauncherProofs ---------------------------
(***************************************************************************)
(* Theorems about Launcher for every set of mods, every set of them that   *)
(* compiles, every set of paths and any number of saves and restarts.      *)
(***************************************************************************)
EXTENDS Launcher, FiniteSetTheorems, TLAPS

(* The keys of the start-up screens, each with what it applies.            *)
Pages == \/ Main \/ Create \/ Saves \/ Confirm
         \/ ToggleMod \/ LeaveMods \/ ApplyMods
         \/ EditSetting \/ LeaveSettings \/ ApplySettings

Deletion == Delete \/ RemoveDirectory \/ RemoveSidecar
Recovery == Retry \/ BackToLauncher \/ RecoverySettings
Game     == Build \/ Created \/ Register
Others   == OtherDeletes \/ OtherCreates \/ EditConfig

-----------------------------------------------------------------------------
(* The mods.  From the start of the process on, the mods in use are those  *)
(* a new start would take up; the screens are made from them, and wherever *)
(* the list of saves can be returned to they have been compiled.           *)
Known(set) == set \subseteq Installed \cup Cli

ModsInv ==
  /\ Known(content) /\ Known(mods) /\ Known(initial)
  /\ pc # "off" => active = StartMods
  /\ pc \in {"screen", "delete", "removing", "unlisting"} =>
       content = active /\ content \in Compilable

LEMMA StartKnown == Known(StartMods)
  BY DEF Known, StartMods

LEMMA ModsFrame ==
  ASSUME ModsInv, UNCHANGED <<active, content, loadout, mods, initial>>,
         pc # "off",
         pc' \in {"screen", "delete", "removing", "unlisting"} =>
           pc \in {"screen", "delete", "removing", "unlisting"}
  PROVE  ModsInv'
  BY DEF ModsInv, StartMods, Known

LEMMA ModsApply ==
  ASSUME ModsInv, pc = "screen", pc' = "screen",
         NEW candidate, Known(candidate), Cli \subseteq candidate,
         Apply(candidate), mods' = candidate, initial' = candidate
  PROVE  ModsInv'
  <1>1. CASE UNCHANGED <<loadout, active, content>>
    BY <1>1 DEF ModsInv, StartMods, Known
  <1>2. CASE /\ candidate \in Compilable
             /\ loadout' = candidate \cap Installed
             /\ active' = candidate /\ content' = candidate
    <2>1. ((candidate \cap Installed) \cap Installed) \cup Cli = candidate
      BY DEF Known
    <2> QED
      BY <1>2, <2>1 DEF ModsInv, StartMods, Known
  <1> QED
    BY <1>1, <1>2 DEF Apply, Compiles, SaveSelection

LEMMA ModsStep ==
  ASSUME ModsInv, [Next]_vars
  PROVE  ModsInv'
  <1>1. CASE Start
    BY <1>1, StartKnown DEF Start, ModsInv, StartMods, Known, disk, app
  <1>2. CASE Launch
    <2>1. pc = "launch" /\ UNCHANGED <<active, loadout>>
      BY <1>2 DEF Launch, disk
    <2>2. CASE UNCHANGED <<content, mods, initial>>
               /\ pc' \in {"resolve", "ending"}
      BY <2>1, <2>2, ModsFrame
    <2>3. CASE /\ Compiles(active) /\ content' = active
               /\ mods' = active /\ initial' = active /\ pc' = "screen"
      BY <2>1, <2>3, StartKnown DEF ModsInv, StartMods, Known, Compiles
    <2> QED
      BY <1>2, <2>2, <2>3 DEF Launch, Show, app
  <1>3. CASE Main \/ Create \/ Saves \/ Confirm
    <2>1. pc = "screen" /\ UNCHANGED <<active, content, loadout>>
      BY <1>3 DEF Main, Create, Saves, Confirm, OnPage, Pick, Unchosen, disk
    <2>2. /\ mods' \in {mods, {}} /\ initial' \in {initial, {}}
          /\ pc' \in {"screen", "resolve", "ending", "delete"}
      BY <1>3 DEF Main, Create, Saves, Confirm, OnPage, Pick, Closed, Turn,
                  ReturnToMain
    <2> QED
      BY <2>1, <2>2 DEF ModsInv, StartMods, Known
  <1>4. CASE Deletion
    <2>1. /\ pc \in {"delete", "removing", "unlisting"}
          /\ UNCHANGED <<active, content, loadout>>
      BY <1>4 DEF Deletion, Delete, RemoveDirectory, RemoveSidecar,
                  DeletionRest
    <2>2. \/ UNCHANGED <<mods, initial>> /\ pc' \in {"removing", "unlisting"}
          \/ mods' = content /\ initial' = content /\ pc' = "screen"
      BY <1>4 DEF Deletion, Delete, RemoveDirectory, RemoveSidecar, Back, Show,
                  app
    <2> QED
      BY <2>1, <2>2 DEF ModsInv, StartMods, Known
  <1>5. CASE ToggleMod
    <2>1. /\ pc = "screen" /\ pc' = pc
          /\ UNCHANGED <<active, content, loadout, initial>>
      BY <1>5 DEF ToggleMod, OnPage, Unchosen, disk
    <2>2. PICK m \in Installed \cup content :
            mods' = IF m \in mods THEN mods \ {m}
                    ELSE {n \in mods : n[1] # m[1]} \cup {m}
      BY <1>5 DEF ToggleMod
    <2>3. Known(mods')
      BY <2>2 DEF ModsInv, Known
    <2> QED
      BY <2>1, <2>3 DEF ModsInv, StartMods
  <1>6. CASE LeaveMods
    <2>1. /\ pc = "screen" /\ pc' \in {"screen", "ending"}
          /\ mods' = initial /\ UNCHANGED <<active, content, loadout, initial>>
      BY <1>6 DEF LeaveMods, OnPage, ReturnToMain, Unchosen, disk
    <2> QED
      BY <2>1 DEF ModsInv, StartMods
  <1>7. CASE ApplyMods
    <2>1. /\ pc = "screen" /\ pc' = pc /\ Apply(mods \cup Cli)
          /\ mods' = mods \cup Cli /\ initial' = mods \cup Cli
      BY <1>7 DEF ApplyMods, OnPage, Show
    <2>2. Known(mods \cup Cli)
      BY DEF ModsInv, Known
    <2> QED
      BY <2>1, <2>2, ModsApply
  <1>8. CASE EditSetting \/ LeaveSettings
    <2>1. /\ pc \in {"screen", "recovery"} /\ pc' \in {pc, "ending"}
          /\ UNCHANGED <<active, content, loadout, mods, initial>>
      BY <1>8 DEF EditSetting, LeaveSettings, OnSettings, ReturnToMain,
                  Unchosen, disk
    <2> QED
      BY <2>1, ModsFrame
  <1>9. CASE ApplySettings
    <2>1. /\ pc \in {"screen", "recovery"} /\ pc' = pc
          /\ UNCHANGED <<active, content, loadout>>
          /\ mods' = content /\ initial' = content
      BY <1>9 DEF ApplySettings, OnSettings, Show
    <2> QED
      BY <2>1 DEF ModsInv, StartMods
  <1>10. CASE Resolve \/ Recovery
    <2>1. /\ pc \in {"resolve", "recovery"}
          /\ pc' \in {"build", "ending", "recovery", "launch"}
          /\ UNCHANGED <<active, loadout>>
      BY <1>10 DEF Resolve, Recovery, Retry, BackToLauncher, RecoverySettings,
                   RecoveryRest, disk
    <2>2. /\ content' \in {content, active}
          /\ mods' \in {mods, active, content, {}}
          /\ initial' \in {initial, active, content, {}}
      BY <1>10 DEF Resolve, Recovery, Retry, BackToLauncher, RecoverySettings,
                   Show, Closed, Turn, app
    <2>3. Known(active)
      BY <2>1, StartKnown DEF ModsInv
    <2> QED
      BY <2>1, <2>2, <2>3 DEF ModsInv, StartMods, Known
  <1>11. CASE Game
    <2>1. /\ pc \in {"build", "creating", "register"}
          /\ pc' \in {"register", "ending", "creating", "play"}
          /\ UNCHANGED <<active, content, loadout, mods, initial>>
      BY <1>11 DEF Game, Build, Created, Register, GameRest, app
    <2> QED
      BY <2>1, ModsFrame
  <1>12. CASE Die
    BY <1>12 DEF Die, Closed, disk, ModsInv, Known
  <1>13. CASE Others \/ UNCHANGED vars
    <2>1. UNCHANGED <<pc, active, content, loadout, mods, initial>>
      BY <1>13 DEF Others, OtherDeletes, OtherCreates, EditConfig, OtherRest,
                   vars, disk, app
    <2> QED
      BY <2>1 DEF ModsInv, StartMods, Known
  <1> QED
    BY <1>1, <1>2, <1>3, <1>4, <1>5, <1>6, <1>7, <1>8, <1>9, <1>10, <1>11,
       <1>12, <1>13 DEF Next, Deletion, Recovery, Game, Others

(* What the screens are made from is what a new start would take up, and   *)
(* it compiles: a choice of mods is in use only once it is both compiled   *)
(* and saved, and what is given on the command line is never saved.        *)
THEOREM RestartKept == Spec => []RestartSame
  <1>1. Init => ModsInv
    BY DEF Init, ModsInv, Known
  <1>2. ModsInv /\ [Next]_vars => ModsInv'
    BY ModsStep
  <1>3. ModsInv => RestartSame
    BY DEF ModsInv, RestartSame
  <1> QED
    BY <1>1, <1>2, <1>3, PTL DEF Spec

-----------------------------------------------------------------------------
(* The directories.  While a save is being removed or made, no other       *)
(* process touches it; and among the paths the game makes up itself, a     *)
(* save is listed under its own number or not at all.                      *)
Directories == {"none", "creating", "whole", "removing"}

SaveRecords == [dir : Directories, save : Nat, sidecar : Nat]

DiskTyped ==
  /\ saves \in [Paths -> SaveRecords]
  /\ created \in Nat
  /\ playing.save \in Nat
  /\ cli \in {NoPath, GivenPath}

(* Where a path is at hand that the process will work on.                  *)
HasChoice == {"resolve", "recovery", "build", "delete", "removing",
              "unlisting", "creating", "register", "play"}

OwnWork ==
  /\ pc \in HasChoice => chosen.path \in Paths
  /\ pc \in {"delete", "removing", "unlisting"} => ~NewGameOnly
  /\ pc = "removing" => saves[chosen.path].dir = "removing"
  /\ pc = "creating" => saves[chosen.path].dir = "creating"
  /\ pc \in {"creating", "register", "play"} =>
       saves[chosen.path].save = playing.save

SidecarOwn ==
  \A p \in NewPaths :
    saves[p].dir # "none" => saves[p].sidecar \in {NoSave, saves[p].save}

(* What the player sees of a save stays true until another process has     *)
(* changed it, and then the path is empty.                                 *)
OpenFits(p, save) ==
  p \in NewPaths =>
    /\ saves[p].dir = "none" => saves[p].sidecar = NoSave
    /\ p \notin disturbed => saves[p].dir # "none" /\ saves[p].save = save

NewFits(p) ==
  /\ p \in NewPaths => saves[p].dir = "none" /\ saves[p].sidecar = NoSave
  /\ p \notin disturbed => saves[p].dir = "none"

ScreenInv ==
  pc = "screen" =>
    /\ \A i \in DOMAIN entries :
         entries[i].path \in Paths /\ OpenFits(entries[i].path, entries[i].save)
    /\ entries # << >> => 1 \in DOMAIN entries
    /\ confirmation # << >> => confirmation[1] \in DOMAIN entries
    /\ NewGameOnly => entries = << >> /\ NewFits(cli)

ChosenInv ==
  pc \in {"resolve", "recovery", "build"} =>
    /\ chosen.kind \in {"open", "new"}
    /\ chosen.kind = "open" => OpenFits(chosen.path, chosen.save)
    /\ chosen.kind = "new" => NewFits(chosen.path)

(* PlayedAsChosen from the moment a save is made for what was chosen: no   *)
(* entry of the list leads there unless another process emptied its path.  *)
PlayedInv ==
  pc \in {"creating", "register", "play"} /\ chosen.path \notin disturbed =>
    /\ chosen.kind = "new" => playing.new
    /\ chosen.kind = "open" /\ chosen.path \in NewPaths =>
         ~playing.new /\ playing.save = chosen.save

LauncherInv == /\ DiskTyped /\ OwnWork /\ SidecarOwn
               /\ ScreenInv /\ ChosenInv /\ PlayedInv

-----------------------------------------------------------------------------
(* The list that scan returns, in any order.                               *)
LEMMA PathsFinite == IsFiniteSet(Paths)
  BY LauncherAssumption, FS_Singleton, FS_Union DEF LauncherAssumption, Paths

LEMMA SequenceOf ==
  ASSUME NEW S, IsFiniteSet(S), NEW f \in SetToSeqs(S)
  PROVE  /\ \A i \in DOMAIN f : f[i] \in S
         /\ f # << >> => 1 \in DOMAIN f
  <1>1. Cardinality(S) \in Nat
    BY FS_CardinalityType
  <1>2. f \in [1..Cardinality(S) -> S]
    BY DEF SetToSeqs
  <1>3. CASE Cardinality(S) = 0
    BY <1>2, <1>3
  <1>4. CASE Cardinality(S) # 0
    BY <1>1, <1>2, <1>4
  <1> QED
    BY <1>3, <1>4

(* The entries of the paths found when the directories are as in S.        *)
EntriesOf(S, found) == {[path |-> p, save |-> S[p].sidecar] : p \in found}

LEMMA ListOf ==
  ASSUME NEW S, NEW found, found \subseteq Paths,
         NEW list, list \in SetToSeqs(EntriesOf(S, found))
  PROVE  /\ \A i \in DOMAIN list : \E p \in found :
              list[i].path = p /\ list[i].save = S[p].sidecar
         /\ list # << >> => 1 \in DOMAIN list
  <1> DEFINE all == {[path |-> p, save |-> S[p].sidecar] : p \in found}
             f == [p \in found |-> [path |-> p, save |-> S[p].sidecar]]
  <1>1. IsFiniteSet(found)
    BY PathsFinite, FS_Subset
  <1>2. f \in Surjection(found, all)
    BY DEF Surjection
  <1>3. IsFiniteSet(all)
    BY <1>1, <1>2, FS_Surjection
  <1>4. /\ \A i \in DOMAIN list : list[i] \in EntriesOf(S, found)
        /\ list # << >> => 1 \in DOMAIN list
    BY <1>3, SequenceOf DEF EntriesOf
  <1> QED
    BY <1>4 DEF EntriesOf

-----------------------------------------------------------------------------
(* What the steps leave alone.                                             *)

(* Another process: it empties a path, or puts a save on the given one.    *)
LEMMA OthersChange ==
  ASSUME DiskTyped, Others
  PROVE  /\ disturbed \subseteq disturbed'
         /\ \A p \in Paths :
              \/ saves'[p] = saves[p]
              \/ /\ p \in disturbed' /\ ~InUse(p)
                 /\ p = GivenPath \/ saves'[p] = Nothing
         /\ saves' \in [Paths -> SaveRecords] /\ created' \in Nat
         /\ UNCHANGED <<pc, cli, entries, force, chosen, confirmation, playing>>
  <1>1. CASE OtherDeletes
    <2>1. PICK p \in Listed : /\ ~InUse(p)
                              /\ saves' = [saves EXCEPT ![p] = Nothing]
                              /\ disturbed' = disturbed \cup {p}
      BY <1>1 DEF OtherDeletes
    <2>2. Nothing \in SaveRecords
      BY DEF Nothing, SaveRecords, Directories, NoSave
    <2>3. UNCHANGED <<created, pc, cli, entries, force, chosen, confirmation,
                      playing>>
      BY <1>1 DEF OtherDeletes, OtherRest, app
    <2> QED
      BY <2>1, <2>2, <2>3 DEF DiskTyped
  <1>2. CASE OtherCreates
    <2> DEFINE new == [dir |-> "whole", save |-> created', sidecar |-> created']
    <2>1. /\ ~InUse(GivenPath) /\ created' = created + 1
          /\ saves' = [saves EXCEPT ![GivenPath] = new]
          /\ disturbed' = disturbed \cup {GivenPath}
      BY <1>2 DEF OtherCreates
    <2>2. created' \in Nat /\ new \in SaveRecords
      BY <2>1 DEF DiskTyped, SaveRecords, Directories
    <2>3. UNCHANGED <<pc, cli, entries, force, chosen, confirmation, playing>>
      BY <1>2 DEF OtherCreates, OtherRest, app
    <2> HIDE DEF new
    <2> QED
      BY <2>1, <2>2, <2>3 DEF DiskTyped
  <1>3. CASE EditConfig
    BY <1>3 DEF EditConfig, OtherRest, app, DiskTyped
  <1> QED
    BY <1>1, <1>2, <1>3 DEF Others

LEMMA FitsKept ==
  ASSUME NEW p \in Paths, NEW save,
         disturbed \subseteq disturbed',
         \/ saves'[p] = saves[p]
         \/ p \in disturbed' /\ (p = GivenPath \/ saves'[p] = Nothing)
  PROVE  /\ OpenFits(p, save) => OpenFits(p, save)'
         /\ NewFits(p) => NewFits(p)'
  BY LauncherAssumption
     DEF LauncherAssumption, OpenFits, NewFits, Nothing, NoSave

(* A key of the screens: it stays on them, leaves them, picks what to      *)
(* play, or confirms a deletion.                                           *)
Stays == /\ pc' = pc /\ pc \in {"screen", "recovery"}
         /\ UNCHANGED <<chosen, entries>>
         /\ \/ confirmation' \in {confirmation, << >>}
            \/ confirmation' # << >> /\ confirmation'[1] \in DOMAIN entries

PicksEntry ==
  /\ pc = "screen" /\ pc' = "resolve"
  /\ \E i \in DOMAIN entries :
       chosen' = [kind |-> "open", path |-> entries[i].path,
                  save |-> entries[i].save]

PicksNew ==
  /\ pc = "screen" /\ pc' = "resolve"
  /\ \E p \in Paths :
       /\ IF NewGameOnly THEN p = cli ELSE p \in NewPaths /\ Free(p)
       /\ chosen' = [kind |-> "new", path |-> p, save |-> NoSave]

PicksDeletion ==
  /\ pc = "screen" /\ pc' = "delete"
  /\ confirmation # << >>
  /\ LET e == entries[confirmation[1]]
     IN  chosen' = [kind |-> "delete", path |-> e.path, save |-> e.save]

LEMMA PageMoves ==
  ASSUME ScreenInv, Pages
  PROVE  /\ UNCHANGED <<saves, created, cli, force, playing, disturbed>>
         /\ \/ Stays \/ pc' = "ending" \/ PicksEntry \/ PicksNew
            \/ PicksDeletion
  <1>1. UNCHANGED <<saves, created, cli, force, playing, disturbed>>
    BY DEF Pages, Main, Create, Saves, Confirm, ToggleMod, LeaveMods, ApplyMods,
           EditSetting, LeaveSettings, ApplySettings, Pick, Unchosen, disk
  <1>2. CASE Main
    BY <1>1, <1>2 DEF Main, OnPage, Pick, Turn, ScreenInv, Stays, PicksEntry
  <1>3. CASE Create
    BY <1>1, <1>3 DEF Create, OnPage, Pick, ReturnToMain, Stays, PicksNew
  <1>4. CASE Saves
    <2>1. pc = "screen"
      BY <1>4 DEF Saves, OnPage
    <2>2. CASE confirmation' = << selected, FALSE >>
               /\ selected \in DOMAIN entries
               /\ UNCHANGED <<pc, chosen, entries>>
      BY <1>1, <2>1, <2>2 DEF Stays
    <2>3. CASE selected \in DOMAIN entries
               /\ Pick("open", entries[selected].path, entries[selected].save)
      BY <1>1, <2>1, <2>3 DEF Pick, PicksEntry
    <2>4. CASE UNCHANGED <<confirmation, chosen, entries>>
               /\ pc' \in {pc, "ending"}
      BY <1>1, <2>1, <2>4 DEF Stays
    <2> QED
      BY <1>4, <2>1, <2>2, <2>3, <2>4 DEF Saves, ReturnToMain
  <1>5. CASE Confirm
    <2>1. pc = "screen" /\ confirmation # << >>
      BY <1>5 DEF Confirm
    <2>2. confirmation[1] \in DOMAIN entries
      BY <2>1 DEF ScreenInv
    <2>3. CASE /\ confirmation' \in {<< confirmation[1], ~confirmation[2] >>,
                                     << >>}
               /\ UNCHANGED <<pc, chosen, entries>>
      BY <1>1, <2>1, <2>2, <2>3 DEF Stays
    <2> QED
      BY <1>1, <1>5, <2>1, <2>3 DEF Confirm, PicksDeletion
  <1>6. CASE ToggleMod \/ LeaveMods
    BY <1>1, <1>6 DEF ToggleMod, LeaveMods, OnPage, ReturnToMain, Stays
  <1>7. CASE ApplyMods
    BY <1>1, <1>7 DEF ApplyMods, OnPage, Show, Stays
  <1>8. CASE EditSetting \/ LeaveSettings
    BY <1>1, <1>8 DEF EditSetting, LeaveSettings, OnSettings, ReturnToMain, Stays
  <1>9. CASE ApplySettings
    BY <1>1, <1>9 DEF ApplySettings, OnSettings, Show, Stays
  <1> QED
    BY <1>1, <1>2, <1>3, <1>4, <1>5, <1>6, <1>7, <1>8, <1>9 DEF Pages

(* The screens of the recovery and what leads there: nothing on the disk   *)
(* changes and the choice stays, unless the launcher is returned to.       *)
LEMMA RecoveryMoves ==
  ASSUME Resolve \/ Recovery
  PROVE  /\ UNCHANGED <<saves, created, cli, playing, disturbed>>
         /\ pc \in {"resolve", "recovery"}
         /\ \/ /\ pc' \in {"recovery", "build", "ending"}
               /\ UNCHANGED <<chosen, force>>
            \/ pc' = "launch"
  BY DEF Recovery, Resolve, Retry, BackToLauncher, RecoverySettings,
         RecoveryRest, disk, Turn

(* A deletion touches the chosen path only, and ends on a fresh list.      *)
LEMMA DeletionMoves ==
  ASSUME Deletion
  PROVE  /\ UNCHANGED <<created, cli, force, playing>>
         /\ \/ /\ pc = "delete" /\ pc' = "removing" /\ chosen' = chosen
               /\ saves' = [saves EXCEPT ![chosen.path].dir = "removing"]
               /\ StillThere
            \/ /\ pc = "removing" /\ pc' = "unlisting" /\ chosen' = chosen
               /\ saves' = [saves EXCEPT ![chosen.path].dir = "none",
                                         ![chosen.path].save = NoSave]
            \/ /\ pc \in {"delete", "removing", "unlisting"} /\ Back
               /\ \/ saves' = saves
                  \/ saves' = [saves EXCEPT ![chosen.path].sidecar = NoSave]
  BY DEF Deletion, Delete, RemoveDirectory, RemoveSidecar, DeletionRest

(* Opening or making the save, and listing it.                             *)
Opens == /\ pc = "build" /\ pc' = "register"
         /\ saves[chosen.path].dir = "whole"
         /\ playing' = [save |-> saves[chosen.path].save, new |-> FALSE]
         /\ UNCHANGED <<saves, created>>

Makes == /\ pc = "build" /\ pc' = "creating"
         /\ saves[chosen.path].dir = "none"
         /\ created' = created + 1
         /\ saves' = [saves EXCEPT ![chosen.path].dir = "creating",
                                   ![chosen.path].save = created']
         /\ playing' = [save |-> created', new |-> TRUE]

Completes == /\ pc = "creating" /\ pc' = "register"
             /\ saves' = [saves EXCEPT ![chosen.path].dir = "whole"]
             /\ UNCHANGED <<created, playing>>

Lists == /\ pc = "register" /\ pc' = "play"
         /\ \/ saves' = [saves EXCEPT ![chosen.path].sidecar = playing.save]
            \/ saves' = saves
         /\ UNCHANGED <<created, playing>>

GivesUp == /\ pc = "build" /\ pc' = "ending"
           /\ UNCHANGED <<saves, created, playing>>

LEMMA GameMoves ==
  ASSUME Game
  PROVE  /\ UNCHANGED <<cli, force, chosen, disturbed>>
         /\ Opens \/ Makes \/ Completes \/ Lists \/ GivesUp
  <1>1. UNCHANGED <<cli, force, chosen, disturbed>>
    BY DEF Game, Build, Created, Register, GameRest
  <1>2. CASE Build
    BY <1>1, <1>2 DEF Build, Opens, Makes, GivesUp
  <1>3. CASE Created
    BY <1>1, <1>3 DEF Created, Completes
  <1>4. CASE Register
    BY <1>1, <1>4 DEF Register, Lists
  <1> QED
    BY <1>2, <1>3, <1>4 DEF Game

-----------------------------------------------------------------------------
(* The steps.                                                              *)
LEMMA DiskStep ==
  ASSUME LauncherInv, [Next]_vars
  PROVE  DiskTyped'
  <1> USE DEF LauncherInv
  <1>0. ASSUME UNCHANGED <<saves, created, cli, playing>> PROVE DiskTyped'
    BY <1>0 DEF DiskTyped
  <1>1. CASE Start
    BY <1>1 DEF Start, DiskTyped, disk
  <1>2. CASE Launch
    BY <1>0, <1>2 DEF Launch, disk
  <1>3. CASE Pages
    BY <1>0, <1>3, PageMoves
  <1>4. CASE Deletion
    <2>1. saves' \in [Paths -> SaveRecords]
      BY <1>4, DeletionMoves DEF DiskTyped, SaveRecords, Directories, NoSave
    <2> QED
      BY <1>4, <2>1, DeletionMoves DEF DiskTyped
  <1>5. CASE Resolve \/ Recovery
    BY <1>0, <1>5, RecoveryMoves
  <1>6. CASE Game
    <2>1. cli' = cli
      BY <1>6, GameMoves
    <2>2. CASE Opens
      <3>1. chosen.path \in Paths
        BY <2>2 DEF Opens, OwnWork, HasChoice
      <3>2. saves[chosen.path].save \in Nat
        BY <3>1 DEF DiskTyped, SaveRecords
      <3> QED
        BY <2>1, <2>2, <3>2 DEF Opens, DiskTyped
    <2>3. CASE Makes
      <3>1. created' \in Nat
        BY <2>3 DEF Makes, DiskTyped
      <3>2. PICK n \in Nat : n = created'
        BY <3>1
      <3>3. saves' = [saves EXCEPT ![chosen.path].dir = "creating",
                                   ![chosen.path].save = n]
        BY <2>3, <3>2 DEF Makes
      <3>4. "creating" \in Directories
        BY DEF Directories
      <3>5. saves \in [Paths -> SaveRecords]
        BY DEF DiskTyped
      <3>6. saves' \in [Paths -> SaveRecords]
        BY <3>3, <3>4, <3>5 DEF SaveRecords
      <3> QED
        BY <2>1, <2>3, <3>1, <3>6 DEF Makes, DiskTyped
    <2>4. CASE Completes
      <3>1. saves' \in [Paths -> SaveRecords]
        BY <2>4 DEF Completes, DiskTyped, SaveRecords, Directories
      <3> QED
        BY <2>1, <2>4, <3>1 DEF Completes, DiskTyped
    <2>5. CASE Lists
      <3>1. saves' \in [Paths -> SaveRecords]
        BY <2>5 DEF Lists, DiskTyped, SaveRecords
      <3> QED
        BY <2>1, <2>5, <3>1 DEF Lists, DiskTyped
    <2>6. CASE GivesUp
      BY <1>0, <2>1, <2>6 DEF GivesUp
    <2> QED
      BY <1>6, <2>2, <2>3, <2>4, <2>5, <2>6, GameMoves
  <1>7. CASE Die
    BY <1>7 DEF Die, DiskTyped, NotPlaying, NoSave, disk
  <1>8. CASE Others
    BY <1>8, OthersChange DEF DiskTyped
  <1>9. CASE UNCHANGED vars
    BY <1>0, <1>9 DEF vars, disk
  <1> QED
    BY <1>1, <1>2, <1>3, <1>4, <1>5, <1>6, <1>7, <1>8, <1>9
       DEF Next, Pages, Deletion, Recovery, Game, Others

LEMMA OwnStep ==
  ASSUME LauncherInv, [Next]_vars
  PROVE  OwnWork'
  <1> USE DEF LauncherInv
  <1>1. CASE Start
    BY <1>1 DEF Start, OwnWork, HasChoice
  <1>2. CASE Launch
    <2>1. CASE pc' = "resolve"
      <3>1. chosen'.path = cli /\ cli # NoPath
        BY <1>2, <2>1 DEF Launch, NewGameOnly
      <3>2. cli \in Paths
        BY <3>1 DEF DiskTyped, Paths
      <3> QED
        BY <2>1, <3>1, <3>2 DEF OwnWork
    <2>2. CASE pc' \in {"ending", "screen"}
      BY <2>2 DEF OwnWork, HasChoice
    <2> QED
      BY <1>2, <2>1, <2>2 DEF Launch
  <1>3. CASE Pages
    <2>1. /\ UNCHANGED <<saves, cli, force, playing>>
          /\ \/ Stays \/ pc' = "ending" \/ PicksEntry \/ PicksNew
             \/ PicksDeletion
      BY <1>3, PageMoves
    <2>2. CASE Stays \/ pc' = "ending"
      BY <2>1, <2>2 DEF Stays, OwnWork, HasChoice
    <2>3. CASE PicksEntry \/ PicksNew
      BY <2>3 DEF PicksEntry, PicksNew, OwnWork, ScreenInv
    <2>4. CASE PicksDeletion
      <3>1. confirmation[1] \in DOMAIN entries /\ entries # << >>
        BY <2>4 DEF PicksDeletion, ScreenInv
      <3>2. chosen'.path \in Paths /\ ~NewGameOnly
        BY <2>4, <3>1 DEF PicksDeletion, ScreenInv
      <3> QED
        BY <2>1, <2>4, <3>2 DEF PicksDeletion, OwnWork, NewGameOnly
    <2> QED
      BY <2>1, <2>2, <2>3, <2>4
  <1>4. CASE Deletion
    <2>1. chosen.path \in Paths /\ ~NewGameOnly
      BY <1>4 DEF Deletion, Delete, RemoveDirectory, RemoveSidecar, OwnWork,
                  HasChoice
    <2>2. CASE pc' = "removing" /\ chosen' = chosen
               /\ saves' = [saves EXCEPT ![chosen.path].dir = "removing"]
      BY <1>4, <2>1, <2>2, DeletionMoves
         DEF OwnWork, NewGameOnly, DiskTyped, SaveRecords
    <2>3. CASE pc' = "unlisting" /\ chosen' = chosen
      BY <1>4, <2>1, <2>3, DeletionMoves DEF OwnWork, NewGameOnly
    <2>4. CASE pc' = "screen"
      BY <2>4 DEF OwnWork, HasChoice
    <2> QED
      BY <1>4, <2>2, <2>3, <2>4, DeletionMoves DEF Back
  <1>5. CASE Resolve \/ Recovery
    BY <1>5, RecoveryMoves DEF OwnWork, HasChoice
  <1>6. CASE Game
    <2>1. chosen' = chosen
      BY <1>6, GameMoves
    <2>2. pc \in HasChoice
      BY <1>6, GameMoves DEF Opens, Makes, Completes, Lists, GivesUp, HasChoice
    <2>3. chosen.path \in Paths /\ saves \in [Paths -> SaveRecords]
      BY <2>2 DEF OwnWork, DiskTyped
    <2>4. CASE Opens
      BY <2>1, <2>3, <2>4 DEF Opens, OwnWork
    <2>5. CASE Makes
      BY <2>1, <2>3, <2>5 DEF Makes, OwnWork, SaveRecords
    <2>6. CASE Completes
      <3>1. saves'[chosen.path].save = saves[chosen.path].save
        BY <2>3, <2>6 DEF Completes, SaveRecords
      <3> QED
        BY <2>1, <2>3, <2>6, <3>1 DEF Completes, OwnWork
    <2>7. CASE Lists
      <3>1. saves'[chosen.path].save = saves[chosen.path].save
        BY <2>3, <2>7 DEF Lists, SaveRecords
      <3> QED
        BY <2>1, <2>3, <2>7, <3>1 DEF Lists, OwnWork
    <2>8. CASE GivesUp
      BY <2>8 DEF GivesUp, OwnWork, HasChoice
    <2> QED
      BY <1>6, <2>4, <2>5, <2>6, <2>7, <2>8, GameMoves
  <1>7. CASE Die
    BY <1>7 DEF Die, OwnWork, HasChoice
  <1>8. CASE Others
    <2>1. /\ UNCHANGED <<pc, chosen, playing, cli, force>>
          /\ \A p \in Paths : saves'[p] = saves[p] \/ ~InUse(p)
      BY <1>8, OthersChange
    <2>2. pc \in {"removing", "creating", "register", "play"} =>
            saves'[chosen.path] = saves[chosen.path]
      BY <2>1 DEF OwnWork, HasChoice, InUse
    <2> QED
      BY <2>1, <2>2 DEF OwnWork, NewGameOnly
  <1>9. CASE UNCHANGED vars
    BY <1>9 DEF vars, disk, OwnWork, NewGameOnly
  <1> QED
    BY <1>1, <1>2, <1>3, <1>4, <1>5, <1>6, <1>7, <1>8, <1>9
       DEF Next, Pages, Deletion, Recovery, Game, Others

LEMMA SidecarStep ==
  ASSUME LauncherInv, [Next]_vars
  PROVE  SidecarOwn'
  <1> USE DEF LauncherInv
  <1>0. ASSUME saves' = saves PROVE SidecarOwn'
    BY <1>0 DEF SidecarOwn
  <1>1. CASE Start \/ Launch \/ Die \/ UNCHANGED vars
    BY <1>0, <1>1 DEF Start, Launch, Die, vars, disk
  <1>2. CASE Pages \/ Resolve \/ Recovery
    BY <1>0, <1>2, PageMoves, RecoveryMoves
  <1>3. \A p \in NewPaths : p \in Paths /\ saves[p] \in SaveRecords
    BY DEF DiskTyped, Paths
  <1>4. CASE Deletion
    <2>1. ASSUME NEW p \in NewPaths, saves'[p].dir # "none"
          PROVE  saves'[p].sidecar \in {NoSave, saves'[p].save}
      <3>1. CASE p # chosen.path \/ saves' = saves
        <4>1. saves'[p] = saves[p]
          BY <1>3, <1>4, <3>1, DeletionMoves DEF DiskTyped
        <4> QED
          BY <2>1, <4>1 DEF SidecarOwn
      <3>2. CASE p = chosen.path
                 /\ saves' = [saves EXCEPT ![chosen.path].dir = "removing"]
                 /\ StillThere
        <4>1. saves[p].dir # "none"
          BY <3>2 DEF StillThere, Listed
        <4>2. /\ saves'[p].sidecar = saves[p].sidecar
              /\ saves'[p].save = saves[p].save
          BY <1>3, <3>2 DEF DiskTyped, SaveRecords
        <4> QED
          BY <4>1, <4>2 DEF SidecarOwn
      <3>3. CASE p = chosen.path
                 /\ saves' = [saves EXCEPT ![chosen.path].dir = "none",
                                           ![chosen.path].save = NoSave]
        <4>1. saves'[p].dir = "none"
          BY <1>3, <3>3 DEF DiskTyped, SaveRecords
        <4> QED
          BY <2>1, <4>1
      <3>4. CASE p = chosen.path
                 /\ saves' = [saves EXCEPT ![chosen.path].sidecar = NoSave]
        BY <1>3, <3>4 DEF DiskTyped, SaveRecords
      <3> QED
        BY <1>4, <3>1, <3>2, <3>3, <3>4, DeletionMoves
    <2> QED
      BY <2>1 DEF SidecarOwn
  <1>5. CASE Game
    <2>0. CASE saves' = saves
      BY <1>0, <2>0
    <2>1. CASE Makes
      <3>1. chosen.path \in NewPaths => saves[chosen.path].sidecar = NoSave
        BY <2>1 DEF Makes, ChosenInv, OpenFits, NewFits
      <3>2. ASSUME NEW p \in NewPaths, saves'[p].dir # "none"
            PROVE  saves'[p].sidecar \in {NoSave, saves'[p].save}
        <4>1. CASE p # chosen.path
          <5>1. saves'[p] = saves[p]
            BY <1>3, <2>1, <4>1 DEF Makes, DiskTyped
          <5> QED
            BY <3>2, <5>1 DEF SidecarOwn
        <4>2. CASE p = chosen.path
          <5>1. saves'[p].sidecar = saves[p].sidecar
            BY <1>3, <2>1, <4>2 DEF Makes, DiskTyped, SaveRecords
          <5> QED
            BY <3>1, <4>2, <5>1
        <4> QED
          BY <4>1, <4>2
      <3> QED
        BY <3>2 DEF SidecarOwn
    <2>2. CASE Completes
      <3>1. saves[chosen.path].dir = "creating"
        BY <2>2 DEF Completes, OwnWork
      <3>2. ASSUME NEW p \in NewPaths, saves'[p].dir # "none"
            PROVE  saves'[p].sidecar \in {NoSave, saves'[p].save}
        <4>1. /\ saves'[p].sidecar = saves[p].sidecar
              /\ saves'[p].save = saves[p].save
              /\ saves[p].dir # "none"
          BY <1>3, <2>2, <3>1, <3>2 DEF Completes, DiskTyped, SaveRecords
        <4> QED
          BY <4>1 DEF SidecarOwn
      <3> QED
        BY <3>2 DEF SidecarOwn
    <2>3. CASE Lists /\ saves' # saves
      <3>1. saves[chosen.path].save = playing.save
        BY <2>3 DEF Lists, OwnWork
      <3>2. ASSUME NEW p \in NewPaths, saves'[p].dir # "none"
            PROVE  saves'[p].sidecar \in {NoSave, saves'[p].save}
        <4>1. CASE p # chosen.path
          <5>1. saves'[p] = saves[p]
            BY <1>3, <2>3, <4>1 DEF Lists, DiskTyped
          <5> QED
            BY <3>2, <5>1 DEF SidecarOwn
        <4>2. CASE p = chosen.path
          BY <1>3, <2>3, <3>1, <4>2 DEF Lists, DiskTyped, SaveRecords
        <4> QED
          BY <4>1, <4>2
      <3> QED
        BY <3>2 DEF SidecarOwn
    <2> QED
      BY <1>5, <2>0, <2>1, <2>2, <2>3, GameMoves DEF Opens, GivesUp
  <1>6. CASE Others
    <2>1. ASSUME NEW p \in NewPaths
          PROVE  saves'[p] = saves[p] \/ saves'[p] = Nothing
      BY <1>3, <1>6, OthersChange, LauncherAssumption DEF LauncherAssumption
    <2> QED
      BY <2>1 DEF SidecarOwn, Nothing
  <1> QED
    BY <1>1, <1>2, <1>4, <1>5, <1>6
       DEF Next, Pages, Deletion, Recovery, Game, Others

LEMMA ScreenStep ==
  ASSUME LauncherInv, [Next]_vars
  PROVE  ScreenInv'
  <1> USE DEF LauncherInv
  <1>1. CASE Start \/ Die
    BY <1>1 DEF Start, Die, ScreenInv
  <1>2. CASE Launch /\ pc' = "screen"
    <2>1. /\ UNCHANGED <<saves, cli, force>> /\ confirmation' = << >>
          /\ entries' \in IF NewGameOnly THEN {<< >>}
                           ELSE SetToSeqs({Entry(p) : p \in Listed})
          /\ ~(NewGameOnly /\ saves[cli].dir # "none")
          /\ disturbed' = {}
      BY <1>2 DEF Launch, Show, disk
    <2>2. CASE NewGameOnly
      <3>1. cli \notin NewPaths
        BY <2>2, LauncherAssumption
           DEF LauncherAssumption, DiskTyped, NewGameOnly
      <3> QED
        BY <2>1, <2>2, <3>1 DEF ScreenInv, NewGameOnly, NewFits
    <2>3. CASE ~NewGameOnly
      <3>1. Listed \subseteq Paths
        BY DEF Listed
      <3>2. /\ \A i \in DOMAIN entries' : \E p \in Listed :
                 /\ entries'[i].path = p
                 /\ entries'[i].save = saves[p].sidecar
            /\ entries' # << >> => 1 \in DOMAIN entries'
        <4>1. PICK S, found, list : S = saves /\ found = Listed /\ list = entries'
          OBVIOUS
        <4>2. list \in SetToSeqs(EntriesOf(S, found))
          BY <2>1, <2>3, <4>1 DEF Entry, EntriesOf
        <4>3. found \subseteq Paths
          BY <3>1, <4>1
        <4>4. /\ \A i \in DOMAIN list : \E p \in found :
                   list[i].path = p /\ list[i].save = S[p].sidecar
              /\ list # << >> => 1 \in DOMAIN list
          BY <4>2, <4>3, ListOf
        <4> QED
          BY <4>1, <4>4
      <3>3. ASSUME NEW i \in DOMAIN entries'
            PROVE  /\ entries'[i].path \in Paths
                   /\ OpenFits(entries[i].path, entries[i].save)'
        BY <2>1, <3>1, <3>2 DEF OpenFits, SidecarOwn, Listed
      <3> QED
        BY <2>1, <2>3, <3>2, <3>3 DEF ScreenInv, NewGameOnly
    <2> QED
      BY <2>2, <2>3
  <1>3. CASE pc' # "screen"
    BY <1>3 DEF ScreenInv
  <1>4. CASE Pages /\ pc' = "screen"
    <2>1. UNCHANGED <<saves, cli, force, disturbed>> /\ Stays
      BY <1>4, PageMoves DEF PicksEntry, PicksNew, PicksDeletion
    <2> QED
      BY <1>4, <2>1 DEF Stays, ScreenInv, NewGameOnly, OpenFits, NewFits
  <1>5. CASE Deletion /\ pc' = "screen"
    <2>1. Back /\ UNCHANGED <<cli, force>> /\ ~NewGameOnly
      BY <1>5, DeletionMoves DEF OwnWork
    <2>2. DiskTyped' /\ SidecarOwn'
      BY DiskStep, SidecarStep
    <2>3. entries' \in SetToSeqs({Entry(p) : p \in Listed}')
          /\ confirmation' = << >>
      BY <2>1 DEF Back, Show
    <2>4. Listed' \subseteq Paths
      BY DEF Listed
    <2>5. /\ \A i \in DOMAIN entries' : \E p \in Listed' :
               /\ entries'[i].path = p
               /\ entries'[i].save = saves'[p].sidecar
          /\ entries' # << >> => 1 \in DOMAIN entries'
      <3>1. PICK S, found, list : S = saves' /\ found = Listed' /\ list = entries'
        OBVIOUS
      <3>2. list \in SetToSeqs(EntriesOf(S, found))
        BY <2>3, <3>1 DEF Entry, EntriesOf
      <3>3. found \subseteq Paths
        BY <2>4, <3>1
      <3>4. /\ \A i \in DOMAIN list : \E p \in found :
                 list[i].path = p /\ list[i].save = S[p].sidecar
            /\ list # << >> => 1 \in DOMAIN list
        BY <3>2, <3>3, ListOf
      <3> QED
        BY <3>1, <3>4
    <2>6. ASSUME NEW i \in DOMAIN entries'
          PROVE  /\ entries'[i].path \in Paths
                 /\ OpenFits(entries[i].path, entries[i].save)'
      BY <2>2, <2>4, <2>5 DEF OpenFits, SidecarOwn, Listed
    <2> QED
      BY <2>1, <2>3, <2>5, <2>6 DEF ScreenInv, NewGameOnly
  <1>6. CASE Others
    <2>1. /\ UNCHANGED <<pc, cli, entries, force, confirmation>>
          /\ disturbed \subseteq disturbed'
          /\ \A p \in Paths :
               \/ saves'[p] = saves[p]
               \/ p \in disturbed' /\ (p = GivenPath \/ saves'[p] = Nothing)
      BY <1>6, OthersChange
    <2>2. ASSUME pc = "screen", NEW i \in DOMAIN entries
          PROVE  /\ entries[i].path \in Paths
                 /\ OpenFits(entries[i].path, entries[i].save)'
      <3>1. /\ entries[i].path \in Paths
            /\ OpenFits(entries[i].path, entries[i].save)
        BY <2>2 DEF ScreenInv
      <3>2. ASSUME NEW save, OpenFits(entries[i].path, save)
            PROVE  OpenFits(entries[i].path, save)'
        BY <2>1, <3>1, <3>2, FitsKept
      <3> QED
        BY <2>1, <3>1, <3>2
    <2>3. ASSUME pc = "screen", NewGameOnly PROVE NewFits(cli)'
      <3>1. cli \in Paths /\ NewFits(cli)
        BY <2>3 DEF ScreenInv, NewGameOnly, DiskTyped, Paths
      <3> QED
        BY <2>1, <3>1, FitsKept
    <2> QED
      BY <2>1, <2>2, <2>3 DEF ScreenInv, NewGameOnly
  <1>7. CASE UNCHANGED vars
    BY <1>7 DEF vars, disk, app, ScreenInv, NewGameOnly, OpenFits, NewFits
  <1>8. CASE Game \/ Resolve \/ Recovery
    <2>1. pc' # "screen"
      BY <1>8, GameMoves, RecoveryMoves
         DEF Opens, Makes, Completes, Lists, GivesUp
    <2> QED
      BY <2>1 DEF ScreenInv
  <1> QED
    BY <1>1, <1>2, <1>3, <1>4, <1>5, <1>6, <1>7, <1>8
       DEF Next, Pages, Deletion, Recovery, Game, Others

LEMMA ChosenStep ==
  ASSUME LauncherInv, [Next]_vars
  PROVE  ChosenInv'
  <1> USE DEF LauncherInv
  <1>0. ASSUME pc' \notin {"resolve", "recovery", "build"} PROVE ChosenInv'
    BY <1>0 DEF ChosenInv
  <1>1. ASSUME UNCHANGED <<saves, disturbed, chosen>>,
               pc \in {"resolve", "recovery", "build"}
        PROVE  ChosenInv'
    BY <1>1 DEF ChosenInv, OpenFits, NewFits
  <1>2. CASE Start \/ Die
    BY <1>0, <1>2 DEF Start, Die
  <1>3. CASE Launch
    <2>1. CASE pc' = "resolve"
      <3>1. chosen'.kind = "open" /\ chosen'.path = cli /\ cli # NoPath
        BY <1>3, <2>1 DEF Launch, NewGameOnly
      <3>2. chosen'.path \notin NewPaths
        BY <3>1, LauncherAssumption DEF LauncherAssumption, DiskTyped
      <3> QED
        BY <3>1, <3>2 DEF ChosenInv, OpenFits
    <2> QED
      BY <1>0, <1>3, <2>1 DEF Launch
  <1>4. CASE Pages
    <2>1. /\ UNCHANGED <<saves, disturbed>>
          /\ \/ Stays \/ pc' = "ending" \/ PicksEntry \/ PicksNew
             \/ PicksDeletion
      BY <1>4, PageMoves
    <2>2. CASE Stays
      BY <1>0, <1>1, <2>1, <2>2 DEF Stays
    <2>3. CASE PicksEntry
      <3>1. PICK i \in DOMAIN entries :
              chosen' = [kind |-> "open", path |-> entries[i].path,
                         save |-> entries[i].save]
        BY <2>3 DEF PicksEntry
      <3>2. OpenFits(entries[i].path, entries[i].save)
        BY <2>3 DEF PicksEntry, ScreenInv
      <3> QED
        BY <2>1, <3>1, <3>2 DEF ChosenInv, OpenFits
    <2>4. CASE PicksNew
      <3>1. PICK p \in Paths :
              /\ IF NewGameOnly THEN p = cli ELSE p \in NewPaths /\ Free(p)
              /\ chosen' = [kind |-> "new", path |-> p, save |-> NoSave]
        BY <2>4 DEF PicksNew
      <3>2. NewFits(p)
        BY <2>4, <3>1 DEF PicksNew, ScreenInv, Free, NewFits
      <3> QED
        BY <2>1, <3>1, <3>2 DEF ChosenInv, NewFits
    <2>5. CASE pc' = "ending" \/ PicksDeletion
      BY <1>0, <2>5 DEF PicksDeletion
    <2> QED
      BY <2>1, <2>2, <2>3, <2>4, <2>5
  <1>5. CASE Deletion
    BY <1>0, <1>5, DeletionMoves DEF Back
  <1>6. CASE Resolve \/ Recovery
    BY <1>0, <1>1, <1>6, RecoveryMoves
  <1>7. CASE Game
    BY <1>0, <1>7, GameMoves DEF Opens, Makes, Completes, Lists, GivesUp
  <1>8. CASE Others
    <2> SUFFICES ASSUME pc' \in {"resolve", "recovery", "build"} PROVE ChosenInv'
      BY <1>0
    <2>1. /\ UNCHANGED <<pc, chosen>> /\ disturbed \subseteq disturbed'
          /\ \A p \in Paths :
               \/ saves'[p] = saves[p]
               \/ p \in disturbed' /\ (p = GivenPath \/ saves'[p] = Nothing)
      BY <1>8, OthersChange
    <2>2. chosen.path \in Paths /\ ChosenInv
      BY <2>1 DEF OwnWork, HasChoice
    <2>3. ASSUME NEW save, OpenFits(chosen.path, save)
          PROVE  OpenFits(chosen.path, save)'
      BY <2>1, <2>2, <2>3, FitsKept
    <2>4. NewFits(chosen.path) => NewFits(chosen.path)'
      BY <2>1, <2>2, FitsKept
    <2>5. OpenFits(chosen.path, chosen.save) => OpenFits(chosen.path, chosen.save)'
      BY <2>1, <2>3
    <2> QED
      BY <2>1, <2>2, <2>4, <2>5 DEF ChosenInv
  <1>9. CASE UNCHANGED vars
    BY <1>0, <1>1, <1>9 DEF vars, disk
  <1> QED
    BY <1>2, <1>3, <1>4, <1>5, <1>6, <1>7, <1>8, <1>9
       DEF Next, Pages, Deletion, Recovery, Game, Others

LEMMA PlayedStep ==
  ASSUME LauncherInv, [Next]_vars
  PROVE  PlayedInv'
  <1> USE DEF LauncherInv
  <1>0. ASSUME pc' \notin {"creating", "register", "play"} PROVE PlayedInv'
    BY <1>0 DEF PlayedInv
  <1>1. ASSUME UNCHANGED <<chosen, playing>>, disturbed \subseteq disturbed',
               pc \in {"creating", "register", "play"}
        PROVE  PlayedInv'
    BY <1>1 DEF PlayedInv
  <1>2. CASE Start \/ Launch \/ Die
    BY <1>0, <1>2 DEF Start, Launch, Die
  <1>3. CASE Pages
    BY <1>0, <1>3, PageMoves DEF Stays, PicksEntry, PicksNew, PicksDeletion
  <1>4. CASE Deletion
    BY <1>0, <1>4, DeletionMoves DEF Back
  <1>5. CASE Resolve \/ Recovery
    BY <1>0, <1>5, RecoveryMoves
  <1>6. CASE Game
    <2>1. UNCHANGED <<chosen, disturbed>>
      BY <1>6, GameMoves
    <2>2. CASE Opens \/ Makes
      <3>1. pc = "build"
        BY <2>2 DEF Opens, Makes
      <3>2. /\ chosen.kind = "open" => OpenFits(chosen.path, chosen.save)
            /\ chosen.kind = "new" => NewFits(chosen.path)
        BY <3>1 DEF ChosenInv
      <3>3. CASE Opens
        BY <2>1, <3>2, <3>3 DEF Opens, OpenFits, NewFits, PlayedInv
      <3>4. CASE Makes
        BY <2>1, <3>2, <3>4 DEF Makes, OpenFits, NewFits, PlayedInv
      <3> QED
        BY <2>2, <3>3, <3>4
    <2>3. CASE Completes \/ Lists
      BY <1>1, <2>1, <2>3 DEF Completes, Lists
    <2>4. CASE GivesUp
      BY <1>0, <2>4 DEF GivesUp
    <2> QED
      BY <1>6, <2>2, <2>3, <2>4, GameMoves
  <1>7. CASE Others
    BY <1>0, <1>1, <1>7, OthersChange
  <1>8. CASE UNCHANGED vars
    BY <1>0, <1>1, <1>8 DEF vars, disk
  <1> QED
    BY <1>2, <1>3, <1>4, <1>5, <1>6, <1>7, <1>8
       DEF Next, Pages, Deletion, Recovery, Game, Others

LEMMA LauncherInit == Init => LauncherInv
  <1> SUFFICES ASSUME Init PROVE LauncherInv
    OBVIOUS
  <1>1. Nothing \in SaveRecords
    BY DEF Nothing, SaveRecords, Directories, NoSave
  <1>2. DiskTyped
    BY <1>1 DEF Init, DiskTyped, NotPlaying, NoSave
  <1>3. SidecarOwn
    BY DEF Init, SidecarOwn, Nothing, Paths
  <1> QED
    BY <1>2, <1>3
       DEF Init, LauncherInv, OwnWork, HasChoice, ScreenInv, ChosenInv, PlayedInv

(* Directories, sidecars, screens and choices agree, whatever other        *)
(* processes do and wherever this one dies.                                *)
THEOREM LauncherInvariant == Spec => []LauncherInv
  <1>1. LauncherInv /\ [Next]_vars => LauncherInv'
    <2> SUFFICES ASSUME LauncherInv, [Next]_vars PROVE LauncherInv'
      OBVIOUS
    <2> QED
      BY DiskStep, OwnStep, SidecarStep, ScreenStep, ChosenStep, PlayedStep
         DEF LauncherInv
  <1> QED
    BY <1>1, LauncherInit, PTL DEF Spec

(* The game that is played is the one that was chosen, over any number of  *)
(* recoveries, unless another process changed its path (world.rs:290).     *)
THEOREM PlayedKept == Spec => []PlayedAsChosen
  <1>1. LauncherInv => PlayedAsChosen
    BY DEF LauncherInv, PlayedInv, PlayedAsChosen
  <1> QED
    BY <1>1, LauncherInvariant, PTL

(* Only the save the player confirmed is removed (save_catalog.rs:131).    *)
THEOREM DeletionConfirmed == Spec => DeleteConfirmed
  <1>1. ASSUME LauncherInv, [Next]_vars, NEW p \in Paths,
               saves[p].dir = "whole", saves'[p].dir # "whole", ~OtherDeletes
        PROVE  /\ pc = "delete" /\ chosen.path = p
               /\ chosen.save = saves[p].sidecar
    <2> USE DEF LauncherInv
    <2>1. saves' # saves /\ saves \in [Paths -> SaveRecords]
      BY <1>1 DEF DiskTyped
    <2>2. CASE Start \/ Launch \/ Die \/ EditConfig \/ UNCHANGED vars
      BY <2>1, <2>2 DEF Start, Launch, Die, EditConfig, vars, disk
    <2>3. CASE Pages \/ Resolve \/ Recovery
      BY <1>1, <2>1, <2>3, PageMoves, RecoveryMoves
    <2>4. CASE Deletion
      <3>1. CASE pc = "delete" /\ StillThere
                 /\ saves' = [saves EXCEPT ![chosen.path].dir = "removing"]
        BY <1>1, <2>1, <3>1 DEF StillThere
      <3>2. CASE pc = "removing"
                 /\ saves' = [saves EXCEPT ![chosen.path].dir = "none",
                                           ![chosen.path].save = NoSave]
        <4>1. saves[chosen.path].dir = "removing"
          BY <1>1, <3>2 DEF OwnWork
        <4> QED
          BY <1>1, <2>1, <3>2, <4>1
      <3>3. CASE saves' = [saves EXCEPT ![chosen.path].sidecar = NoSave]
        BY <1>1, <2>1, <3>3 DEF SaveRecords
      <3> QED
        BY <2>1, <2>4, <3>1, <3>2, <3>3, DeletionMoves
    <2>5. CASE Game
      <3>1. CASE Makes
        BY <1>1, <2>1, <3>1 DEF Makes
      <3>2. CASE Completes
        BY <1>1, <2>1, <3>2 DEF Completes, SaveRecords
      <3>3. CASE Lists
        BY <1>1, <2>1, <3>3 DEF Lists, SaveRecords
      <3> QED
        BY <2>1, <2>5, <3>1, <3>2, <3>3, GameMoves DEF Opens, GivesUp
    <2>6. CASE OtherCreates
      BY <1>1, <2>1, <2>6 DEF OtherCreates
    <2> QED
      BY <1>1, <2>2, <2>3, <2>4, <2>5, <2>6
         DEF Next, Pages, Deletion, Recovery, Game
  <1>2. LauncherInv /\ [Next]_vars =>
          [\A p \in Paths :
             saves[p].dir = "whole" /\ saves'[p].dir # "whole" /\ ~OtherDeletes =>
               /\ pc = "delete" /\ chosen.path = p
               /\ chosen.save = saves[p].sidecar]_vars
    BY <1>1
  <1> QED
    BY <1>2, LauncherInvariant, PTL DEF Spec, DeleteConfirmed
=============================================================================
