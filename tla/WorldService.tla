---------------------------- MODULE WorldService ----------------------------
(***************************************************************************)
(* The world service of loreloom-runtime (world_service.rs): one in-memory *)
(* world behind a mutex, changed only by apply_command, which executes a   *)
(* command on it, commits the result to the save, and on anything but      *)
(* success discards the world and rebuilds it from the save.  Session      *)
(* parameters live only in memory and are carried over a rebuild by hand.  *)
(*                                                                         *)
(* The save is SaveLog, the specification SaveStore implements; a rival    *)
(* connection may commit to it as well.  The records of a world are the    *)
(* commands they result from, in order.                                    *)
(***************************************************************************)
EXTENDS Naturals, Sequences

CONSTANTS Callers,         \* tasks that share the service
          Kinds,           \* what a command does, see KindType
          Sources,         \* transcript items an NPC may be told of
          MaxActions,      \* bound on the commands ever issued
          Rivals,          \* TRUE: another connection commits too
          LoadMayFail,     \* TRUE: the load of a rebuild may fail
          ResolveMayFail   \* TRUE: resolve_action may fail

(* ops: the command changes records; session: it sets a session parameter; *)
(* valid: the world accepts it.                                            *)
KindType == [ops : BOOLEAN, session : BOOLEAN, valid : BOOLEAN]

ASSUME ServiceAssumption ==
  /\ Kinds \subseteq KindType
  /\ MaxActions \in Nat
  /\ {Rivals, LoadMayFail, ResolveMayFail} \subseteq BOOLEAN

NoSource == "no source"
Ids == 1..MaxActions
Transcript == [ops |-> TRUE, session |-> FALSE, valid |-> TRUE]

Command == [action : Ids, expected : 0..MaxActions,
            kind : Kinds \cup {Transcript}, source : Sources \cup {NoSource}]

VARIABLES log, locks,   \* the durable save (SaveLog)
          issued,       \* ActionIds generated so far, all distinct
          world,        \* RuntimeWorld.world: revision, records, session
          events,       \* RuntimeWorld.events, by the action they belong to
          phase,        \* where apply_command is; "free": mutex not held
          job,          \* its locals and the caller that holds the mutex
          seen,         \* the revision a caller last observed
          result        \* what a caller's last command returned

vars == <<log, locks, issued, world, events, phase, job, seen, result>>

Save == INSTANCE SaveLog WITH Manifests <- {"locks"},
                              InitialManifest <- "locks"

NoJob == [caller |-> "nobody", command |-> "none", before |-> 0,
          after |-> 0, session |-> 0, tag |-> "none"]
NoResult == [tag |-> "none", action |-> 0, revision |-> 0]

(* WorldService::open of a new save: its world, without a command.         *)
Init == /\ Save!Init
        /\ issued = 0
        /\ world = [revision |-> 0, records |-> <<>>, session |-> 0]
        /\ events = {}
        /\ phase = "free" /\ job = NoJob
        /\ seen = [c \in Callers |-> 0]
        /\ result = [c \in Callers |-> NoResult]

ActionsOf(commands) == {commands[i].action : i \in 1..Len(commands)}

(* GameWorld::from_records on what load returned, then                     *)
(* restore_session_parameters.                                             *)
Rebuilt(session) == [revision |-> Len(log), records |-> log,
                     session |-> session]

(* GameWorld::execute on a command the world accepts.                      *)
Candidate(cmd) ==
  [revision |-> world.revision + 1,
   records  |-> IF cmd.kind.ops THEN Append(world.records, cmd)
                                ELSE world.records,
   session  |-> IF cmd.kind.session THEN cmd.action ELSE world.session]

Release(c, tag, cmd) ==
  /\ phase' = "free" /\ job' = NoJob
  /\ result' = [result EXCEPT ![c] = [tag |-> tag, action |-> cmd.action,
                                      revision |-> cmd.expected + 1]]

(* observation, snapshot, revision: a reader takes the mutex.              *)
Observe(c) ==
  /\ phase = "free"
  /\ seen' = [seen EXCEPT ![c] = world.revision]
  /\ UNCHANGED <<log, locks, issued, world, events, phase, job, result>>

-----------------------------------------------------------------------------
(* A call that issues a command: it takes the mutex and a fresh ActionId.  *)
Issue(c) == /\ phase = "free"
            /\ issued < MaxActions
            /\ issued' = issued + 1

(* Faulty variant: the expected revision is not compared.                  *)
AcceptedAnyRevision(cmd) == cmd.kind.valid

Accepted(cmd) == cmd.expected = world.revision /\ cmd.kind.valid

(* apply_command up to its first await.  A command the world refuses is    *)
(* rolled back inside execute and the world is rebuilt all the same; a     *)
(* change set without record operations fails CommitRequest::from_execution*)
(* and returns at once; any other is handed to the store.                  *)
Apply(c, cmd) ==
  /\ \/ /\ ~Accepted(cmd)
        /\ phase' = "recover"
        /\ job' = [caller |-> c, command |-> cmd, before |-> world.session,
                   after |-> world.session, session |-> world.session,
                   tag |-> "world_error"]
        /\ result' = [result EXCEPT ![c] = NoResult]
        /\ UNCHANGED world
     \/ /\ Accepted(cmd) /\ ~cmd.kind.ops
        /\ world' = Candidate(cmd)
        /\ Release(c, "store_error", cmd)
     \/ /\ Accepted(cmd) /\ cmd.kind.ops
        /\ world' = Candidate(cmd)
        /\ phase' = "commit"
        /\ job' = [caller |-> c, command |-> cmd, before |-> world.session,
                   after |-> Candidate(cmd).session, session |-> 0,
                   tag |-> "none"]
        /\ result' = [result EXCEPT ![c] = NoResult]
  /\ UNCHANGED <<log, locks, events, seen>>

(* execute, perform_gameplay_action, spawn_character: prepared for the     *)
(* revision the caller observed.                                           *)
Execute(c, k) ==
  /\ Issue(c)
  /\ Apply(c, [action |-> issued', expected |-> seen[c], kind |-> k,
               source |-> NoSource])

(* append_transcript, and the reply half of remember_npc_dialogue:         *)
(* prepared for the revision found under the mutex.                        *)
AppendTranscript(c) ==
  /\ Issue(c)
  /\ Apply(c, [action |-> issued', expected |-> world.revision,
               kind |-> Transcript, source |-> NoSource])

(* Faulty variant: the source of a dialogue is not looked up.              *)
NeverRemembered(s) == FALSE

Remembered(s) ==
  \E i \in 1..Len(world.records) : world.records[i].source = s

(* remember_npc_dialogue: what the NPC already heard is not stored again.  *)
RememberNpcDialogue(c, s) ==
  /\ Issue(c)
  /\ ~Remembered(s)
  /\ Apply(c, [action |-> issued', expected |-> world.revision,
               kind |-> Transcript, source |-> s])

AlreadyRemembered(c, s) ==
  /\ phase = "free"
  /\ Remembered(s)
  /\ result' = [result EXCEPT ![c] = [NoResult EXCEPT !.tag = "known"]]
  /\ UNCHANGED <<log, locks, issued, world, events, phase, job, seen>>

-----------------------------------------------------------------------------
(* store.commit returns Committed: the candidate is the world, and its     *)
(* events join the list.  ActionIds are fresh, so the store never answers  *)
(* AlreadyCommitted or ActionIdentityConflict here.                        *)
Committed ==
  /\ phase = "commit"
  /\ Save!AppendCommand(job.command)
  /\ events' = events \cup {job.command.action}
  /\ Release(job.caller, "ok", job.command)
  /\ UNCHANGED <<issued, world, seen>>

Recovering(session, tag) ==
  /\ phase' = "recover"
  /\ job' = [job EXCEPT !.session = session, !.tag = tag]

(* Faulty variant: the candidate survives a conflict.                      *)
ConflictKeepsCandidate ==
  /\ phase = "commit"
  /\ job.command.expected # Len(log)
  /\ Release(job.caller, "unavailable", job.command)
  /\ UNCHANGED <<log, locks, issued, world, events, seen>>

(* The head is not at the expected revision.                               *)
Conflict ==
  /\ phase = "commit"
  /\ job.command.expected # Len(log)
  /\ Recovering(job.before, "unavailable")
  /\ UNCHANGED <<log, locks, issued, world, events, seen, result>>

(* Faulty variant: an error of the commit is taken to mean no commit.      *)
CommitErrorUnresolved ==
  /\ phase = "commit"
  /\ Recovering(job.before, "store_error")
  /\ \/ Save!AppendCommand(job.command)
     \/ UNCHANGED <<log, locks>>
  /\ UNCHANGED <<issued, world, events, seen, result>>

(* store.commit returns an error, with the commit durable or not.          *)
CommitError ==
  /\ phase = "commit"
  /\ phase' = "resolve"
  /\ \/ Save!AppendCommand(job.command)
     \/ UNCHANGED <<log, locks>>
  /\ UNCHANGED <<issued, world, events, job, seen, result>>

(* Faulty variants: a missing action row is reported as success; the       *)
(* session of before the command is restored whatever was resolved.        *)
ResolveAlwaysOk ==
  /\ phase = "resolve"
  /\ Recovering(job.after, "ok")
  /\ UNCHANGED <<log, locks, issued, world, events, seen, result>>

ResolveOldSession ==
  /\ phase = "resolve"
  /\ Recovering(job.before, IF job.command.action \in ActionsOf(log)
                            THEN "ok" ELSE "store_error")
  /\ UNCHANGED <<log, locks, issued, world, events, seen, result>>

(* resolve_action decides which session survives the rebuild and what the  *)
(* caller is told; when it fails itself, the commit counts as not made.    *)
Resolve ==
  /\ phase = "resolve"
  /\ \/ /\ job.command.action \in ActionsOf(log)
        /\ Recovering(job.after, "ok")
     \/ /\ job.command.action \notin ActionsOf(log)
        /\ Recovering(job.before, "store_error")
     \/ /\ ResolveMayFail
        /\ Recovering(job.before, "store_error")
  /\ UNCHANGED <<log, locks, issued, world, events, seen, result>>

(* recover: the save is loaded and replaces the world and the events.      *)
Recover ==
  /\ phase = "recover"
  /\ world' = Rebuilt(job.session)
  /\ events' = ActionsOf(log)
  /\ Release(job.caller, job.tag, job.command)
  /\ UNCHANGED <<log, locks, issued, seen>>

(* The load of recover fails: its error goes to the caller, and the world  *)
(* stays as it is.                                                         *)
RecoverFails ==
  /\ LoadMayFail
  /\ phase = "recover"
  /\ Release(job.caller, "store_error", job.command)
  /\ UNCHANGED <<log, locks, issued, world, events, seen>>

(* The process dies at any await and WorldService::open loads the save     *)
(* again: session parameters start from their defaults.                    *)
Restart ==
  /\ world' = Rebuilt(0)
  /\ events' = ActionsOf(log)
  /\ phase' = "free" /\ job' = NoJob
  /\ seen' = [c \in Callers |-> 0]
  /\ result' = [c \in Callers |-> NoResult]
  /\ UNCHANGED <<log, locks, issued>>

(* Another connection to the same save commits.                            *)
Rival ==
  /\ Rivals
  /\ issued < MaxActions
  /\ issued' = issued + 1
  /\ Save!AppendCommand([action |-> issued', expected |-> Len(log),
                         kind |-> Transcript, source |-> NoSource])
  /\ UNCHANGED <<world, events, phase, job, seen, result>>

Service == Committed \/ Conflict \/ CommitError \/ Resolve \/ Recover

Next ==
  \/ \E c \in Callers : \/ Observe(c) \/ AppendTranscript(c)
                        \/ \E k \in Kinds : Execute(c, k)
                        \/ \E s \in Sources : \/ RememberNpcDialogue(c, s)
                                              \/ AlreadyRemembered(c, s)
  \/ Service \/ RecoverFails \/ Restart \/ Rival

(* The runtime's executor polls the future that holds the mutex to its     *)
(* end; callers and rivals owe nothing.                                    *)
Spec == Init /\ [][Next]_vars /\ WF_vars(Service)

-----------------------------------------------------------------------------
(* Whoever takes the mutex sees a committed world: its records and events  *)
(* are those of one durable revision.  A candidate is seen by nobody       *)
(* before the store has committed it.                                      *)
CandidateNotPublished ==
  phase = "free" =>
    /\ world.revision <= Len(log)
    /\ world.records = SubSeq(log, 1, world.revision)
    /\ events = ActionsOf(world.records)

(* A caller that holds a success is right, at the revision it was told.    *)
SuccessIsDurable ==
  \A c \in Callers : result[c].tag = "ok" =>
    /\ result[c].revision \in 1..Len(log)
    /\ log[result[c].revision].action = result[c].action

(* A caller that holds an error is right too: its command is not in the    *)
(* save, so doing the work again under a new ActionId repeats nothing.     *)
FailureIsAbsent ==
  \A c \in Callers :
    result[c].tag \in {"world_error", "unavailable", "store_error"} =>
      result[c].action \notin ActionsOf(log)

(* Whatever failed before, a command that the store is about to accept was *)
(* executed on the committed records of its expected revision, so nothing  *)
(* that was never committed reaches the save through a later command.      *)
CommitsFromCommitted ==
  phase = "commit" /\ job.command.expected = Len(log) =>
    world.records = Append(log, job.command)

(* An NPC hears a transcript item once, also when the answer to the first  *)
(* attempt was lost and the caller tries again.                            *)
RememberedOnce ==
  \A i, j \in 1..Len(log) :
    log[i].source = log[j].source /\ log[i].source # NoSource => i = j

Overlay == IF phase = "free" THEN world.session
           ELSE IF job.command.action \in ActionsOf(log) THEN job.after
           ELSE job.before

Told(r) == [tag |-> CASE r.tag = "ok" -> "ok"
                      [] r.tag \in {"none", "known"} -> "none"
                      [] OTHER -> "error",
            action |-> r.action]

Atomic == INSTANCE AtomicWorld
            WITH history <- log, overlay <- Overlay,
                 told <- [c \in Callers |-> Told(result[c])]

(* Seen from the callers, each command takes effect at one instant on the  *)
(* save and on the session parameters, or not at all.                      *)
ImplementsAtomicWorld == Atomic!Spec
=============================================================================
