------------------------- MODULE WorldServiceProofs -------------------------
(***************************************************************************)
(* Theorems about WorldService for every number of callers, kinds of       *)
(* commands, sources and actions.  What holds under every fault is proved  *)
(* from ServiceAssumption alone; what needs a fault to be absent names it. *)
(***************************************************************************)
EXTENDS WorldService, SequenceTheorems, TLAPS

(* Every rebuild and every resolution that is asked for succeeds.          *)
Answering == ~LoadMayFail /\ ~ResolveMayFail

(* The world in memory is never left as a candidate: every rebuild         *)
(* succeeds and no command returns before it is handed to the store.       *)
Rebuilding == ~LoadMayFail /\ \A k \in Kinds : k.ops

(* Only the connection of this service commits, or no candidate is left.   *)
Guarded == ~Rivals \/ Rebuilding

Faultless == Answering /\ Rebuilding

-----------------------------------------------------------------------------
(* The inductive invariant, by the state it is about.                      *)
JobTags == {"none", "ok", "world_error", "unavailable", "store_error"}

Jobs == [caller : Callers, command : Command, before : Nat, after : Nat,
         session : Nat, tag : JobTags]

Results == [tag : JobTags \cup {"known"}, action : Nat, revision : Nat]

TypeInv ==
  /\ log \in Seq(Command)
  /\ issued \in 0..MaxActions
  /\ world \in [revision : Nat, records : Seq(Command), session : Nat]
  /\ phase \in {"free", "commit", "resolve", "recover"}
  /\ phase # "free" => job \in Jobs
  /\ seen \in [Callers -> Nat]
  /\ result \in [Callers -> Results]

(* No revision runs ahead of the commands issued; a command in its commit  *)
(* is not in the log, so it leaves room for itself.                        *)
Counted ==
  /\ Len(log) <= issued
  /\ phase = "commit" => Len(log) < issued
  /\ world.revision <= issued
  /\ \A c \in Callers : seen[c] <= issued

(* A command is in the log at the revision it expected, once.              *)
LogOK ==
  \A i \in 1..Len(log) :
    /\ log[i].action <= issued
    /\ log[i].expected = i - 1
    /\ \A j \in 1..Len(log) : log[i].action = log[j].action => i = j

(* What is in the log under the ActionId of the running command is that    *)
(* command, and nothing is before the store has been asked.                *)
JobOK ==
  phase # "free" =>
    /\ job.command.action <= issued
    /\ \A i \in 1..Len(log) :
         log[i].action = job.command.action => log[i] = job.command
    /\ phase = "commit" => job.command.action \notin ActionsOf(log)
    /\ phase = "recover" /\ job.tag = "ok" =>
         job.command.action \in ActionsOf(log)

(* Answers are about commands of the past, which the running one is not.   *)
ResultOK ==
  \A c \in Callers :
    /\ result[c].action <= issued
    /\ phase = "commit" => result[c].action # job.command.action

ServiceInv == TypeInv /\ Counted /\ LogOK /\ JobOK /\ ResultOK
              /\ SuccessIsDurable

(* A recovery that will report an error has found its command absent.      *)
RefusedInv ==
  phase = "recover" /\ job.tag # "ok" =>
    job.command.action \notin ActionsOf(log)

AbsentInv == RefusedInv /\ FailureIsAbsent

(* The world is the prefix of the log that ends at its revision, plus the  *)
(* command that is being committed.                                        *)
Prefix(n) == SubSeq(log, 1, n)

PublishedInv ==
  /\ CandidateNotPublished
  /\ phase = "commit" =>
       /\ job.command.expected <= Len(log)
       /\ world.revision = job.command.expected + 1
       /\ world.records = Append(Prefix(job.command.expected), job.command)
       /\ events = ActionsOf(Prefix(job.command.expected))

(* Without a rival, a world that is not the saved one has a revision the   *)
(* save has not reached, so that its commands conflict.                    *)
CurrentOrAhead ==
  \/ world.revision = Len(log) /\ world.records = log
  \/ world.revision > Len(log)

SoleInv ==
  /\ phase # "commit" => CurrentOrAhead
  /\ phase = "commit" =>
       /\ world.revision = job.command.expected + 1
       /\ \/ /\ job.command.expected = Len(log)
             /\ world.records = Append(log, job.command)
          \/ job.command.expected > Len(log)

(* The commit in progress, if the log is at its revision, tells an NPC of  *)
(* something new.                                                          *)
HeardInv ==
  /\ RememberedOnce
  /\ phase = "commit" /\ job.command.expected = Len(log)
       /\ job.command.source # NoSource =>
     \A i \in 1..Len(log) : log[i].source # job.command.source

(* Which session parameters a job will leave behind, and that a recovery   *)
(* has an answer to give.                                                  *)
SessionInv ==
  /\ phase = "commit" =>
       /\ job.after = world.session
       /\ job.after = IF job.command.kind.session THEN job.command.action
                                                  ELSE job.before
  /\ phase = "recover" =>
       /\ job.tag # "none"
       /\ job.session = IF job.tag = "ok" THEN job.after ELSE job.before

-----------------------------------------------------------------------------
(* The operators the model is built from.                                  *)
LEMMA KindsTyped == Transcript \in KindType /\ Kinds \subseteq KindType
  <1>1. Transcript \in KindType
    BY DEF Transcript, KindType
  <1> QED
    BY <1>1, ServiceAssumption DEF ServiceAssumption

LEMMA ActionsOfAppend ==
  ASSUME NEW s \in Seq(Command), NEW cmd \in Command
  PROVE  ActionsOf(Append(s, cmd)) = ActionsOf(s) \cup {cmd.action}
  BY DEF ActionsOf

LEMMA LogTyped ==
  ASSUME TypeInv, NEW i \in 1..Len(log)
  PROVE  log[i] \in Command
  BY DEF TypeInv

(* A command under a fresh ActionId.                                       *)
LEMMA FreshAction ==
  ASSUME TypeInv, LogOK, NEW a \in Nat, a > issued
  PROVE  a \notin ActionsOf(log)
  <1>1. ASSUME NEW i \in 1..Len(log) PROVE log[i].action # a
    <2>1. log[i].action <= issued /\ log[i].action \in Nat
      BY LogTyped DEF LogOK, Command, Ids
    <2> QED
      BY <2>1 DEF TypeInv
  <1> QED
    BY <1>1 DEF ActionsOf

(* A call that issued cmd, up to its first await.                          *)
Call(c, cmd) ==
  /\ phase = "free"
  /\ issued' = issued + 1 /\ issued' <= MaxActions
  /\ cmd.action = issued' /\ cmd.expected <= issued
  /\ cmd.source = NoSource \/ ~Remembered(cmd.source)
  /\ Apply(c, cmd)

LEMMA CallsTyped ==
  ASSUME TypeInv, Counted, NEW c \in Callers,
         \/ AppendTranscript(c)
         \/ \E k \in Kinds : Execute(c, k)
         \/ \E s \in Sources : RememberNpcDialogue(c, s)
  PROVE  \E cmd \in Command : Call(c, cmd)
  <1>1. /\ issued \in Nat /\ MaxActions \in Nat /\ issued < MaxActions
        /\ issued' = issued + 1 /\ phase = "free"
    <2>1. Issue(c)
      BY DEF AppendTranscript, Execute, RememberNpcDialogue
    <2>2. issued \in Nat /\ MaxActions \in Nat
      BY ServiceAssumption DEF ServiceAssumption, TypeInv
    <2> QED
      BY <2>1, <2>2 DEF Issue
  <1>2. issued' \in Ids
    BY <1>1 DEF Ids
  <1>3. /\ world.revision \in 0..MaxActions /\ world.revision <= issued
        /\ seen[c] \in 0..MaxActions /\ seen[c] <= issued
    BY <1>1 DEF TypeInv, Counted
  <1>4. CASE AppendTranscript(c)
    <2> DEFINE cmd == [action |-> issued', expected |-> world.revision,
                       kind |-> Transcript, source |-> NoSource]
    <2>1. cmd \in Command
      BY <1>2, <1>3 DEF Command
    <2>2. Call(c, cmd)
      BY <1>1, <1>3, <1>4 DEF Call, AppendTranscript
    <2> QED
      BY <2>1, <2>2
  <1>5. ASSUME NEW k \in Kinds, Execute(c, k)
        PROVE  \E cmd \in Command : Call(c, cmd)
    <2> DEFINE cmd == [action |-> issued', expected |-> seen[c],
                       kind |-> k, source |-> NoSource]
    <2>1. cmd \in Command
      BY <1>2, <1>3 DEF Command
    <2>2. Call(c, cmd)
      BY <1>1, <1>3, <1>5 DEF Call, Execute
    <2> QED
      BY <2>1, <2>2
  <1>6. ASSUME NEW s \in Sources, RememberNpcDialogue(c, s)
        PROVE  \E cmd \in Command : Call(c, cmd)
    <2> DEFINE cmd == [action |-> issued', expected |-> world.revision,
                       kind |-> Transcript, source |-> s]
    <2>1. cmd \in Command
      BY <1>2, <1>3 DEF Command
    <2>2. Call(c, cmd)
      BY <1>1, <1>3, <1>6 DEF Call, RememberNpcDialogue
    <2> QED
      BY <2>1, <2>2
  <1> QED
    BY <1>4, <1>5, <1>6

(* The steps of the service, the three ways to issue a command as one.     *)
LEMMA NextCases ==
  ASSUME TypeInv, Counted, [Next]_vars
  PROVE  \/ UNCHANGED vars
         \/ \E c \in Callers : \/ Observe(c)
                               \/ \E s \in Sources : AlreadyRemembered(c, s)
                               \/ \E cmd \in Command : Call(c, cmd)
         \/ Committed \/ Conflict \/ CommitError \/ Resolve \/ Recover
         \/ RecoverFails \/ Restart \/ Rival
  BY CallsTyped DEF Next, Service

(* The log as it is after a step: as before, or with one new command.      *)
Grows(cmd) ==
  /\ cmd \in Command /\ cmd.action <= issued'
  /\ Save!AppendCommand(cmd)

LEMMA AppendGrows ==
  ASSUME TypeInv, NEW cmd \in Command, Save!AppendCommand(cmd)
  PROVE  /\ log' = Append(log, cmd) /\ log' \in Seq(Command)
         /\ Len(log') = Len(log) + 1 /\ Len(log) \in Nat
         /\ \A i \in 1..Len(log) : log'[i] = log[i]
         /\ log'[Len(log')] = cmd
         /\ cmd.expected = Len(log)
         /\ ActionsOf(log') = ActionsOf(log) \cup {cmd.action}
         /\ cmd.action \notin ActionsOf(log)
  <1>1. /\ log' = Append(log, cmd) /\ log \in Seq(Command)
        /\ cmd.expected = Len(log)
        /\ \A i \in 1..Len(log) : log[i].action # cmd.action
    BY DEF TypeInv, Save!AppendCommand
  <1>2. cmd.action \notin ActionsOf(log)
    BY <1>1 DEF ActionsOf
  <1> QED
    BY <1>1, <1>2, ActionsOfAppend

LEMMA RivalCommand ==
  ASSUME TypeInv, Counted, Rival
  PROVE  \E cmd \in Command :
           /\ cmd.action = issued' /\ cmd.source = NoSource
           /\ Save!AppendCommand(cmd)
  <1> DEFINE cmd == [action |-> issued', expected |-> Len(log),
                     kind |-> Transcript, source |-> NoSource]
  <1>1. issued' \in Ids /\ Len(log) \in 0..MaxActions
    BY ServiceAssumption DEF ServiceAssumption, TypeInv, Counted, Rival, Ids
  <1>2. cmd \in Command
    BY <1>1 DEF Command
  <1>3. Save!AppendCommand(cmd)
    BY DEF Rival
  <1> QED
    BY <1>2, <1>3

LEMMA LogOKGrows ==
  ASSUME TypeInv, LogOK, issued' \in Nat, issued <= issued',
         NEW cmd, Grows(cmd)
  PROVE  LogOK'
  <1>1. /\ Len(log') = Len(log) + 1 /\ Len(log) \in Nat
        /\ \A i \in 1..Len(log) : log'[i] = log[i]
        /\ log'[Len(log')] = cmd /\ cmd.expected = Len(log)
        /\ cmd.action \notin ActionsOf(log) /\ cmd.action <= issued'
    BY AppendGrows DEF Grows
  <1>2. \A i \in 1..Len(log) : log[i].action # cmd.action
    BY <1>1 DEF ActionsOf
  <1>3. ASSUME NEW i \in 1..Len(log')
        PROVE  log'[i].action <= issued' /\ log'[i].expected = i - 1
    <2>1. CASE i = Len(log')
      BY <1>1, <2>1
    <2>2. CASE i \in 1..Len(log)
      <3>1. log[i].action <= issued /\ log[i].action \in Nat
            /\ log[i].expected = i - 1
        BY <2>2, LogTyped DEF LogOK, Command, Ids
      <3> QED
        BY <1>1, <2>2, <3>1 DEF TypeInv
    <2> QED
      BY <1>1, <2>1, <2>2
  <1>4. ASSUME NEW i \in 1..Len(log'), NEW j \in 1..Len(log'),
               log'[i].action = log'[j].action
        PROVE  i = j
    <2>1. CASE i \in 1..Len(log) /\ j \in 1..Len(log)
      BY <1>1, <1>4, <2>1 DEF LogOK
    <2>2. i \in 1..Len(log) \/ i = Len(log')
      BY <1>1
    <2>3. j \in 1..Len(log) \/ j = Len(log')
      BY <1>1
    <2> QED
      BY <1>1, <1>2, <1>4, <2>1, <2>2, <2>3
  <1> QED
    BY <1>3, <1>4 DEF LogOK

-----------------------------------------------------------------------------
(* Every answer is true, whatever fails: one lemma per part.               *)
LEMMA CandidateTyped ==
  ASSUME TypeInv, NEW cmd \in Command
  PROVE  /\ Candidate(cmd) \in [revision : Nat, records : Seq(Command),
                                session : Nat]
         /\ Candidate(cmd).revision = world.revision + 1
         /\ Candidate(cmd).session = IF cmd.kind.session THEN cmd.action
                                                         ELSE world.session
         /\ cmd.kind.ops => Candidate(cmd).records = Append(world.records, cmd)
  <1>1. /\ world.revision + 1 \in Nat /\ world.records \in Seq(Command)
        /\ world.session \in Nat /\ cmd.action \in Nat
    BY DEF TypeInv, Command, Ids
  <1>2. Append(world.records, cmd) \in Seq(Command)
    BY <1>1
  <1>3. (IF cmd.kind.ops THEN Append(world.records, cmd) ELSE world.records)
          \in Seq(Command)
    BY <1>1, <1>2
  <1>4. (IF cmd.kind.session THEN cmd.action ELSE world.session) \in Nat
    BY <1>1
  <1> QED
    BY <1>1, <1>3, <1>4 DEF Candidate

LEMMA ReleaseTyped ==
  ASSUME TypeInv, NEW c \in Callers, NEW tag \in JobTags, NEW cmd \in Command,
         Release(c, tag, cmd)
  PROVE  /\ phase' = "free" /\ job' = NoJob
         /\ result' \in [Callers -> Results]
         /\ result'[c] = [tag |-> tag, action |-> cmd.action,
                          revision |-> cmd.expected + 1]
         /\ \A o \in Callers : o # c => result'[o] = result[o]
  BY DEF TypeInv, Release, Results, Command, Ids

LEMMA NoResultTyped == NoResult \in Results
  BY DEF NoResult, Results, JobTags

LEMMA CallCases ==
  ASSUME TypeInv, NEW c \in Callers, NEW cmd \in Command, Call(c, cmd)
  PROVE  /\ UNCHANGED <<log, locks, events, seen>>
         /\ issued' = issued + 1 /\ issued' \in 0..MaxActions
         /\ phase = "free" /\ cmd.action = issued' /\ cmd.expected <= issued
         /\ world' = world \/ (world' = Candidate(cmd) /\ Accepted(cmd))
         /\ \/ /\ phase' = "recover" /\ world' = world
               /\ job' \in Jobs /\ job'.command = cmd
               /\ job'.tag = "world_error"
               /\ job'.before = world.session /\ job'.session = world.session
               /\ job'.after = world.session
               /\ result' = [result EXCEPT ![c] = NoResult]
            \/ /\ ~cmd.kind.ops /\ world' = Candidate(cmd)
               /\ Release(c, "store_error", cmd)
            \/ /\ cmd.kind.ops /\ world' = Candidate(cmd)
               /\ phase' = "commit"
               /\ job' \in Jobs /\ job'.command = cmd
               /\ job'.before = world.session
               /\ job'.after = Candidate(cmd).session
               /\ result' = [result EXCEPT ![c] = NoResult]
  <1>1. /\ issued' = issued + 1 /\ issued' \in 0..MaxActions
        /\ phase = "free" /\ cmd.action = issued' /\ cmd.expected <= issued
    BY ServiceAssumption DEF ServiceAssumption, TypeInv, Call
  <1>2. Candidate(cmd).session \in Nat /\ world.session \in Nat
    BY CandidateTyped DEF TypeInv
  <1> QED
    BY <1>1, <1>2 DEF Call, Apply, Jobs, JobTags

LEMMA TypeStep ==
  ASSUME TypeInv, Counted, [Next]_vars
  PROVE  TypeInv'
  <1>1. CASE UNCHANGED vars
    BY <1>1 DEF vars, TypeInv
  <1>2. ASSUME NEW c \in Callers, Observe(c) PROVE TypeInv'
    BY <1>2 DEF Observe, TypeInv
  <1>3. ASSUME NEW c \in Callers, NEW s \in Sources, AlreadyRemembered(c, s)
        PROVE  TypeInv'
    <2>1. [NoResult EXCEPT !.tag = "known"] \in Results
      BY DEF NoResult, Results
    <2> QED
      BY <1>3, <2>1 DEF AlreadyRemembered, TypeInv
  <1>4. ASSUME NEW c \in Callers, NEW cmd \in Command, Call(c, cmd)
        PROVE  TypeInv'
    <2>1. /\ UNCHANGED <<log, seen>> /\ issued' \in 0..MaxActions
          /\ world' \in [revision : Nat, records : Seq(Command), session : Nat]
      <3>1. /\ UNCHANGED <<log, seen>> /\ issued' \in 0..MaxActions
            /\ world' = world \/ world' = Candidate(cmd)
        BY <1>4, CallCases
      <3>2. Candidate(cmd) \in [revision : Nat, records : Seq(Command), session : Nat]
        BY CandidateTyped
      <3> QED
        BY <3>1, <3>2 DEF TypeInv
    <2>2. /\ phase' \in {"free", "commit", "resolve", "recover"}
          /\ phase' # "free" => job' \in Jobs
          /\ result' \in [Callers -> Results]
      <3>1. "store_error" \in JobTags
        BY DEF JobTags
      <3>2. CASE Release(c, "store_error", cmd)
        BY <3>1, <3>2, ReleaseTyped
      <3>3. CASE result' = [result EXCEPT ![c] = NoResult]
                 /\ phase' \in {"commit", "recover"} /\ job' \in Jobs
        BY <3>3, NoResultTyped DEF TypeInv
      <3> QED
        BY <1>4, <3>2, <3>3, CallCases
    <2> QED
      BY <2>1, <2>2 DEF TypeInv
  <1>5. CASE Committed
    <2>1. job.command \in Command /\ job.caller \in Callers /\ "ok" \in JobTags
      BY <1>5 DEF Committed, TypeInv, Jobs, JobTags
    <2>2. log' \in Seq(Command)
      BY <1>5, <2>1, AppendGrows DEF Committed
    <2>3. phase' = "free" /\ result' \in [Callers -> Results]
      BY <1>5, <2>1, ReleaseTyped DEF Committed
    <2> QED
      BY <1>5, <2>2, <2>3 DEF Committed, TypeInv
  <1>6. CASE Conflict
    BY <1>6 DEF Conflict, Recovering, TypeInv, Jobs, JobTags
  <1>7. CASE CommitError
    <2>1. job.command \in Command
      BY <1>7 DEF CommitError, TypeInv, Jobs
    <2>2. log' \in Seq(Command)
      BY <1>7, <2>1, AppendGrows DEF CommitError, TypeInv
    <2> QED
      BY <1>7, <2>2 DEF CommitError, TypeInv
  <1>8. CASE Resolve
    <2>1. job' \in Jobs /\ phase' = "recover"
      BY <1>8 DEF Resolve, Recovering, TypeInv, Jobs, JobTags
    <2> QED
      BY <1>8, <2>1 DEF Resolve, TypeInv
  <1>9. CASE Recover
    <2>1. job.command \in Command /\ job.caller \in Callers
          /\ job.tag \in JobTags /\ job.session \in Nat
      BY <1>9 DEF Recover, TypeInv, Jobs
    <2>2. phase' = "free" /\ result' \in [Callers -> Results]
      BY <1>9, <2>1, ReleaseTyped DEF Recover
    <2> QED
      BY <1>9, <2>1, <2>2 DEF Recover, Rebuilt, TypeInv
  <1>10. CASE RecoverFails
    <2>1. job.command \in Command /\ job.caller \in Callers
          /\ "store_error" \in JobTags
      BY <1>10 DEF RecoverFails, TypeInv, Jobs, JobTags
    <2>2. phase' = "free" /\ result' \in [Callers -> Results]
      BY <1>10, <2>1, ReleaseTyped DEF RecoverFails
    <2> QED
      BY <1>10, <2>2 DEF RecoverFails, TypeInv
  <1>11. CASE Restart
    BY <1>11, NoResultTyped DEF Restart, Rebuilt, TypeInv
  <1>12. CASE Rival
    <2>1. PICK cmd \in Command : cmd.action = issued' /\ Save!AppendCommand(cmd)
      BY <1>12, RivalCommand
    <2>2. log' \in Seq(Command) /\ issued' \in 0..MaxActions
      BY <1>12, <2>1, AppendGrows, ServiceAssumption
         DEF Rival, TypeInv, ServiceAssumption
    <2> QED
      BY <1>12, <2>2 DEF Rival, TypeInv
  <1> QED
    BY <1>1, <1>2, <1>3, <1>4, <1>5, <1>6, <1>7, <1>8, <1>9, <1>10, <1>11,
       <1>12, NextCases

(* What a step does to the log, whichever it is.                           *)
LogKept == log' = log /\ issued' \in Nat /\ issued <= issued'

LEMMA StepLog ==
  ASSUME TypeInv, Counted, LogOK, JobOK, [Next]_vars
  PROVE  \/ LogKept
         \/ /\ Committed \/ CommitError
            /\ issued' = issued /\ Grows(job.command)
         \/ /\ Rival
            /\ issued' = issued + 1
            /\ \E cmd : /\ cmd.action = issued' /\ cmd.source = NoSource
                        /\ Grows(cmd)
  <1> issued \in Nat
    BY DEF TypeInv
  <1>1. ASSUME phase # "free" PROVE job.command \in Command
                                    /\ job.command.action <= issued
    BY <1>1 DEF TypeInv, JobOK, Jobs
  <1>2. CASE Committed
    BY <1>1, <1>2 DEF Committed, Grows
  <1>3. CASE CommitError
    BY <1>1, <1>3 DEF CommitError, Grows, LogKept
  <1>4. CASE Rival
    <2>1. PICK cmd \in Command : /\ cmd.action = issued'
                                 /\ cmd.source = NoSource
                                 /\ Save!AppendCommand(cmd)
      BY <1>4, RivalCommand
    <2>2. issued' = issued + 1
      BY <1>4 DEF Rival
    <2> QED
      BY <1>4, <2>1, <2>2 DEF Grows
  <1>5. ASSUME NEW c \in Callers, NEW cmd \in Command, Call(c, cmd)
        PROVE  LogKept
    BY <1>5, CallCases DEF LogKept
  <1>6. ASSUME NEW c \in Callers, Observe(c) PROVE LogKept
    BY <1>6 DEF Observe, LogKept
  <1>7. ASSUME NEW c \in Callers, NEW s \in Sources, AlreadyRemembered(c, s)
        PROVE  LogKept
    BY <1>7 DEF AlreadyRemembered, LogKept
  <1>8. CASE \/ UNCHANGED vars \/ Conflict \/ Resolve \/ Recover
             \/ RecoverFails \/ Restart
    BY <1>8 DEF vars, Conflict, Resolve, Recover, RecoverFails, Restart, LogKept
  <1> QED
    BY <1>2, <1>3, <1>4, <1>5, <1>6, <1>7, <1>8, NextCases

LEMMA LogStep ==
  ASSUME TypeInv, Counted, LogOK, JobOK, [Next]_vars
  PROVE  LogOK'
  <1> issued \in Nat
    BY DEF TypeInv
  <1>1. CASE LogKept
    <2>1. \A i \in 1..Len(log) : log[i].action \in Nat
      BY LogTyped DEF Command, Ids
    <2> QED
      BY <1>1, <2>1 DEF LogKept, LogOK
  <1> QED
    BY <1>1, StepLog, LogOKGrows

LEMMA CountedStep ==
  ASSUME TypeInv, Counted, LogOK, JobOK, [Next]_vars
  PROVE  Counted'
  <1> /\ issued \in Nat /\ Len(log) \in Nat /\ world.revision \in Nat
      /\ \A c \in Callers : seen[c] \in Nat
    BY DEF TypeInv
  <1>1. CASE UNCHANGED vars
    BY <1>1 DEF vars, Counted
  <1>2. ASSUME NEW c \in Callers, Observe(c) PROVE Counted'
    BY <1>2 DEF Observe, Counted, TypeInv
  <1>3. ASSUME NEW c \in Callers, NEW s \in Sources, AlreadyRemembered(c, s)
        PROVE  Counted'
    BY <1>3 DEF AlreadyRemembered, Counted
  <1>4. ASSUME NEW c \in Callers, NEW cmd \in Command, Call(c, cmd)
        PROVE  Counted'
    <2>1. /\ UNCHANGED <<log, seen>> /\ issued' = issued + 1
          /\ world'.revision = world.revision
             \/ world'.revision = world.revision + 1
      <3>1. /\ UNCHANGED <<log, seen>> /\ issued' = issued + 1
            /\ world' = world \/ world' = Candidate(cmd)
        BY <1>4, CallCases
      <3>2. Candidate(cmd).revision = world.revision + 1
        BY CandidateTyped
      <3> QED
        BY <3>1, <3>2
    <2> QED
      BY <2>1 DEF Counted
  <1>5. CASE Committed
    <2>1. /\ Len(log') = Len(log) + 1 /\ UNCHANGED <<issued, world, seen>>
          /\ phase' = "free" /\ Len(log) < issued
      <3>1. job.command \in Command /\ Save!AppendCommand(job.command)
        BY <1>5 DEF Committed, TypeInv, Jobs
      <3> QED
        BY <1>5, <3>1, AppendGrows DEF Committed, Counted, Release
    <2> QED
      BY <2>1 DEF Counted
  <1>6. CASE CommitError
    <2>1. /\ Len(log') = Len(log) + 1 \/ log' = log
          /\ UNCHANGED <<issued, world, seen>>
          /\ phase' = "resolve" /\ Len(log) < issued
      <3>1. job.command \in Command
        BY <1>6 DEF CommitError, TypeInv, Jobs
      <3> QED
        BY <1>6, <3>1, AppendGrows DEF CommitError, Counted
    <2> QED
      BY <2>1 DEF Counted
  <1>7. CASE Rival
    <2>1. /\ Len(log') = Len(log) + 1 /\ UNCHANGED <<world, seen, phase>>
          /\ issued' = issued + 1
      BY <1>7, RivalCommand, AppendGrows DEF Rival
    <2> QED
      BY <2>1 DEF Counted
  <1>8. CASE Conflict \/ Resolve
    BY <1>8 DEF Conflict, Resolve, Recovering, Counted
  <1>9. CASE Recover
    BY <1>9 DEF Recover, Rebuilt, Release, Counted
  <1>10. CASE RecoverFails
    BY <1>10 DEF RecoverFails, Release, Counted
  <1>11. CASE Restart
    BY <1>11 DEF Restart, Rebuilt, Counted
  <1> QED
    BY <1>1, <1>2, <1>3, <1>4, <1>5, <1>6, <1>7, <1>8, <1>9, <1>10, <1>11,
       NextCases

LEMMA JobStep ==
  ASSUME TypeInv, Counted, LogOK, JobOK, [Next]_vars
  PROVE  JobOK'
  <1> issued \in Nat
    BY DEF TypeInv
  <1>1. CASE UNCHANGED vars
    BY <1>1 DEF vars, JobOK, ActionsOf
  <1>2. ASSUME NEW c \in Callers, Observe(c) PROVE JobOK'
    BY <1>2 DEF Observe, JobOK
  <1>3. ASSUME NEW c \in Callers, NEW s \in Sources, AlreadyRemembered(c, s)
        PROVE  JobOK'
    BY <1>3 DEF AlreadyRemembered, JobOK
  <1>4. ASSUME NEW c \in Callers, NEW cmd \in Command, Call(c, cmd)
        PROVE  JobOK'
    <2>1. /\ log' = log /\ issued' = issued + 1 /\ cmd.action = issued'
          /\ phase' = "free" \/ job'.command = cmd
          /\ ~(phase' = "recover" /\ job'.tag = "ok")
      BY <1>4, CallCases, ReleaseTyped DEF JobTags
    <2>2. cmd.action \notin ActionsOf(log)
      BY <2>1, FreshAction
    <2>3. \A i \in 1..Len(log) : log[i].action # cmd.action
      BY <2>2 DEF ActionsOf
    <2> QED
      BY <2>1, <2>2, <2>3 DEF JobOK
  <1>5. CASE Committed \/ Recover \/ RecoverFails \/ Restart
    BY <1>5 DEF Committed, Recover, RecoverFails, Restart, Release, JobOK
  <1>6. CASE CommitError
    <2>1. /\ job.command \in Command /\ phase' = "resolve"
          /\ job' = job /\ issued' = issued /\ job.command.action <= issued
      BY <1>6 DEF CommitError, TypeInv, Jobs, JobOK
    <2>2. CASE log' = log
      BY <1>6, <2>1, <2>2 DEF JobOK, CommitError
    <2>3. CASE Save!AppendCommand(job.command)
      <3>1. /\ Len(log') = Len(log) + 1 /\ Len(log) \in Nat
            /\ \A i \in 1..Len(log) : log'[i] = log[i]
            /\ log'[Len(log')] = job.command
            /\ job.command.action \notin ActionsOf(log)
        BY <2>1, <2>3, AppendGrows
      <3>2. \A i \in 1..Len(log) : log[i].action # job.command.action
        BY <3>1 DEF ActionsOf
      <3>3. \A i \in 1..Len(log') : i \in 1..Len(log) \/ i = Len(log')
        BY <3>1
      <3> QED
        BY <2>1, <3>1, <3>2, <3>3 DEF JobOK
    <2> QED
      BY <1>6, <2>2, <2>3 DEF CommitError
  <1>7. CASE Conflict
    BY <1>7 DEF Conflict, Recovering, JobOK
  <1>8. CASE Resolve
    <2>1. /\ phase = "resolve" /\ phase' = "recover"
          /\ UNCHANGED <<log, issued>> /\ job'.command = job.command
          /\ job'.tag = "ok" => job.command.action \in ActionsOf(log)
      BY <1>8 DEF Resolve, Recovering, TypeInv, Jobs
    <2> QED
      BY <2>1 DEF JobOK
  <1>9. CASE Rival
    <2>1. PICK cmd \in Command : cmd.action = issued' /\ Save!AppendCommand(cmd)
      BY <1>9, RivalCommand
    <2>2. /\ Len(log') = Len(log) + 1 /\ Len(log) \in Nat
          /\ \A i \in 1..Len(log) : log'[i] = log[i]
          /\ log'[Len(log')] = cmd
          /\ ActionsOf(log') = ActionsOf(log) \cup {cmd.action}
      BY <2>1, AppendGrows
    <2>3. UNCHANGED <<phase, job>> /\ issued' = issued + 1
      BY <1>9 DEF Rival
    <2>4. \A i \in 1..Len(log') : i \in 1..Len(log) \/ i = Len(log')
      BY <2>2
    <2>5. ASSUME phase # "free" PROVE /\ job.command.action <= issued
                                      /\ job.command.action \in Nat
      BY <2>5 DEF JobOK, TypeInv, Jobs, Command, Ids
    <2> QED
      BY <2>1, <2>2, <2>3, <2>4, <2>5 DEF JobOK
  <1> QED
    BY <1>1, <1>2, <1>3, <1>4, <1>5, <1>6, <1>7, <1>8, <1>9, NextCases

(* What a step does to the answers: it keeps them, it clears or repeats    *)
(* one, or it releases the mutex with one.                                 *)
Answers(c, tag, cmd) ==
  /\ phase' = "free"
  /\ result'[c] = [tag |-> tag, action |-> cmd.action,
                   revision |-> cmd.expected + 1]
  /\ \A o \in Callers : o # c => result'[o] = result[o]

Kept(c) == result'[c] = result[c]

Cleared(c) == /\ result'[c].tag \in {"none", "known"}
              /\ result'[c].action = 0

LEMMA StepAnswers ==
  ASSUME TypeInv, Counted, JobOK, [Next]_vars
  PROVE  \/ /\ \A c \in Callers : Kept(c) \/ Cleared(c)
            /\ \/ phase' # "commit"
               \/ phase = "commit" /\ job' = job
               \/ \E cmd \in Command : /\ issued' = issued + 1
                                       /\ job'.command = cmd
                                       /\ cmd.action = issued'
         \/ \E c \in Callers, cmd \in Command :
              Call(c, cmd) /\ Answers(c, "store_error", cmd)
         \/ Committed /\ Answers(job.caller, "ok", job.command)
         \/ Recover /\ Answers(job.caller, job.tag, job.command)
         \/ RecoverFails /\ Answers(job.caller, "store_error", job.command)
  <1>1. CASE UNCHANGED vars
    BY <1>1 DEF vars, Kept
  <1>2. ASSUME NEW c \in Callers, Observe(c)
        PROVE  phase' # "commit" /\ \A o \in Callers : Kept(o)
    BY <1>2 DEF Observe, Kept
  <1>3. ASSUME NEW c \in Callers, NEW s \in Sources, AlreadyRemembered(c, s)
        PROVE  phase' # "commit" /\ \A o \in Callers : Kept(o) \/ Cleared(o)
    BY <1>3 DEF AlreadyRemembered, Kept, Cleared, NoResult, TypeInv
  <1>4. ASSUME NEW c \in Callers, NEW cmd \in Command, Call(c, cmd)
        PROVE  \/ Answers(c, "store_error", cmd)
               \/ /\ \A o \in Callers : Kept(o) \/ Cleared(o)
                  /\ \/ phase' # "commit"
                     \/ /\ issued' = issued + 1
                        /\ job'.command = cmd /\ cmd.action = issued'
    <2>1. CASE Release(c, "store_error", cmd)
      BY <2>1, ReleaseTyped DEF Answers, JobTags
    <2>2. CASE ~Release(c, "store_error", cmd)
      <3>1. /\ result' = [result EXCEPT ![c] = NoResult]
            /\ \/ phase' = "recover"
               \/ phase' = "commit" /\ job'.command = cmd
            /\ issued' = issued + 1 /\ cmd.action = issued'
        BY <1>4, <2>2, CallCases
      <3>2. \A o \in Callers : Kept(o) \/ Cleared(o)
        BY <3>1 DEF Kept, Cleared, NoResult, TypeInv
      <3> QED
        BY <3>1, <3>2
    <2> QED
      BY <1>4, <2>1, <2>2, CallCases
  <1>5. ASSUME phase # "free"
        PROVE  /\ job.caller \in Callers /\ job.command \in Command
               /\ job.tag \in JobTags
    BY <1>5 DEF TypeInv, Jobs
  <1>6. CASE Committed
    BY <1>5, <1>6, ReleaseTyped DEF Committed, Answers, JobTags
  <1>7. CASE Recover
    BY <1>5, <1>7, ReleaseTyped DEF Recover, Answers
  <1>8. CASE RecoverFails
    BY <1>5, <1>8, ReleaseTyped DEF RecoverFails, Answers, JobTags
  <1>9. CASE Conflict \/ CommitError \/ Resolve
    BY <1>9 DEF Conflict, CommitError, Resolve, Recovering, Kept
  <1>10. CASE Restart
    BY <1>10 DEF Restart, Cleared, NoResult
  <1>11. CASE Rival
    BY <1>11 DEF Rival, Kept
  <1> QED
    BY <1>1, <1>2, <1>3, <1>4, <1>6, <1>7, <1>8, <1>9, <1>10, <1>11, NextCases

LEMMA ResultStep ==
  ASSUME TypeInv, Counted, LogOK, JobOK, ResultOK, [Next]_vars
  PROVE  ResultOK'
  <1> /\ issued \in Nat /\ issued' \in Nat /\ issued <= issued'
      /\ \A c \in Callers : result[c].action \in Nat
    BY StepLog DEF TypeInv, Results, LogKept
  <1>1. CASE /\ \A c \in Callers : Kept(c) \/ Cleared(c)
             /\ \/ phase' # "commit"
                \/ phase = "commit" /\ job' = job
                \/ \E cmd \in Command : /\ issued' = issued + 1
                                        /\ job'.command = cmd
                                        /\ cmd.action = issued'
    <2>1. \A c \in Callers : result'[c].action \in {result[c].action, 0}
      BY <1>1 DEF Kept, Cleared
    <2>2. phase = "commit" => job.command.action \in Ids
      BY DEF TypeInv, Jobs, Command
    <2> QED
      BY <1>1, <2>1, <2>2 DEF ResultOK, Ids
  <1>2. ASSUME NEW c \in Callers, NEW tag, NEW cmd \in Command,
               Answers(c, tag, cmd), cmd.action <= issued'
        PROVE  ResultOK'
    BY <1>2 DEF Answers, ResultOK
  <1>3. ASSUME phase # "free"
        PROVE  /\ job.caller \in Callers /\ job.command \in Command
               /\ job.command.action <= issued
               /\ job.command.action \in Nat
    BY <1>3 DEF TypeInv, Jobs, JobOK, Command, Ids
  <1>4. CASE \/ Committed /\ Answers(job.caller, "ok", job.command)
             \/ Recover /\ Answers(job.caller, job.tag, job.command)
             \/ RecoverFails /\ Answers(job.caller, "store_error", job.command)
    <2>1. phase # "free"
      BY <1>4 DEF Committed, Recover, RecoverFails
    <2>2. job.command.action <= issued'
      BY <1>3, <2>1
    <2> QED
      BY <1>2, <1>3, <1>4, <2>1, <2>2
  <1>5. ASSUME NEW c \in Callers, NEW cmd \in Command, Call(c, cmd),
               Answers(c, "store_error", cmd)
        PROVE  ResultOK'
    BY <1>2, <1>5, CallCases
  <1> QED
    BY <1>1, <1>4, <1>5, StepAnswers

(* The log is only ever extended.                                          *)
LEMMA LogExtends ==
  ASSUME TypeInv, Counted, LogOK, JobOK, [Next]_vars
  PROVE  /\ Len(log) <= Len(log') /\ Len(log) \in Nat /\ Len(log') \in Nat
         /\ \A i \in 1..Len(log) : log'[i] = log[i]
  BY StepLog, AppendGrows DEF LogKept, Grows, TypeInv

LEMMA SuccessStep ==
  ASSUME TypeInv, Counted, LogOK, JobOK, SuccessIsDurable, [Next]_vars
  PROVE  SuccessIsDurable'
  <1> DEFINE Right(c) ==
               result'[c].tag = "ok" =>
                 /\ result'[c].revision \in 1..Len(log')
                 /\ log'[result'[c].revision].action = result'[c].action
  <1>1. ASSUME NEW c \in Callers, Kept(c) \/ Cleared(c)
        PROVE  Right(c)
    <2>1. CASE Kept(c) /\ result[c].tag = "ok"
      <3>1. /\ result[c].revision \in 1..Len(log)
            /\ log[result[c].revision].action = result[c].action
        BY <2>1 DEF SuccessIsDurable
      <3> QED
        BY <2>1, <3>1, LogExtends DEF Kept
    <2> QED
      BY <1>1, <2>1 DEF Kept, Cleared
  <1>2. CASE \A c \in Callers : Kept(c) \/ Cleared(c)
    BY <1>1, <1>2 DEF SuccessIsDurable
  <1>3. ASSUME NEW c \in Callers, NEW tag, NEW cmd \in Command,
               Answers(c, tag, cmd),
               tag = "ok" => /\ cmd.expected + 1 \in 1..Len(log')
                             /\ log'[cmd.expected + 1].action = cmd.action
        PROVE  SuccessIsDurable'
    <2>1. Right(c)
      BY <1>3 DEF Answers
    <2>2. \A o \in Callers : o # c => Right(o)
      BY <1>1, <1>3 DEF Answers, Kept
    <2> QED
      BY <2>1, <2>2 DEF SuccessIsDurable
  <1>4. CASE Committed /\ Answers(job.caller, "ok", job.command)
    <2>1. /\ job.caller \in Callers /\ job.command \in Command
          /\ Save!AppendCommand(job.command)
      BY <1>4 DEF Committed, TypeInv, Jobs
    <2>2. /\ job.command.expected + 1 \in 1..Len(log')
          /\ log'[job.command.expected + 1].action = job.command.action
      BY <2>1, AppendGrows
    <2> QED
      BY <1>3, <1>4, <2>1, <2>2
  <1>5. CASE Recover /\ Answers(job.caller, job.tag, job.command)
    <2>1. /\ job.caller \in Callers /\ job.command \in Command
          /\ log' = log /\ phase = "recover"
      BY <1>5 DEF Recover, TypeInv, Jobs
    <2>2. ASSUME job.tag = "ok"
          PROVE  /\ job.command.expected + 1 \in 1..Len(log)
                 /\ log[job.command.expected + 1].action = job.command.action
      <3>1. PICK i \in 1..Len(log) : log[i].action = job.command.action
        BY <2>1, <2>2 DEF JobOK, ActionsOf
      <3>2. log[i] = job.command /\ log[i].expected = i - 1
        BY <2>1, <3>1 DEF JobOK, LogOK
      <3>3. job.command.expected + 1 = i
        BY <3>2
      <3> QED
        BY <3>1, <3>3
    <2> QED
      BY <1>3, <1>5, <2>1, <2>2
  <1>6. CASE RecoverFails /\ Answers(job.caller, "store_error", job.command)
    <2>1. job.caller \in Callers /\ job.command \in Command
      BY <1>6 DEF RecoverFails, TypeInv, Jobs
    <2> QED
      BY <1>3, <1>6, <2>1
  <1>7. ASSUME NEW c \in Callers, NEW cmd \in Command, Call(c, cmd),
               Answers(c, "store_error", cmd)
        PROVE  SuccessIsDurable'
    BY <1>3, <1>7
  <1> QED
    BY <1>2, <1>4, <1>5, <1>6, <1>7, StepAnswers

LEMMA ServiceInit == Init => ServiceInv
  <1> SUFFICES ASSUME Init PROVE ServiceInv
    OBVIOUS
  <1>1. log = <<>> /\ issued = 0
    BY DEF Init, Save!Init
  <1>2. TypeInv
    BY <1>1, NoResultTyped, ServiceAssumption
       DEF Init, TypeInv, ServiceAssumption
  <1> QED
    BY <1>1, <1>2
       DEF Init, ServiceInv, Counted, LogOK, JobOK, ResultOK, NoResult,
           SuccessIsDurable

LEMMA ServiceStep == ServiceInv /\ [Next]_vars => ServiceInv'
  BY TypeStep, CountedStep, LogStep, JobStep, ResultStep, SuccessStep
     DEF ServiceInv

(* Under every fault, the service keeps its books.                         *)
THEOREM ServiceInvariant == Spec => []ServiceInv
  BY ServiceInit, ServiceStep, PTL DEF Spec

(* Under every fault (apply_command may lose the store's answer, fail to   *)
(* resolve it and fail to rebuild): a caller that was told of success      *)
(* finds its command in the save at the revision it was told.              *)
THEOREM SuccessDurable == Spec => []SuccessIsDurable
  BY ServiceInvariant, PTL DEF ServiceInv

-----------------------------------------------------------------------------
(* Failures are told truly as long as the service gets its own answers.    *)

(* A step adds to the log's actions only the running command's, from its   *)
(* commit, or a fresh one.                                                 *)
LEMMA StepActions ==
  ASSUME ServiceInv, [Next]_vars,
         NEW a \in Nat, a <= issued, a \notin ActionsOf(log),
         phase = "commit" => a # job.command.action
  PROVE  a \notin ActionsOf(log')
  <1> issued \in Nat /\ TypeInv /\ Counted /\ LogOK /\ JobOK
    BY DEF ServiceInv, TypeInv
  <1>1. ASSUME NEW cmd, Grows(cmd), cmd.action # a
        PROVE  a \notin ActionsOf(log')
    <2>1. cmd \in Command /\ Save!AppendCommand(cmd)
      BY <1>1 DEF Grows
    <2> QED
      BY <1>1, <2>1, AppendGrows
  <1>2. CASE LogKept
    BY <1>2 DEF LogKept
  <1>3. CASE (Committed \/ CommitError) /\ Grows(job.command)
    BY <1>1, <1>3 DEF Committed, CommitError
  <1>4. ASSUME NEW cmd, cmd.action = issued + 1, Grows(cmd)
        PROVE  a \notin ActionsOf(log')
    BY <1>1, <1>4
  <1> QED
    BY <1>2, <1>3, <1>4, StepLog

LEMMA RefusedStep ==
  ASSUME Answering, ServiceInv, RefusedInv, [Next]_vars
  PROVE  RefusedInv'
  <1> issued \in Nat /\ TypeInv /\ Counted /\ LogOK /\ JobOK
    BY DEF ServiceInv, TypeInv
  <1>1. ASSUME phase # "free"
        PROVE  job.command.action \in Nat /\ job.command.action <= issued
    BY <1>1 DEF TypeInv, Jobs, Command, Ids, JobOK
  <1>2. ASSUME UNCHANGED <<phase, job>> PROVE RefusedInv'
    BY <1>1, <1>2, StepActions DEF RefusedInv
  <1>3. ASSUME phase' # "recover" PROVE RefusedInv'
    BY <1>3 DEF RefusedInv
  <1>4. CASE UNCHANGED vars
    BY <1>2, <1>4 DEF vars
  <1>5. ASSUME NEW c \in Callers, Observe(c) PROVE RefusedInv'
    BY <1>2, <1>5 DEF Observe
  <1>6. ASSUME NEW c \in Callers, NEW s \in Sources, AlreadyRemembered(c, s)
        PROVE  RefusedInv'
    BY <1>2, <1>6 DEF AlreadyRemembered
  <1>7. ASSUME NEW c \in Callers, NEW cmd \in Command, Call(c, cmd)
        PROVE  RefusedInv'
    <2>1. /\ log' = log /\ cmd.action = issued + 1
          /\ phase' = "recover" => job'.command = cmd
      BY <1>7, CallCases, ReleaseTyped DEF JobTags
    <2> QED
      BY <2>1, FreshAction DEF RefusedInv
  <1>8. CASE Conflict
    <2>1. phase = "commit" /\ log' = log /\ job'.command = job.command
      BY <1>8 DEF Conflict, Recovering, TypeInv, Jobs
    <2> QED
      BY <2>1 DEF JobOK, RefusedInv
  <1>9. CASE Resolve
    <2>1. /\ log' = log /\ job'.command = job.command
          /\ job'.tag # "ok" => job.command.action \notin ActionsOf(log)
      BY <1>9 DEF Resolve, Recovering, TypeInv, Jobs, Answering
    <2> QED
      BY <2>1 DEF RefusedInv
  <1>10. CASE \/ Committed \/ CommitError \/ Recover \/ RecoverFails
              \/ Restart
    BY <1>3, <1>10
       DEF Committed, CommitError, Recover, RecoverFails, Restart, Release
  <1>11. CASE Rival
    BY <1>2, <1>11 DEF Rival
  <1> QED
    BY <1>4, <1>5, <1>6, <1>7, <1>8, <1>9, <1>10, <1>11, NextCases

LEMMA FailureStep ==
  ASSUME Answering, ServiceInv, AbsentInv, [Next]_vars
  PROVE  FailureIsAbsent'
  <1> /\ issued \in Nat /\ TypeInv /\ Counted /\ LogOK /\ JobOK /\ ResultOK
      /\ RefusedInv /\ FailureIsAbsent
    BY DEF ServiceInv, TypeInv, AbsentInv
  <1> DEFINE Absent(c) ==
               result'[c].tag \in {"world_error", "unavailable", "store_error"}
                 => result'[c].action \notin ActionsOf(log')
  <1>1. ASSUME NEW c \in Callers, Kept(c) \/ Cleared(c) PROVE Absent(c)
    <2>1. /\ result[c].action \in Nat /\ result[c].action <= issued
          /\ phase = "commit" => result[c].action # job.command.action
      BY DEF ResultOK, TypeInv, Results
    <2>2. result[c].action \notin ActionsOf(log) =>
            result[c].action \notin ActionsOf(log')
      BY <2>1, StepActions
    <2> QED
      BY <1>1, <2>2 DEF Kept, Cleared, FailureIsAbsent
  <1>2. CASE \A c \in Callers : Kept(c) \/ Cleared(c)
    BY <1>1, <1>2 DEF FailureIsAbsent
  <1>3. ASSUME NEW c \in Callers, NEW tag, NEW cmd \in Command,
               Answers(c, tag, cmd),
               tag = "ok" \/ cmd.action \notin ActionsOf(log')
        PROVE  FailureIsAbsent'
    <2>1. Absent(c)
      BY <1>3 DEF Answers
    <2>2. \A o \in Callers : o # c => Absent(o)
      BY <1>1, <1>3 DEF Answers, Kept
    <2> QED
      BY <2>1, <2>2 DEF FailureIsAbsent
  <1>4. CASE Committed /\ Answers(job.caller, "ok", job.command)
    <2>1. job.caller \in Callers /\ job.command \in Command
      BY <1>4 DEF Committed, TypeInv, Jobs
    <2> QED
      BY <1>3, <1>4, <2>1
  <1>5. CASE Recover /\ Answers(job.caller, job.tag, job.command)
    <2>1. /\ job.caller \in Callers /\ job.command \in Command
          /\ log' = log /\ phase = "recover"
      BY <1>5 DEF Recover, TypeInv, Jobs
    <2>2. job.tag = "ok" \/ job.command.action \notin ActionsOf(log)
      BY <2>1 DEF RefusedInv
    <2> QED
      BY <1>3, <1>5, <2>1, <2>2
  <1>6. ~RecoverFails
    BY DEF RecoverFails, Answering
  <1>7. ASSUME NEW c \in Callers, NEW cmd \in Command, Call(c, cmd),
               Answers(c, "store_error", cmd)
        PROVE  FailureIsAbsent'
    <2>1. log' = log /\ cmd.action = issued + 1
      BY <1>7, CallCases
    <2>2. cmd.action \notin ActionsOf(log')
      BY <2>1, FreshAction
    <2> QED
      BY <1>3, <1>7, <2>2
  <1> QED
    BY <1>2, <1>4, <1>5, <1>6, <1>7, StepAnswers

(* When rebuilds and resolutions succeed, a caller of apply_command that   *)
(* was told of a failure is told the truth: its command is not in the save *)
(* and never gets there, whatever the store's answer was.                  *)
THEOREM FailureAbsent ==
  ASSUME Answering
  PROVE  Spec => []FailureIsAbsent
  <1>1. Init => AbsentInv
    BY DEF Init, AbsentInv, RefusedInv, FailureIsAbsent, NoResult
  <1>2. ServiceInv /\ AbsentInv /\ [Next]_vars => AbsentInv'
    BY Answering, RefusedStep, FailureStep DEF AbsentInv
  <1>3. AbsentInv => FailureIsAbsent
    BY DEF AbsentInv
  <1> QED
    BY <1>1, <1>2, <1>3, ServiceInvariant, PTL DEF Spec

-----------------------------------------------------------------------------
(* The world in memory and the save.                                       *)
LEMMA PrefixTyped ==
  ASSUME NEW s \in Seq(Command), NEW n \in 0..Len(s)
  PROVE  SubSeq(s, 1, n) \in Seq(Command) /\ Len(SubSeq(s, 1, n)) = n
  OBVIOUS

LEMMA PrefixWhole ==
  ASSUME NEW s \in Seq(Command)
  PROVE  SubSeq(s, 1, Len(s)) = s
  OBVIOUS

LEMMA PrefixAppend ==
  ASSUME NEW s \in Seq(Command), NEW cmd \in Command, NEW n \in 0..Len(s)
  PROVE  SubSeq(Append(s, cmd), 1, n) = SubSeq(s, 1, n)
  OBVIOUS

(* A command that reaches the store has record operations when every kind  *)
(* of command has.                                                         *)
LEMMA OpsKind ==
  ASSUME Rebuilding, NEW cmd \in Command
  PROVE  cmd.kind.ops
  BY DEF Rebuilding, Command, Transcript

(* No command of another connection moves a published prefix.              *)
LEMMA PublishedRival ==
  ASSUME TypeInv, Counted, PublishedInv, Rival
  PROVE  PublishedInv'
  <1>1. PICK cmd \in Command : Save!AppendCommand(cmd)
    BY RivalCommand
  <1>2. /\ log \in Seq(Command) /\ log' = Append(log, cmd)
        /\ Len(log') = Len(log) + 1 /\ Len(log) \in Nat
    BY <1>1, AppendGrows DEF TypeInv
  <1>3. \A n \in 0..Len(log) : SubSeq(log', 1, n) = SubSeq(log, 1, n)
    BY <1>1, <1>2, PrefixAppend
  <1>4. UNCHANGED <<world, events, phase, job>>
    BY DEF Rival
  <1>5. world.revision \in Nat
    BY DEF TypeInv
  <1>6. phase # "free" => job.command.expected \in Nat
    BY ServiceAssumption DEF ServiceAssumption, TypeInv, Jobs, Command
  <1>7. CandidateNotPublished'
    BY <1>2, <1>3, <1>4, <1>5 DEF PublishedInv, CandidateNotPublished
  <1>8. ASSUME phase = "commit"
        PROVE  /\ job.command.expected <= Len(log')
               /\ Prefix(job.command.expected)' = Prefix(job.command.expected)
    <2>1. job.command.expected \in 0..Len(log)
      BY <1>6, <1>8 DEF PublishedInv
    <2> QED
      BY <1>2, <1>3, <1>4, <2>1 DEF Prefix
  <1> QED
    BY <1>4, <1>7, <1>8 DEF PublishedInv

LEMMA PublishedStep ==
  ASSUME Rebuilding, ServiceInv, PublishedInv, [Next]_vars
  PROVE  PublishedInv'
  <1> TypeInv /\ Counted /\ LogOK /\ JobOK /\ log \in Seq(Command)
    BY DEF ServiceInv, TypeInv
  <1>1. ASSUME UNCHANGED <<log, world, events, phase, job>>
        PROVE  PublishedInv'
    BY <1>1 DEF PublishedInv, CandidateNotPublished, Prefix
  <1>2. ASSUME phase' \in {"resolve", "recover"} PROVE PublishedInv'
    BY <1>2 DEF PublishedInv, CandidateNotPublished
  <1>3. ASSUME phase' = "free", world'.revision = Len(log'),
               world'.records = log', events' = ActionsOf(log'),
               log' \in Seq(Command)
        PROVE  PublishedInv'
    BY <1>3, PrefixWhole DEF PublishedInv, CandidateNotPublished
  <1>4. CASE UNCHANGED vars
    BY <1>1, <1>4 DEF vars
  <1>5. ASSUME NEW c \in Callers, Observe(c) PROVE PublishedInv'
    BY <1>1, <1>5 DEF Observe
  <1>6. ASSUME NEW c \in Callers, NEW s \in Sources, AlreadyRemembered(c, s)
        PROVE  PublishedInv'
    BY <1>1, <1>6 DEF AlreadyRemembered
  <1>7. ASSUME NEW c \in Callers, NEW cmd \in Command, Call(c, cmd)
        PROVE  PublishedInv'
    <2>1. cmd.kind.ops
      BY OpsKind
    <2>2. CASE phase' = "recover"
      BY <1>2, <2>2
    <2>3. CASE phase' = "commit" /\ world' = Candidate(cmd)
               /\ job'.command = cmd
      <3>1. /\ UNCHANGED <<log, events>> /\ phase = "free"
            /\ world.revision \in Nat /\ cmd.expected = world.revision
        BY <1>7, <2>3, CallCases DEF TypeInv, Call, Apply, Accepted
      <3>2. /\ world'.revision = world.revision + 1
            /\ world'.records = Append(world.records, cmd)
        BY <2>1, <2>3, CandidateTyped
      <3> QED
        BY <2>3, <3>1, <3>2 DEF PublishedInv, CandidateNotPublished, Prefix
    <2> QED
      BY <1>7, <2>1, <2>2, <2>3, CallCases
  <1>8. CASE Committed
    <2>1. /\ job.command \in Command /\ phase = "commit" /\ world' = world
          /\ events' = events \cup {job.command.action} /\ phase' = "free"
          /\ Save!AppendCommand(job.command)
      BY <1>8 DEF Committed, Release, TypeInv, Jobs
    <2>2. /\ log' = Append(log, job.command) /\ log' \in Seq(Command)
          /\ job.command.expected = Len(log) /\ Len(log') = Len(log) + 1
          /\ ActionsOf(log') = ActionsOf(log) \cup {job.command.action}
      BY <2>1, AppendGrows
    <2>3. Prefix(job.command.expected) = log
      BY <2>2, PrefixWhole DEF Prefix
    <2> QED
      BY <1>3, <2>1, <2>2, <2>3 DEF PublishedInv
  <1>9. CASE Conflict \/ CommitError \/ Resolve
    BY <1>2, <1>9 DEF Conflict, CommitError, Resolve, Recovering
  <1>10. CASE Recover
    BY <1>3, <1>10 DEF Recover, Rebuilt, Release
  <1>11. ~RecoverFails
    BY DEF RecoverFails, Rebuilding
  <1>12. CASE Restart
    BY <1>3, <1>12 DEF Restart, Rebuilt
  <1>13. CASE Rival
    BY <1>13, PublishedRival
  <1> QED
    BY <1>4, <1>5, <1>6, <1>7, <1>8, <1>9, <1>10, <1>11, <1>12, <1>13, NextCases

LEMMA PublishedInit == Init => PublishedInv
  <1> SUFFICES ASSUME Init PROVE PublishedInv
    OBVIOUS
  <1>1. log = <<>> /\ events = {} /\ phase = "free"
        /\ world.revision = 0 /\ world.records = <<>>
    BY DEF Init, Save!Init
  <1>2. SubSeq(log, 1, 0) = <<>> /\ ActionsOf(world.records) = {}
    BY <1>1 DEF ActionsOf
  <1> QED
    BY <1>1, <1>2 DEF PublishedInv, CandidateNotPublished

(* When rebuilds succeed and every command changes records, a reader of    *)
(* the service never sees a candidate: at each release of the mutex the    *)
(* world and its events are those of one durable revision, rival commits,  *)
(* lost answers and restarts included.                                     *)
THEOREM CandidateHidden ==
  ASSUME Rebuilding
  PROVE  Spec => []CandidateNotPublished
  <1>1. ServiceInv /\ PublishedInv /\ [Next]_vars => PublishedInv'
    BY Rebuilding, PublishedStep
  <1>2. PublishedInv => CandidateNotPublished
    BY DEF PublishedInv
  <1> QED
    BY <1>1, <1>2, PublishedInit, ServiceInvariant, PTL DEF Spec

(* What an accepted call leaves for its commit.                            *)
LEMMA HandsOver ==
  ASSUME TypeInv, NEW c \in Callers, NEW cmd \in Command, Call(c, cmd),
         phase' = "commit"
  PROVE  /\ log' = log /\ phase = "free" /\ job'.command = cmd
         /\ cmd.expected = world.revision
         /\ world'.revision = world.revision + 1
         /\ world'.records = Append(world.records, cmd)
         /\ cmd.source = NoSource \/ ~Remembered(cmd.source)
  <1>1. /\ log' = log /\ phase = "free" /\ cmd.kind.ops
        /\ world' = Candidate(cmd) /\ job'.command = cmd
    BY CallCases, ReleaseTyped DEF JobTags
  <1>2. cmd.expected = world.revision
    BY <1>1 DEF Call, Apply, Accepted
  <1> QED
    BY <1>1, <1>2, CandidateTyped DEF Call

(* A call that does not get to its commit leaves the world as it was, or   *)
(* one revision further.                                                   *)
LEMMA Declines ==
  ASSUME TypeInv, NEW c \in Callers, NEW cmd \in Command, Call(c, cmd),
         phase' # "commit"
  PROVE  /\ log' = log /\ phase = "free"
         /\ \/ world' = world
            \/ /\ cmd.expected = world.revision
               /\ world'.revision = world.revision + 1
  <1>1. /\ log' = log /\ phase = "free"
        /\ world' = world \/ (world' = Candidate(cmd) /\ Accepted(cmd))
    BY CallCases
  <1> QED
    BY <1>1, CandidateTyped DEF Accepted

LEMMA SoleStep ==
  ASSUME ~Rivals, ServiceInv, SoleInv, [Next]_vars
  PROVE  SoleInv'
  <1> /\ TypeInv /\ Counted /\ LogOK /\ JobOK
      /\ log \in Seq(Command) /\ Len(log) \in Nat /\ world.revision \in Nat
    BY DEF ServiceInv, TypeInv
  <1>1. ASSUME UNCHANGED <<log, world, phase, job>> PROVE SoleInv'
    BY <1>1 DEF SoleInv, CurrentOrAhead
  <1>2. ASSUME phase' # "commit", phase # "commit", UNCHANGED <<log, world>>
        PROVE  SoleInv'
    BY <1>2 DEF SoleInv, CurrentOrAhead
  <1>3. ASSUME phase' # "commit", world'.revision = Len(log'),
               world'.records = log'
        PROVE  SoleInv'
    BY <1>3 DEF SoleInv, CurrentOrAhead
  <1>4. CASE UNCHANGED vars
    BY <1>1, <1>4 DEF vars
  <1>5. ASSUME NEW c \in Callers, Observe(c) PROVE SoleInv'
    BY <1>1, <1>5 DEF Observe
  <1>6. ASSUME NEW c \in Callers, NEW s \in Sources, AlreadyRemembered(c, s)
        PROVE  SoleInv'
    BY <1>1, <1>6 DEF AlreadyRemembered
  <1>7. ASSUME NEW c \in Callers, NEW cmd \in Command, Call(c, cmd)
        PROVE  SoleInv'
    <2>1. CASE phase' = "commit"
      BY <1>7, <2>1, HandsOver DEF SoleInv, CurrentOrAhead
    <2>2. CASE phase' # "commit"
      BY <1>7, <2>2, Declines DEF SoleInv, CurrentOrAhead
    <2> QED
      BY <2>1, <2>2
  <1>8. ASSUME phase = "commit", phase' # "commit", world' = world,
               Save!AppendCommand(job.command)
        PROVE  SoleInv'
    <2>1. /\ job.command \in Command
          /\ world.revision = job.command.expected + 1
      BY <1>8 DEF TypeInv, Jobs, SoleInv
    <2>2. /\ log' = Append(log, job.command) /\ Len(log') = Len(log) + 1
          /\ job.command.expected = Len(log)
      BY <1>8, <2>1, AppendGrows
    <2>3. world.records = Append(log, job.command)
      BY <1>8, <2>2 DEF SoleInv
    <2> QED
      BY <1>3, <1>8, <2>1, <2>2, <2>3
  <1>9. CASE Committed
    BY <1>8, <1>9 DEF Committed, Release
  <1>10. CASE Conflict
    <2>1. job.command.expected > Len(log) /\ world' = world /\ log' = log
          /\ world.revision = job.command.expected + 1 /\ phase' # "commit"
      BY <1>10 DEF Conflict, Recovering, SoleInv
    <2>2. world.revision > Len(log)
      BY <2>1, ServiceAssumption, <1>10
         DEF ServiceAssumption, TypeInv, Jobs, Command, Conflict
    <2> QED
      BY <2>1, <2>2 DEF SoleInv, CurrentOrAhead
  <1>11. CASE CommitError
    <2>1. phase = "commit" /\ phase' = "resolve" /\ world' = world
      BY <1>11 DEF CommitError
    <2>2. CASE Save!AppendCommand(job.command)
      BY <1>8, <2>1, <2>2
    <2>3. CASE log' = log
      <3>1. /\ job.command.expected \in Nat
            /\ world.revision = job.command.expected + 1
            /\ job.command.expected >= Len(log)
        BY <2>1, ServiceAssumption
           DEF ServiceAssumption, TypeInv, Jobs, Command, SoleInv
      <3>2. world.revision > Len(log)
        BY <3>1
      <3> QED
        BY <2>1, <2>3, <3>2 DEF SoleInv, CurrentOrAhead
    <2> QED
      BY <1>11, <2>2, <2>3 DEF CommitError
  <1>12. CASE Resolve \/ RecoverFails
    BY <1>2, <1>12 DEF Resolve, Recovering, RecoverFails, Release
  <1>13. CASE Recover
    BY <1>3, <1>13 DEF Recover, Rebuilt, Release
  <1>14. CASE Restart
    BY <1>3, <1>14 DEF Restart, Rebuilt
  <1>15. ~Rival
    BY DEF Rival
  <1> QED
    BY <1>4, <1>5, <1>6, <1>7, <1>9, <1>10, <1>11, <1>12, <1>13, <1>14,
       <1>15, NextCases

WorldInv == IF Rebuilding THEN PublishedInv ELSE SoleInv

LEMMA WorldFacts ==
  ASSUME Guarded, ServiceInv, WorldInv
  PROVE  /\ CommitsFromCommitted
         /\ phase = "free" /\ world.revision = Len(log) => world.records = log
         /\ Rivals /\ phase = "commit" => job.command.expected <= Len(log)
  <1>1. log \in Seq(Command) /\ Len(log) \in Nat /\ world.revision \in Nat
    BY DEF ServiceInv, TypeInv
  <1>2. CASE Rebuilding
    BY <1>1, <1>2, PrefixWhole
       DEF WorldInv, PublishedInv, CandidateNotPublished, Prefix,
           CommitsFromCommitted
  <1>3. CASE ~Rebuilding
    <2>1. SoleInv /\ ~Rivals
      BY <1>3 DEF WorldInv, Guarded
    <2> QED
      BY <1>1, <2>1 DEF SoleInv, CurrentOrAhead, CommitsFromCommitted
  <1> QED
    BY <1>2, <1>3

LEMMA WorldInit == Init => WorldInv
  <1>1. Init => SoleInv
    BY DEF Init, Save!Init, SoleInv, CurrentOrAhead
  <1> QED
    BY <1>1, PublishedInit DEF WorldInv

LEMMA WorldStep ==
  ASSUME Guarded, ServiceInv, WorldInv, [Next]_vars
  PROVE  WorldInv'
  BY PublishedStep, SoleStep DEF Guarded, WorldInv

(* Without a rival, or with every candidate dropped in time, whatever      *)
(* failed before and whatever world apply_command works on: a command the  *)
(* store is about to accept was executed on the committed records of its   *)
(* expected revision.                                                      *)
THEOREM CommitsCommitted ==
  ASSUME Guarded
  PROVE  Spec => []CommitsFromCommitted
  <1>1. ServiceInv /\ WorldInv /\ [Next]_vars => WorldInv'
    BY Guarded, WorldStep
  <1>2. ServiceInv /\ WorldInv => CommitsFromCommitted
    BY Guarded, WorldFacts
  <1> QED
    BY <1>1, <1>2, WorldInit, ServiceInvariant, PTL DEF Spec

-----------------------------------------------------------------------------
(* Dialogues are remembered once.                                          *)
LEMMA HeardAppend ==
  ASSUME TypeInv, RememberedOnce, NEW cmd \in Command, Save!AppendCommand(cmd),
         cmd.source # NoSource =>
           \A i \in 1..Len(log) : log[i].source # cmd.source
  PROVE  RememberedOnce'
  <1>1. /\ Len(log') = Len(log) + 1 /\ Len(log) \in Nat
        /\ \A i \in 1..Len(log) : log'[i] = log[i]
        /\ log'[Len(log')] = cmd
    BY AppendGrows
  <1>2. ASSUME NEW i \in 1..Len(log'), NEW j \in 1..Len(log'),
               log'[i].source = log'[j].source, log'[i].source # NoSource
        PROVE  i = j
    <2>1. i \in 1..Len(log) \/ i = Len(log')
      BY <1>1
    <2>2. j \in 1..Len(log) \/ j = Len(log')
      BY <1>1
    <2>3. CASE i \in 1..Len(log) /\ j \in 1..Len(log)
      BY <1>1, <1>2, <2>3 DEF RememberedOnce
    <2> QED
      BY <1>1, <1>2, <2>1, <2>2, <2>3
  <1> QED
    BY <1>2 DEF RememberedOnce

LEMMA HeardStep ==
  ASSUME Guarded, ServiceInv, WorldInv, HeardInv, [Next]_vars
  PROVE  HeardInv'
  <1> TypeInv /\ Counted /\ LogOK /\ JobOK
    BY DEF ServiceInv
  <1>1. ASSUME UNCHANGED <<log, phase, job>> PROVE HeardInv'
    BY <1>1 DEF HeardInv, RememberedOnce
  <1>2. ASSUME phase' # "commit", log' = log PROVE HeardInv'
    BY <1>2 DEF HeardInv, RememberedOnce
  <1>3. ASSUME phase = "commit", phase' # "commit",
               Save!AppendCommand(job.command)
        PROVE  HeardInv'
    <2>1. job.command \in Command
      BY <1>3 DEF TypeInv, Jobs
    <2>2. job.command.source # NoSource =>
            \A i \in 1..Len(log) : log[i].source # job.command.source
      BY <1>3, <2>1, AppendGrows DEF HeardInv
    <2>3. RememberedOnce'
      BY <1>3, <2>1, <2>2, HeardAppend DEF HeardInv
    <2> QED
      BY <1>3, <2>3 DEF HeardInv
  <1>4. CASE UNCHANGED vars
    BY <1>1, <1>4 DEF vars
  <1>5. ASSUME NEW c \in Callers, Observe(c) PROVE HeardInv'
    BY <1>1, <1>5 DEF Observe
  <1>6. ASSUME NEW c \in Callers, NEW s \in Sources, AlreadyRemembered(c, s)
        PROVE  HeardInv'
    BY <1>1, <1>6 DEF AlreadyRemembered
  <1>7. ASSUME NEW c \in Callers, NEW cmd \in Command, Call(c, cmd)
        PROVE  HeardInv'
    <2>1. CASE phase' = "commit"
      <3>1. /\ log' = log /\ phase = "free" /\ job'.command = cmd
            /\ cmd.expected = world.revision
            /\ cmd.source = NoSource \/ ~Remembered(cmd.source)
        BY <1>7, <2>1, HandsOver
      <3>2. cmd.expected = Len(log) => world.records = log
        BY <3>1, WorldFacts
      <3> QED
        BY <3>1, <3>2 DEF HeardInv, RememberedOnce, Remembered
    <2>2. CASE phase' # "commit"
      BY <1>2, <1>7, <2>2, Declines
    <2> QED
      BY <2>1, <2>2
  <1>8. CASE Committed
    BY <1>3, <1>8 DEF Committed, Release
  <1>9. CASE CommitError
    BY <1>2, <1>3, <1>9 DEF CommitError
  <1>10. CASE Conflict \/ Resolve \/ Recover \/ RecoverFails \/ Restart
    BY <1>2, <1>10
       DEF Conflict, Resolve, Recover, RecoverFails, Restart, Recovering, Release
  <1>11. CASE Rival
    <2>1. PICK cmd \in Command :
            cmd.source = NoSource /\ Save!AppendCommand(cmd)
      BY <1>11, RivalCommand
    <2>2. RememberedOnce'
      BY <2>1, HeardAppend DEF HeardInv
    <2>3. /\ Rivals /\ UNCHANGED <<phase, job>>
          /\ Len(log') = Len(log) + 1 /\ Len(log) \in Nat
      BY <1>11, <2>1, AppendGrows DEF Rival
    <2>4. phase = "commit" => job.command.expected # Len(log')
      <3>1. phase = "commit" => /\ job.command.expected \in Nat
                                /\ job.command.expected <= Len(log)
        BY <2>3, WorldFacts, ServiceAssumption
           DEF ServiceAssumption, TypeInv, Jobs, Command
      <3> QED
        BY <2>3, <3>1
    <2> QED
      BY <2>2, <2>3, <2>4 DEF HeardInv
  <1> QED
    BY <1>4, <1>5, <1>6, <1>7, <1>8, <1>9, <1>10, <1>11, NextCases

(* remember_npc_dialogue stores an item once, however many callers try it, *)
(* and however often an answer, a resolution or a rebuild was lost.        *)
THEOREM HeardOnce ==
  ASSUME Guarded
  PROVE  Spec => []RememberedOnce
  <1>1. Init => HeardInv
    BY DEF Init, Save!Init, HeardInv, RememberedOnce
  <1>2. ServiceInv /\ WorldInv /\ HeardInv /\ [Next]_vars =>
          WorldInv' /\ HeardInv'
    BY Guarded, WorldStep, HeardStep
  <1>3. HeardInv => RememberedOnce
    BY DEF HeardInv
  <1> QED
    BY <1>1, <1>2, <1>3, WorldInit, ServiceInvariant, PTL DEF Spec

-----------------------------------------------------------------------------
(* The service implements AtomicWorld.                                     *)
LEMMA SessionStep ==
  ASSUME ServiceInv, SessionInv, [Next]_vars
  PROVE  SessionInv'
  <1> TypeInv /\ Counted
    BY DEF ServiceInv
  <1>1. ASSUME UNCHANGED <<world, phase, job>> PROVE SessionInv'
    BY <1>1 DEF SessionInv
  <1>2. ASSUME phase' \notin {"commit", "recover"} PROVE SessionInv'
    BY <1>2 DEF SessionInv
  <1>3. CASE UNCHANGED vars
    BY <1>1, <1>3 DEF vars
  <1>4. ASSUME NEW c \in Callers, Observe(c) PROVE SessionInv'
    BY <1>1, <1>4 DEF Observe
  <1>5. ASSUME NEW c \in Callers, NEW s \in Sources, AlreadyRemembered(c, s)
        PROVE  SessionInv'
    BY <1>1, <1>5 DEF AlreadyRemembered
  <1>6. ASSUME NEW c \in Callers, NEW cmd \in Command, Call(c, cmd)
        PROVE  SessionInv'
    <2>1. CASE phase' = "free"
      BY <1>2, <2>1
    <2>2. CASE phase' # "free"
      <3>1. \/ /\ phase' = "recover"
               /\ job'.session = job'.before /\ job'.tag = "world_error"
            \/ /\ phase' = "commit" /\ world' = Candidate(cmd)
               /\ job'.command = cmd /\ job'.before = world.session
               /\ job'.after = Candidate(cmd).session
        BY <1>6, <2>2, CallCases, ReleaseTyped DEF JobTags
      <3> QED
        BY <3>1, CandidateTyped DEF SessionInv
    <2> QED
      BY <2>1, <2>2
  <1>7. CASE Committed \/ CommitError \/ Recover \/ RecoverFails \/ Restart
    BY <1>2, <1>7
       DEF Committed, CommitError, Recover, RecoverFails, Restart, Release
  <1>8. CASE Conflict \/ Resolve
    <2>1. /\ phase' = "recover" /\ job'.tag # "none"
          /\ job'.session = IF job'.tag = "ok" THEN job'.after ELSE job'.before
      BY <1>8 DEF Conflict, Resolve, Recovering, TypeInv, Jobs
    <2> QED
      BY <2>1 DEF SessionInv
  <1>9. CASE Rival
    BY <1>1, <1>9 DEF Rival
  <1> QED
    BY <1>3, <1>4, <1>5, <1>6, <1>7, <1>8, <1>9, NextCases

(* What the callers hold, as AtomicWorld sees it.                           *)
AllTold == [c \in Callers |-> Told(result[c])]

LEMMA ToldAnswers ==
  ASSUME TypeInv, TypeInv', NEW c \in Callers, NEW tag \in JobTags \ {"none"},
         NEW cmd \in Command, Answers(c, tag, cmd)
  PROVE  AllTold' = [AllTold EXCEPT ![c] =
                       [tag |-> IF tag = "ok" THEN "ok" ELSE "error",
                        action |-> cmd.action]]
  <1>1. Told(result[c])' = [tag |-> IF tag = "ok" THEN "ok" ELSE "error",
                            action |-> cmd.action]
    BY DEF Answers, Told, JobTags
  <1>2. \A o \in Callers : o # c => Told(result[o])' = Told(result[o])
    BY DEF Answers, Told
  <1> QED
    BY <1>1, <1>2 DEF AllTold

LEMMA ToldCleared ==
  ASSUME NEW c \in Callers, Cleared(c),
         \A o \in Callers : o # c => Kept(o)
  PROVE  AllTold' = [AllTold EXCEPT ![c] = Atomic!Silent]
  <1>1. Told(result[c])' = Atomic!Silent
    BY DEF Cleared, Told, Atomic!Silent
  <1>2. \A o \in Callers : o # c => Told(result[o])' = Told(result[o])
    BY DEF Kept, Told
  <1> QED
    BY <1>1, <1>2 DEF AllTold

LEMMA ToldKept ==
  ASSUME UNCHANGED result
  PROVE  AllTold' = AllTold
  BY DEF AllTold, Told

LEMMA HappenedActions ==
  ASSUME NEW a
  PROVE  /\ Atomic!Happened(a) <=> a \in ActionsOf(log)
         /\ Atomic!Happened(a)' <=> a \in ActionsOf(log')
  BY DEF Atomic!Happened, ActionsOf

(* An answer the service gives is one AtomicWorld allows.                  *)
LEMMA AnswerAllowed ==
  ASSUME TypeInv, TypeInv', NEW c \in Callers, NEW tag \in JobTags \ {"none"},
         NEW cmd \in Command, Answers(c, tag, cmd),
         tag = "ok" <=> cmd.action \in ActionsOf(log')
  PROVE  Atomic!Answer(c)
  <1>1. AllTold' = [AllTold EXCEPT ![c] =
                      [tag |-> IF tag = "ok" THEN "ok" ELSE "error",
                       action |-> cmd.action]]
    BY ToldAnswers
  <1>2. cmd.action \in Ids
    BY DEF Command
  <1> QED
    BY <1>1, <1>2, HappenedActions DEF Atomic!Answer, Atomic!Tell, AllTold

LEMMA OverlayKept ==
  ASSUME UNCHANGED <<log, phase, job, world>>
  PROVE  Overlay' = Overlay
  BY DEF Overlay

LEMMA CallSimulates ==
  ASSUME Faultless, ServiceInv, ServiceInv', NEW c \in Callers,
         NEW cmd \in Command, Call(c, cmd)
  PROVE  Atomic!Answer(c) /\ UNCHANGED <<log, Overlay>>
  <1> TypeInv /\ LogOK /\ issued \in Nat
    BY DEF ServiceInv, TypeInv
  <1>1. /\ log' = log /\ phase = "free" /\ cmd.action = issued + 1
        /\ result' = [result EXCEPT ![c] = NoResult]
        /\ phase' \in {"recover", "commit"}
        /\ job'.command = cmd /\ job'.before = world.session
        /\ phase' = "recover" => job'.after = world.session
    BY CallCases, OpsKind DEF Faultless
  <1>2. cmd.action \notin ActionsOf(log)
    BY <1>1, FreshAction
  <1>3. Overlay' = Overlay
    BY <1>1, <1>2 DEF Overlay
  <1>4. Cleared(c) /\ \A o \in Callers : o # c => Kept(o)
    BY <1>1 DEF Cleared, Kept, NoResult, TypeInv
  <1>5. AllTold' = [AllTold EXCEPT ![c] = Atomic!Silent]
    BY <1>4, ToldCleared
  <1> QED
    BY <1>1, <1>3, <1>5 DEF Atomic!Answer, AllTold

(* A commit of the running command takes effect, session included.         *)
LEMMA CommitTakesEffect ==
  ASSUME ServiceInv, SessionInv, phase = "commit",
         Save!AppendCommand(job.command), UNCHANGED world,
         phase' = "free" \/ (phase' # "free" /\ job' = job)
  PROVE  job.command \in Command /\ Atomic!Effect(job.command)
  <1> TypeInv /\ JobOK
    BY DEF ServiceInv
  <1>1. job.command \in Command
    BY DEF TypeInv, Jobs
  <1>2. /\ log' = Append(log, job.command)
        /\ job.command.expected = Len(log)
        /\ ActionsOf(log') = ActionsOf(log) \cup {job.command.action}
    BY <1>1, AppendGrows
  <1>3. Overlay = job.before
    BY DEF Overlay, JobOK
  <1>4. Overlay' = job.after
    BY <1>2 DEF Overlay, SessionInv
  <1> QED
    BY <1>1, <1>2, <1>3, <1>4 DEF Atomic!Effect, SessionInv

LEMMA AtomicStep ==
  ASSUME Faultless, ServiceInv, ServiceInv', SessionInv, RefusedInv,
         [Next]_vars
  PROVE  [Atomic!Next]_(Atomic!atomicVars)
  <1> /\ TypeInv /\ TypeInv' /\ Counted /\ LogOK /\ JobOK /\ issued \in Nat
    BY DEF ServiceInv, TypeInv
  <1>1. ASSUME UNCHANGED <<log, phase, job, world, result>>
        PROVE  UNCHANGED Atomic!atomicVars
    BY <1>1, OverlayKept, ToldKept DEF Atomic!atomicVars, AllTold
  <1>2. CASE UNCHANGED vars
    BY <1>1, <1>2 DEF vars
  <1>3. ASSUME NEW c \in Callers, Observe(c)
        PROVE  UNCHANGED Atomic!atomicVars
    BY <1>1, <1>3 DEF Observe
  <1>4. ASSUME NEW c \in Callers, NEW s \in Sources, AlreadyRemembered(c, s)
        PROVE  Atomic!Next
    <2>1. UNCHANGED <<log, Overlay>>
      BY <1>4, OverlayKept DEF AlreadyRemembered
    <2>2. Cleared(c) /\ \A o \in Callers : o # c => Kept(o)
      BY <1>4 DEF AlreadyRemembered, Cleared, Kept, NoResult, TypeInv
    <2>3. AllTold' = [AllTold EXCEPT ![c] = Atomic!Silent]
      BY <2>2, ToldCleared
    <2> QED
      BY <2>1, <2>3 DEF Atomic!Next, Atomic!Answer, AllTold
  <1>5. ASSUME NEW c \in Callers, NEW cmd \in Command, Call(c, cmd)
        PROVE  Atomic!Next
    BY <1>5, CallSimulates DEF Atomic!Next
  <1>6. CASE Committed
    <2>1. /\ phase = "commit" /\ job.command \in Command
          /\ job.caller \in Callers /\ UNCHANGED world /\ phase' = "free"
          /\ Save!AppendCommand(job.command)
          /\ Release(job.caller, "ok", job.command)
      BY <1>6 DEF Committed, Release, TypeInv, Jobs
    <2>2. Atomic!Effect(job.command)
      BY <2>1, CommitTakesEffect
    <2>3. Answers(job.caller, "ok", job.command)
      BY <2>1, ReleaseTyped DEF Answers, JobTags
    <2>4. job.command.action \in ActionsOf(log')
      BY <2>1, AppendGrows
    <2>5. Atomic!Answer(job.caller)
      BY <2>1, <2>3, <2>4, AnswerAllowed DEF JobTags
    <2> QED
      BY <2>1, <2>2, <2>5 DEF Atomic!Next
  <1>7. CASE CommitError
    <2>1. /\ phase = "commit" /\ phase' = "resolve"
          /\ UNCHANGED <<world, job, result>>
      BY <1>7 DEF CommitError
    <2>2. CASE Save!AppendCommand(job.command)
      <3>1. job.command \in Command /\ Atomic!Effect(job.command)
        BY <2>1, <2>2, CommitTakesEffect
      <3> QED
        BY <2>1, <3>1, ToldKept DEF Atomic!Next, AllTold
    <2>3. CASE log' = log
      <3>1. Overlay' = Overlay
        BY <2>1, <2>3 DEF Overlay
      <3> QED
        BY <2>1, <2>3, <3>1, ToldKept DEF Atomic!atomicVars, AllTold
    <2> QED
      BY <1>7, <2>2, <2>3 DEF CommitError
  <1>8. CASE Conflict \/ Resolve
    <2>1. /\ phase # "free" /\ phase' = "recover"
          /\ UNCHANGED <<log, world, result>>
          /\ job'.command = job.command
          /\ job'.before = job.before /\ job'.after = job.after
      BY <1>8 DEF Conflict, Resolve, Recovering, TypeInv, Jobs
    <2>2. Overlay' = Overlay
      BY <2>1 DEF Overlay
    <2> QED
      BY <2>1, <2>2, ToldKept DEF Atomic!atomicVars, AllTold
  <1>9. CASE Recover
    <2>1. /\ phase = "recover" /\ job.command \in Command
          /\ job.caller \in Callers /\ log' = log /\ phase' = "free"
          /\ world'.session = job.session
          /\ Release(job.caller, job.tag, job.command)
      BY <1>9 DEF Recover, Rebuilt, Release, TypeInv, Jobs
    <2>2. job.tag \in JobTags \ {"none"}
      BY <2>1 DEF TypeInv, Jobs, SessionInv
    <2>3. Answers(job.caller, job.tag, job.command)
      BY <2>1, <2>2, ReleaseTyped DEF Answers
    <2>4. job.tag = "ok" <=> job.command.action \in ActionsOf(log)
      BY <2>1 DEF JobOK, RefusedInv
    <2>5. Atomic!Answer(job.caller)
      BY <2>1, <2>2, <2>3, <2>4, AnswerAllowed
    <2>6. Overlay' = Overlay
      BY <2>1, <2>4 DEF Overlay, SessionInv
    <2> QED
      BY <2>1, <2>5, <2>6 DEF Atomic!Next
  <1>10. ~RecoverFails
    BY DEF RecoverFails, Faultless, Answering
  <1>11. CASE Restart
    <2>1. log' = log /\ Overlay' = 0
      BY <1>11 DEF Restart, Rebuilt, Overlay
    <2>2. AllTold' = [c \in Callers |-> Atomic!Silent]
      BY <1>11 DEF Restart, AllTold, Told, NoResult, Atomic!Silent
    <2> QED
      BY <2>1, <2>2 DEF Atomic!Next, Atomic!Restart, AllTold
  <1>12. CASE Rival
    <2>1. PICK cmd \in Command :
            cmd.action = issued' /\ Save!AppendCommand(cmd)
      BY <1>12, RivalCommand
    <2>2. /\ log' = Append(log, cmd) /\ cmd.expected = Len(log)
          /\ ActionsOf(log') = ActionsOf(log) \cup {cmd.action}
      BY <2>1, AppendGrows
    <2>3. UNCHANGED <<world, phase, job, result>> /\ issued' = issued + 1
      BY <1>12 DEF Rival
    <2>4. phase # "free" => job.command.action # cmd.action
      BY <2>1, <2>3 DEF JobOK, TypeInv, Jobs, Command, Ids
    <2>5. Overlay' = Overlay
      BY <2>2, <2>3, <2>4 DEF Overlay
    <2> QED
      BY <2>2, <2>3, <2>5, ToldKept DEF Atomic!Next, Atomic!Foreign, AllTold
  <1> QED
    BY <1>2, <1>3, <1>4, <1>5, <1>6, <1>7, <1>8, <1>9, <1>10, <1>11, <1>12,
       NextCases

LEMMA AtomicInit == Init => Atomic!Init
  BY DEF Init, Save!Init, Atomic!Init, Overlay, Told, NoResult, Atomic!Silent

(* With no fault but the store's lost answers, rivals and restarts: seen   *)
(* from its callers, apply_command is atomic.  A command changes the save  *)
(* and the session parameters at one instant or not at all, and what the   *)
(* caller is told agrees with it.                                          *)
THEOREM ServiceImplementsAtomicWorld ==
  ASSUME Faultless
  PROVE  Spec => ImplementsAtomicWorld
  <1>1. Init => SessionInv /\ RefusedInv
    BY DEF Init, SessionInv, RefusedInv
  <1>2. ServiceInv /\ SessionInv /\ RefusedInv /\ [Next]_vars =>
          SessionInv' /\ RefusedInv'
    BY Faultless, SessionStep, RefusedStep DEF Faultless
  <1>3. /\ ServiceInv /\ ServiceInv' /\ SessionInv /\ RefusedInv
        /\ [Next]_vars
        => [Atomic!Next]_(Atomic!atomicVars)
    BY Faultless, AtomicStep
  <1> QED
    BY <1>1, <1>2, <1>3, AtomicInit, ServiceInvariant, PTL
       DEF Spec, ImplementsAtomicWorld, Atomic!Spec
=============================================================================
