--------------------------- MODULE SaveStoreProofs ---------------------------
(***************************************************************************)
(* Theorems about SaveStore for every number of handles, actions, keys,    *)
(* manifests and revisions.                                                *)
(***************************************************************************)
EXTENDS SaveStore, Sequences, TLAPS

(* A commit in progress holds a validated request, so the revision it will *)
(* write exists.                                                           *)
CommitValid ==
  \A h \in Handles : pc[h] = "commit" => /\ request[h] \in Command
                                         /\ request[h].expected < MaxRevision

TypeInv == TypeOK /\ CommitValid

-----------------------------------------------------------------------------
(* The operators the model is built from.                                  *)
LEMMA RevisionsType == Revisions \subseteq Nat /\ 0 \in Revisions
  BY StoreAssumption DEF StoreAssumption, Revisions

LEMMA InitialRecordsType == InitialRecords \in Records
  BY DEF InitialRecords, Records, Values

LEMMA ApplyType ==
  ASSUME NEW records \in Records, NEW c, c.action \in ActionIds
  PROVE  Apply(records, c) \in Records
  BY DEF Apply, Records, Values

LEMMA NotReadingType == NotReading \in Reading
  BY InitialRecordsType, RevisionsType DEF NotReading, Reading

(* What every action that does not begin a commit does to the control of   *)
(* the handles: nobody enters a commit, and h is not in one any more.      *)
Settled(h) ==
  /\ pc' \in [Handles -> Labels]
  /\ answer' \in [Handles -> [tag : Tags, rev : Revisions]]
  /\ \A o \in Handles : pc'[o] = "commit" => o # h /\ pc[o] = "commit"

Requested(h) ==
  /\ request' \in [Handles -> Command \cup {NoRequest}]
  /\ \A o \in Handles : o # h => request'[o] = request[o]

LEMMA ReturnSettles ==
  ASSUME HandlesTyped, NEW h \in Handles, NEW tag \in Tags, NEW r \in Revisions,
         Return(h, tag, r)
  PROVE  Settled(h)
  BY DEF HandlesTyped, Return, Settled, Labels

LEMMA GotoSettles ==
  ASSUME HandlesTyped, NEW h \in Handles, NEW label \in Labels \ {"commit"},
         Goto(h, label)
  PROVE  Settled(h)
  BY RevisionsType DEF HandlesTyped, Goto, Settled, Labels, NoAnswer, Tags

LEMMA ReadSettles ==
  ASSUME HandlesTyped, NEW h \in Handles, NEW locals \in Reading,
         NEW label \in Labels \ {"commit"}, Read(h, locals, label)
  PROVE  Settled(h) /\ reading' \in [Handles -> Reading]
  BY GotoSettles DEF Read, HandlesTyped

LEMMA LoadFailsSettles ==
  ASSUME HandlesTyped, NEW h \in Handles, LoadFails(h)
  PROVE  Settled(h) /\ reading' \in [Handles -> Reading]
  BY ReturnSettles, NotReadingType, RevisionsType
     DEF LoadFails, HandlesTyped, Tags

LEMMA ForgetRequests ==
  ASSUME HandlesTyped, NEW h \in Handles, Forget(h)
  PROVE  Requested(h)
  BY DEF HandlesTyped, Forget, Requested

LEMMA KeepRequests ==
  ASSUME HandlesTyped, NEW h \in Handles, NEW c \in Command, Keep(h, c)
  PROVE  Requested(h)
  BY DEF HandlesTyped, Keep, Requested

LEMMA UnchangedRequests ==
  ASSUME HandlesTyped, NEW h \in Handles, UNCHANGED request
  PROVE  Requested(h)
  BY DEF HandlesTyped, Requested

(* A repeated ActionId is answered with a revision of the table.           *)
LEMMA DuplicateSettles ==
  ASSUME TypeOK, NEW h \in Handles, NEW c \in Command, Duplicate(h, c)
  PROVE  Settled(h) /\ Requested(h)
  <1>1. PICK row \in Recorded(c.action) :
          \/ row.command = c /\ Return(h, "already", row.revision) /\ Keep(h, c)
          \/ row.command # c /\ Return(h, "identity", 0) /\ Forget(h)
    BY DEF Duplicate
  <1>2. row.revision \in Revisions
    BY DEF Recorded, ActionRow, TypeOK, TablesTyped
  <1> QED
    BY <1>1, <1>2, ReturnSettles, KeepRequests, ForgetRequests, RevisionsType
       DEF Tags, TypeOK

(* An action that settles its handle keeps the type invariant when what    *)
(* else it writes is well typed.                                           *)
LEMMA SettledKeeps ==
  ASSUME TypeInv, NEW h \in Handles, Settled(h), Requested(h), TablesTyped',
         manifest' \in [Handles -> Manifests],
         revision' \in [Handles -> Revisions],
         lost' \in [Handles -> BOOLEAN],
         reading' \in [Handles -> Reading]
  PROVE  TypeInv'
  BY DEF TypeInv, TypeOK, HandlesTyped, CommitValid, Settled, Requested

LEMMA DurableKeeps ==
  ASSUME TablesTyped, UNCHANGED durable
  PROVE  TablesTyped'
  BY DEF durable, TablesTyped

(* The durable writes of a commit are well typed.                          *)
LEMMA InstallType ==
  ASSUME TypeInv, NEW h \in Handles, pc[h] = "commit", Install(h)
  PROVE  /\ TablesTyped'
         /\ lost' \in [Handles -> BOOLEAN]
         /\ request[h].expected + 1 \in Revisions
  <1> USE RevisionsType DEF TypeInv, TypeOK, TablesTyped, CommitValid
  <1> DEFINE c == request[h]
             r == c.expected + 1
  <1>1. c \in Command /\ r \in Revisions /\ c.expected \in Revisions
    BY StoreAssumption DEF Revisions, Command, StoreAssumption
  <1>2. c.action \in ActionIds /\ c.change \in Changes
    BY <1>1 DEF Command
  <1>3. head' \in [revision : Revisions, manifest : Manifests,
                    sum : Revisions \X Manifests]
    BY <1>1 DEF Install, HandlesTyped
  <1>4. ops' \subseteq OpRow /\ actions' \subseteq ActionRow
    BY <1>1, <1>2 DEF Install, OpRow, ActionRow
  <1>5. events' \subseteq EventRow
    BY <1>1, <1>2 DEF Install, EventRows, EventRow
  <1>6. transcripts' \subseteq TranscriptRow
    BY <1>1, <1>2 DEF Install, TranscriptRows, TranscriptRow, Values
  <1>7. states' \in [Revisions -> Records]
    BY <1>1, <1>2, ApplyType DEF Install
  <1> QED
    BY <1>1, <1>3, <1>4, <1>5, <1>6, <1>7 DEF Install, HeadWritten

-----------------------------------------------------------------------------
(* Type correctness.                                                       *)
LEMMA TypeInit == Init => TypeInv
  <1> SUFFICES ASSUME Init PROVE TypeInv
    OBVIOUS
  <1>1. TablesTyped
    <2>1. head \in [revision : Revisions, manifest : Manifests,
                    sum : Revisions \X Manifests]
      BY StoreAssumption, RevisionsType DEF Init, StoreAssumption
    <2>2. transcripts \subseteq TranscriptRow
      BY RevisionsType DEF Init, InitialTranscripts, TranscriptRow, Values
    <2>3. checkpoints \subseteq CheckpointRow /\ states \in [Revisions -> Records]
      BY RevisionsType, InitialRecordsType DEF Init, CheckpointRow
    <2> QED
      BY <2>1, <2>2, <2>3 DEF Init, TablesTyped
  <1>2. HandlesTyped
    BY StoreAssumption, RevisionsType, NotReadingType
       DEF Init, StoreAssumption, Labels, Tags, NoAnswer, HandlesTyped
  <1>3. CommitValid
    BY DEF Init, CommitValid
  <1> QED
    BY <1>1, <1>2, <1>3 DEF TypeInv, TypeOK

LEMMA SessionStepType ==
  ASSUME TypeInv, NEW h \in Handles, SessionStep(h) PROVE TypeInv'
  <1> USE RevisionsType DEF TypeInv, TypeOK
  <1>1. CASE Open(h)
    <2>1. Settled(h) /\ Requested(h) /\ TablesTyped'
      BY <1>1, GotoSettles, UnchangedRequests, DurableKeeps DEF Open, Labels
    <2> QED
      BY <1>1, <2>1, SettledKeeps DEF Open, HandlesTyped, TablesTyped
  <1>2. CASE Drop(h)
    <2>1. Settled(h) /\ Requested(h) /\ TablesTyped'
      BY <1>2, GotoSettles, ForgetRequests, DurableKeeps DEF Drop, Forget, Labels
    <2> QED
      BY <1>2, <2>1, SettledKeeps, NotReadingType, StoreAssumption
         DEF Drop, EndTransaction, HandlesTyped, StoreAssumption
  <1>3. CASE BackendError(h)
    <2>1. Settled(h) /\ Requested(h) /\ TablesTyped'
      BY <1>3, ReturnSettles, ForgetRequests, DurableKeeps
         DEF BackendError, Forget, Tags
    <2> QED
      BY <1>3, <2>1, SettledKeeps, NotReadingType
         DEF BackendError, EndTransaction, HandlesTyped
  <1> QED
    BY <1>1, <1>2, <1>3 DEF SessionStep

LEMMA CommitStepType ==
  ASSUME TypeInv, NEW h \in Handles, CommitStep(h) PROVE TypeInv'
  <1> USE RevisionsType DEF TypeInv, TypeOK
  <1>0. ASSUME NEW c \in Command, CommitCall(h, c)
        PROVE  /\ TablesTyped'
               /\ UNCHANGED <<manifest, revision, lost>>
               /\ manifest' \in [Handles -> Manifests]
               /\ revision' \in [Handles -> Revisions]
               /\ lost' \in [Handles -> BOOLEAN]
               /\ reading' \in [Handles -> Reading]
    BY <1>0, DurableKeeps, NotReadingType DEF CommitCall, HandlesTyped
  <1>1. ASSUME NEW c \in Command, CommitRefused(h, c) PROVE TypeInv'
    <2>1. Settled(h) /\ Requested(h)
      BY <1>1, ReturnSettles, ForgetRequests DEF CommitRefused, Tags
    <2> QED
      BY <1>0, <1>1, <2>1, SettledKeeps DEF CommitRefused
  <1>2. ASSUME NEW c \in Command, CommitDuplicate(h, c) PROVE TypeInv'
    BY <1>0, <1>2, DuplicateSettles, SettledKeeps DEF CommitDuplicate
  <1>3. ASSUME NEW c \in Command, CommitStale(h, c) PROVE TypeInv'
    <2>1. Settled(h) /\ Requested(h)
      BY <1>3, ReturnSettles, ForgetRequests DEF CommitStale, Tags, TablesTyped
    <2> QED
      BY <1>0, <1>3, <2>1, SettledKeeps DEF CommitStale
  <1>4. ASSUME NEW c \in Command, CommitBegin(h, c) PROVE TypeInv'
    <2>1. /\ pc' \in [Handles -> Labels]
          /\ \A o \in Handles : o # h => pc'[o] = pc[o]
          /\ answer' \in [Handles -> [tag : Tags, rev : Revisions]]
      BY <1>4 DEF CommitBegin, Goto, HandlesTyped, Labels, Tags, NoAnswer
    <2>2. Requested(h) /\ request'[h] = c
      BY <1>4, KeepRequests DEF CommitBegin, Keep, HandlesTyped
    <2>3. CommitValid'
      BY <1>4, <2>1, <2>2
         DEF CommitValid, CommitBegin, FreshRequest, ValidRequest, Requested
    <2> QED
      BY <1>0, <1>4, <2>1, <2>2, <2>3 DEF CommitBegin, HandlesTyped, Requested
  <1>5. ASSUME NEW c \in Command, ResolveCall(h, c) PROVE TypeInv'
    <2>1. Settled(h) /\ Requested(h)
      <3>1. CASE Duplicate(h, c)
        BY <3>1, DuplicateSettles
      <3>2. CASE Goto(h, "resolve_head") /\ Forget(h)
        BY <3>2, GotoSettles, ForgetRequests DEF Labels
      <3> QED
        BY <1>5, <3>1, <3>2 DEF ResolveCall
    <2> QED
      BY <1>5, <2>1, SettledKeeps, DurableKeeps, NotReadingType
         DEF ResolveCall, HandlesTyped
  <1>6. CASE Committed(h)
    <2>1. Settled(h) /\ Requested(h)
      BY <1>6, InstallType, ReturnSettles, UnchangedRequests DEF Committed, Tags
    <2> QED
      BY <1>6, <2>1, InstallType, SettledKeeps DEF Committed, HandlesTyped
  <1>7. CASE CommittedUnknown(h)
    <2>1. Settled(h) /\ Requested(h)
      BY <1>7, ReturnSettles, ForgetRequests DEF CommittedUnknown, Tags
    <2> QED
      BY <1>7, <2>1, InstallType, SettledKeeps DEF CommittedUnknown, HandlesTyped
  <1>8. CASE SerializationFailure(h)
    <2>1. Settled(h) /\ Requested(h) /\ TablesTyped'
      BY <1>8, GotoSettles, ForgetRequests, DurableKeeps
         DEF SerializationFailure, Labels
    <2> QED
      BY <1>8, <2>1, SettledKeeps
         DEF SerializationFailure, EndTransaction, HandlesTyped
  <1>9. CASE ReloadHead(h) \/ ResolveHead(h)
    <2>1. Settled(h) /\ Requested(h) /\ TablesTyped'
      BY <1>9, ReturnSettles, UnchangedRequests, DurableKeeps
         DEF ReloadHead, ResolveHead, Tags, TablesTyped
    <2>2. revision' \in [Handles -> Revisions]
      BY <1>9 DEF ReloadHead, ResolveHead, HandlesTyped, TablesTyped
    <2> QED
      BY <1>9, <2>1, <2>2, SettledKeeps DEF ReloadHead, ResolveHead, HandlesTyped
  <1> QED
    BY <1>1, <1>2, <1>3, <1>4, <1>5, <1>6, <1>7, <1>8, <1>9 DEF CommitStep

LEMMA AdoptStepType ==
  ASSUME TypeInv, NEW h \in Handles, AdoptStep(h) PROVE TypeInv'
  <1> USE RevisionsType DEF TypeInv, TypeOK
  <1>1. ASSUME NEW m \in Manifests,
               AdoptRefused(h, m) \/ AdoptUnchanged(h, m) \/ AdoptBegin(h, m)
        PROVE  TypeInv'
    <2>1. Settled(h)
      BY <1>1, ReturnSettles, GotoSettles
         DEF AdoptRefused, AdoptUnchanged, AdoptBegin, Labels, Tags, HandlesTyped
    <2>2. AdoptCall(h, m)
      BY <1>1 DEF AdoptRefused, AdoptUnchanged, AdoptBegin
    <2>3. Requested(h) /\ TablesTyped'
      BY <2>2, ForgetRequests, DurableKeeps DEF AdoptCall
    <2> QED
      BY <2>1, <2>2, <2>3, SettledKeeps, NotReadingType DEF AdoptCall, HandlesTyped
  <1>2. ASSUME NEW m \in Manifests, Adopted(h, m) \/ AdoptedUnknown(h, m)
        PROVE  TypeInv'
    <2>1. Settled(h)
      BY <1>2, ReturnSettles, GotoSettles
         DEF Adopted, AdoptedUnknown, Labels, Tags, HandlesTyped
    <2>2. AdoptWrite(h, m)
      BY <1>2 DEF Adopted, AdoptedUnknown
    <2>3. TablesTyped'
      BY <2>2 DEF AdoptWrite, TablesTyped, HandlesTyped
    <2>4. Requested(h)
      BY <2>2, UnchangedRequests DEF AdoptWrite
    <2>5. manifest' \in [Handles -> Manifests]
      BY <1>2 DEF Adopted, AdoptedUnknown, HandlesTyped
    <2> QED
      BY <2>1, <2>2, <2>3, <2>4, <2>5, SettledKeeps
         DEF AdoptWrite, HeadWritten, HandlesTyped
  <1>3. CASE AdoptLost(h)
    <2>1. Settled(h) /\ Requested(h) /\ TablesTyped'
      BY <1>3, ReturnSettles, UnchangedRequests, DurableKeeps DEF AdoptLost, Tags
    <2> QED
      BY <1>3, <2>1, SettledKeeps DEF AdoptLost, EndTransaction, HandlesTyped
  <1> QED
    BY <1>1, <1>2, <1>3 DEF AdoptStep

LEMMA LoadStepType ==
  ASSUME TypeInv, NEW h \in Handles, LoadStep(h) PROVE TypeInv'
  <1> USE RevisionsType DEF TypeInv, TypeOK
  <1> DEFINE r == reading[h]
  <1>0. r \in Reading
    BY DEF HandlesTyped
  <1>1. ASSUME Settled(h), Requested(h), UNCHANGED <<durable, manifest, lost>>,
               revision' \in [Handles -> Revisions],
               reading' \in [Handles -> Reading]
        PROVE  TypeInv'
    <2>1. TablesTyped'
      BY <1>1, DurableKeeps
    <2> QED
      BY <1>1, <2>1, SettledKeeps DEF HandlesTyped
  <1>2. ASSUME NEW for \in {"caller", "checkpoint"}, NEW given \in Records,
               LoadHead(h, for, given)
        PROVE  TypeInv'
    <2>1. [NotReading EXCEPT !.rev = head.revision, !.for = for,
                             !.given = given] \in Reading
      BY NotReadingType DEF TablesTyped, Reading
    <2>2. Settled(h) /\ reading' \in [Handles -> Reading]
      BY <1>2, <2>1, ReadSettles, LoadFailsSettles DEF LoadHead, Labels
    <2> QED
      BY <1>1, <1>2, <2>2, ForgetRequests DEF LoadHead, HandlesTyped
  <1>3. ASSUME NEW locals \in Reading, NEW label \in Labels \ {"commit"},
               Read(h, locals, label) \/ LoadFails(h),
               UNCHANGED <<durable, manifest, revision, lost, request>>
        PROVE  TypeInv'
    <2>1. Settled(h) /\ reading' \in [Handles -> Reading]
      BY <1>3, ReadSettles, LoadFailsSettles
    <2> QED
      BY <1>1, <1>3, <2>1, UnchangedRequests DEF HandlesTyped
  <1>4. CASE LoadCheckpoint(h)
    <2>1. PICK locals \in Reading :
            Read(h, locals, "load_ops") \/ LoadFails(h)
      <3>1. ASSUME NEW row \in Newest(checkpoints)
            PROVE  [r EXCEPT !.at = row.revision, !.records = row.records]
                     \in Reading
        BY <1>0 DEF Newest, TablesTyped, CheckpointRow, Reading
      <3> QED
        BY <1>0, <1>4, <3>1 DEF LoadCheckpoint
    <2> QED
      BY <1>3, <1>4, <2>1 DEF LoadCheckpoint, Labels
  <1>5. CASE LoadOps(h)
    <2>1. [r EXCEPT !.ops = {row \in ops : row.revision > r.at}] \in Reading
      BY <1>0 DEF TablesTyped, Reading
    <2> QED
      BY <1>3, <1>5, <2>1 DEF LoadOps, Labels
  <1>6. CASE LoadActions(h)
    <2>1. [r EXCEPT !.actions = actions] \in Reading
      BY <1>0 DEF TablesTyped, Reading
    <2> QED
      BY <1>3, <1>6, <2>1 DEF LoadActions, Labels
  <1>7. CASE Rebuild(h)
    <2>1. ASSUME NEW op \in r.ops, op.revision = r.at + 1
          PROVE  [r EXCEPT !.at = r.at + 1, !.records = Apply(r.records, op)]
                   \in Reading
      <3>1. op \in OpRow /\ r.records \in Records
        BY <1>0 DEF Reading
      <3>2. r.at + 1 \in Revisions /\ Apply(r.records, op) \in Records
        BY <2>1, <3>1, ApplyType DEF OpRow
      <3> QED
        BY <1>0, <3>2 DEF Reading
    <2>2. [r EXCEPT !.ops = {}] \in Reading
      BY <1>0 DEF Reading
    <2>3. \E locals \in Reading, label \in {"rebuild", "load_events"} :
            Read(h, locals, label) \/ LoadFails(h)
      BY <1>0, <1>7, <2>1, <2>2 DEF Rebuild
    <2> QED
      BY <1>3, <1>7, <2>3 DEF Rebuild, Labels
  <1>8. CASE LoadEvents(h)
    <2>1. [r EXCEPT !.events = events, !.actions = {}] \in Reading
      BY <1>0 DEF TablesTyped, Reading
    <2> QED
      BY <1>3, <1>8, <2>1 DEF LoadEvents, Labels
  <1>9. CASE LoadTranscripts(h)
    <2>1. revision' \in [Handles -> Revisions]
      BY <1>0, <1>9 DEF LoadTranscripts, HandlesTyped, Reading
    <2>2. Settled(h) /\ reading' \in [Handles -> Reading]
      <3>1. CASE Return(h, "loaded", r.rev) /\ UNCHANGED reading
        BY <1>0, <3>1, ReturnSettles DEF Tags, HandlesTyped, Reading
      <3>2. CASE Read(h, r, "checkpoint")
        BY <1>0, <3>2, ReadSettles DEF Labels
      <3>3. CASE LoadFails(h)
        BY <3>3, LoadFailsSettles
      <3> QED
        BY <1>9, <3>1, <3>2, <3>3 DEF LoadTranscripts
    <2> QED
      BY <1>1, <1>9, <2>1, <2>2, UnchangedRequests DEF LoadTranscripts
  <1>10. InitialRecords \in Records /\ Held \subseteq Records
    BY InitialRecordsType, StoreAssumption
       DEF Held, TablesTyped, Revisions, StoreAssumption
  <1> QED
    BY <1>2, <1>4, <1>5, <1>6, <1>7, <1>8, <1>9, <1>10 DEF LoadStep

LEMMA CheckpointStepType ==
  ASSUME TypeInv, NEW h \in Handles, CheckpointStep(h) PROVE TypeInv'
  <1> USE RevisionsType DEF TypeInv, TypeOK
  <1>1. CASE CheckpointBegin(h)
    <2>1. Settled(h) /\ reading' \in [Handles -> Reading]
      <3>1. CASE Goto(h, "checkpoint_commit") /\ UNCHANGED reading
        BY <3>1, GotoSettles DEF Labels, HandlesTyped
      <3>2. CASE Return(h, "checkpointed", revision[h]) /\ UNCHANGED reading
        BY <3>2, ReturnSettles DEF Tags, HandlesTyped
      <3>3. CASE LoadFails(h)
        BY <3>3, LoadFailsSettles
      <3> QED
        BY <1>1, <3>1, <3>2, <3>3 DEF CheckpointBegin
    <2>2. revision' \in [Handles -> Revisions]
      BY <1>1 DEF CheckpointBegin, HandlesTyped, TablesTyped
    <2>3. Requested(h) /\ TablesTyped'
      BY <1>1, UnchangedRequests, DurableKeeps DEF CheckpointBegin
    <2> QED
      BY <1>1, <2>1, <2>2, <2>3, SettledKeeps DEF CheckpointBegin, HandlesTyped
  <1>2. CASE CheckpointCommit(h)
    <2>1. Settled(h) /\ Requested(h)
      BY <1>2, ReturnSettles, UnchangedRequests
         DEF CheckpointCommit, Tags, HandlesTyped
    <2>2. TablesTyped'
      BY <1>2 DEF CheckpointCommit, TablesTyped, HandlesTyped, CheckpointRow,
                  Reading
    <2> QED
      BY <1>2, <2>1, <2>2, SettledKeeps DEF CheckpointCommit, HandlesTyped
  <1> QED
    BY <1>1, <1>2 DEF CheckpointStep

LEMMA TypeStep == TypeInv /\ [Next]_vars => TypeInv'
  <1> SUFFICES ASSUME TypeInv, [Next]_vars PROVE TypeInv'
    OBVIOUS
  <1>1. CASE UNCHANGED vars
    BY <1>1 DEF vars, TypeInv, TypeOK, TablesTyped, HandlesTyped, CommitValid
  <1>2. ASSUME NEW h \in Handles, Step(h) PROVE TypeInv'
    BY <1>2, SessionStepType, CommitStepType, AdoptStepType, LoadStepType,
       CheckpointStepType DEF Step
  <1> QED
    BY <1>1, <1>2 DEF Next

LEMMA TypeInvariant == Spec => []TypeInv
  BY TypeInit, TypeStep, PTL DEF Spec

(* Every reachable state of the store, for any number of handles, commands *)
(* and revisions, is well typed; in particular no commit of store.rs runs  *)
(* past the largest revision a row can hold.                               *)
THEOREM TypeCorrect == Spec => []TypeOK
  <1>1. TypeInv => TypeOK
    BY DEF TypeInv
  <1> QED
    BY <1>1, TypeInvariant, PTL

-----------------------------------------------------------------------------
(* The safety invariants need to be strengthened by what each handle knows *)
(* between its queries.                                                    *)

(* The operations of a revision lead from the records of the one before to *)
(* its own.                                                                *)
StatesExact ==
  \A op \in ops : states[op.revision] = Apply(states[op.revision - 1], op)

(* A commit that was not overtaken still has the head it was prepared for, *)
(* and its ActionId is still unused.                                       *)
CommitOK(h) ==
  pc[h] = "commit" /\ ~lost[h] => /\ request[h].expected = head.revision
                                  /\ Recorded(request[h].action) = {}

(* What a load has read so far belongs to the revision it read first, and  *)
(* a checkpoint holds the records of the revision it is written for.       *)
Snapshot(h) == /\ reading[h].rev <= head.revision
               /\ reading[h].records = states[reading[h].rev]

EventsRead(h) ==
  reading[h].events = {e \in events : e.revision <= reading[h].rev}

ReadingOK(h) ==
  /\ pc[h] \in {"load_checkpoint", "load_ops", "load_actions", "rebuild"} =>
       reading[h].rev <= head.revision
  /\ pc[h] \in {"load_ops", "load_actions", "rebuild"} =>
       /\ reading[h].at <= reading[h].rev
       /\ reading[h].records = states[reading[h].at]
  /\ pc[h] \in {"load_actions", "rebuild"} =>
       \A op \in reading[h].ops : op \in ops /\ op.revision <= reading[h].rev
  /\ pc[h] \in {"load_events", "load_transcripts"} => Snapshot(h)
  /\ pc[h] = "load_transcripts" => EventsRead(h)
  /\ pc[h] \in {"checkpoint", "checkpoint_commit"} =>
       /\ revision[h] <= head.revision
       /\ reading[h].given = states[revision[h]]

AnswerOK(h) ==
  /\ answer[h].tag \in {"committed", "already"} =>
       \E row \in actions : /\ row.command = request[h]
                            /\ row.revision = answer[h].rev
  /\ answer[h].tag = "loaded" => Snapshot(h) /\ EventsRead(h)

HandleOK(h) == CommitOK(h) /\ ReadingOK(h) /\ AnswerOK(h)

TablesOK == LogExact /\ StatesExact /\ CheckpointsFaithful

Inv == /\ TypeInv /\ TablesOK
       /\ \A h \in Handles : HandleOK(h)
       /\ OneWinner

(* A step of h leaves the locals of every other handle alone.              *)
Frame(h) == \A o \in Handles \ {h} : /\ pc'[o] = pc[o]
                                     /\ request'[o] = request[o]
                                     /\ reading'[o] = reading[o]
                                     /\ revision'[o] = revision[o]
                                     /\ answer'[o] = answer[o]

LEMMA StepFrame ==
  ASSUME TypeInv, NEW h \in Handles, Step(h) PROVE Frame(h)
  <1> USE DEF TypeInv, TypeOK, HandlesTyped, Frame, Return, Goto, Keep, Forget,
              Read, LoadFails
  <1>1. CASE SessionStep(h)
    BY <1>1 DEF SessionStep, Open, Drop, BackendError
  <1>2. CASE CommitStep(h)
    <2>1. ASSUME NEW c \in Command, Duplicate(h, c), UNCHANGED revision,
                 reading' = [reading EXCEPT ![h] = NotReading]
          PROVE  Frame(h)
      BY <2>1 DEF Duplicate
    <2>2. ASSUME NEW c \in Command, CommitRefused(h, c) \/ CommitStale(h, c)
                                      \/ CommitBegin(h, c)
          PROVE  Frame(h)
      BY <2>2 DEF CommitRefused, CommitStale, CommitBegin, CommitCall
    <2>3. ASSUME NEW c \in Command, CommitDuplicate(h, c) PROVE Frame(h)
      BY <2>1, <2>3 DEF CommitDuplicate, CommitCall
    <2>4. ASSUME NEW c \in Command, ResolveCall(h, c) PROVE Frame(h)
      <3>1. CASE Duplicate(h, c)
        BY <2>1, <2>4, <3>1 DEF ResolveCall
      <3>2. CASE Goto(h, "resolve_head") /\ Forget(h)
        BY <2>4, <3>2 DEF ResolveCall
      <3> QED
        BY <2>4, <3>1, <3>2 DEF ResolveCall
    <2>5. CASE Committed(h) \/ CommittedUnknown(h)
      BY <2>5 DEF Committed, CommittedUnknown
    <2>6. CASE SerializationFailure(h) \/ ReloadHead(h) \/ ResolveHead(h)
      BY <2>6 DEF SerializationFailure, ReloadHead, ResolveHead
    <2> QED
      BY <1>2, <2>2, <2>3, <2>4, <2>5, <2>6 DEF CommitStep
  <1>3. CASE AdoptStep(h)
    <2>1. ASSUME NEW m \in Manifests,
                 AdoptRefused(h, m) \/ AdoptUnchanged(h, m) \/ AdoptBegin(h, m)
          PROVE  Frame(h)
      BY <2>1 DEF AdoptRefused, AdoptUnchanged, AdoptBegin, AdoptCall
    <2>2. ASSUME NEW m \in Manifests, Adopted(h, m) \/ AdoptedUnknown(h, m)
          PROVE  Frame(h)
      BY <2>2 DEF Adopted, AdoptedUnknown, AdoptWrite
    <2>3. CASE AdoptLost(h)
      BY <2>3 DEF AdoptLost
    <2> QED
      BY <1>3, <2>1, <2>2, <2>3 DEF AdoptStep
  <1>4. CASE LoadStep(h)
    <2>1. ASSUME NEW for, NEW given, LoadHead(h, for, given) PROVE Frame(h)
      BY <2>1 DEF LoadHead
    <2>2. CASE LoadCheckpoint(h) \/ LoadOps(h) \/ LoadActions(h)
      BY <2>2 DEF LoadCheckpoint, LoadOps, LoadActions
    <2>3. CASE Rebuild(h)
      BY <2>3 DEF Rebuild
    <2>4. CASE LoadEvents(h) \/ LoadTranscripts(h)
      BY <2>4 DEF LoadEvents, LoadTranscripts
    <2> QED
      BY <1>4, <2>1, <2>2, <2>3, <2>4 DEF LoadStep
  <1>5. CASE CheckpointStep(h)
    BY <1>5 DEF CheckpointStep, CheckpointBegin, CheckpointCommit
  <1> QED
    BY <1>1, <1>2, <1>3, <1>4, <1>5 DEF Step

(* Only four actions write the database, and only the two that write the   *)
(* head overtake the transactions of others.                               *)
Writes(h) ==
  \/ /\ pc[h] = "commit" /\ ~lost[h] /\ Install(h)
  \/ \E m \in Manifests : AdoptWrite(h, m)
  \/ CheckpointCommit(h)

Reads(h) == /\ UNCHANGED durable
            /\ \A o \in Handles \ {h} : lost'[o] = lost[o]

LEMMA StepWrites ==
  ASSUME TypeInv, NEW h \in Handles, Step(h) PROVE Reads(h) \/ Writes(h)
  <1> USE DEF TypeInv, TypeOK, HandlesTyped, Reads, EndTransaction
  <1>1. CASE SessionStep(h)
    BY <1>1 DEF SessionStep, Open, Drop, BackendError
  <1>2. CASE CommitStep(h)
    <2>1. ASSUME NEW c \in Command,
                 \/ CommitRefused(h, c) \/ CommitStale(h, c)
                 \/ CommitBegin(h, c) \/ CommitDuplicate(h, c)
                 \/ ResolveCall(h, c)
          PROVE  Reads(h)
      BY <2>1 DEF CommitRefused, CommitStale, CommitBegin, CommitDuplicate,
                  CommitCall, ResolveCall
    <2>2. CASE Committed(h) \/ CommittedUnknown(h)
      BY <2>2 DEF Committed, CommittedUnknown, Writes
    <2>3. CASE SerializationFailure(h) \/ ReloadHead(h) \/ ResolveHead(h)
      BY <2>3 DEF SerializationFailure, ReloadHead, ResolveHead
    <2> QED
      BY <1>2, <2>1, <2>2, <2>3 DEF CommitStep
  <1>3. CASE AdoptStep(h)
    <2>1. ASSUME NEW m \in Manifests,
                 AdoptRefused(h, m) \/ AdoptUnchanged(h, m) \/ AdoptBegin(h, m)
          PROVE  Reads(h)
      BY <2>1 DEF AdoptRefused, AdoptUnchanged, AdoptBegin, AdoptCall
    <2>2. ASSUME NEW m \in Manifests, Adopted(h, m) \/ AdoptedUnknown(h, m)
          PROVE  Writes(h)
      BY <2>2 DEF Adopted, AdoptedUnknown, Writes
    <2>3. CASE AdoptLost(h)
      BY <2>3 DEF AdoptLost
    <2> QED
      BY <1>3, <2>1, <2>2, <2>3 DEF AdoptStep
  <1>4. CASE LoadStep(h)
    <2>1. ASSUME NEW for, NEW given, LoadHead(h, for, given) PROVE Reads(h)
      BY <2>1 DEF LoadHead
    <2>2. CASE \/ LoadCheckpoint(h) \/ LoadOps(h) \/ LoadActions(h)
               \/ Rebuild(h) \/ LoadEvents(h) \/ LoadTranscripts(h)
      BY <2>2 DEF LoadCheckpoint, LoadOps, LoadActions, Rebuild, LoadEvents,
                  LoadTranscripts
    <2> QED
      BY <1>4, <2>1, <2>2 DEF LoadStep
  <1>5. CASE CheckpointStep(h)
    BY <1>5 DEF CheckpointStep, CheckpointBegin, Writes
  <1> QED
    BY <1>1, <1>2, <1>3, <1>4, <1>5 DEF Step

(* What is durable is only added to, beyond the head.                      *)
Grows == /\ head.revision <= head'.revision
         /\ \A r \in 0..head.revision : states'[r] = states[r]
         /\ ops \subseteq ops' /\ actions \subseteq actions'
         /\ events \subseteq events'
         /\ \A e \in events' \ events : e.revision > head.revision

LEMMA HeadType ==
  ASSUME TypeInv PROVE head.revision \in Nat /\ 0..head.revision \subseteq Revisions
  BY StoreAssumption
     DEF TypeInv, TypeOK, TablesTyped, Revisions, StoreAssumption

(* A commit extends the log by one revision that nobody else wrote.        *)
LEMMA InstallTables ==
  ASSUME Inv, NEW h \in Handles, pc[h] = "commit", ~lost[h], Install(h)
  PROVE  TablesOK' /\ Grows
  <1> DEFINE c == request[h]
             r == c.expected + 1
             new == [action |-> c.action, revision |-> r, command |-> c]
             op == [revision |-> r, action |-> c.action, change |-> c.change]
  <1>1. /\ head.revision \in Nat /\ 0..head.revision \subseteq Revisions
        /\ c \in Command /\ c.expected = head.revision
        /\ Recorded(c.action) = {}
    BY HeadType DEF Inv, TypeInv, CommitValid, HandleOK, CommitOK
  <1>2. r \in Revisions /\ TablesTyped'
    BY InstallType DEF Inv
  <1>3. /\ head'.revision = r /\ actions' = actions \cup {new}
        /\ ops' = ops \cup {op} /\ checkpoints' = checkpoints
        /\ events' = events \cup EventRows(c, r)
        /\ states' = [states EXCEPT ![r] = Apply(states[c.expected], c)]
    BY DEF Install, Inv, TypeInv, TypeOK, TablesTyped
  <1>4. r = head.revision + 1 /\ r \in Nat
    BY <1>1
  <1>5. \A row \in actions : row.revision \in 1..head.revision
    BY DEF Inv, TablesOK, LogExact
  <1>6. \A k \in Revisions : k # r => states'[k] = states[k]
    BY <1>2, <1>3 DEF Inv, TypeInv, TypeOK, TablesTyped
  <1>7. states'[r] = Apply(states[head.revision], op)
    BY <1>1, <1>2, <1>3 DEF Apply, Inv, TypeInv, TypeOK, TablesTyped
  <1>a. /\ new.revision = r /\ new.action = c.action /\ new.command = c
        /\ op.revision = r /\ op.action = c.action /\ op.change = c.change
        /\ op = [revision |-> new.revision, action |-> new.action,
                 change |-> new.command.change]
    OBVIOUS
  <1> HIDE DEF c, r, new, op
  <1>8. LogExact'
    <2>1. \A k \in 1..r : \E row \in actions' : row.revision = k
      <3>1. \A k \in 1..head.revision : \E row \in actions : row.revision = k
        BY DEF Inv, TablesOK, LogExact
      <3>2. \A k \in 1..r : k \in 1..head.revision \/ k = r
        BY <1>1, <1>4
      <3> QED
        BY <1>3, <1>a, <3>1, <3>2
    <2>2. \A row \in actions' :
            /\ row.revision \in 1..r
            /\ row.command.expected + 1 = row.revision
            /\ row.command.action = row.action
            /\ [revision |-> row.revision, action |-> row.action,
                change |-> row.command.change] \in ops'
      <3>1. ASSUME NEW row \in actions
            PROVE  /\ row.revision \in 1..head.revision
                   /\ row.command.expected + 1 = row.revision
                   /\ row.command.action = row.action
                   /\ [revision |-> row.revision, action |-> row.action,
                       change |-> row.command.change] \in ops
        BY DEF Inv, TablesOK, LogExact
      <3>2. /\ new.revision \in 1..r
            /\ new.command.expected + 1 = new.revision
            /\ new.command.action = new.action
            /\ [revision |-> new.revision, action |-> new.action,
                change |-> new.command.change] \in ops'
        BY <1>1, <1>3, <1>4, <1>a
      <3>3. 1..head.revision \subseteq 1..r
        BY <1>1, <1>4
      <3> QED
        BY <1>3, <3>1, <3>2, <3>3
    <2>3. \A row, other \in actions' : (\/ row.action = other.action
                                       \/ row.revision = other.revision)
                                      => row = other
      <3>1. \A row, other \in actions : (\/ row.action = other.action
                                        \/ row.revision = other.revision)
                                       => row = other
        BY DEF Inv, TablesOK, LogExact
      <3>2. \A row \in actions : row.action # new.action
        BY <1>1, <1>a DEF Recorded
      <3>3. \A row \in actions : row.revision # new.revision
        BY <1>1, <1>4, <1>5, <1>a
      <3> QED
        BY <1>3, <3>1, <3>2, <3>3
    <2>4. \A o \in ops' : \E row \in actions' : /\ row.revision = o.revision
                                                /\ row.action = o.action
                                                /\ row.command.change = o.change
      <3>1. \A o \in ops : \E row \in actions : /\ row.revision = o.revision
                                               /\ row.action = o.action
                                               /\ row.command.change = o.change
        BY DEF Inv, TablesOK, LogExact
      <3> QED
        BY <1>3, <1>a, <3>1
    <2> QED
      BY <1>3, <2>1, <2>2, <2>3, <2>4 DEF LogExact
  <1>9. \A o \in ops : o.revision \in 1..head.revision
    BY <1>5 DEF Inv, TablesOK, LogExact
  <1>10. StatesExact'
    <2>1. ASSUME NEW o \in ops
          PROVE  states'[o.revision] = Apply(states'[o.revision - 1], o)
      <3>1. /\ o.revision \in 1..head.revision
            /\ o.revision - 1 \in 0..head.revision
        BY <1>1, <1>9
      <3>2. states'[o.revision] = states[o.revision]
        BY <1>1, <1>4, <1>6, <3>1
      <3>3. states'[o.revision - 1] = states[o.revision - 1]
        BY <1>1, <1>4, <1>6, <3>1
      <3> QED
        BY <3>2, <3>3 DEF Inv, TablesOK, StatesExact
    <2>2. states'[op.revision] = Apply(states'[op.revision - 1], op)
      <3>1. op.revision = r /\ op.revision - 1 = head.revision
        BY <1>1, <1>4, <1>a
      <3>2. states'[head.revision] = states[head.revision]
        BY <1>1, <1>4, <1>6
      <3> QED
        BY <1>7, <3>1, <3>2
    <2> QED
      BY <1>3, <2>1, <2>2 DEF StatesExact
  <1>11. CheckpointsFaithful'
    <2> SUFFICES ASSUME NEW row \in checkpoints
                 PROVE  /\ row.revision <= head'.revision
                        /\ row.records = states'[row.revision]
      BY <1>3 DEF CheckpointsFaithful
    <2>1. row.revision <= head.revision /\ row.records = states[row.revision]
      BY DEF Inv, TablesOK, CheckpointsFaithful
    <2>2. row.revision \in Revisions /\ row.revision \in Nat
      BY RevisionsType DEF Inv, TypeInv, TypeOK, TablesTyped, CheckpointRow
    <2>3. row.revision # r
      BY <1>1, <1>4, <2>1, <2>2
    <2> QED
      BY <1>1, <1>3, <1>4, <1>6, <2>1, <2>2, <2>3
  <1>12. Grows
    BY <1>1, <1>3, <1>4, <1>6 DEF Grows, EventRows
  <1> QED
    BY <1>8, <1>10, <1>11, <1>12 DEF TablesOK

LEMMA TablesStep ==
  ASSUME Inv, NEW h \in Handles, Step(h)
  PROVE  TablesOK' /\ Grows
  <1>1. CASE Reads(h)
    BY <1>1, HeadType
       DEF Reads, durable, Inv, TablesOK, LogExact, StatesExact,
           CheckpointsFaithful, Grows
  <1>2. CASE pc[h] = "commit" /\ ~lost[h] /\ Install(h)
    BY <1>2, InstallTables
  <1>3. ASSUME NEW m \in Manifests, AdoptWrite(h, m) PROVE TablesOK' /\ Grows
    <2>1. head'.revision = head.revision
      BY <1>3 DEF AdoptWrite, Inv, TypeInv, TypeOK, TablesTyped
    <2> QED
      BY <1>3, <2>1, HeadType
         DEF AdoptWrite, Inv, TablesOK, LogExact, StatesExact,
             CheckpointsFaithful, Grows
  <1>4. CASE CheckpointCommit(h)
    <2>1. /\ revision[h] <= head.revision
          /\ reading[h].given = states[revision[h]]
      BY <1>4 DEF CheckpointCommit, Inv, HandleOK, ReadingOK
    <2>2. CheckpointsFaithful'
      BY <1>4, <2>1 DEF CheckpointCommit, Inv, TablesOK, CheckpointsFaithful
    <2> QED
      BY <1>4, <2>2, HeadType
         DEF CheckpointCommit, Inv, TablesOK, LogExact, StatesExact, Grows
  <1> QED
    BY <1>1, <1>2, <1>3, <1>4, StepWrites DEF Writes, Inv

(* What another handle knows survives a step of h: rows are only added     *)
(* beyond its snapshot, and a write of the head overtakes its commit.      *)
LEMMA OthersKeep ==
  ASSUME Inv, TypeInv', NEW h \in Handles, Step(h), NEW o \in Handles \ {h}
  PROVE  HandleOK(o)'
  <1>1. /\ pc'[o] = pc[o] /\ request'[o] = request[o]
        /\ reading'[o] = reading[o] /\ revision'[o] = revision[o]
        /\ answer'[o] = answer[o]
    BY StepFrame DEF Frame, Inv
  <1>2. Grows
    BY TablesStep
  <1>3. /\ head.revision \in Nat /\ head'.revision \in Nat
        /\ head.revision <= head'.revision
        /\ \A r \in 0..head.revision : states'[r] = states[r]
    BY <1>2, HeadType, RevisionsType DEF Grows, TypeInv, TypeOK, TablesTyped, Inv
  <1>4. HandleOK(o) /\ reading[o] \in Reading /\ revision[o] \in Nat
    BY RevisionsType DEF Inv, TypeInv, TypeOK, HandlesTyped
  <1>5. reading[o].rev \in Nat /\ reading[o].at \in Nat
    BY <1>4, RevisionsType DEF Reading
  <1>6. CommitOK(o)'
    <2>1. CASE Reads(h)
      BY <1>1, <1>4, <2>1 DEF Reads, durable, HandleOK, CommitOK, Recorded
    <2>2. CASE HeadWritten(h)
      BY <1>1, <2>2 DEF HeadWritten, CommitOK
    <2>3. CASE CheckpointCommit(h)
      BY <1>1, <1>4, <2>3 DEF CheckpointCommit, HandleOK, CommitOK, Recorded
    <2> QED
      BY <2>1, <2>2, <2>3, StepWrites DEF Writes, Install, AdoptWrite, Inv
  <1>7. Snapshot(o) => Snapshot(o)'
    BY <1>1, <1>3, <1>5 DEF Snapshot
  <1>8. Snapshot(o) /\ EventsRead(o) => EventsRead(o)'
    <2> SUFFICES ASSUME Snapshot(o), EventsRead(o) PROVE EventsRead(o)'
      OBVIOUS
    <2>1. \A e \in events' : e.revision \in Nat
      BY RevisionsType DEF TypeInv, TypeOK, TablesTyped, EventRow
    <2>2. \A e \in events' : e.revision <= reading[o].rev => e \in events
      BY <1>2, <1>3, <1>5, <2>1 DEF Grows, Snapshot
    <2> QED
      BY <1>1, <1>2, <2>2 DEF EventsRead, Grows
  <1>9. ReadingOK(o)'
    <2>1. ReadingOK(o) /\ ops \subseteq ops'
      BY <1>2, <1>4 DEF HandleOK, Grows
    <2>2. pc[o] \in {"load_checkpoint", "load_ops", "load_actions", "rebuild"} =>
            reading[o].rev <= head'.revision
      BY <1>3, <1>5, <2>1 DEF ReadingOK
    <2>3. pc[o] \in {"load_ops", "load_actions", "rebuild"} =>
            /\ reading[o].at <= reading[o].rev
            /\ reading[o].records = states'[reading[o].at]
      BY <1>3, <1>5, <2>1 DEF ReadingOK
    <2>4. pc[o] \in {"load_actions", "rebuild"} =>
            \A op \in reading[o].ops : op \in ops' /\ op.revision <= reading[o].rev
      BY <2>1 DEF ReadingOK
    <2>5. /\ pc[o] \in {"load_events", "load_transcripts"} => Snapshot(o)'
          /\ pc[o] = "load_transcripts" => EventsRead(o)'
      BY <1>7, <1>8, <2>1 DEF ReadingOK
    <2>6. pc[o] \in {"checkpoint", "checkpoint_commit"} =>
            /\ revision[o] <= head'.revision
            /\ reading[o].given = states'[revision[o]]
      BY <1>3, <1>4, <2>1 DEF ReadingOK
    <2> QED
      BY <1>1, <2>2, <2>3, <2>4, <2>5, <2>6 DEF ReadingOK
  <1>10. AnswerOK(o)'
    BY <1>1, <1>2, <1>4, <1>7, <1>8 DEF HandleOK, AnswerOK, Grows
  <1> QED
    BY <1>6, <1>9, <1>10 DEF HandleOK

(* A handle with nothing in hand: no commit, no load, no success answer.   *)
Quiet(h) ==
  /\ pc'[h] \in {"idle", "closed", "reload_head", "resolve_head", "adopt"}
  /\ answer'[h].tag \notin {"committed", "already", "loaded"}

LEMMA QuietKeeps ==
  ASSUME NEW h \in Handles, Quiet(h) PROVE HandleOK(h)'
  BY DEF Quiet, HandleOK, CommitOK, ReadingOK, AnswerOK

LEMMA ReturnQuiet ==
  ASSUME HandlesTyped, NEW h \in Handles, NEW tag, NEW r, Return(h, tag, r),
         tag \notin {"committed", "already", "loaded"}
  PROVE  Quiet(h)
  BY DEF HandlesTyped, Return, Quiet

LEMMA GotoQuiet ==
  ASSUME HandlesTyped, NEW h \in Handles, NEW label, Goto(h, label),
         label \in {"closed", "idle", "reload_head", "resolve_head", "adopt"}
  PROVE  Quiet(h)
  BY DEF HandlesTyped, Goto, NoAnswer, Quiet

-----------------------------------------------------------------------------
(* What the steps of a handle establish about itself.                      *)
LEMMA DuplicateOwn ==
  ASSUME Inv, NEW h \in Handles, NEW c \in Command, Duplicate(h, c),
         UNCHANGED actions
  PROVE  HandleOK(h)'
  <1>1. PICK row \in Recorded(c.action) :
          \/ row.command = c /\ Return(h, "already", row.revision) /\ Keep(h, c)
          \/ row.command # c /\ Return(h, "identity", 0) /\ Forget(h)
    BY DEF Duplicate
  <1>2. CASE row.command = c /\ Return(h, "already", row.revision) /\ Keep(h, c)
    <2>1. /\ pc'[h] = "idle" /\ request'[h] = c
          /\ answer'[h].tag = "already" /\ answer'[h].rev = row.revision
      BY <1>2 DEF Return, Keep, Inv, TypeInv, TypeOK, HandlesTyped
    <2>2. row \in actions'
      BY DEF Recorded
    <2> QED
      BY <1>2, <2>1, <2>2 DEF HandleOK, CommitOK, ReadingOK, AnswerOK
  <1>3. CASE Return(h, "identity", 0)
    BY <1>3, ReturnQuiet, QuietKeeps DEF Inv, TypeInv, TypeOK
  <1> QED
    BY <1>1, <1>2, <1>3

LEMMA SessionOwn ==
  ASSUME Inv, NEW h \in Handles, SessionStep(h) PROVE HandleOK(h)'
  BY QuietKeeps, GotoQuiet, ReturnQuiet
     DEF SessionStep, Open, Drop, BackendError, Inv, TypeInv, TypeOK

LEMMA CommitOwn ==
  ASSUME Inv, NEW h \in Handles, CommitStep(h) PROVE HandleOK(h)'
  <1> USE DEF Inv, TypeInv, TypeOK
  <1>1. ASSUME NEW c \in Command, CommitRefused(h, c) \/ CommitStale(h, c)
        PROVE  HandleOK(h)'
    BY <1>1, ReturnQuiet, QuietKeeps DEF CommitRefused, CommitStale
  <1>2. ASSUME NEW c \in Command, CommitDuplicate(h, c) PROVE HandleOK(h)'
    BY <1>2, DuplicateOwn DEF CommitDuplicate, CommitCall, durable
  <1>3. ASSUME NEW c \in Command, CommitBegin(h, c) PROVE HandleOK(h)'
    <2>1. /\ pc'[h] = "commit" /\ request'[h] = c /\ answer'[h].tag = "none"
          /\ head' = head /\ actions' = actions
          /\ head.revision = c.expected /\ Recorded(c.action) = {}
      BY <1>3 DEF CommitBegin, CommitCall, FreshRequest, Goto, Keep, NoAnswer,
                  durable, HandlesTyped
    <2> QED
      BY <2>1 DEF HandleOK, CommitOK, ReadingOK, AnswerOK, Recorded
  <1>4. ASSUME NEW c \in Command, ResolveCall(h, c) PROVE HandleOK(h)'
    BY <1>4, DuplicateOwn, GotoQuiet, QuietKeeps DEF ResolveCall, durable
  <1>5. CASE Committed(h)
    <2> DEFINE c == request[h]
               new == [action |-> c.action, revision |-> c.expected + 1,
                       command |-> c]
    <2>1. /\ pc'[h] = "idle" /\ request'[h] = c
          /\ answer'[h].tag = "committed"
          /\ answer'[h].rev = c.expected + 1
      BY <1>5 DEF Committed, Return, HandlesTyped
    <2>2. /\ new \in actions' /\ new.command = c
          /\ new.revision = c.expected + 1
      BY <1>5 DEF Committed, Install
    <2> HIDE DEF new, c
    <2> QED
      BY <2>1, <2>2 DEF HandleOK, CommitOK, ReadingOK, AnswerOK
  <1>6. CASE CommittedUnknown(h)
    BY <1>6, ReturnQuiet, QuietKeeps DEF CommittedUnknown
  <1>7. CASE SerializationFailure(h)
    BY <1>7, GotoQuiet, QuietKeeps DEF SerializationFailure
  <1>8. CASE ReloadHead(h) \/ ResolveHead(h)
    BY <1>8, ReturnQuiet, QuietKeeps DEF ReloadHead, ResolveHead
  <1> QED
    BY <1>1, <1>2, <1>3, <1>4, <1>5, <1>6, <1>7, <1>8 DEF CommitStep

LEMMA AdoptOwn ==
  ASSUME Inv, NEW h \in Handles, AdoptStep(h) PROVE HandleOK(h)'
  <1> USE DEF Inv, TypeInv, TypeOK
  <1>1. ASSUME NEW m \in Manifests,
               \/ AdoptRefused(h, m) \/ AdoptUnchanged(h, m) \/ AdoptBegin(h, m)
               \/ Adopted(h, m) \/ AdoptedUnknown(h, m)
        PROVE  Quiet(h)
    BY <1>1, ReturnQuiet, GotoQuiet
       DEF AdoptRefused, AdoptUnchanged, AdoptBegin, Adopted, AdoptedUnknown
  <1>2. CASE AdoptLost(h)
    BY <1>2, ReturnQuiet, QuietKeeps DEF AdoptLost
  <1> QED
    BY <1>1, <1>2, QuietKeeps DEF AdoptStep

LEMMA CheckpointOwn ==
  ASSUME Inv, NEW h \in Handles, CheckpointStep(h) PROVE HandleOK(h)'
  <1> USE DEF Inv, TypeInv, TypeOK
  <1>1. CASE CheckpointBegin(h)
    <2>1. CASE LoadFails(h)
      BY <2>1, ReturnQuiet, QuietKeeps DEF LoadFails
    <2>2. CASE Return(h, "checkpointed", revision[h])
      BY <2>2, ReturnQuiet, QuietKeeps
    <2>3. CASE /\ ValidHead /\ head.revision = revision[h]
               /\ Goto(h, "checkpoint_commit") /\ UNCHANGED reading
      <3>1. /\ pc'[h] = "checkpoint_commit" /\ answer'[h].tag = "none"
            /\ revision'[h] = revision[h] /\ reading'[h] = reading[h]
            /\ head' = head /\ states' = states
        BY <1>1, <2>3 DEF CheckpointBegin, Goto, NoAnswer, durable, HandlesTyped
      <3>2. pc[h] = "checkpoint" /\ ReadingOK(h)
        BY <1>1 DEF CheckpointBegin, HandleOK
      <3> QED
        BY <3>1, <3>2 DEF HandleOK, CommitOK, ReadingOK, AnswerOK
    <2> QED
      BY <1>1, <2>1, <2>2, <2>3 DEF CheckpointBegin
  <1>2. CASE CheckpointCommit(h)
    BY <1>2, ReturnQuiet, QuietKeeps DEF CheckpointCommit
  <1> QED
    BY <1>1, <1>2 DEF CheckpointStep

(* A query of a load moves it to its next label without touching the       *)
(* tables, the handle's revision or its request.                           *)
LEMMA ReadOwn ==
  ASSUME Inv, NEW h \in Handles, NEW locals, NEW label, Read(h, locals, label),
         UNCHANGED durable
  PROVE  /\ pc'[h] = label /\ reading'[h] = locals /\ answer'[h].tag = "none"
         /\ head' = head /\ states' = states /\ ops' = ops /\ events' = events
  BY DEF Read, Goto, NoAnswer, durable, Inv, TypeInv, TypeOK, HandlesTyped

LEMMA FailsOwn ==
  ASSUME Inv, NEW h \in Handles, LoadFails(h) PROVE HandleOK(h)'
  BY ReturnQuiet, QuietKeeps DEF LoadFails, Inv, TypeInv, TypeOK

LEMMA LoadHeadOwn ==
  ASSUME Inv, NEW h \in Handles, NEW for, NEW given, LoadHead(h, for, given)
  PROVE  HandleOK(h)'
  <1> DEFINE locals == [NotReading EXCEPT !.rev = head.revision, !.for = for,
                                          !.given = given]
  <1>1. CASE Read(h, locals, "load_checkpoint")
    <2>1. locals.rev = head.revision
      BY NotReadingType DEF Reading
    <2> HIDE DEF locals
    <2>2. /\ pc'[h] = "load_checkpoint" /\ reading'[h] = locals
          /\ answer'[h].tag = "none" /\ head' = head
      BY <1>1, ReadOwn DEF LoadHead
    <2> QED
      BY <2>1, <2>2, HeadType
         DEF HandleOK, CommitOK, ReadingOK, AnswerOK, Inv
  <1>2. CASE LoadFails(h)
    BY <1>2, FailsOwn
  <1> QED
    BY <1>1, <1>2 DEF LoadHead

LEMMA LoadCheckpointOwn ==
  ASSUME Inv, NEW h \in Handles, LoadCheckpoint(h) PROVE HandleOK(h)'
  <1> DEFINE r == reading[h]
  <1>1. /\ r \in Reading /\ r.rev <= head.revision
        /\ r.rev \in Nat /\ UNCHANGED durable
    BY RevisionsType DEF LoadCheckpoint, Inv, HandleOK, ReadingOK, TypeInv,
                         TypeOK, HandlesTyped, Reading
  <1>2. CASE LoadFails(h)
    BY <1>2, FailsOwn
  <1>3. ASSUME NEW row \in Newest(checkpoints), ~FutureRow(checkpoints, r.rev),
               Read(h, [r EXCEPT !.at = row.revision, !.records = row.records],
                    "load_ops")
        PROVE  HandleOK(h)'
    <2> DEFINE locals == [r EXCEPT !.at = row.revision, !.records = row.records]
    <2>1. /\ locals.rev = r.rev /\ locals.at = row.revision
          /\ locals.records = row.records
      BY <1>1 DEF Reading
    <2>2. /\ pc'[h] = "load_ops" /\ reading'[h] = locals
          /\ answer'[h].tag = "none" /\ head' = head /\ states' = states
      BY <1>1, <1>3, ReadOwn
    <2> HIDE DEF locals
    <2>3. row \in checkpoints /\ row.revision \in Nat
      BY RevisionsType DEF Newest, Inv, TypeInv, TypeOK, TablesTyped, CheckpointRow
    <2>4. row.revision <= r.rev
      BY <1>1, <1>3, <2>3 DEF FutureRow
    <2>5. row.records = states[row.revision]
      BY <2>3 DEF Inv, TablesOK, CheckpointsFaithful
    <2> QED
      BY <1>1, <2>1, <2>2, <2>4, <2>5
         DEF HandleOK, CommitOK, ReadingOK, AnswerOK
  <1> QED
    BY <1>2, <1>3 DEF LoadCheckpoint

LEMMA LoadOpsOwn ==
  ASSUME Inv, NEW h \in Handles, LoadOps(h) PROVE HandleOK(h)'
  <1> DEFINE r == reading[h]
             locals == [r EXCEPT !.ops = {row \in ops : row.revision > r.at}]
  <1>1. /\ r \in Reading /\ r.rev \in Nat /\ r.rev <= head.revision
        /\ r.at <= r.rev /\ r.records = states[r.at] /\ UNCHANGED durable
    BY RevisionsType DEF LoadOps, Inv, HandleOK, ReadingOK, TypeInv,
                         TypeOK, HandlesTyped, Reading
  <1>2. CASE LoadFails(h)
    BY <1>2, FailsOwn
  <1>3. CASE ~FutureRow(ops, r.rev) /\ Read(h, locals, "load_actions")
    <2>1. /\ locals.rev = r.rev /\ locals.at = r.at
          /\ locals.records = r.records /\ locals.ops \subseteq ops
      BY <1>1 DEF Reading
    <2>2. /\ pc'[h] = "load_actions" /\ reading'[h] = locals
          /\ answer'[h].tag = "none" /\ head' = head /\ states' = states
          /\ ops' = ops
      BY <1>1, <1>3, ReadOwn
    <2> HIDE DEF locals
    <2>3. \A op \in ops : op.revision \in Nat
      BY RevisionsType DEF Inv, TypeInv, TypeOK, TablesTyped, OpRow
    <2>4. \A op \in locals.ops : op \in ops /\ op.revision <= r.rev
      BY <1>1, <1>3, <2>1, <2>3 DEF FutureRow
    <2> QED
      BY <1>1, <2>1, <2>2, <2>4
         DEF HandleOK, CommitOK, ReadingOK, AnswerOK
  <1> QED
    BY <1>2, <1>3 DEF LoadOps

LEMMA LoadActionsOwn ==
  ASSUME Inv, NEW h \in Handles, LoadActions(h) PROVE HandleOK(h)'
  <1> DEFINE r == reading[h]
             locals == [r EXCEPT !.actions = actions]
  <1>1. /\ r \in Reading /\ UNCHANGED durable
        /\ r.rev <= head.revision /\ r.at <= r.rev /\ r.records = states[r.at]
        /\ \A op \in r.ops : op \in ops /\ op.revision <= r.rev
    BY DEF LoadActions, Inv, HandleOK, ReadingOK, TypeInv, TypeOK, HandlesTyped
  <1>2. CASE LoadFails(h)
    BY <1>2, FailsOwn
  <1>3. CASE Read(h, locals, "rebuild")
    <2>1. /\ locals.rev = r.rev /\ locals.at = r.at
          /\ locals.records = r.records /\ locals.ops = r.ops
      BY <1>1 DEF Reading
    <2>2. /\ pc'[h] = "rebuild" /\ reading'[h] = locals
          /\ answer'[h].tag = "none" /\ head' = head /\ states' = states
          /\ ops' = ops
      BY <1>1, <1>3, ReadOwn
    <2> HIDE DEF locals, r
    <2> QED
      BY <1>1, <2>1, <2>2 DEF HandleOK, CommitOK, ReadingOK, AnswerOK
  <1> QED
    BY <1>2, <1>3 DEF LoadActions

(* The rebuild reaches the records of the next revision because the        *)
(* operations it read are the ones that lead there.                        *)
LEMMA RebuildOwn ==
  ASSUME Inv, NEW h \in Handles, Rebuild(h) PROVE HandleOK(h)'
  <1> DEFINE r == reading[h]
  <1>1. /\ r \in Reading /\ UNCHANGED durable
        /\ r.rev \in Nat /\ r.at \in Nat
        /\ r.rev <= head.revision /\ r.at <= r.rev /\ r.records = states[r.at]
        /\ \A op \in r.ops : op \in ops /\ op.revision <= r.rev
    BY RevisionsType
       DEF Rebuild, Inv, HandleOK, ReadingOK, TypeInv, TypeOK, HandlesTyped,
           Reading
  <1>2. CASE LoadFails(h)
    BY <1>2, FailsOwn
  <1>3. ASSUME NEW op \in r.ops, op.revision = r.at + 1,
               Read(h, [r EXCEPT !.at = r.at + 1,
                                 !.records = Apply(r.records, op)], "rebuild")
        PROVE  HandleOK(h)'
    <2> DEFINE locals == [r EXCEPT !.at = r.at + 1,
                                   !.records = Apply(r.records, op)]
    <2>1. /\ locals.rev = r.rev /\ locals.at = r.at + 1
          /\ locals.records = Apply(r.records, op) /\ locals.ops = r.ops
      BY <1>1 DEF Reading
    <2>2. /\ pc'[h] = "rebuild" /\ reading'[h] = locals
          /\ answer'[h].tag = "none" /\ head' = head /\ states' = states
          /\ ops' = ops
      BY <1>1, <1>3, ReadOwn
    <2> HIDE DEF locals
    <2>3. r.at + 1 <= r.rev /\ op.revision - 1 = r.at
      BY <1>1, <1>3
    <2>4. Apply(r.records, op) = states[r.at + 1]
      BY <1>1, <1>3, <2>3 DEF Inv, TablesOK, StatesExact
    <2> HIDE DEF r
    <2> QED
      BY <1>1, <2>1, <2>2, <2>3, <2>4
         DEF HandleOK, CommitOK, ReadingOK, AnswerOK
  <1>4. CASE r.at = r.rev /\ Read(h, [r EXCEPT !.ops = {}], "load_events")
    <2> DEFINE locals == [r EXCEPT !.ops = {}]
    <2>1. locals.rev = r.rev /\ locals.records = r.records
      BY <1>1 DEF Reading
    <2>2. /\ pc'[h] = "load_events" /\ reading'[h] = locals
          /\ answer'[h].tag = "none" /\ head' = head /\ states' = states
      BY <1>1, <1>4, ReadOwn
    <2> HIDE DEF locals, r
    <2> QED
      BY <1>1, <1>4, <2>1, <2>2
         DEF HandleOK, CommitOK, ReadingOK, AnswerOK, Snapshot
  <1> QED
    BY <1>2, <1>3, <1>4 DEF Rebuild

LEMMA LoadEventsOwn ==
  ASSUME Inv, NEW h \in Handles, LoadEvents(h) PROVE HandleOK(h)'
  <1> DEFINE r == reading[h]
             locals == [r EXCEPT !.events = events, !.actions = {}]
  <1>1. /\ r \in Reading /\ UNCHANGED durable /\ r.rev \in Nat
        /\ r.rev <= head.revision /\ r.records = states[r.rev]
    BY RevisionsType
       DEF LoadEvents, Inv, HandleOK, ReadingOK, Snapshot, TypeInv, TypeOK,
           HandlesTyped, Reading
  <1>2. CASE LoadFails(h)
    BY <1>2, FailsOwn
  <1>3. CASE ~FutureRow(events, r.rev) /\ Read(h, locals, "load_transcripts")
    <2>1. /\ locals.rev = r.rev /\ locals.records = r.records
          /\ locals.events = events
      BY <1>1 DEF Reading
    <2>2. /\ pc'[h] = "load_transcripts" /\ reading'[h] = locals
          /\ answer'[h].tag = "none" /\ head' = head /\ states' = states
          /\ events' = events
      BY <1>1, <1>3, ReadOwn
    <2> HIDE DEF locals
    <2>3. \A e \in events : e.revision \in Nat
      BY RevisionsType DEF Inv, TypeInv, TypeOK, TablesTyped, EventRow
    <2>4. \A e \in events : e.revision <= r.rev
      BY <1>1, <1>3, <2>3 DEF FutureRow
    <2> HIDE DEF r
    <2> QED
      BY <1>1, <2>1, <2>2, <2>4
         DEF HandleOK, CommitOK, ReadingOK, AnswerOK, Snapshot, EventsRead
  <1> QED
    BY <1>2, <1>3 DEF LoadEvents

LEMMA LoadTranscriptsOwn ==
  ASSUME Inv, NEW h \in Handles, LoadTranscripts(h) PROVE HandleOK(h)'
  <1> DEFINE r == reading[h]
             ok == /\ ~FutureRow(transcripts, r.rev)
                   /\ LatestTranscripts(transcripts) = TranscriptRecords(r.records)
  <1>1. /\ UNCHANGED durable /\ Snapshot(h) /\ EventsRead(h)
    BY DEF LoadTranscripts, Inv, HandleOK, ReadingOK
  <1>2. CASE LoadFails(h)
    BY <1>2, FailsOwn
  <1>3. CASE Return(h, "loaded", r.rev) /\ UNCHANGED reading
    <2>1. /\ pc'[h] = "idle" /\ answer'[h].tag = "loaded"
          /\ reading'[h] = reading[h]
          /\ head' = head /\ states' = states /\ events' = events
      BY <1>1, <1>3
         DEF Return, durable, Inv, TypeInv, TypeOK, HandlesTyped
    <2> QED
      BY <1>1, <2>1
         DEF HandleOK, CommitOK, ReadingOK, AnswerOK, Snapshot, EventsRead
  <1>4. CASE ok /\ Projected(h) /\ Read(h, r, "checkpoint")
    <2>1. /\ pc'[h] = "checkpoint" /\ answer'[h].tag = "none"
          /\ reading'[h] = reading[h] /\ head' = head /\ states' = states
      BY <1>1, <1>4, ReadOwn
    <2>2. revision'[h] = reading[h].rev
      BY <1>4 DEF LoadTranscripts, Inv, TypeInv, TypeOK, HandlesTyped
    <2> QED
      BY <1>1, <1>4, <2>1, <2>2
         DEF HandleOK, CommitOK, ReadingOK, AnswerOK, Snapshot, Projected
  <1> QED
    BY <1>2, <1>3, <1>4 DEF LoadTranscripts

LEMMA OwnKeeps ==
  ASSUME Inv, NEW h \in Handles, Step(h) PROVE HandleOK(h)'
  BY SessionOwn, CommitOwn, AdoptOwn, CheckpointOwn, LoadHeadOwn,
     LoadCheckpointOwn, LoadOpsOwn, LoadActionsOwn, RebuildOwn, LoadEventsOwn,
     LoadTranscriptsOwn DEF Step, LoadStep

(* Only the answer of a commit says that it won.                           *)
LEMMA OnlyCommitWins ==
  ASSUME Inv, NEW h \in Handles, Step(h), ~Committed(h)
  PROVE  answer'[h].tag # "committed"
  <1> USE DEF Inv, TypeInv, TypeOK, HandlesTyped
  <1>1. ASSUME NEW tag, NEW r, Return(h, tag, r), tag # "committed"
        PROVE  answer'[h].tag # "committed"
    BY <1>1 DEF Return
  <1>2. ASSUME NEW label, Goto(h, label) PROVE answer'[h].tag # "committed"
    BY <1>2 DEF Goto, NoAnswer
  <1>3. ASSUME NEW locals, NEW label, Read(h, locals, label) \/ LoadFails(h)
        PROVE  answer'[h].tag # "committed"
    BY <1>1, <1>2, <1>3 DEF Read, LoadFails
  <1>4. ASSUME NEW c, Duplicate(h, c) PROVE answer'[h].tag # "committed"
    BY <1>1, <1>4 DEF Duplicate
  <1> HIDE DEF Inv, TypeInv, TypeOK, HandlesTyped
  <1>5. CASE SessionStep(h)
    BY <1>1, <1>2, <1>5 DEF SessionStep, Open, Drop, BackendError
  <1>6. CASE CommitStep(h)
    BY <1>1, <1>2, <1>4, <1>6
       DEF CommitStep, CommitRefused, CommitDuplicate, CommitStale, CommitBegin,
           ResolveCall, CommittedUnknown, SerializationFailure, ReloadHead,
           ResolveHead
  <1>7. CASE AdoptStep(h)
    BY <1>1, <1>2, <1>7
       DEF AdoptStep, AdoptRefused, AdoptUnchanged, AdoptBegin, Adopted,
           AdoptedUnknown, AdoptLost
  <1>8. CASE LoadStep(h)
    <2>1. ASSUME NEW for, NEW given, LoadHead(h, for, given)
          PROVE  answer'[h].tag # "committed"
      BY <1>3, <2>1 DEF LoadHead
    <2>2. CASE LoadCheckpoint(h) \/ LoadOps(h) \/ LoadActions(h)
      BY <1>3, <2>2 DEF LoadCheckpoint, LoadOps, LoadActions
    <2>3. CASE Rebuild(h)
      BY <1>3, <2>3 DEF Rebuild
    <2>4. CASE LoadEvents(h) \/ LoadTranscripts(h)
      BY <1>1, <1>3, <2>4 DEF LoadEvents, LoadTranscripts
    <2> QED
      BY <1>8, <2>1, <2>2, <2>3, <2>4 DEF LoadStep
  <1>9. CASE CheckpointStep(h)
    BY <1>1, <1>2, <1>3, <1>9
       DEF CheckpointStep, CheckpointBegin, CheckpointCommit
  <1> QED
    BY <1>5, <1>6, <1>7, <1>8, <1>9 DEF Step

(* An earlier winner committed below the head, a new one commits at it.    *)
LEMMA OneWinnerStep ==
  ASSUME Inv, NEW h \in Handles, Step(h) PROVE OneWinner'
  <1>1. Frame(h)
    BY StepFrame DEF Inv
  <1>2. CASE answer'[h].tag # "committed"
    BY <1>1, <1>2 DEF OneWinner, Frame, Inv
  <1>3. CASE Committed(h)
    <2>1. request'[h] = request[h] /\ request[h].expected = head.revision
      BY <1>3 DEF Committed, Inv, HandleOK, CommitOK
    <2>2. ASSUME NEW g \in Handles \ {h}, answer[g].tag = "committed"
          PROVE  request[g].expected # head.revision
      <3>1. PICK row \in actions : row.command = request[g]
        BY <2>2 DEF Inv, HandleOK, AnswerOK
      <3>2. /\ row.revision \in 1..head.revision
            /\ row.command.expected + 1 = row.revision
        BY DEF Inv, TablesOK, LogExact
      <3>3. row.command.expected \in Nat
        BY RevisionsType
           DEF Inv, TypeInv, TypeOK, TablesTyped, ActionRow, Command
      <3> QED
        BY <3>1, <3>2, <3>3, HeadType DEF Inv
    <2> QED
      BY <1>1, <2>1, <2>2 DEF OneWinner, Frame, Inv
  <1> QED
    BY <1>2, <1>3, OnlyCommitWins

-----------------------------------------------------------------------------
(* The inductive invariant.                                                *)
LEMMA InvInit == Init => Inv
  <1> SUFFICES ASSUME Init PROVE Inv
    OBVIOUS
  <1>1. head.revision = 0 /\ ops = {} /\ actions = {} /\ TypeInv
    BY TypeInit DEF Init
  <1>2. CheckpointsFaithful
    BY RevisionsType DEF Init, CheckpointsFaithful
  <1>3. TablesOK
    BY <1>1, <1>2 DEF TablesOK, LogExact, StatesExact
  <1>4. ASSUME NEW h \in Handles PROVE HandleOK(h)
    BY DEF Init, NoAnswer, HandleOK, CommitOK, ReadingOK, AnswerOK
  <1>5. OneWinner
    BY DEF Init, NoAnswer, OneWinner
  <1> QED
    BY <1>1, <1>3, <1>4, <1>5 DEF Inv

LEMMA InvStep == Inv /\ [Next]_vars => Inv'
  <1> SUFFICES ASSUME Inv, [Next]_vars PROVE Inv'
    OBVIOUS
  <1>0. TypeInv'
    BY TypeStep DEF Inv
  <1>1. CASE UNCHANGED vars
    <2>1. TablesOK' /\ OneWinner'
      BY <1>1 DEF vars, Inv, TablesOK, LogExact, StatesExact,
                  CheckpointsFaithful, OneWinner
    <2>2. ASSUME NEW h \in Handles PROVE HandleOK(h)'
      <3>1. HandleOK(h)
        BY DEF Inv
      <3> QED
        BY <1>1, <3>1 DEF vars, HandleOK, CommitOK, Recorded, ReadingOK,
                          Snapshot, EventsRead, AnswerOK
    <2> QED
      BY <1>0, <2>1, <2>2 DEF Inv
  <1>2. ASSUME NEW h \in Handles, Step(h) PROVE Inv'
    <2>1. \A o \in Handles : HandleOK(o)'
      BY <1>0, <1>2, OwnKeeps, OthersKeep
    <2> QED
      BY <1>0, <1>2, <2>1, TablesStep, OneWinnerStep DEF Inv
  <1> QED
    BY <1>1, <1>2 DEF Next

LEMMA Invariant == Spec => []Inv
  BY InvInit, InvStep, PTL DEF Spec

-----------------------------------------------------------------------------
(* Whatever handles race, fail or restart, the history that commit leaves  *)
(* has one action and one set of operations per revision and no ActionId   *)
(* twice.                                                                  *)
THEOREM HistoryExact == Spec => []LogExact
  <1>1. Inv => LogExact
    BY DEF Inv, TablesOK
  <1> QED
    BY <1>1, Invariant, PTL

(* Every checkpoint that checkpoint ever writes holds the records of its   *)
(* own revision, even when the head moved between its load and its commit. *)
THEOREM CheckpointsExact == Spec => []CheckpointsFaithful
  <1>1. Inv => CheckpointsFaithful
    BY DEF Inv, TablesOK
  <1> QED
    BY <1>1, Invariant, PTL

(* Every load that succeeds returns one committed revision, although its   *)
(* six queries are not in one transaction.                                 *)
THEOREM LoadsSnapshots == Spec => []LoadIsSnapshot
  <1>1. Inv => LoadIsSnapshot
    BY DEF Inv, HandleOK, AnswerOK, Snapshot, EventsRead, LoadIsSnapshot
  <1> QED
    BY <1>1, Invariant, PTL

(* A success answer of commit or resolve_action names a command that is    *)
(* durable at the revision it names.                                       *)
THEOREM AnswersDurable == Spec => []AnswerDurable
  <1>1. Inv => AnswerDurable
    BY DEF Inv, HandleOK, AnswerOK, AnswerDurable
  <1> QED
    BY <1>1, Invariant, PTL

(* Of all handles that race to commit on one revision, at most one is told *)
(* that it committed.                                                      *)
THEOREM RaceHasOneWinner == Spec => []OneWinner
  <1>1. Inv => OneWinner
    BY DEF Inv
  <1> QED
    BY <1>1, Invariant, PTL

(* A step of the store only adds rows and moves the head by at most one.   *)
Appends ==
  /\ ops \subseteq ops' /\ actions \subseteq actions'
  /\ events \subseteq events' /\ transcripts \subseteq transcripts'
  /\ checkpoints \subseteq checkpoints'
  /\ head'.revision \in {head.revision, head.revision + 1}
  /\ head'.revision # head.revision =>
       head'.manifest = head.manifest /\ checkpoints' = checkpoints

LEMMA StepAppends == Inv /\ [Next]_vars => [Appends]_vars
  <1> SUFFICES ASSUME Inv, NEW h \in Handles, Step(h) PROVE Appends
    BY DEF Next
  <1>1. CASE Reads(h)
    BY <1>1 DEF Reads, durable, Appends
  <1>2. CASE pc[h] = "commit" /\ ~lost[h] /\ Install(h)
    <2>1. request[h].expected = head.revision
      BY <1>2 DEF Inv, HandleOK, CommitOK
    <2>2. /\ head'.revision = head.revision + 1
          /\ head'.manifest = head.manifest
      BY <1>2, <2>1 DEF Install, Inv, TypeInv, TypeOK, TablesTyped
    <2> QED
      BY <1>2, <2>2 DEF Install, Appends
  <1>3. ASSUME NEW m \in Manifests, AdoptWrite(h, m) PROVE Appends
    <2>1. head'.revision = head.revision
      BY <1>3 DEF AdoptWrite, Inv, TypeInv, TypeOK, TablesTyped
    <2> QED
      BY <1>3, <2>1 DEF AdoptWrite, Appends
  <1>4. CASE CheckpointCommit(h)
    BY <1>4 DEF CheckpointCommit, Appends
  <1> QED
    BY <1>1, <1>2, <1>3, <1>4, StepWrites DEF Writes, Inv

(* No operation of the store ever removes a row, skips a revision, or      *)
(* moves the head together with the locks or a checkpoint.                 *)
THEOREM OnlyAppends == Spec => AppendOnly
  <1>1. [Appends]_vars => [/\ ops \subseteq ops' /\ actions \subseteq actions'
                           /\ events \subseteq events'
                           /\ transcripts \subseteq transcripts'
                           /\ checkpoints \subseteq checkpoints'
                           /\ head'.revision \in {head.revision, head.revision + 1}
                           /\ head'.revision # head.revision =>
                                /\ head'.manifest = head.manifest
                                /\ checkpoints' = checkpoints]_vars
    BY DEF Appends
  <1> QED
    BY <1>1, Invariant, StepAppends, PTL DEF Spec, AppendOnly

-----------------------------------------------------------------------------
(* What is durable can be loaded again.  A commit in progress still fits   *)
(* the records it was executed on, so the operations it adds apply; the    *)
(* transcript rows always project to the transcripts of the head.          *)
CommitsExecutable == \A h \in Handles : pc[h] = "commit" => Executable(request[h])

OpsApplicable == \A op \in ops : Applicable(states[op.revision - 1], op)

TranscriptsExact ==
  /\ \A row \in transcripts : row.revision <= head.revision
  /\ LatestTranscripts(transcripts) = TranscriptRecords(states[head.revision])

RecoverInv == /\ CommitsExecutable /\ OpsApplicable /\ TranscriptsExact
              /\ Owned(events, actions)
              /\ Newest(checkpoints) # {}

LEMMA RecoverInit == Init => RecoverInv
  <1> SUFFICES ASSUME Init PROVE RecoverInv
    OBVIOUS
  <1>1. CommitsExecutable /\ OpsApplicable /\ Owned(events, actions)
    BY DEF Init, CommitsExecutable, OpsApplicable, Owned
  <1>2. Newest(checkpoints) # {}
    <2>1. [revision |-> 0, records |-> InitialRecords] \in Newest(checkpoints)
      BY DEF Init, Newest
    <2> QED
      BY <2>1
  <1>3. \A row \in transcripts : row.revision = 0
    BY DEF Init, InitialTranscripts
  <1>4. LatestTranscripts(transcripts)
          = {[key |-> row.key, value |-> row.value] : row \in transcripts}
    BY <1>3 DEF LatestTranscripts
  <1>5. {[key |-> row.key, value |-> row.value] : row \in transcripts}
          = {[key |-> k, value |-> Genesis] : k \in InitialKeys \cap TranscriptKeys}
    <2> DEFINE named == InitialKeys \cap TranscriptKeys
    <2>1. transcripts
            = {[revision |-> 0, key |-> k, value |-> Genesis] : k \in named}
      BY DEF Init, InitialTranscripts
    <2> HIDE DEF named
    <2>2. ASSUME NEW row \in transcripts
          PROVE  [key |-> row.key, value |-> row.value]
                   \in {[key |-> k, value |-> Genesis] : k \in named}
      <3>1. PICK k \in named :
              row = [revision |-> 0, key |-> k, value |-> Genesis]
        BY <2>1
      <3>2. row.key = k /\ row.value = Genesis
        BY <3>1
      <3> QED
        BY <3>2
    <2>3. ASSUME NEW k \in named
          PROVE  [key |-> k, value |-> Genesis]
                   \in {[key |-> row.key, value |-> row.value] :
                            row \in transcripts}
      <3>1. PICK row \in transcripts :
              row = [revision |-> 0, key |-> k, value |-> Genesis]
        BY <2>1
      <3>2. row.key = k /\ row.value = Genesis
        BY <3>1
      <3> QED
        BY <3>2
    <2>4. {[key |-> row.key, value |-> row.value] : row \in transcripts}
            = {[key |-> k, value |-> Genesis] : k \in named}
      BY <2>2, <2>3
    <2> QED
      BY <2>4 DEF named
  <1>6. head.revision = 0 /\ states[head.revision] = InitialRecords
    BY RevisionsType DEF Init
  <1>7. TranscriptRecords(InitialRecords)
          = {[key |-> k, value |-> Genesis] : k \in InitialKeys \cap TranscriptKeys}
    <2>1. \A k \in TranscriptKeys :
            /\ InitialRecords[k] # NoRecord <=> k \in InitialKeys
            /\ k \in InitialKeys => InitialRecords[k] = Genesis
      BY StoreAssumption DEF StoreAssumption, InitialRecords, NoRecord, Genesis
    <2> QED
      BY <2>1 DEF TranscriptRecords
  <1> QED
    BY <1>1, <1>2, <1>3, <1>4, <1>5, <1>6, <1>7 DEF RecoverInv, TranscriptsExact

(* Only CommitBegin enters a commit, with an executable request.           *)
LEMMA EntersExecutable ==
  ASSUME Inv, NEW h \in Handles, Step(h), pc'[h] = "commit"
  PROVE  Executable(request'[h])
  <1> USE DEF Inv, TypeInv, TypeOK, HandlesTyped
  <1>1. ASSUME NEW tag, NEW r, Return(h, tag, r) PROVE FALSE
    BY <1>1 DEF Return
  <1>2. ASSUME NEW label, Goto(h, label), label # "commit" PROVE FALSE
    BY <1>2 DEF Goto
  <1>3. ASSUME NEW locals, NEW label, Read(h, locals, label), label # "commit"
        PROVE  FALSE
    BY <1>2, <1>3 DEF Read
  <1>4. ASSUME LoadFails(h) PROVE FALSE
    BY <1>1, <1>4 DEF LoadFails
  <1>5. ASSUME NEW c, Duplicate(h, c) PROVE FALSE
    BY <1>1, <1>5 DEF Duplicate
  <1>6. ASSUME NEW c \in Command, CommitBegin(h, c) PROVE Executable(request'[h])
    BY <1>6 DEF CommitBegin, CommitCall, Keep
  <1> HIDE DEF Inv, TypeInv, TypeOK, HandlesTyped
  <1>7. CASE SessionStep(h)
    BY <1>1, <1>2, <1>7 DEF SessionStep, Open, Drop, BackendError
  <1>8. CASE CommitStep(h)
    BY <1>1, <1>2, <1>5, <1>6, <1>8
       DEF CommitStep, CommitRefused, CommitDuplicate, CommitStale,
           ResolveCall, Committed, CommittedUnknown, SerializationFailure,
           ReloadHead, ResolveHead
  <1>9. CASE AdoptStep(h)
    BY <1>1, <1>2, <1>9
       DEF AdoptStep, AdoptRefused, AdoptUnchanged, AdoptBegin, Adopted,
           AdoptedUnknown, AdoptLost
  <1>10. CASE LoadStep(h)
    <2>1. ASSUME NEW for, NEW given, LoadHead(h, for, given) PROVE FALSE
      BY <1>3, <1>4, <2>1 DEF LoadHead
    <2>2. CASE LoadCheckpoint(h) \/ LoadOps(h) \/ LoadActions(h)
      BY <1>3, <1>4, <2>2 DEF LoadCheckpoint, LoadOps, LoadActions
    <2>3. CASE Rebuild(h)
      BY <1>3, <1>4, <2>3 DEF Rebuild
    <2>4. CASE LoadEvents(h) \/ LoadTranscripts(h)
      BY <1>1, <1>3, <1>4, <2>4 DEF LoadEvents, LoadTranscripts
    <2> QED
      BY <1>10, <2>1, <2>2, <2>3, <2>4 DEF LoadStep
  <1>11. CASE CheckpointStep(h)
    BY <1>1, <1>2, <1>4, <1>11
       DEF CheckpointStep, CheckpointBegin, CheckpointCommit
  <1> QED
    BY <1>7, <1>8, <1>9, <1>10, <1>11 DEF Step

LEMMA ExecutableStep ==
  ASSUME Inv, CommitsExecutable, NEW h \in Handles, Step(h)
  PROVE  CommitsExecutable'
  <1>1. Frame(h) /\ Grows
    BY StepFrame, TablesStep DEF Inv
  <1>2. TypeInv'
    BY TypeStep DEF Inv, Next
  <1>3. /\ head.revision \in Nat /\ head'.revision \in Nat
        /\ head.revision <= head'.revision
        /\ \A r \in 0..head.revision : states'[r] = states[r]
    BY <1>1, <1>2, HeadType, RevisionsType
       DEF Grows, Inv, TypeInv, TypeOK, TablesTyped
  <1>4. ASSUME NEW o \in Handles, pc'[o] = "commit" PROVE Executable(request[o])'
    <2>1. request'[o] \in Command
      BY <1>2, <1>4 DEF TypeInv, CommitValid
    <2>2. Executable(request'[o])
      BY <1>1, <1>4, EntersExecutable DEF Frame, CommitsExecutable
    <2>3. request'[o].expected \in 0..head.revision
      <3>1. PICK c : c = request'[o]
        OBVIOUS
      <3>2. c.expected \in Nat
        BY <2>1, <3>1, RevisionsType DEF Command
      <3>3. c.expected <= head.revision
        BY <2>2, <3>1 DEF Executable
      <3>4. c.expected \in 0..head.revision
        BY <1>3, <3>2, <3>3
      <3> QED
        BY <3>1, <3>4
    <2> QED
      BY <1>3, <2>2, <2>3 DEF Executable
  <1> QED
    BY <1>4 DEF CommitsExecutable

(* The rows of a commit are the newest of their keys, and the other keys   *)
(* keep theirs.                                                            *)
LEMMA TranscriptsInstall ==
  ASSUME Inv, TranscriptsExact, NEW h \in Handles,
         pc[h] = "commit", ~lost[h], Install(h)
  PROVE  TranscriptsExact'
  <1> DEFINE c == request[h]
             r == c.expected + 1
             was == states[head.revision]
             now == states'[r]
             written == c.change.upserts \cap TranscriptKeys
  <1>1. /\ head.revision \in Nat /\ c \in Command /\ c.expected = head.revision
        /\ r \in Revisions /\ r = head.revision + 1 /\ c.action \in ActionIds
        /\ c.change.deletes \cap TranscriptKeys = {}
    BY HeadType, InstallType, StoreAssumption
       DEF Inv, TypeInv, CommitValid, HandleOK, CommitOK, Command,
           StoreAssumption
  <1>2. /\ head'.revision = r
        /\ transcripts' = transcripts \cup TranscriptRows(c, r)
        /\ now = Apply(was, c)
    BY <1>1 DEF Install, Inv, TypeInv, TypeOK, TablesTyped
  <1>3. \A row \in transcripts : /\ row.revision \in Nat
                                 /\ row.revision < r
                                 /\ row.key \in TranscriptKeys
    <2> SUFFICES ASSUME NEW row \in transcripts
                 PROVE  /\ row.revision \in Nat
                        /\ row.revision < r
                        /\ row.key \in TranscriptKeys
      OBVIOUS
    <2>1. row \in TranscriptRow
      BY DEF Inv, TypeInv, TypeOK, TablesTyped
    <2>2. row.revision \in Nat /\ row.key \in TranscriptKeys
      BY <2>1, RevisionsType DEF TranscriptRow
    <2>3. row.revision <= head.revision
      BY DEF TranscriptsExact
    <2>4. r = head.revision + 1
      BY <1>1
    <2> HIDE DEF r
    <2> QED
      BY <1>1, <2>2, <2>3, <2>4
  <1>4. \A row \in TranscriptRows(c, r) : /\ row.revision = r
                                          /\ row.key \in written
                                          /\ row.value = c.action
    BY DEF TranscriptRows
  <1>5. \A k \in written : [revision |-> r, key |-> k, value |-> c.action]
                             \in TranscriptRows(c, r)
    BY DEF TranscriptRows
  <1>6. \A k \in TranscriptKeys :
          now[k] = IF k \in written THEN c.action ELSE was[k]
    BY <1>1, <1>2, StoreAssumption DEF Apply, StoreAssumption
  <1>7. c.action # NoRecord
    BY <1>1, StoreAssumption DEF StoreAssumption
  <1>8. r \in Nat
    BY <1>1
  <1> HIDE DEF r, now, was, written
  <1>9. LatestTranscripts(transcripts')
          = {x \in LatestTranscripts(transcripts) : x.key \notin written}
              \cup {[key |-> k, value |-> c.action] : k \in written}
    <2>1. ASSUME NEW row \in transcripts', 
                 \A o \in transcripts' : o.key = row.key => o.revision <= row.revision
          PROVE  [key |-> row.key, value |-> row.value]
                   \in {x \in LatestTranscripts(transcripts) : x.key \notin written}
                         \cup {[key |-> k, value |-> c.action] : k \in written}
      <3>1. CASE row \in TranscriptRows(c, r)
        BY <1>4, <3>1
      <3>2. CASE row \in transcripts
        <4>1. row.key \notin written
          <5> SUFFICES ASSUME row.key \in written PROVE FALSE
            OBVIOUS
          <5>1. [revision |-> r, key |-> row.key, value |-> c.action]
                   \in transcripts'
            BY <1>2, <1>5
          <5>2. r <= row.revision
            BY <2>1, <5>1
          <5> QED
            BY <1>3, <1>8, <3>2, <5>2
        <4>2. [key |-> row.key, value |-> row.value]
                \in LatestTranscripts(transcripts)
          BY <1>2, <2>1, <3>2 DEF LatestTranscripts
        <4> QED
          BY <4>1, <4>2
      <3> QED
        BY <1>2, <3>1, <3>2
    <2>2. ASSUME NEW row \in transcripts, row.key \notin written,
                 \A o \in transcripts : o.key = row.key => o.revision <= row.revision
          PROVE  [key |-> row.key, value |-> row.value]
                   \in LatestTranscripts(transcripts')
      <3>1. \A o \in transcripts' : o.key = row.key => o.revision <= row.revision
        BY <1>2, <1>4, <2>2
      <3> QED
        BY <1>2, <3>1 DEF LatestTranscripts
    <2>3. ASSUME NEW k \in written
          PROVE  [key |-> k, value |-> c.action] \in LatestTranscripts(transcripts')
      <3> DEFINE row == [revision |-> r, key |-> k, value |-> c.action]
      <3>1. row \in transcripts'
        BY <1>2, <1>5
      <3>2. \A o \in transcripts' : o.revision <= r
        BY <1>2, <1>3, <1>4, <1>8
      <3>3. row.revision = r /\ row.key = k /\ row.value = c.action
        OBVIOUS
      <3> HIDE DEF row
      <3> QED
        BY <3>1, <3>2, <3>3 DEF LatestTranscripts
    <2> DEFINE before == LatestTranscripts(transcripts)
               after == LatestTranscripts(transcripts')
               kept == {x \in before : x.key \notin written}
               new == {[key |-> k, value |-> c.action] : k \in written}
    <2>4. ASSUME NEW x \in after PROVE x \in kept \cup new
      <3>1. PICK row \in transcripts' :
              /\ \A o \in transcripts' : o.key = row.key
                                            => o.revision <= row.revision
              /\ x = [key |-> row.key, value |-> row.value]
        BY DEF LatestTranscripts
      <3> QED
        BY <2>1, <3>1
    <2>5. ASSUME NEW x \in kept PROVE x \in after
      <3>1. PICK row \in transcripts :
              /\ \A o \in transcripts : o.key = row.key
                                           => o.revision <= row.revision
              /\ x = [key |-> row.key, value |-> row.value]
        BY DEF LatestTranscripts
      <3>2. row.key \notin written
        BY <3>1
      <3> QED
        BY <2>2, <3>1, <3>2
    <2>6. ASSUME NEW x \in new PROVE x \in after
      BY <2>3
    <2> HIDE DEF before, after, kept, new
    <2>7. after = kept \cup new
      BY <2>4, <2>5, <2>6
    <2> QED
      BY <2>7 DEF before, after, kept, new
  <1>10. TranscriptRecords(now)
           = {x \in TranscriptRecords(was) : x.key \notin written}
               \cup {[key |-> k, value |-> c.action] : k \in written}
    <2>1. written \subseteq TranscriptKeys
      BY DEF written
    <2> QED
      BY <1>6, <1>7, <2>1 DEF TranscriptRecords
  <1>11. LatestTranscripts(transcripts) = TranscriptRecords(was)
    BY DEF TranscriptsExact, was
  <1>12. \A row \in transcripts' : row.revision <= r
    BY <1>2, <1>3, <1>4, <1>8
  <1> QED
    BY <1>2, <1>9, <1>10, <1>11, <1>12 DEF TranscriptsExact, now

LEMMA RecoverStep ==
  ASSUME Inv, RecoverInv, NEW h \in Handles, Step(h)
  PROVE  RecoverInv'
  <1>1. CommitsExecutable'
    BY ExecutableStep DEF RecoverInv
  <1>2. CASE Reads(h)
    BY <1>1, <1>2
       DEF Reads, durable, RecoverInv, OpsApplicable, TranscriptsExact, Owned,
           Newest
  <1>3. CASE pc[h] = "commit" /\ ~lost[h] /\ Install(h)
    <2> DEFINE c == request[h]
               r == c.expected + 1
               op == [revision |-> r, action |-> c.action, change |-> c.change]
    <2>1. /\ head.revision \in Nat /\ c \in Command /\ c.expected = head.revision
          /\ Executable(c)
      BY <1>3, HeadType
         DEF Inv, TypeInv, CommitValid, HandleOK, CommitOK, RecoverInv,
             CommitsExecutable
    <2>2. /\ ops' = ops \cup {op} /\ events' = events \cup EventRows(c, r)
          /\ actions' = actions \cup
               {[action |-> c.action, revision |-> r, command |-> c]}
          /\ checkpoints' = checkpoints
      BY <1>3 DEF Install
    <2>3. \A k \in 0..head.revision : states'[k] = states[k]
      BY <1>3, InstallTables DEF Grows
    <2>4. OpsApplicable'
      <3>1. ASSUME NEW o \in ops PROVE Applicable(states'[o.revision - 1], o)
        <4>1. o.revision - 1 \in 0..head.revision
          <5>1. o.revision \in 1..head.revision
            BY DEF Inv, TablesOK, LogExact
          <5> QED
            BY <2>1, <5>1
        <4> QED
          BY <2>3, <4>1 DEF RecoverInv, OpsApplicable
      <3>2. Applicable(states'[op.revision - 1], op)
        <4>1. op.revision - 1 = head.revision /\ op.change = c.change
          BY <2>1
        <4>2. states'[head.revision] = states[head.revision]
          BY <2>1, <2>3
        <4> QED
          BY <2>1, <4>1, <4>2 DEF Executable, Applicable
      <3> QED
        BY <2>2, <3>1, <3>2 DEF OpsApplicable
    <2>5. Owned(events, actions)'
      <3> SUFFICES ASSUME NEW row \in events'
                   PROVE  \E a \in actions' : /\ a.action = row.action
                                               /\ a.revision = row.revision
        BY DEF Owned
      <3>1. CASE row \in events
        <4>1. PICK a \in actions : /\ a.action = row.action
                                   /\ a.revision = row.revision
          BY <3>1 DEF RecoverInv, Owned
        <4> QED
          BY <2>2, <4>1
      <3>2. CASE row \in EventRows(c, r)
        <4> DEFINE a == [action |-> c.action, revision |-> r, command |-> c]
        <4>1. row.action = c.action /\ row.revision = r
          BY <3>2 DEF EventRows
        <4>2. a.action = c.action /\ a.revision = r /\ a \in actions'
          BY <2>2
        <4> HIDE DEF a
        <4> QED
          BY <4>1, <4>2
      <3> QED
        BY <2>2, <3>1, <3>2
    <2>6. Newest(checkpoints)' # {}
      BY <2>2 DEF RecoverInv, Newest
    <2>7. TranscriptsExact'
      BY <1>3, TranscriptsInstall DEF RecoverInv
    <2> QED
      BY <1>1, <2>4, <2>5, <2>6, <2>7 DEF RecoverInv
  <1>4. ASSUME NEW m \in Manifests, AdoptWrite(h, m) PROVE RecoverInv'
    <2>1. head'.revision = head.revision
      BY <1>4 DEF AdoptWrite, Inv, TypeInv, TypeOK, TablesTyped
    <2> QED
      BY <1>1, <1>4, <2>1
         DEF AdoptWrite, RecoverInv, OpsApplicable, TranscriptsExact, Owned,
             Newest
  <1>5. CASE CheckpointCommit(h)
    <2> DEFINE new == [revision |-> revision[h], records |-> reading[h].given]
    <2>1. checkpoints' = checkpoints \cup {new}
      BY <1>5 DEF CheckpointCommit
    <2>2. PICK top \in checkpoints :
            \A other \in checkpoints : other.revision <= top.revision
      BY DEF RecoverInv, Newest
    <2>3. /\ \A row \in checkpoints : row.revision \in Nat
          /\ new.revision \in Nat
      BY RevisionsType
         DEF Inv, TypeInv, TypeOK, TablesTyped, HandlesTyped, CheckpointRow
    <2> HIDE DEF new
    <2>4. Newest(checkpoints)' # {}
      <3>1. CASE new.revision <= top.revision
        <4>1. \A other \in checkpoints' : other.revision <= top.revision
          BY <2>1, <2>2, <3>1
        <4> QED
          BY <2>1, <4>1 DEF Newest
      <3>2. CASE top.revision <= new.revision
        <4>1. \A other \in checkpoints' : other.revision <= new.revision
          BY <2>1, <2>2, <2>3, <3>2
        <4> QED
          BY <2>1, <4>1 DEF Newest
      <3> QED
        BY <2>3, <3>1, <3>2
    <2> QED
      BY <1>1, <1>5, <2>4
         DEF CheckpointCommit, RecoverInv, OpsApplicable, TranscriptsExact,
             Owned
  <1> QED
    BY <1>2, <1>3, <1>4, <1>5, StepWrites DEF Writes, Inv

(* In every state, after any drop or error and between the writes of any   *)
(* handles, each integrity check of load holds of the tables: a restart    *)
(* reconstructs the committed world.                                       *)
THEOREM AlwaysRecoverable == Spec => []Recoverable
  <1>1. RecoverInv /\ Inv /\ [Next]_vars => RecoverInv'
    <2>1. RecoverInv /\ UNCHANGED vars => RecoverInv'
      BY DEF vars, RecoverInv, CommitsExecutable, Executable, OpsApplicable,
             TranscriptsExact, Owned, Newest
    <2> QED
      BY <2>1, RecoverStep DEF Next
  <1>2. RecoverInv /\ Inv => Recoverable
    <2> SUFFICES ASSUME RecoverInv, Inv PROVE Recoverable
      OBVIOUS
    <2>1. head.revision \in Nat
      BY HeadType DEF Inv
    <2>2. \A row \in actions : row.revision \in 1..head.revision
      BY DEF Inv, TablesOK, LogExact
    <2>3. /\ \A row \in ops \cup events :
               \E a \in actions : /\ a.action = row.action
                                  /\ a.revision = row.revision
          /\ Owned(ops, actions) /\ Owned(events, actions)
      BY DEF Inv, TablesOK, LogExact, RecoverInv, Owned
    <2>4. \A table \in {ops, actions, events, transcripts, checkpoints} :
            ~FutureRow(table, head.revision)
      <3>1. \A row \in actions \cup ops \cup events : row.revision <= head.revision
        BY <2>1, <2>2, <2>3
      <3>2. /\ \A row \in transcripts \cup checkpoints :
                 row.revision \in Nat /\ row.revision <= head.revision
            /\ \A row \in actions \cup ops \cup events : row.revision \in Nat
        BY RevisionsType
           DEF Inv, TypeInv, TypeOK, TablesTyped, TranscriptRow, CheckpointRow,
               ActionRow, OpRow, EventRow, TablesOK, CheckpointsFaithful,
               RecoverInv, TranscriptsExact
      <3>3. ASSUME NEW table \in {ops, actions, events, transcripts, checkpoints},
                   NEW row \in table
            PROVE  ~(row.revision > head.revision)
        <4>1. row.revision \in Nat /\ row.revision <= head.revision
          BY <3>1, <3>2, <3>3
        <4> QED
          BY <2>1, <4>1
      <3> QED
        BY <3>3 DEF FutureRow
    <2>5. ASSUME NEW r \in 1..head.revision
          PROVE  \E op \in ops : /\ op.revision = r
                                 /\ Applicable(states[r - 1], op)
                                 /\ states[r] = Apply(states[r - 1], op)
      <3>1. PICK row \in actions : row.revision = r
        BY DEF Inv, TablesOK, LogExact
      <3>2. PICK op \in ops : op.revision = r
        BY <3>1 DEF Inv, TablesOK, LogExact
      <3> QED
        BY <3>2 DEF RecoverInv, OpsApplicable, Inv, TablesOK, StatesExact
    <2> QED
      BY <2>3, <2>4, <2>5 DEF Recoverable, RecoverInv, TranscriptsExact
  <1> QED
    BY <1>1, <1>2, RecoverInit, Invariant, PTL DEF Spec

-----------------------------------------------------------------------------
(* The store implements the log of SaveLog.                                *)
LEMMA ChosenRow ==
  ASSUME NEW table, NEW row \in table,
         \A a, b \in table : a.revision = b.revision => a = b
  PROVE  (CHOOSE a \in table : a.revision = row.revision) = row
  OBVIOUS

LEMMA LogLength ==
  ASSUME NEW n \in Nat, NEW S, NEW f \in [1..n -> S]
  PROVE  Len(f) = n
  OBVIOUS

LEMMA LogExtends ==
  ASSUME NEW n \in Nat, NEW S, NEW f \in [1..n -> S], NEW g \in [1..(n + 1) -> S],
         \A i \in 1..n : g[i] = f[i]
  PROVE  g = Append(f, g[n + 1])
  OBVIOUS

(* The log has, at each revision, the command of that revision's action.   *)
LEMMA LogRows ==
  ASSUME Inv
  PROVE  /\ CommittedLog \in [1..head.revision -> Command]
         /\ \A row \in actions : CommittedLog[row.revision] = row.command
  <1>1. /\ \A r \in 1..head.revision : \E row \in actions : row.revision = r
        /\ \A a, b \in actions : a.revision = b.revision => a = b
        /\ \A row \in actions : row.revision \in 1..head.revision
    BY DEF Inv, TablesOK, LogExact
  <1>2. \A row \in actions : row.command \in Command
    BY DEF Inv, TypeInv, TypeOK, TablesTyped, ActionRow
  <1>3. \A row \in actions :
          (CHOOSE a \in actions : a.revision = row.revision) = row
    BY <1>1, ChosenRow
  <1>4. \A row \in actions : CommittedLog[row.revision] = row.command
    BY <1>1, <1>3 DEF CommittedLog
  <1>5. \A r \in 1..head.revision : CommittedLog[r] \in Command
    BY <1>1, <1>2, <1>4
  <1> QED
    BY <1>4, <1>5 DEF CommittedLog

LEMMA LogUnchanged ==
  ASSUME head'.revision = head.revision, UNCHANGED actions
  PROVE  CommittedLog' = CommittedLog
  BY DEF CommittedLog

LEMMA InstallAppends ==
  ASSUME Inv, Inv', NEW h \in Handles, pc[h] = "commit", ~lost[h], Install(h)
  PROVE  Log!AppendCommand(request[h])
  <1> DEFINE c == request[h]
             n == head.revision
             new == [action |-> c.action, revision |-> n + 1, command |-> c]
  <1>1. n \in Nat /\ c.expected = n /\ Recorded(c.action) = {}
    BY HeadType DEF Inv, HandleOK, CommitOK
  <1>2. /\ head'.revision = n + 1 /\ head'.manifest = head.manifest
        /\ actions' = actions \cup {new}
    BY <1>1 DEF Install, Inv, TypeInv, TypeOK, TablesTyped
  <1>3. new.revision = n + 1 /\ new.command = c
    OBVIOUS
  <1> HIDE DEF new, c, n
  <1>4. /\ CommittedLog \in [1..n -> Command]
        /\ \A row \in actions : CommittedLog[row.revision] = row.command
    BY LogRows DEF n
  <1>5. /\ CommittedLog' \in [1..(n + 1) -> Command]
        /\ \A row \in actions' : CommittedLog'[row.revision] = row.command
    <2>1. /\ \A r \in 1..head'.revision :
               \E row \in actions' : row.revision = r
          /\ \A a, b \in actions' : a.revision = b.revision => a = b
          /\ \A row \in actions' : row.revision \in 1..head'.revision
      BY DEF Inv, TablesOK, LogExact
    <2>2. \A row \in actions' : row.command \in Command
      BY DEF Inv, TypeInv, TypeOK, TablesTyped, ActionRow
    <2>3. \A row \in actions' :
            (CHOOSE a \in actions' : a.revision = row.revision) = row
      BY <2>1, ChosenRow
    <2>4. \A row \in actions' : CommittedLog'[row.revision] = row.command
      BY <2>1, <2>3 DEF CommittedLog
    <2>5. \A r \in 1..head'.revision : CommittedLog'[r] \in Command
      BY <2>1, <2>2, <2>4
    <2> QED
      BY <1>2, <2>4, <2>5 DEF CommittedLog
  <1>6. \A r \in 1..n : \E row \in actions : row.revision = r
    BY DEF Inv, TablesOK, LogExact, n
  <1>7. \A i \in 1..n : CommittedLog'[i] = CommittedLog[i]
    BY <1>2, <1>4, <1>5, <1>6
  <1>8. CommittedLog'[n + 1] = c
    BY <1>2, <1>3, <1>5
  <1>9. CommittedLog' = Append(CommittedLog, c)
    BY <1>1, <1>4, <1>5, <1>7, <1>8, LogExtends
  <1>10. Len(CommittedLog) = n
    BY <1>1, <1>4, LogLength
  <1>11. \A i \in 1..n : CommittedLog[i].action # c.action
    <2>1. ASSUME NEW row \in actions PROVE row.command.action # c.action
      <3>1. row.command.action = row.action
        BY DEF Inv, TablesOK, LogExact
      <3>2. row.action # c.action
        BY <1>1 DEF Recorded
      <3> QED
        BY <3>1, <3>2
    <2> QED
      BY <1>4, <1>6, <2>1
  <1> QED
    BY <1>1, <1>2, <1>9, <1>10, <1>11 DEF Log!AppendCommand, c

LEMMA LogStep ==
  Inv /\ Inv' /\ [Next]_vars => [Log!Next]_(Log!logVars)
  <1> SUFFICES ASSUME Inv, Inv', [Next]_vars PROVE [Log!Next]_(Log!logVars)
    OBVIOUS
  <1>1. CASE UNCHANGED vars
    BY <1>1, LogUnchanged DEF vars, Log!logVars
  <1>2. ASSUME NEW h \in Handles, Step(h) PROVE [Log!Next]_(Log!logVars)
    <2>1. CASE Reads(h)
      BY <2>1, LogUnchanged DEF Reads, durable, Log!logVars
    <2>2. CASE pc[h] = "commit" /\ ~lost[h] /\ Install(h)
      <3>1. request[h] \in Command
        BY <2>2 DEF Inv, TypeInv, CommitValid
      <3> QED
        BY <2>2, <3>1, InstallAppends DEF Log!Next
    <2>3. ASSUME NEW m \in Manifests, AdoptWrite(h, m)
          PROVE  [Log!Next]_(Log!logVars)
      <3>1. head'.revision = head.revision /\ head'.manifest = m
        BY <2>3 DEF AdoptWrite, Inv, TypeInv, TypeOK, TablesTyped
      <3>2. CommittedLog' = CommittedLog
        BY <2>3, <3>1, LogUnchanged DEF AdoptWrite
      <3> QED
        BY <3>1, <3>2 DEF Log!Next, Log!AdoptLocks
    <2>4. CASE CheckpointCommit(h)
      BY <2>4, LogUnchanged DEF CheckpointCommit, Log!logVars
    <2> QED
      BY <1>2, <2>1, <2>2, <2>3, <2>4, StepWrites DEF Writes, Inv
  <1> QED
    BY <1>1, <1>2 DEF Next

LEMMA LogInit == Init => Log!Init
  <1> SUFFICES ASSUME Init PROVE Log!Init
    OBVIOUS
  <1>1. head.revision = 0 /\ head.manifest = InitialManifest
    BY DEF Init
  <1>2. CommittedLog = <<>>
    BY <1>1 DEF CommittedLog
  <1> QED
    BY <1>1, <1>2 DEF Log!Init

(* The six tables, the races of the handles and their lost answers are, to *)
(* a caller of SaveStore, one atomic log of commands and one set of locks. *)
THEOREM StoreImplementsLog == Spec => ImplementsLog
  BY LogInit, LogStep, Invariant, PTL DEF Spec, ImplementsLog, Log!Spec

-----------------------------------------------------------------------------
(* One handle at a time.  It knows the manifest of the head, so that the   *)
(* checksum it computes is the one validate_head_row expects; and between  *)
(* its look at the head and the end of an adoption nothing moves.          *)
HeadOwned ==
  /\ ValidHead
  /\ \A h \in Handles : pc[h] # "closed" =>
       /\ manifest[h] = head.manifest
       /\ pc[h] = "adopt" => revision[h] = head.revision
       /\ \A o \in Handles : pc[o] # "closed" => o = h

(* What a step does with the handle's manifest.                            *)
KeepsManifest(h) ==
  /\ pc[h] # "closed" /\ UNCHANGED manifest /\ head'.manifest = head.manifest
  /\ pc'[h] = "adopt" => KnownHead(h) /\ UNCHANGED <<head, revision>>

LEMMA StepKeepsManifest ==
  ASSUME Exclusive, TypeInv, NEW h \in Handles, Step(h)
  PROVE  \/ Open(h) \/ KeepsManifest(h)
         \/ pc[h] # "closed" /\ pc'[h] = "closed"
         \/ \E m \in Manifests : Adopted(h, m)
  <1> USE DEF TypeInv, TypeOK, HandlesTyped, KeepsManifest, Return, Goto, Read, LoadFails,
              durable
  <1>1. CASE SessionStep(h)
    BY <1>1 DEF SessionStep, Drop, BackendError
  <1>2. CASE CommitStep(h)
    <2>1. ASSUME NEW c \in Command, Duplicate(h, c) PROVE pc'[h] = "idle"
      BY <2>1 DEF Duplicate
    <2>2. ASSUME NEW c \in Command, CommitRefused(h, c) \/ CommitStale(h, c)
                                      \/ CommitBegin(h, c)
          PROVE  KeepsManifest(h)
      BY <2>2 DEF CommitRefused, CommitStale, CommitBegin, CommitCall
    <2>3. ASSUME NEW c \in Command, CommitDuplicate(h, c) PROVE KeepsManifest(h)
      BY <2>1, <2>3 DEF CommitDuplicate, CommitCall
    <2>4. ASSUME NEW c \in Command, ResolveCall(h, c) PROVE KeepsManifest(h)
      <3>1. pc'[h] \in {"idle", "resolve_head"}
        BY <2>1, <2>4 DEF ResolveCall
      <3> QED
        BY <2>4, <3>1 DEF ResolveCall
    <2>5. CASE Committed(h) \/ CommittedUnknown(h)
      <3>1. Install(h) => head'.manifest = head.manifest
        BY DEF Install, TablesTyped
      <3> QED
        BY <2>5, <3>1 DEF Committed, CommittedUnknown
    <2>6. CASE SerializationFailure(h) \/ ReloadHead(h) \/ ResolveHead(h)
      BY <2>6 DEF SerializationFailure, ReloadHead, ResolveHead
    <2> QED
      BY <1>2, <2>2, <2>3, <2>4, <2>5, <2>6 DEF CommitStep
  <1>3. CASE AdoptStep(h)
    <2>1. ASSUME NEW m \in Manifests, AdoptRefused(h, m) \/ AdoptUnchanged(h, m)
          PROVE  KeepsManifest(h)
      BY <2>1 DEF AdoptRefused, AdoptUnchanged, AdoptCall
    <2>2. ASSUME NEW m \in Manifests, AdoptBegin(h, m) PROVE KeepsManifest(h)
      BY <2>2 DEF AdoptBegin, AdoptCall, durable
    <2>3. ASSUME NEW m \in Manifests, AdoptedUnknown(h, m)
          PROVE  pc[h] # "closed" /\ pc'[h] = "closed"
      BY <2>3 DEF AdoptedUnknown, AdoptWrite
    <2>4. CASE AdoptLost(h)
      BY <2>4 DEF AdoptLost
    <2> QED
      BY <1>3, <2>1, <2>2, <2>3, <2>4 DEF AdoptStep
  <1>4. CASE LoadStep(h)
    <2>1. ASSUME NEW for, NEW given, LoadHead(h, for, given) PROVE KeepsManifest(h)
      BY <2>1 DEF LoadHead
    <2>2. CASE LoadCheckpoint(h) \/ LoadOps(h) \/ LoadActions(h)
      BY <2>2 DEF LoadCheckpoint, LoadOps, LoadActions
    <2>3. CASE Rebuild(h)
      BY <2>3 DEF Rebuild
    <2>4. CASE LoadEvents(h) \/ LoadTranscripts(h)
      BY <2>4 DEF LoadEvents, LoadTranscripts
    <2> QED
      BY <1>4, <2>1, <2>2, <2>3, <2>4 DEF LoadStep
  <1>5. CASE CheckpointStep(h)
    BY <1>5 DEF CheckpointStep, CheckpointBegin, CheckpointCommit
  <1> QED
    BY <1>1, <1>2, <1>3, <1>4, <1>5 DEF Step

(* The head row after a write of the handle.                               *)
LEMMA WritesOwnHead ==
  ASSUME TypeInv, HeadOwned, NEW h \in Handles, Step(h)
  PROVE  \/ head' = head
         \/ pc[h] = "commit" /\ head'.manifest = manifest[h] /\ ValidHead'
         \/ \E m \in Manifests :
              AdoptWrite(h, m) /\ head'.manifest = m /\ ValidHead'
  <1>1. Reads(h) \/ Writes(h)
    BY StepWrites
  <1>2. CASE Reads(h)
    BY <1>2 DEF Reads, durable
  <1>3. CASE pc[h] = "commit" /\ ~lost[h] /\ Install(h)
    <2>1. PICK r : r = request[h].expected + 1
      OBVIOUS
    <2>2. head' = [head EXCEPT !.revision = r, !.sum = <<r, manifest[h]>>]
      BY <1>3, <2>1 DEF Install
    <2>3. manifest[h] = head.manifest
      BY <1>3 DEF HeadOwned
    <2> QED
      BY <1>3, <2>2, <2>3 DEF TypeInv, TypeOK, TablesTyped, ValidHead
  <1>4. ASSUME NEW m \in Manifests, AdoptWrite(h, m)
        PROVE  head'.manifest = m /\ ValidHead'
    <2>1. revision[h] = head.revision
      BY <1>4 DEF AdoptWrite, HeadOwned
    <2> QED
      BY <1>4, <2>1 DEF AdoptWrite, TypeInv, TypeOK, TablesTyped, ValidHead
  <1>5. CASE CheckpointCommit(h)
    BY <1>5 DEF CheckpointCommit
  <1> QED
    BY <1>1, <1>2, <1>3, <1>4, <1>5 DEF Writes

LEMMA HeadOwnedStep ==
  ASSUME Exclusive, TypeInv, HeadOwned, NEW h \in Handles, Step(h)
  PROVE  HeadOwned'
  <1> USE DEF TypeInv, TypeOK, HandlesTyped
  <1>1. \A o \in Handles \ {h} : pc'[o] = pc[o]
    BY StepFrame DEF Frame
  <1>2. \A o \in Handles \ {h} : pc[o] = "closed"
    <2>1. CASE Open(h)
      BY <2>1 DEF Open
    <2>2. CASE pc[h] # "closed"
      BY <2>2 DEF HeadOwned
    <2> QED
      BY <2>1, <2>2, StepKeepsManifest DEF KeepsManifest, Adopted, AdoptWrite
  <1>3. ValidHead'
    BY WritesOwnHead DEF HeadOwned, ValidHead
  <1>4. pc'[h] # "closed" =>
          manifest'[h] = head'.manifest /\ (pc'[h] = "adopt" => revision'[h] = head'.revision)
    <2>1. CASE Open(h)
      BY <2>1 DEF Open, Goto, durable
    <2>2. ASSUME NEW m \in Manifests, Adopted(h, m)
          PROVE  manifest'[h] = head'.manifest /\ pc'[h] = "idle"
      BY <2>2 DEF Adopted, AdoptWrite, Return, TablesTyped
    <2>3. CASE KeepsManifest(h) /\ pc'[h] # "closed"
      <3>1. manifest'[h] = manifest[h] /\ manifest[h] = head.manifest
        BY <2>3 DEF KeepsManifest, HeadOwned
      <3>2. pc'[h] = "adopt" => revision'[h] = head'.revision
        BY <2>3 DEF KeepsManifest, KnownHead
      <3> QED
        BY <2>3, <3>1, <3>2 DEF KeepsManifest
    <2> QED
      BY <2>1, <2>2, <2>3, StepKeepsManifest
  <1> QED
    BY <1>1, <1>2, <1>3, <1>4 DEF HeadOwned

LEMMA HeadOwnedInit == Init => HeadOwned
  BY DEF Init, HeadOwned, ValidHead

(* With one handle at a time, as the game runs, the head row always passes *)
(* validate_head_row: commits and adoptions by a handle that was opened    *)
(* after every earlier one, also one whose adoption became durable behind  *)
(* an error, write the checksum of the manifest that is in the row.        *)
THEOREM HeadValidates ==
  ASSUME Exclusive
  PROVE  Spec => []ValidHead
  <1>1. TypeInv /\ HeadOwned /\ [Next]_vars => HeadOwned'
    <2> SUFFICES ASSUME TypeInv, HeadOwned, [Next]_vars PROVE HeadOwned'
      OBVIOUS
    <2>1. CASE UNCHANGED vars
      BY <2>1 DEF vars, HeadOwned, ValidHead
    <2>2. ASSUME NEW h \in Handles, Step(h) PROVE HeadOwned'
      BY <2>2, HeadOwnedStep
    <2> QED
      BY <2>1, <2>2 DEF Next
  <1>2. HeadOwned => ValidHead
    BY DEF HeadOwned
  <1> QED
    BY <1>1, <1>2, HeadOwnedInit, TypeInvariant, PTL DEF Spec
=============================================================================
