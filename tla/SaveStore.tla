------------------------------ MODULE SaveStore ------------------------------
(***************************************************************************)
(* The durable save of loreloom-store (store.rs, request.rs): one database *)
(* with a head row, checkpoints, record operations, events, transcripts    *)
(* and action rows, used by several SaveStore handles at once.  Every      *)
(* await of the code is a place where another handle may run, so each      *)
(* action below covers the code between two awaits that matter: the begin  *)
(* of a transaction with its reads, its commit, and each separate query of *)
(* a load.                                                                 *)
(*                                                                         *)
(* Data is reduced to what the properties tell apart.  The payload of a    *)
(* record is the ActionId of the command that last wrote it, a digest or a *)
(* checksum is the tuple it is computed from, and the operations of one    *)
(* revision (unique keys, sorted by key) are one row.                      *)
(***************************************************************************)
EXTENDS Naturals, FiniteSets

CONSTANTS Handles,          \* SaveStore values open on the same database
          Creator,          \* the handle that created the save
          ActionIds,
          Keys,             \* record keys
          TranscriptKeys,   \* the keys of transcript records
          Changes,          \* what a command may do to the records
          Manifests,        \* save manifests: they differ in their locks
          InitialManifest,
          InitialKeys,      \* the records the save is created with
          MaxRevision,      \* the largest revision a row can hold (i64::MAX)
          Exclusive         \* TRUE: one handle at a time, as the game runs

NoRecord == "no record"
Genesis  == "genesis"

ASSUME StoreAssumption ==
  /\ Creator \in Handles
  /\ TranscriptKeys \subseteq Keys /\ InitialKeys \subseteq Keys
  /\ Changes \subseteq [upserts : SUBSET Keys,
                        deletes : SUBSET (Keys \ TranscriptKeys),
                        event   : BOOLEAN]
  /\ InitialManifest \in Manifests
  /\ MaxRevision \in Nat
  /\ Exclusive \in BOOLEAN
  /\ NoRecord \notin ActionIds /\ Genesis \notin ActionIds

Values  == ActionIds \cup {NoRecord, Genesis}
Records == [Keys -> Values]
Revisions == 0..MaxRevision

(* A command, with the change that executing it produced: the digest that  *)
(* identifies a retry is taken over all of it.                             *)
Command == [action : ActionIds, expected : Revisions, change : Changes]

VARIABLES head,         \* the SaveHead row
          ops,          \* RecordOp rows, one per revision
          actions,      \* ActionCommit rows
          events,       \* WorldEvent rows
          transcripts,  \* Transcript rows
          checkpoints,  \* Checkpoint rows
          states,       \* history: the records each revision stands for
          pc,           \* what a handle is doing
          manifest,     \* SaveStore.manifest of a handle
          revision,     \* SaveStore.revision of a handle
          lost,         \* a handle's transaction was overtaken by another
          request,      \* the command a handle is committing or resolving
          reading,      \* the locals of load and checkpoint
          answer        \* the result of a handle's last operation

durable == <<head, ops, actions, events, transcripts, checkpoints, states>>
vars == <<head, ops, actions, events, transcripts, checkpoints, states,
          pc, manifest, revision, lost, request, reading, answer>>

InitialRecords == [k \in Keys |-> IF k \in InitialKeys THEN Genesis
                                                       ELSE NoRecord]

(* The initial transcripts are written with the save, at revision zero.    *)
InitialTranscripts ==
  {[revision |-> 0, key |-> k, value |-> Genesis] :
     k \in InitialKeys \cap TranscriptKeys}

(* rebuild_records on the operations of one revision.                      *)
Apply(records, c) ==
  [k \in Keys |-> IF k \in c.change.upserts THEN c.action
                  ELSE IF k \in c.change.deletes THEN NoRecord
                  ELSE records[k]]

NoChange  == [upserts |-> {}, deletes |-> {}, event |-> FALSE]
NoRequest == [action |-> NoRecord, expected |-> 0, change |-> NoChange]
NoAnswer  == [tag |-> "none", rev |-> 0]

NotReading == [rev |-> 0, at |-> 0, records |-> InitialRecords,
               ops |-> {}, actions |-> {}, events |-> {},
               for |-> "caller", given |-> InitialRecords]

(* The state SaveStore::create leaves: revision zero, its checkpoint and   *)
(* the initial transcripts, and the creating handle still open.            *)
Init ==
  /\ head = [revision |-> 0, manifest |-> InitialManifest,
             sum |-> <<0, InitialManifest>>]
  /\ ops = {} /\ actions = {} /\ events = {}
  /\ transcripts = InitialTranscripts
  /\ checkpoints = {[revision |-> 0, records |-> InitialRecords]}
  /\ states = [r \in Revisions |-> InitialRecords]
  /\ pc = [h \in Handles |-> IF h = Creator THEN "idle" ELSE "closed"]
  /\ manifest = [h \in Handles |-> InitialManifest]
  /\ revision = [h \in Handles |-> 0]
  /\ lost = [h \in Handles |-> FALSE]
  /\ request = [h \in Handles |-> NoRequest]
  /\ reading = [h \in Handles |-> NotReading]
  /\ answer = [h \in Handles |-> NoAnswer]

-----------------------------------------------------------------------------
(* validate_head_row: the checksum covers the revision and the manifest.   *)
ValidHead == head.sum = <<head.revision, head.manifest>>

(* An operation returns to its caller: the handle is free again.           *)
Return(h, tag, r) ==
  /\ pc' = [pc EXCEPT ![h] = "idle"]
  /\ answer' = [answer EXCEPT ![h] = [tag |-> tag, rev |-> r]]

Goto(h, label) ==
  /\ pc' = [pc EXCEPT ![h] = label]
  /\ answer' = [answer EXCEPT ![h] = NoAnswer]

(* Snapshot isolation of the database: a write of the head row makes the   *)
(* commit of every other transaction that also writes it fail.             *)
HeadWritten(h) ==
  lost' = [o \in Handles |-> o # h /\ pc[o] \in {"commit", "adopt"}]

EndTransaction(h) == lost' = [lost EXCEPT ![h] = FALSE]

(* SaveStore::open, or connect from another handle: the head is read and   *)
(* checked, and a connecting handle must find the manifest it knows.       *)
Open(h) ==
  /\ pc[h] = "closed"
  /\ Exclusive => \A o \in Handles : pc[o] = "closed"
  /\ ValidHead
  /\ \/ \A o \in Handles : pc[o] = "closed"
     \/ \E o \in Handles : pc[o] = "idle" /\ manifest[o] = head.manifest
  /\ manifest' = [manifest EXCEPT ![h] = head.manifest]
  /\ revision' = [revision EXCEPT ![h] = head.revision]
  /\ Goto(h, "idle")
  /\ UNCHANGED <<durable, lost, request, reading>>

(* The handle is dropped, or its process dies, at any await; an open       *)
(* transaction is discarded with it.                                       *)
Drop(h) ==
  /\ pc[h] # "closed"
  /\ Goto(h, "closed")
  /\ request' = [request EXCEPT ![h] = NoRequest]
  /\ reading' = [reading EXCEPT ![h] = NotReading]
  /\ manifest' = [manifest EXCEPT ![h] = InitialManifest]
  /\ revision' = [revision EXCEPT ![h] = 0]
  /\ EndTransaction(h)
  /\ UNCHANGED durable

(* Any query, begin or commit may fail in the database; the operation      *)
(* returns StoreError::Backend and its transaction is gone.                *)
BackendError(h) ==
  /\ pc[h] \notin {"closed", "idle"}
  /\ Return(h, "error", 0)
  /\ request' = [request EXCEPT ![h] = NoRequest]
  /\ reading' = [reading EXCEPT ![h] = NotReading]
  /\ EndTransaction(h)
  /\ UNCHANGED <<durable, manifest, revision>>

-----------------------------------------------------------------------------
(* CommitRequest::validate and revision_to_i64.                            *)
ValidRequest(c) == /\ c.expected < MaxRevision
                   /\ c.change.upserts \cup c.change.deletes # {}

(* The caller executed the command on the world at the expected revision,  *)
(* so it deletes only records that revision has.                           *)
Executable(c) == /\ c.expected <= head.revision
                 /\ \A k \in c.change.deletes : states[c.expected][k] # NoRecord

Recorded(a) == {row \in actions : row.action = a}

(* A caller enters commit: the request is validated, then the action row   *)
(* and the head are read in one transaction.  The next four actions are    *)
(* its outcomes up to the transaction's last write; the ones that return   *)
(* roll the transaction back and leave the cached revision alone.  The     *)
(* request is kept while the commit runs and for a success answer.         *)
CommitCall(h, c) ==
  /\ pc[h] = "idle"
  /\ Executable(c)
  /\ reading' = [reading EXCEPT ![h] = NotReading]
  /\ UNCHANGED <<durable, manifest, revision, lost>>

Keep(h, c) == request' = [request EXCEPT ![h] = c]
Forget(h)  == request' = [request EXCEPT ![h] = NoRequest]

CommitRefused(h, c) ==
  /\ CommitCall(h, c)
  /\ ~ValidRequest(c) \/ (Recorded(c.action) = {} /\ ~ValidHead)
  /\ Return(h, "error", 0)
  /\ Forget(h)

(* Faulty variant: the digest of a repeated ActionId is not compared.      *)
DuplicateAnyDigest(h, c) ==
  \E row \in Recorded(c.action) :
    Return(h, "already", row.revision) /\ Keep(h, c)

(* The row of an ActionId decides: the same command is answered with the   *)
(* original outcome, another command is an identity conflict.              *)
Duplicate(h, c) ==
  \E row \in Recorded(c.action) :
    \/ row.command = c /\ Return(h, "already", row.revision) /\ Keep(h, c)
    \/ row.command # c /\ Return(h, "identity", 0) /\ Forget(h)

CommitDuplicate(h, c) == /\ CommitCall(h, c)
                         /\ ValidRequest(c)
                         /\ Duplicate(h, c)

(* Faulty variant: the action row is not looked up before the head.        *)
FreshRequestUnseen(c) == ValidRequest(c) /\ ValidHead

FreshRequest(c) == ValidRequest(c) /\ Recorded(c.action) = {} /\ ValidHead

CommitStale(h, c) == /\ CommitCall(h, c)
                     /\ FreshRequest(c) /\ head.revision # c.expected
                     /\ Return(h, "conflict", head.revision)
                     /\ Forget(h)

(* Faulty variant: the expected revision is not compared with the head.    *)
CommitBeginAnyHead(h, c) == /\ CommitCall(h, c)
                            /\ FreshRequest(c)
                            /\ Goto(h, "commit")
                            /\ Keep(h, c)

CommitBegin(h, c) == /\ CommitCall(h, c)
                     /\ FreshRequest(c) /\ head.revision = c.expected
                     /\ Goto(h, "commit")
                     /\ Keep(h, c)

(* What a command adds to the event and the transcript tables.             *)
EventRows(c, r) ==
  IF c.change.event THEN {[revision |-> r, action |-> c.action]} ELSE {}

(* Faulty variant: every upserted record is written as a transcript.       *)
EveryUpsertTranscribed(c, r) ==
  {[revision |-> r, key |-> k, value |-> c.action] : k \in c.change.upserts}

(* Faulty variant: the commit forgets the transcript rows.                 *)
NoTranscriptRows(c, r) == {}

TranscriptRows(c, r) ==
  {[revision |-> r, key |-> k, value |-> c.action] :
     k \in c.change.upserts \cap TranscriptKeys}

(* The transaction's writes become durable together.  The head checksum    *)
(* was computed from the handle's own manifest; the manifest column is not *)
(* written.                                                                *)
Install(h) ==
  LET c == request[h]
      r == c.expected + 1
  IN /\ head' = [head EXCEPT !.revision = r, !.sum = <<r, manifest[h]>>]
     /\ ops' = ops \cup
          {[revision |-> r, action |-> c.action, change |-> c.change]}
     /\ actions' = actions \cup
          {[action |-> c.action, revision |-> r, command |-> c]}
     /\ events' = events \cup EventRows(c, r)
     /\ transcripts' = transcripts \cup TranscriptRows(c, r)
     /\ states' = [states EXCEPT ![r] = Apply(states[c.expected], c)]
     /\ HeadWritten(h)
     /\ UNCHANGED checkpoints

Committed(h) ==
  /\ pc[h] = "commit" /\ ~lost[h]
  /\ Install(h)
  /\ revision' = [revision EXCEPT ![h] = request[h].expected + 1]
  /\ Return(h, "committed", request[h].expected + 1)
  /\ UNCHANGED <<manifest, request, reading>>

(* The commit is durable but its answer is an error.                       *)
CommittedUnknown(h) ==
  /\ pc[h] = "commit" /\ ~lost[h]
  /\ Install(h)
  /\ Return(h, "error", 0)
  /\ Forget(h)
  /\ UNCHANGED <<manifest, revision, reading>>

SerializationFailure(h) ==
  /\ pc[h] = "commit" /\ lost[h]
  /\ Goto(h, "reload_head")
  /\ Forget(h)
  /\ EndTransaction(h)
  /\ UNCHANGED <<durable, manifest, revision, reading>>

(* load_head after a serialization failure, in a query of its own.         *)
ReloadHead(h) ==
  /\ pc[h] = "reload_head"
  /\ \/ /\ ValidHead
        /\ revision' = [revision EXCEPT ![h] = head.revision]
        /\ Return(h, "conflict", head.revision)
     \/ /\ ~ValidHead
        /\ Return(h, "error", 0)
        /\ UNCHANGED revision
  /\ UNCHANGED <<durable, manifest, lost, request, reading>>

(* resolve_action: the action row, then, when there is none, the head in a *)
(* second query.                                                           *)
ResolveCall(h, c) ==
  /\ pc[h] = "idle"
  /\ Executable(c)
  /\ reading' = [reading EXCEPT ![h] = NotReading]
  /\ \/ Duplicate(h, c)
     \/ /\ Recorded(c.action) = {}
        /\ Goto(h, "resolve_head")
        /\ Forget(h)
  /\ UNCHANGED <<durable, manifest, revision, lost>>

ResolveHead(h) ==
  /\ pc[h] = "resolve_head"
  /\ \/ /\ ValidHead
        /\ revision' = [revision EXCEPT ![h] = head.revision]
        /\ Return(h, "not_committed", head.revision)
     \/ /\ ~ValidHead
        /\ Return(h, "error", 0)
        /\ UNCHANGED revision
  /\ UNCHANGED <<durable, manifest, lost, request, reading>>

-----------------------------------------------------------------------------
(* adopt_content_locks: the durable head must still be the one the handle  *)
(* knows; adopting the locks already in force changes nothing.             *)
AdoptCall(h, m) ==
  /\ pc[h] = "idle"
  /\ Forget(h)
  /\ reading' = [reading EXCEPT ![h] = NotReading]
  /\ UNCHANGED <<durable, manifest, revision, lost>>

KnownHead(h) == /\ ValidHead
                /\ head.manifest = manifest[h]
                /\ head.revision = revision[h]

AdoptRefused(h, m) == /\ AdoptCall(h, m)
                      /\ ~KnownHead(h)
                      /\ Return(h, "error", 0)

AdoptUnchanged(h, m) == /\ AdoptCall(h, m)
                        /\ KnownHead(h) /\ m = manifest[h]
                        /\ Return(h, "adopted", revision[h])

AdoptBegin(h, m) == /\ AdoptCall(h, m)
                    /\ KnownHead(h) /\ m # manifest[h]
                    /\ Goto(h, "adopt")

AdoptWrite(h, m) ==
  /\ pc[h] = "adopt" /\ ~lost[h]
  /\ m # manifest[h]
  /\ head' = [head EXCEPT !.manifest = m, !.sum = <<revision[h], m>>]
  /\ HeadWritten(h)
  /\ UNCHANGED <<ops, actions, events, transcripts, checkpoints, states,
                 revision, request, reading>>

Adopted(h, m) ==
  /\ AdoptWrite(h, m)
  /\ manifest' = [manifest EXCEPT ![h] = m]
  /\ Return(h, "adopted", revision[h])

(* Adopted, but the answer is an error and the cached manifest stays the   *)
(* old one.  WorldService::open, the only caller, then drops the handle.   *)
AdoptedUnknown(h, m) ==
  /\ AdoptWrite(h, m)
  /\ UNCHANGED manifest
  /\ IF Exclusive THEN Goto(h, "closed") ELSE Return(h, "error", 0)

AdoptLost(h) ==
  /\ pc[h] = "adopt" /\ lost[h]
  /\ Return(h, "error", 0)
  /\ EndTransaction(h)
  /\ UNCHANGED <<durable, manifest, revision, request, reading>>

-----------------------------------------------------------------------------
(* load: six queries, none of them in a transaction, so commits of other   *)
(* handles may fall between any two.  Any row that is newer than the head  *)
(* read first is an integrity error.                                       *)
LoadFails(h) == /\ Return(h, "error", 0)
                /\ reading' = [reading EXCEPT ![h] = NotReading]

Read(h, locals, label) == /\ reading' = [reading EXCEPT ![h] = locals]
                          /\ Goto(h, label)

(* Faulty variant: rows beyond the head read first are let through.        *)
NoFutureRow(table, r) == FALSE

FutureRow(table, r) == \E row \in table : row.revision > r

Newest(table) ==
  {row \in table : \A other \in table : other.revision <= row.revision}

(* The projection of the transcript rows: the latest row of every key.     *)
LatestTranscripts(rows) ==
  {[key |-> row.key, value |-> row.value] :
     row \in {r \in rows : \A o \in rows : o.key = r.key
                                             => o.revision <= r.revision}}

TranscriptRecords(records) ==
  {[key |-> k, value |-> records[k]] :
     k \in {t \in TranscriptKeys : records[t] # NoRecord}}

(* load_head; "for" and the records "given" tell a plain load from the one *)
(* inside checkpoint, which encodes its argument at the cached revision    *)
(* before it loads.                                                        *)
LoadHead(h, for, given) ==
  /\ pc[h] = "idle"
  /\ Forget(h)
  /\ \/ /\ ValidHead /\ head.manifest = manifest[h]
        /\ Read(h, [NotReading EXCEPT !.rev = head.revision, !.for = for,
                                        !.given = given],
                "load_checkpoint")
     \/ /\ ~ValidHead \/ head.manifest # manifest[h]
        /\ LoadFails(h)
  /\ UNCHANGED <<durable, manifest, revision, lost>>

LoadCheckpoint(h) ==
  LET r == reading[h] IN
  /\ pc[h] = "load_checkpoint"
  /\ \/ /\ ~FutureRow(checkpoints, r.rev)
        /\ \E row \in Newest(checkpoints) :
             Read(h, [r EXCEPT !.at = row.revision,
                               !.records = row.records], "load_ops")
     \/ /\ FutureRow(checkpoints, r.rev)
        /\ LoadFails(h)
  /\ UNCHANGED <<durable, manifest, revision, lost, request>>

LoadOps(h) ==
  LET r == reading[h] IN
  /\ pc[h] = "load_ops"
  /\ \/ /\ ~FutureRow(ops, r.rev)
        /\ Read(h, [r EXCEPT !.ops = {row \in ops : row.revision > r.at}],
                "load_actions")
     \/ /\ FutureRow(ops, r.rev)
        /\ LoadFails(h)
  /\ UNCHANGED <<durable, manifest, revision, lost, request>>

(* Every operation and every event must belong to an action committed at   *)
(* the same revision.                                                      *)
Owned(rows, committed) ==
  \A row \in rows : \E a \in committed : /\ a.action = row.action
                                         /\ a.revision = row.revision

LoadActions(h) ==
  LET r == reading[h] IN
  /\ pc[h] = "load_actions"
  /\ \/ /\ ~FutureRow(actions, r.rev) /\ Owned(r.ops, actions)
        /\ Read(h, [r EXCEPT !.actions = actions], "rebuild")
     \/ /\ FutureRow(actions, r.rev) \/ ~Owned(r.ops, actions)
        /\ LoadFails(h)
  /\ UNCHANGED <<durable, manifest, revision, lost, request>>

(* rebuild_records, one revision per step: the next revision's operations  *)
(* are applied, and a gap or a delete of a missing record is an error.     *)
Applicable(records, op) ==
  \A k \in op.change.deletes : records[k] # NoRecord

Rebuild(h) ==
  LET r    == reading[h]
      next == {op \in r.ops : op.revision = r.at + 1}
  IN
  /\ pc[h] = "rebuild"
  /\ \/ \E op \in next :
          \/ /\ Applicable(r.records, op)
             /\ Read(h, [r EXCEPT !.at = r.at + 1,
                                  !.records = Apply(r.records, op)], "rebuild")
          \/ /\ ~Applicable(r.records, op)
             /\ LoadFails(h)
     \/ /\ next = {} /\ r.at = r.rev
        /\ Read(h, [r EXCEPT !.ops = {}], "load_events")
     \/ /\ next = {} /\ r.at # r.rev
        /\ LoadFails(h)
  /\ UNCHANGED <<durable, manifest, revision, lost, request>>

LoadEvents(h) ==
  LET r == reading[h] IN
  /\ pc[h] = "load_events"
  /\ \/ /\ ~FutureRow(events, r.rev) /\ Owned(events, r.actions)
        /\ Read(h, [r EXCEPT !.events = events, !.actions = {}],
                "load_transcripts")
     \/ /\ FutureRow(events, r.rev) \/ ~Owned(events, r.actions)
        /\ LoadFails(h)
  /\ UNCHANGED <<durable, manifest, revision, lost, request>>

(* Faulty variant: the argument is compared only by revision.              *)
ProjectedRevision(h) == revision[h] = reading[h].rev

(* checkpoint goes on only if its argument is what load returned, at the   *)
(* revision it was encoded for.                                            *)
Projected(h) == /\ reading[h].given = reading[h].records
                /\ revision[h] = reading[h].rev

(* The last query, and the return of load to the caller or to checkpoint.  *)
LoadTranscripts(h) ==
  LET r  == reading[h]
      ok == /\ ~FutureRow(transcripts, r.rev)
            /\ LatestTranscripts(transcripts) = TranscriptRecords(r.records)
  IN
  /\ pc[h] = "load_transcripts"
  /\ revision' = IF ok THEN [revision EXCEPT ![h] = r.rev] ELSE revision
  /\ \/ /\ ok /\ r.for = "caller"
        /\ Return(h, "loaded", r.rev)
        /\ UNCHANGED reading
     \/ /\ ok /\ r.for = "checkpoint" /\ Projected(h)
        /\ Read(h, r, "checkpoint")
     \/ /\ ~ok \/ (r.for = "checkpoint" /\ ~Projected(h))
        /\ LoadFails(h)
  /\ UNCHANGED <<durable, manifest, lost, request>>

-----------------------------------------------------------------------------
(* checkpoint, after its load: the head must still be at the loaded        *)
(* revision, and an existing checkpoint of that revision must agree.       *)
CheckpointBegin(h) ==
  LET existing == {row \in checkpoints : row.revision = revision[h]}
      current  == ValidHead /\ head.revision = revision[h]
      same     == \A row \in existing : row.records = reading[h].given
  IN
  /\ pc[h] = "checkpoint"
  /\ revision' = IF ValidHead THEN [revision EXCEPT ![h] = head.revision]
                              ELSE revision
  /\ \/ /\ current /\ existing = {}
        /\ Goto(h, "checkpoint_commit")
        /\ UNCHANGED reading
     \/ /\ current /\ existing # {} /\ same
        /\ Return(h, "checkpointed", revision[h])
        /\ UNCHANGED reading
     \/ /\ ~current \/ ~same
        /\ LoadFails(h)
  /\ UNCHANGED <<durable, manifest, lost, request>>

(* The row is written unless another handle wrote it first; the head may   *)
(* have moved on, since the transaction only read it.                      *)
CheckpointCommit(h) ==
  /\ pc[h] = "checkpoint_commit"
  /\ \A row \in checkpoints : row.revision # revision[h]
  /\ checkpoints' = checkpoints \cup
       {[revision |-> revision[h], records |-> reading[h].given]}
  /\ \E tag \in {"checkpointed", "error"} : Return(h, tag, revision[h])
  /\ UNCHANGED <<head, ops, actions, events, transcripts, states,
                 manifest, revision, lost, request, reading>>

-----------------------------------------------------------------------------
(* The records a caller of checkpoint may hold: its world at some          *)
(* committed revision.                                                     *)
Held == {states[r] : r \in 0..head.revision}

SessionStep(h) == Open(h) \/ Drop(h) \/ BackendError(h)

CommitStep(h) ==
  \/ \E c \in Command : \/ CommitRefused(h, c) \/ CommitDuplicate(h, c)
                        \/ CommitStale(h, c) \/ CommitBegin(h, c)
                        \/ ResolveCall(h, c)
  \/ Committed(h) \/ CommittedUnknown(h)
  \/ SerializationFailure(h) \/ ReloadHead(h) \/ ResolveHead(h)

AdoptStep(h) ==
  \/ \E m \in Manifests : \/ AdoptRefused(h, m) \/ AdoptUnchanged(h, m)
                          \/ AdoptBegin(h, m)
                          \/ Adopted(h, m) \/ AdoptedUnknown(h, m)
  \/ AdoptLost(h)

LoadStep(h) ==
  \/ LoadHead(h, "caller", InitialRecords)
  \/ \E given \in Held : LoadHead(h, "checkpoint", given)
  \/ LoadCheckpoint(h) \/ LoadOps(h) \/ LoadActions(h) \/ Rebuild(h)
  \/ LoadEvents(h) \/ LoadTranscripts(h)

CheckpointStep(h) == CheckpointBegin(h) \/ CheckpointCommit(h)

Step(h) == \/ SessionStep(h) \/ CommitStep(h) \/ AdoptStep(h)
           \/ LoadStep(h) \/ CheckpointStep(h)

Next == \E h \in Handles : Step(h)

Spec == Init /\ [][Next]_vars

-----------------------------------------------------------------------------
Labels == {"closed", "idle", "commit", "reload_head", "resolve_head", "adopt",
           "load_checkpoint", "load_ops", "load_actions", "rebuild",
           "load_events", "load_transcripts", "checkpoint",
           "checkpoint_commit"}

Tags == {"none", "committed", "already", "identity", "conflict",
         "not_committed", "adopted", "loaded", "checkpointed", "error"}

OpRow         == [revision : Revisions, action : ActionIds, change : Changes]
ActionRow     == [action : ActionIds, revision : Revisions, command : Command]
EventRow      == [revision : Revisions, action : ActionIds]
TranscriptRow == [revision : Revisions, key : TranscriptKeys, value : Values]
CheckpointRow == [revision : Revisions, records : Records]
Reading       == [rev : Revisions, at : Revisions, records : Records,
                  ops : SUBSET OpRow, actions : SUBSET ActionRow,
                  events : SUBSET EventRow, for : {"caller", "checkpoint"},
                  given : Records]

TablesTyped ==
  /\ head \in [revision : Revisions, manifest : Manifests,
               sum : Revisions \X Manifests]
  /\ ops \subseteq OpRow /\ actions \subseteq ActionRow
  /\ events \subseteq EventRow /\ transcripts \subseteq TranscriptRow
  /\ checkpoints \subseteq CheckpointRow
  /\ states \in [Revisions -> Records]

HandlesTyped ==
  /\ pc \in [Handles -> Labels]
  /\ manifest \in [Handles -> Manifests]
  /\ revision \in [Handles -> Revisions]
  /\ lost \in [Handles -> BOOLEAN]
  /\ request \in [Handles -> Command \cup {NoRequest}]
  /\ reading \in [Handles -> Reading]
  /\ answer \in [Handles -> [tag : Tags, rev : Revisions]]

(* Type correctness of the tables and of the handles.                      *)
TypeOK == TablesTyped /\ HandlesTyped

(* The committed history is exact (store.rs commit): every revision up to  *)
(* the head has one action row and one set of operations, of the same      *)
(* action, prepared for the revision before it, and no ActionId is         *)
(* committed twice, whichever handles raced for it.                        *)
LogExact ==
  /\ \A r \in 1..head.revision : \E row \in actions : row.revision = r
  /\ \A row \in actions :
       /\ row.revision \in 1..head.revision
       /\ row.command.expected + 1 = row.revision
       /\ row.command.action = row.action
       /\ [revision |-> row.revision, action |-> row.action,
           change |-> row.command.change] \in ops
  /\ \A row, other \in actions : (\/ row.action = other.action
                                  \/ row.revision = other.revision)
                                 => row = other
  /\ \A op \in ops : \E row \in actions : /\ row.revision = op.revision
                                          /\ row.action = op.action
                                          /\ row.command.change = op.change

(* A checkpoint written while other handles commit still holds the records *)
(* of its own revision, and never one the head has not reached.            *)
CheckpointsFaithful ==
  \A row \in checkpoints : /\ row.revision <= head.revision
                           /\ row.records = states[row.revision]

(* What is durable can always be loaded again: in every state, after any   *)
(* drop or error, each integrity check of load holds of the tables, so a   *)
(* restart reconstructs the committed world.                               *)
Recoverable ==
  /\ Newest(checkpoints) # {}
  /\ \A table \in {ops, actions, events, transcripts, checkpoints} :
       ~FutureRow(table, head.revision)
  /\ Owned(ops, actions) /\ Owned(events, actions)
  /\ \A r \in 1..head.revision : \E op \in ops :
       /\ op.revision = r
       /\ Applicable(states[r - 1], op)
       /\ states[r] = Apply(states[r - 1], op)
  /\ LatestTranscripts(transcripts) = TranscriptRecords(states[head.revision])

(* load reads six tables without a transaction, yet what it returns is one *)
(* committed revision: its records, and exactly the events up to it.       *)
LoadIsSnapshot ==
  \A h \in Handles : answer[h].tag = "loaded" =>
    LET r == reading[h].rev IN
    /\ reading[h].records = states[r]
    /\ reading[h].events = {e \in events : e.revision <= r}

(* A success answer is never wrong, later failures and rivals included:    *)
(* the named command is durable at the revision that was answered.         *)
AnswerDurable ==
  \A h \in Handles : answer[h].tag \in {"committed", "already"} =>
    \E row \in actions : /\ row.command = request[h]
                         /\ row.revision = answer[h].rev

(* Of the handles that race to commit on one revision, one wins.           *)
OneWinner ==
  \A g, h \in Handles :
    /\ answer[g].tag = "committed" /\ answer[h].tag = "committed"
    /\ request[g].expected = request[h].expected
    => g = h

(* Tables only grow, the head moves by one revision at a time, and neither *)
(* adoption nor a checkpoint moves it.                                     *)
AppendOnly ==
  [][/\ ops \subseteq ops' /\ actions \subseteq actions'
     /\ events \subseteq events' /\ transcripts \subseteq transcripts'
     /\ checkpoints \subseteq checkpoints'
     /\ head'.revision \in {head.revision, head.revision + 1}
     /\ head'.revision # head.revision =>
          head'.manifest = head.manifest /\ checkpoints' = checkpoints]_vars

(* The committed commands, oldest first, as the log of SaveLog.            *)
CommittedLog ==
  [r \in 1..head.revision |->
     (CHOOSE row \in actions : row.revision = r).command]

Log == INSTANCE SaveLog WITH log <- CommittedLog, locks <- head.manifest

(* The tables and handles together implement the atomic log of SaveLog.    *)
ImplementsLog == Log!Spec
=============================================================================
