---------------------------- MODULE MCSaveStore ----------------------------
(* Small instances of SaveStore: a world record, a condition that may be   *)
(* created and deleted, and a transcript.                                  *)
EXTENDS SaveStore, TLC

CONSTANTS h1, h2, a1, a2

MCKeys == {"world", "condition", "transcript"}
MCTranscriptKeys == {"transcript"}
MCInitialKeys == {"world", "transcript"}

Expire == [upserts |-> {"world"}, deletes |-> {"condition"}, event |-> TRUE]
Encounter == [upserts |-> {"condition", "transcript"}, deletes |-> {},
              event |-> TRUE]
RaceChanges == {Encounter, Expire}

ActionSymmetry == Permutations(ActionIds)
=============================================================================
