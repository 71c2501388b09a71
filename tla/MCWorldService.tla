--------------------------- MODULE MCWorldService ---------------------------
(* Small instances of WorldService.                                        *)
EXTENDS WorldService, TLC

CONSTANTS c1, c2

Saved    == [ops |-> TRUE, session |-> FALSE, valid |-> TRUE]
Mixed    == [ops |-> TRUE, session |-> TRUE, valid |-> TRUE]
Hint     == [ops |-> FALSE, session |-> TRUE, valid |-> TRUE]
Forbidden == [ops |-> TRUE, session |-> TRUE, valid |-> FALSE]

RecordKinds == {Mixed, Forbidden}
AllKinds    == {Saved, Mixed, Hint, Forbidden}
Symmetry == Permutations(Callers)
=============================================================================
