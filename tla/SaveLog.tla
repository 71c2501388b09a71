------------------------------- MODULE SaveLog -------------------------------
(***************************************************************************)
(* What a durable save promises to its callers, whatever the number of     *)
(* connections, lost answers and restarts: one log of committed commands,  *)
(* extended only at its end, in which no ActionId occurs twice, and one    *)
(* set of content locks, replaced without touching the log.                *)
(* SaveStore.tla implements this specification.                            *)
(***************************************************************************)
EXTENDS Naturals, Sequences

CONSTANTS Command,          \* the commands a caller may submit
          Manifests,        \* the content locks a save may be bound to
          InitialManifest   \* the locks it was created with

VARIABLES log,              \* the committed commands, oldest first
          locks             \* the content locks in force

logVars == <<log, locks>>

Init == /\ log = <<>>
        /\ locks = InitialManifest

(* A command takes effect only on the revision it was prepared for, and    *)
(* only the first time its ActionId is seen.                               *)
AppendCommand(c) ==
  /\ c.expected = Len(log)
  /\ \A i \in 1..Len(log) : log[i].action # c.action
  /\ log' = Append(log, c)
  /\ UNCHANGED locks

AdoptLocks(m) == /\ locks' = m
                 /\ UNCHANGED log

Next == \/ \E c \in Command : AppendCommand(c)
        \/ \E m \in Manifests : AdoptLocks(m)

Spec == Init /\ [][Next]_logVars
=============================================================================
