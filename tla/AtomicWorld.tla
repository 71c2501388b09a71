----------------------------- MODULE AtomicWorld -----------------------------
(***************************************************************************)
(* What the world service promises: a command takes effect at one instant, *)
(* on the saved history and on the session parameters together, and a      *)
(* caller that is told of success is told of an effect that happened.      *)
(* WorldService.tla implements this specification.                         *)
(***************************************************************************)
EXTENDS Naturals, Sequences

CONSTANTS Callers, Command, Ids

VARIABLES history,   \* the commands that took effect, oldest first
          overlay,   \* the session parameters: the last command to set them
          told       \* the answer each caller holds, and its command

atomicVars == <<history, overlay, told>>

Silent == [tag |-> "none", action |-> 0]

Init == /\ history = <<>>
        /\ overlay = 0
        /\ told = [c \in Callers |-> Silent]

(* One command takes effect, with all it does.                             *)
Effect(cmd) == /\ cmd.expected = Len(history)
               /\ history' = Append(history, cmd)
               /\ overlay' = IF cmd.kind.session THEN cmd.action ELSE overlay

(* A command of another process takes effect; its session is not ours.     *)
Foreign(cmd) == /\ cmd.expected = Len(history)
                /\ history' = Append(history, cmd)
                /\ UNCHANGED overlay

Happened(a) == \E i \in 1..Len(history) : history[i].action = a

Tell(c, tag, a) == told' = [told EXCEPT ![c] = [tag |-> tag, action |-> a]]

(* A call begins, silently, takes effect, and is answered; the effect and  *)
(* the answer may be one step.                                             *)
Answer(c) == \/ \E a \in Ids : Happened(a)' /\ Tell(c, "ok", a)
             \/ \E a \in Ids : ~Happened(a)' /\ Tell(c, "error", a)
             \/ told' = [told EXCEPT ![c] = Silent]

(* The process restarts: callers and session parameters start afresh.      *)
Restart == /\ overlay' = 0
           /\ told' = [c \in Callers |-> Silent]
           /\ UNCHANGED history

Next == \/ \E cmd \in Command : /\ Effect(cmd) \/ Foreign(cmd)
                                /\ UNCHANGED told
        \/ \E cmd \in Command, c \in Callers : Effect(cmd) /\ Answer(c)
        \/ \E c \in Callers : Answer(c) /\ UNCHANGED <<history, overlay>>
        \/ Restart

Spec == Init /\ [][Next]_atomicVars
=============================================================================
