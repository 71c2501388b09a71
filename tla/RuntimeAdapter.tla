--------------------------- MODULE RuntimeAdapter ---------------------------
(***************************************************************************)
(* The two threads of a running game (loreloom/src/client.rs,              *)
(* loreloom-tui/src/run.rs and state.rs, loreloom-agent/cancellation.rs).  *)
(* The terminal thread submits one input at a time through a channel,      *)
(* reads events from another, and may cancel or quit at any moment; the    *)
(* worker thread runs one turn per input.  They share the flag "accepting" *)
(* and a cancellation token that is re-armed for every turn.               *)
(*                                                                         *)
(* A turn is what its cancellation depends on: stretches of work of the    *)
(* worker's own, and calls of a model provider, which may never answer.    *)
(* The token is modelled step by step, because the terminal thread cancels *)
(* it while the worker polls it or re-arms it.                             *)
(***************************************************************************)
EXTENDS Naturals, Sequences

CONSTANTS MaxTurns,   \* bound: inputs the player submits
          MaxCalls    \* the budget of model calls of a turn

ASSUME AdapterAssumption == MaxTurns \in Nat /\ MaxCalls \in Nat \ {0}

VARIABLES ui,         \* the terminal thread's position
          working,    \* TuiApp.working_phase is set
          submitted,  \* inputs submitted so far
          uiError,    \* why the terminal loop ended, if by an error
          commands,   \* the channel to the worker
          events,     \* the channel to the terminal
          accepting,  \* RuntimeAdapter.accepting
          shutdown,   \* RuntimeAdapter.shutdown_requested
          cancelled,  \* CancellationState.cancelled
          waiting,    \* the worker's waker is among CancellationState.waiters
          woken,      \* the worker's task has been woken since it last polled
          worker,     \* the worker thread's position
          calls,      \* model calls of the current turn
          answered,   \* the provider has answered the pending call
          outcome,    \* how the current turn ended
          asked       \* history: a cancel since the current input was submitted

vars == <<ui, working, submitted, uiError, commands, events, accepting,
          shutdown, cancelled, waiting, woken, worker, calls, answered,
          outcome, asked>>

uiVars     == <<ui, working, submitted, uiError, shutdown, asked>>
workerVars == <<worker, calls, answered, outcome>>
tokenVars  == <<cancelled, waiting, woken>>

(* RuntimeAdapter::spawn, and the first frame.                             *)
Init == /\ ui = "running" /\ working = FALSE
        /\ submitted = 0 /\ uiError = "none"
        /\ commands = <<>> /\ events = <<>>
        /\ accepting = TRUE /\ shutdown = FALSE
        /\ cancelled = FALSE /\ waiting = FALSE /\ woken = FALSE
        /\ worker = "start" /\ calls = 0 /\ answered = FALSE
        /\ outcome = "none"
        /\ asked = FALSE

InTurn == {"work", "select", "register", "parked"}

-----------------------------------------------------------------------------
(* The terminal thread.                                                    *)

(* The loop of run_loop ends with an error; TuiTerminal then shuts down.   *)
LoopFails(error) == /\ uiError' = error
                    /\ ui' = "quit"

(* Enter, when can_submit: the input is sent if the worker accepts one,    *)
(* and the terminal shows it as work in progress at once.  "valid" is      *)
(* whether the text fits a LongText, which the worker finds out.           *)
Submit(valid) ==
  /\ ui = "running" /\ ~working
  /\ submitted < MaxTurns
  /\ accepting
  /\ accepting' = FALSE
  /\ commands' = Append(commands, IF valid THEN "submit" ELSE "invalid")
  /\ submitted' = submitted + 1
  /\ working' = TRUE
  /\ asked' = FALSE
  /\ UNCHANGED <<ui, uiError, events, shutdown, tokenVars, workerVars>>

SubmitBusy ==
  /\ ui = "running" /\ ~working
  /\ ~accepting
  /\ LoopFails("busy")
  /\ UNCHANGED <<working, submitted, shutdown, asked, commands, events,
                 accepting, tokenVars, workerVars>>

(* Esc, when can_cancel: CancellationToken::cancel, first its swap.        *)
Cancel ==
  /\ ui = "running" /\ working
  /\ ui' = IF cancelled THEN "running" ELSE "cancelling"
  /\ cancelled' = TRUE
  /\ asked' = TRUE
  /\ UNCHANGED <<working, submitted, uiError, shutdown, waiting, woken,
                 commands, events, accepting, workerVars>>

(* Then the waiters are drained under their lock, and woken.               *)
Drain == /\ waiting' = FALSE
         /\ woken' = (woken \/ waiting)

CancelDrain ==
  /\ ui = "cancelling"
  /\ ui' = "running"
  /\ Drain
  /\ UNCHANGED <<working, submitted, uiError, shutdown, asked, cancelled,
                 commands, events, accepting, workerVars>>

(* try_recv and apply_runtime_event: a snapshot at the end of a turn makes *)
(* the terminal ready again, an error ends the loop.                       *)
Receive ==
  /\ ui = "running" /\ events # <<>>
  /\ events' = Tail(events)
  /\ \/ /\ Head(events) = "phase"
        /\ working' = TRUE
        /\ UNCHANGED <<ui, uiError>>
     \/ /\ Head(events) = "snapshot"
        /\ working' = FALSE
        /\ UNCHANGED <<ui, uiError>>
     \/ /\ Head(events) = "error"
        /\ LoopFails("client")
        /\ UNCHANGED working
  /\ UNCHANGED <<submitted, shutdown, asked, commands, accepting, tokenVars,
                 workerVars>>

(* Ctrl-C.                                                                 *)
Quit == /\ ui = "running"
        /\ ui' = "quit"
        /\ UNCHANGED <<working, submitted, uiError, shutdown, asked, commands,
                       events, accepting, tokenVars, workerVars>>

(* request_shutdown: the token is cancelled, then the command is sent; the *)
(* drop of the adapter finds it already requested and joins the worker.    *)
ShutdownSwap ==
  /\ ui = "quit" /\ ~shutdown
  /\ shutdown' = TRUE
  /\ cancelled' = TRUE
  /\ asked' = TRUE
  /\ ui' = IF cancelled THEN "send_shutdown" ELSE "shutdown_drain"
  /\ UNCHANGED <<working, submitted, uiError, waiting, woken, commands,
                 events, accepting, workerVars>>

ShutdownDrain ==
  /\ ui = "shutdown_drain"
  /\ ui' = "send_shutdown"
  /\ Drain
  /\ UNCHANGED <<working, submitted, uiError, shutdown, asked, cancelled,
                 commands, events, accepting, workerVars>>

SendShutdown ==
  /\ ui = "send_shutdown"
  /\ ui' = "join"
  /\ commands' = IF worker = "gone" THEN commands
                                    ELSE Append(commands, "shutdown")
  /\ UNCHANGED <<working, submitted, uiError, shutdown, asked, events,
                 accepting, tokenVars, workerVars>>

Join ==
  /\ ui = "join" /\ worker = "gone"
  /\ ui' = "exited"
  /\ UNCHANGED <<working, submitted, uiError, shutdown, asked, commands,
                 events, accepting, tokenVars, workerVars>>

-----------------------------------------------------------------------------
(* The worker thread.                                                      *)

Started == /\ worker = "start"
           /\ worker' = "recv"
           /\ UNCHANGED <<uiVars, commands, events, accepting, tokenVars,
                          calls, answered, outcome>>

StartFails == /\ worker = "start"
              /\ worker' = "gone"
              /\ accepting' = FALSE
              /\ events' = Append(events, "error")
              /\ UNCHANGED <<uiVars, commands, tokenVars, calls, answered,
                             outcome>>

EndTurn(how) == /\ worker' = "end"
                /\ outcome' = how

(* Faulty variant: the token is not re-armed for a new turn.               *)
TakeInputArmed ==
  /\ worker = "recv" /\ commands # <<>>
  /\ commands' = Tail(commands)
  /\ \/ /\ Head(commands) = "submit"
        /\ worker' = "rearm"
        /\ UNCHANGED outcome
     \/ /\ Head(commands) = "invalid"
        /\ EndTurn("failed")
  /\ UNCHANGED <<uiVars, events, accepting, tokenVars, calls, answered>>

(* An input is taken from the channel.  handle_player_input re-arms the    *)
(* token before the turn when the text is valid, first its flag.           *)
TakeInput ==
  /\ worker = "recv" /\ commands # <<>>
  /\ commands' = Tail(commands)
  /\ \/ /\ Head(commands) = "submit"
        /\ cancelled' = FALSE
        /\ worker' = "rearm"
        /\ UNCHANGED outcome
     \/ /\ Head(commands) = "invalid"
        /\ EndTurn("failed")
        /\ UNCHANGED cancelled
  /\ UNCHANGED <<uiVars, events, accepting, waiting, woken, calls, answered>>

TakeShutdown ==
  /\ worker = "recv" /\ commands # <<>> /\ Head(commands) = "shutdown"
  /\ commands' = Tail(commands)
  /\ worker' = "gone"
  /\ accepting' = FALSE
  /\ UNCHANGED <<uiVars, events, tokenVars, calls, answered, outcome>>

(* Then the waiters left over from earlier turns are dropped.              *)
Rearm == /\ worker = "rearm"
         /\ worker' = "work"
         /\ waiting' = FALSE /\ woken' = FALSE
         /\ calls' = 0 /\ answered' = FALSE
         /\ UNCHANGED <<uiVars, commands, events, accepting, cancelled,
                        outcome>>

(* The head of the agent loop: a cancelled turn ends before its next call. *)
SeeCancelled == /\ worker = "work" /\ cancelled
                /\ EndTurn("cancelled")
                /\ UNCHANGED <<uiVars, commands, events, accepting, tokenVars,
                               calls, answered>>

(* Faulty variant: a call is not charged.  The phase event is left out, to *)
(* keep the state space finite.                                            *)
StartCallUncharged ==
  /\ worker = "work" /\ ~cancelled
  /\ calls < MaxCalls
  /\ answered' = FALSE
  /\ worker' = "select"
  /\ UNCHANGED <<uiVars, commands, events, accepting, tokenVars, calls,
                 outcome>>

StartCall == /\ worker = "work" /\ ~cancelled
             /\ calls < MaxCalls
             /\ calls' = calls + 1
             /\ answered' = FALSE
             /\ worker' = "select"
             /\ events' = Append(events, "phase")
             /\ UNCHANGED <<uiVars, commands, accepting, tokenVars, outcome>>

(* The turn completes, or fails in the store, the world or the budget.     *)
Finish == /\ worker = "work"
          /\ \E how \in {"completed", "failed"} :
               /\ how = "completed" => calls > 0
               /\ EndTurn(how)
          /\ UNCHANGED <<uiVars, commands, events, accepting, tokenVars,
                         calls, answered>>

(* select of the model's answer and the token: the answer is polled first, *)
(* then Cancelled::poll reads the flag.                                    *)
Select == /\ worker = "select"
          /\ \/ /\ answered
                /\ worker' = "work"
                /\ UNCHANGED outcome
             \/ /\ ~answered /\ cancelled
                /\ EndTurn("cancelled")
             \/ /\ ~answered /\ ~cancelled
                /\ worker' = "register"
                /\ UNCHANGED outcome
          /\ UNCHANGED <<uiVars, commands, events, accepting, tokenVars,
                         calls, answered>>

(* Faulty variant: the flag is not read again under the lock.              *)
RegisterBlindly == /\ worker = "register"
                   /\ waiting' = TRUE
                   /\ worker' = "parked"
                   /\ UNCHANGED <<uiVars, commands, events, accepting,
                                  cancelled, woken, calls, answered, outcome>>

(* Under the waiters' lock the flag is read again before the waker is      *)
(* left there.                                                             *)
Register == /\ worker = "register"
            /\ \/ /\ cancelled
                  /\ EndTurn("cancelled")
                  /\ UNCHANGED waiting
               \/ /\ ~cancelled
                  /\ waiting' = TRUE
                  /\ worker' = "parked"
                  /\ UNCHANGED outcome
            /\ UNCHANGED <<uiVars, commands, events, accepting, cancelled,
                           woken, calls, answered>>

Wake == /\ worker = "parked" /\ woken
        /\ woken' = FALSE
        /\ worker' = "select"
        /\ UNCHANGED <<uiVars, commands, events, accepting, cancelled,
                       waiting, calls, answered, outcome>>

(* The turn's result: a snapshot, or an error when even the snapshot after *)
(* a failed turn cannot be made.  The worker accepts the next input before *)
(* it sends the event.                                                     *)
Accept == /\ worker = "end"
          /\ accepting' = TRUE
          /\ \/ worker' = "send_snapshot"
             \/ outcome # "completed" /\ worker' = "send_error"
          /\ UNCHANGED <<uiVars, commands, events, tokenVars, calls, answered,
                         outcome>>

SendResult == /\ worker \in {"send_snapshot", "send_error"}
              /\ events' = Append(events, IF worker = "send_snapshot"
                                          THEN "snapshot" ELSE "error")
              /\ worker' = "recv"
              /\ UNCHANGED <<uiVars, commands, accepting, tokenVars, calls,
                             answered, outcome>>

(* The model provider answers the pending call, or never does.             *)
Provider == /\ worker \in {"select", "register", "parked"} /\ ~answered
            /\ answered' = TRUE
            /\ woken' = TRUE
            /\ UNCHANGED <<uiVars, commands, events, accepting, cancelled,
                           waiting, worker, calls, outcome>>

-----------------------------------------------------------------------------
Player == (\E valid \in BOOLEAN : Submit(valid)) \/ SubmitBusy \/ Cancel \/ Quit

Terminal == CancelDrain \/ Receive \/ ShutdownSwap \/ ShutdownDrain
            \/ SendShutdown \/ Join

Worker == Started \/ StartFails \/ TakeInput \/ TakeShutdown \/ Rearm
          \/ SeeCancelled \/ StartCall \/ Finish \/ Select \/ Register
          \/ Wake \/ Accept \/ SendResult

(* The game is over.                                                       *)
Exited == ui = "exited" /\ UNCHANGED vars

Next == Player \/ Terminal \/ Worker \/ Provider \/ Exited

(* Both threads run; the player and the provider owe nothing.              *)
Spec == Init /\ [][Next]_vars /\ WF_vars(Terminal) /\ WF_vars(Worker)

-----------------------------------------------------------------------------
(* A turn ends as cancelled only if a cancel or a quit followed its own    *)
(* submission: an Esc meant for an earlier turn does not stop a later one. *)
CancelIsOwn == worker = "end" /\ outcome = "cancelled" => asked

(* A cancelled turn ends even if the provider never answers: no wake-up is *)
(* lost between the cancelling and the polling thread.                     *)
CancelEnds == (cancelled /\ worker \in InTurn) ~> (worker \notin InTurn)

(* Quitting always ends the program.                                       *)
ShutdownExits == shutdown ~> (ui = "exited")

(* A provider that answers every call in the end.                          *)
Responsive == WF_vars(Provider)

(* With a responsive provider quitting ends the program at any moment,     *)
(* also between the submission of an input and its turn.                   *)
ResponsiveShutdown == Responsive => ShutdownExits

(* With a responsive provider an input is always answered: the terminal is *)
(* ready again, or closing.                                                *)
InputAnswered ==
  Responsive => (working ~> (~working \/ ui \notin {"running", "cancelling"}))
=============================================================================
