------------------------ MODULE RuntimeAdapterProofs ------------------------
(***************************************************************************)
(* Theorems about RuntimeAdapter for every number of turns and of model    *)
(* calls: what its liveness rests on, and whose cancel ends a turn.        *)
(***************************************************************************)
EXTENDS RuntimeAdapter, TLAPS

Commands == {"submit", "invalid", "shutdown"}

Positions == InTurn \cup {"start", "recv", "rearm", "end", "send_snapshot",
                          "send_error", "gone"}

(* The worker has an input and has not offered to accept the next one.     *)
Busy == worker \in InTurn \cup {"rearm", "end"}

TypeInv ==
  /\ commands \in Seq(Commands)
  /\ events \in Seq({"phase", "snapshot", "error"})
  /\ worker \in Positions
  /\ {accepting, cancelled, waiting, woken, working} \subseteq BOOLEAN

(* At most one input is under way, in the channel or at the worker, and    *)
(* none while the worker accepts one.                                      *)
IsInput(i) == i \in 1..Len(commands) /\ commands[i] # "shutdown"

OneInput ==
  /\ \A i, j \in 1..Len(commands) : IsInput(i) /\ IsInput(j) => i = j
  /\ Busy => ~accepting /\ \A i \in 1..Len(commands) : ~IsInput(i)
  /\ (\E i \in 1..Len(commands) : IsInput(i)) => ~accepting

(* The flag that a turn polls was raised after the turn's submission.      *)
OwnFlag == worker \in InTurn \cup {"rearm"} /\ cancelled => asked

(* A parked worker has its waker in the list or has been woken, and a      *)
(* cancel that found the flag down has still to drain the list.            *)
NoLostWakeup ==
  worker = "parked" =>
    /\ waiting \/ woken
    /\ cancelled => woken \/ ui \in {"cancelling", "shutdown_drain"}

Open == ui \in {"running", "cancelling"}

EndsAnswered == events # <<>> /\ events[Len(events)] \in {"snapshot", "error"}

(* Between turns the last event in the channel is the answer to a turn.    *)
EventsInv ==
  /\ \A i \in 1..Len(commands) : commands[i] = "shutdown" => ~Open
  /\ worker = "start" => events = <<>>
  /\ Open /\ worker = "gone" => events = <<"error">>
  /\ worker = "recv" /\ events # <<>> => EndsAnswered

(* While the terminal shows work in progress, the answer that ends it is   *)
(* in the event channel, or the worker has the input or will take it.      *)
AnswerOwed ==
  Open /\ working =>
    \/ Busy \/ worker \in {"send_snapshot", "send_error"}
    \/ worker # "gone" /\ \E i \in 1..Len(commands) : IsInput(i)
    \/ EndsAnswered

AdapterInv == TypeInv /\ OneInput /\ OwnFlag /\ CancelIsOwn /\ NoLostWakeup
              /\ EventsInv /\ AnswerOwed

-----------------------------------------------------------------------------
(* Channels.                                                               *)
LEMMA Sent ==
  ASSUME NEW S, NEW s \in Seq(S), NEW e \in S
  PROVE  /\ Append(s, e) \in Seq(S) /\ Len(Append(s, e)) = Len(s) + 1
         /\ Len(s) \in Nat /\ Append(s, e) # <<>>
         /\ Append(s, e)[Len(s) + 1] = e
         /\ \A i \in 1..Len(s) : Append(s, e)[i] = s[i]
  OBVIOUS

LEMMA Received ==
  ASSUME NEW S, NEW s \in Seq(S), s # <<>>
  PROVE  /\ Tail(s) \in Seq(S) /\ Len(Tail(s)) = Len(s) - 1
         /\ Len(s) \in Nat /\ Len(s) > 0 /\ Head(s) = s[1] /\ Head(s) \in S
         /\ \A i \in 1..Len(Tail(s)) : i + 1 \in 1..Len(s)
                                       /\ Tail(s)[i] = s[i + 1]
         /\ Tail(s) # <<>> => Len(s) > 1
  <1>1. Len(s) \in Nat /\ Len(s) > 0
    OBVIOUS
  <1>2. Tail(s) \in Seq(S) /\ Len(Tail(s)) = Len(s) - 1
    BY <1>1
  <1>3. \A i \in 1..Len(Tail(s)) : i + 1 \in 1..Len(s) /\ Tail(s)[i] = s[i + 1]
    BY <1>1, <1>2
  <1>4. Head(s) = s[1] /\ Head(s) \in S
    BY <1>1
  <1>5. Tail(s) # <<>> => Len(s) > 1
    BY <1>1, <1>2
  <1> QED
    BY <1>1, <1>2, <1>3, <1>4, <1>5

(* The steps by what they do to the channel of commands.                   *)
LEMMA StepCommands ==
  ASSUME [Next]_vars
  PROVE  \/ commands' = commands
         \/ \E valid \in BOOLEAN : Submit(valid)
         \/ SendShutdown \/ TakeInput \/ TakeShutdown
  <1>1. ASSUME Player PROVE commands' = commands
                            \/ \E valid \in BOOLEAN : Submit(valid)
    BY <1>1 DEF Player, SubmitBusy, Cancel, Quit
  <1>2. ASSUME Terminal PROVE commands' = commands \/ SendShutdown
    BY <1>2 DEF Terminal, CancelDrain, Receive, ShutdownSwap, ShutdownDrain, Join
  <1>3. ASSUME Worker PROVE commands' = commands \/ TakeInput \/ TakeShutdown
    BY <1>3 DEF Worker, Started, StartFails, Rearm, SeeCancelled, StartCall,
                Finish, Select, Register, Wake, Accept, SendResult
  <1> QED
    BY <1>1, <1>2, <1>3 DEF Next, Provider, Exited, vars

(* The steps by what they do to the channel of events.                     *)
LEMMA StepEvents ==
  ASSUME [Next]_vars
  PROVE  events' = events \/ Receive \/ StartFails \/ StartCall \/ SendResult
  <1>1. ASSUME Player PROVE events' = events
    BY <1>1 DEF Player, Submit, SubmitBusy, Cancel, Quit
  <1>2. ASSUME Terminal PROVE events' = events \/ Receive
    BY <1>2 DEF Terminal, CancelDrain, ShutdownSwap, ShutdownDrain,
                SendShutdown, Join
  <1>3. ASSUME Worker
        PROVE  events' = events \/ StartFails \/ StartCall \/ SendResult
    BY <1>3 DEF Worker, Started, TakeInput, TakeShutdown, Rearm, SeeCancelled,
                Finish, Select, Register, Wake, Accept
  <1> QED
    BY <1>1, <1>2, <1>3 DEF Next, Provider, Exited, vars

(* The worker's positions.                                                 *)
LEMMA StepWorker ==
  ASSUME TypeInv, [Next]_vars
  PROVE  worker' \in Positions
  <1>1. ASSUME Player PROVE worker' = worker
    BY <1>1 DEF Player, Submit, SubmitBusy, Cancel, Quit, workerVars
  <1>2. ASSUME Terminal PROVE worker' = worker
    BY <1>2 DEF Terminal, CancelDrain, Receive, ShutdownSwap, ShutdownDrain,
                SendShutdown, Join, workerVars
  <1>3. ASSUME Worker PROVE worker' \in Positions
    BY <1>3 DEF Worker, Started, StartFails, TakeInput, TakeShutdown, Rearm,
                SeeCancelled, StartCall, Finish, Select, Register, Wake,
                Accept, SendResult, EndTurn, Positions, InTurn
  <1> QED
    BY <1>1, <1>2, <1>3 DEF Next, Provider, Exited, vars, TypeInv

LEMMA CommandsTyped ==
  ASSUME TypeInv, [Next]_vars
  PROVE  commands' \in Seq(Commands)
  <1>1. ASSUME NEW valid \in BOOLEAN, Submit(valid)
        PROVE  commands' \in Seq(Commands)
    BY <1>1, Sent DEF Submit, TypeInv, Commands
  <1>2. CASE SendShutdown
    BY <1>2, Sent DEF SendShutdown, TypeInv, Commands
  <1>3. CASE TakeInput \/ TakeShutdown
    <2>1. commands # <<>> /\ commands' = Tail(commands)
      BY <1>3 DEF TakeInput, TakeShutdown
    <2> QED
      BY <2>1, Received DEF TypeInv
  <1> QED
    BY <1>1, <1>2, <1>3, StepCommands DEF TypeInv

LEMMA EventsTyped ==
  ASSUME TypeInv, [Next]_vars
  PROVE  events' \in Seq({"phase", "snapshot", "error"})
  <1>1. CASE Receive
    BY <1>1, Received DEF Receive, TypeInv
  <1>2. CASE StartFails \/ StartCall \/ SendResult
    <2>1. \E e \in {"phase", "snapshot", "error"} : events' = Append(events, e)
      BY <1>2 DEF StartFails, StartCall, SendResult
    <2> QED
      BY <2>1, Sent DEF TypeInv
  <1> QED
    BY <1>1, <1>2, StepEvents DEF TypeInv

LEMMA FlagsTyped ==
  ASSUME TypeInv, [Next]_vars
  PROVE  {accepting, cancelled, waiting, woken, working}' \subseteq BOOLEAN
  <1> DEFINE Flags == {accepting, cancelled, waiting, woken, working}
  <1>1. ASSUME Player PROVE Flags' \subseteq BOOLEAN
    BY <1>1 DEF Player, Submit, SubmitBusy, Cancel, Quit, tokenVars, TypeInv
  <1>2. ASSUME Terminal PROVE Flags' \subseteq BOOLEAN
    BY <1>2 DEF Terminal, CancelDrain, Drain, Receive, ShutdownSwap,
                ShutdownDrain, SendShutdown, Join, tokenVars, TypeInv
  <1>3. ASSUME Worker PROVE Flags' \subseteq BOOLEAN
    BY <1>3 DEF Worker, Started, StartFails, TakeInput, TakeShutdown, Rearm,
                SeeCancelled, StartCall, Finish, Select, Register, Wake,
                Accept, SendResult, uiVars, tokenVars, TypeInv
  <1>4. CASE Provider \/ Exited \/ UNCHANGED vars
    BY <1>4 DEF Provider, Exited, vars, uiVars, TypeInv
  <1> QED
    BY <1>1, <1>2, <1>3, <1>4 DEF Next

LEMMA TypeStep == TypeInv /\ [Next]_vars => TypeInv'
  BY CommandsTyped, EventsTyped, FlagsTyped, StepWorker DEF TypeInv

-----------------------------------------------------------------------------
(* One input at a time.                                                    *)
LEMMA OneInputStep ==
  ASSUME TypeInv, OneInput, [Next]_vars
  PROVE  OneInput'
  <1> commands \in Seq(Commands)
    BY DEF TypeInv
  <1>1. ASSUME UNCHANGED <<commands, accepting>>, Busy' => Busy
        PROVE  OneInput'
    BY <1>1 DEF OneInput, IsInput
  <1>2. ASSUME NEW valid \in BOOLEAN, Submit(valid) PROVE OneInput'
    <2>1. PICK e \in Commands : commands' = Append(commands, e)
      BY <1>2 DEF Submit, Commands
    <2>2. /\ Len(commands') = Len(commands) + 1 /\ Len(commands) \in Nat
          /\ \A i \in 1..Len(commands) : commands'[i] = commands[i]
      BY <2>1, Sent
    <2>3. accepting /\ ~accepting' /\ worker' = worker
      BY <1>2 DEF Submit, workerVars
    <2>4. \A i \in 1..Len(commands) : ~IsInput(i)
      BY <2>3 DEF OneInput
    <2>5. \A i \in 1..Len(commands') : IsInput(i)' => i = Len(commands')
      BY <2>2, <2>4 DEF IsInput
    <2> QED
      BY <2>3, <2>5 DEF OneInput, Busy
  <1>3. CASE SendShutdown
    <2>1. UNCHANGED <<accepting, worker>>
      BY <1>3 DEF SendShutdown, workerVars
    <2>2. CASE commands' = commands
      BY <1>1, <2>1, <2>2 DEF Busy
    <2>3. CASE commands' = Append(commands, "shutdown")
      <3>1. /\ Len(commands') = Len(commands) + 1 /\ Len(commands) \in Nat
            /\ \A i \in 1..Len(commands) : commands'[i] = commands[i]
            /\ commands'[Len(commands) + 1] = "shutdown"
        BY <2>3, Sent DEF Commands
      <3>2. \A i \in 1..Len(commands') : IsInput(i)' => IsInput(i)
        BY <3>1 DEF IsInput
      <3>3. \A i \in 1..Len(commands') : IsInput(i)' => i \in 1..Len(commands)
        BY <3>2 DEF IsInput
      <3> QED
        BY <2>1, <3>2, <3>3 DEF OneInput, Busy
    <2> QED
      BY <1>3, <2>2, <2>3 DEF SendShutdown
  <1>4. ASSUME commands # <<>>, commands' = Tail(commands)
        PROVE  /\ \A i \in 1..Len(commands') :
                    /\ i + 1 \in 1..Len(commands) /\ i + 1 # 1
                    /\ IsInput(i)' <=> IsInput(i + 1)
               /\ 1 \in 1..Len(commands) /\ Head(commands) = commands[1]
    BY <1>4, Received DEF IsInput
  <1>5. CASE TakeInput
    <2>1. /\ commands # <<>> /\ commands' = Tail(commands)
          /\ Head(commands) # "shutdown" /\ accepting' = accepting
      BY <1>5 DEF TakeInput
    <2>2. IsInput(1)
      BY <1>4, <2>1 DEF IsInput
    <2>3. \A i \in 1..Len(commands') : ~IsInput(i)'
      BY <1>4, <2>1, <2>2 DEF OneInput
    <2>4. ~accepting
      BY <1>4, <2>1, <2>2 DEF OneInput
    <2> QED
      BY <2>1, <2>3, <2>4 DEF OneInput
  <1>6. CASE TakeShutdown
    <2>1. /\ commands # <<>> /\ commands' = Tail(commands)
          /\ ~accepting' /\ worker' = "gone"
      BY <1>6 DEF TakeShutdown
    <2>2. \A i, j \in 1..Len(commands') : IsInput(i)' /\ IsInput(j)' => i = j
      <3>1. ASSUME NEW i \in 1..Len(commands'), NEW j \in 1..Len(commands'),
                   IsInput(i)', IsInput(j)'
            PROVE  i = j
        <4>1. i + 1 = j + 1
          BY <1>4, <2>1, <3>1 DEF OneInput
        <4> QED
          BY <4>1
      <3> QED
        BY <3>1
    <2> QED
      BY <2>1, <2>2 DEF OneInput, Busy, InTurn
  <1>7. ASSUME Player PROVE OneInput'
    <2>1. CASE SubmitBusy \/ Cancel \/ Quit
      BY <1>1, <2>1 DEF SubmitBusy, Cancel, Quit, workerVars, Busy
    <2> QED
      BY <1>2, <1>7, <2>1 DEF Player
  <1>8. ASSUME Terminal PROVE OneInput'
    <2>1. CASE \/ CancelDrain \/ Receive \/ ShutdownSwap \/ ShutdownDrain
               \/ Join
      BY <1>1, <2>1
         DEF CancelDrain, Receive, ShutdownSwap, ShutdownDrain, Join,
             workerVars, Busy
    <2> QED
      BY <1>3, <1>8, <2>1 DEF Terminal
  <1>9. ASSUME Worker PROVE OneInput'
    <2>1. CASE \/ Started \/ Rearm \/ SeeCancelled \/ StartCall \/ Finish
               \/ Select \/ Register \/ Wake \/ SendResult
      BY <1>1, <2>1
         DEF Started, Rearm, SeeCancelled, StartCall, Finish, Select,
             Register, Wake, SendResult, EndTurn, Busy, InTurn
    <2>2. CASE StartFails
      BY <2>2 DEF StartFails, OneInput, IsInput, Busy, InTurn
    <2>3. CASE Accept
      BY <2>3 DEF Accept, OneInput, IsInput, Busy, InTurn
    <2> QED
      BY <1>5, <1>6, <1>9, <2>1, <2>2, <2>3 DEF Worker
  <1>10. CASE Provider \/ Exited \/ UNCHANGED vars
    BY <1>1, <1>10 DEF Provider, Exited, vars, Busy
  <1> QED
    BY <1>7, <1>8, <1>9, <1>10 DEF Next

(* The flag and the outcome of a turn.                                     *)
LEMMA OwnFlagStep ==
  ASSUME TypeInv, OneInput, OwnFlag, CancelIsOwn, [Next]_vars
  PROVE  OwnFlag' /\ CancelIsOwn'
  <1>1. ASSUME worker' = worker, outcome' = outcome,
               asked' \/ (asked' = asked /\ cancelled' = cancelled)
        PROVE  OwnFlag' /\ CancelIsOwn'
    BY <1>1 DEF OwnFlag, CancelIsOwn
  <1>2. ASSUME worker' \notin InTurn \cup {"rearm", "end"}
        PROVE  OwnFlag' /\ CancelIsOwn'
    BY <1>2 DEF OwnFlag, CancelIsOwn
  <1>3. ASSUME worker \in InTurn \cup {"rearm"}, asked' = asked,
               cancelled' = cancelled,
               worker' = "end" /\ outcome' = "cancelled" => cancelled
        PROVE  OwnFlag' /\ CancelIsOwn'
    BY <1>3 DEF OwnFlag, CancelIsOwn
  <1>4. ASSUME Player PROVE OwnFlag' /\ CancelIsOwn'
    <2>1. ASSUME NEW valid \in BOOLEAN, Submit(valid)
          PROVE  worker' \notin InTurn \cup {"rearm", "end"}
      BY <2>1 DEF Submit, workerVars, OneInput, Busy
    <2>2. CASE SubmitBusy \/ Cancel \/ Quit
      BY <1>1, <2>2 DEF SubmitBusy, Cancel, Quit, workerVars, tokenVars
    <2> QED
      BY <1>2, <1>4, <2>1, <2>2 DEF Player
  <1>5. ASSUME Terminal PROVE OwnFlag' /\ CancelIsOwn'
    BY <1>1, <1>5
       DEF Terminal, CancelDrain, Receive, ShutdownSwap, ShutdownDrain,
           SendShutdown, Join, workerVars, tokenVars
  <1>6. ASSUME Worker PROVE OwnFlag' /\ CancelIsOwn'
    <2>1. CASE Started \/ StartFails \/ TakeShutdown \/ Accept \/ SendResult
      BY <1>2, <2>1 DEF Started, StartFails, TakeShutdown, Accept, SendResult,
                        InTurn
    <2>2. CASE TakeInput
      BY <2>2 DEF TakeInput, EndTurn, OwnFlag, CancelIsOwn, InTurn
    <2>3. CASE Rearm \/ SeeCancelled \/ StartCall \/ Wake
      BY <1>3, <2>3 DEF Rearm, SeeCancelled, StartCall, Wake, EndTurn, uiVars,
                        tokenVars, InTurn
    <2>4. CASE Finish
      BY <1>3, <2>4 DEF Finish, EndTurn, uiVars, tokenVars, InTurn
    <2>5. CASE Select \/ Register
      BY <1>3, <2>5 DEF Select, Register, EndTurn, uiVars, tokenVars, InTurn
    <2> QED
      BY <1>6, <2>1, <2>2, <2>3, <2>4, <2>5 DEF Worker
  <1>7. CASE Provider \/ Exited \/ UNCHANGED vars
    BY <1>1, <1>7 DEF Provider, Exited, vars, uiVars
  <1> QED
    BY <1>4, <1>5, <1>6, <1>7 DEF Next

(* The waker of a parked worker.                                           *)
LEMMA WakeupStep ==
  ASSUME TypeInv, NoLostWakeup, [Next]_vars
  PROVE  NoLostWakeup'
  <1>1. ASSUME worker' # "parked" PROVE NoLostWakeup'
    BY <1>1 DEF NoLostWakeup
  <1>2. ASSUME UNCHANGED <<worker, cancelled, waiting, woken>>,
               ui \in {"cancelling", "shutdown_drain"} => ui' = ui
        PROVE  NoLostWakeup'
    BY <1>2 DEF NoLostWakeup
  <1>3. ASSUME UNCHANGED worker, woken' PROVE NoLostWakeup'
    BY <1>3 DEF NoLostWakeup
  <1>4. ASSUME Player PROVE NoLostWakeup'
    <2>1. ASSUME NEW valid \in BOOLEAN, Submit(valid) PROVE NoLostWakeup'
      BY <1>2, <2>1 DEF Submit, workerVars, tokenVars
    <2>2. CASE SubmitBusy \/ Quit
      BY <1>2, <2>2 DEF SubmitBusy, Quit, LoopFails, workerVars, tokenVars
    <2>3. CASE Cancel
      BY <2>3 DEF Cancel, NoLostWakeup, workerVars
    <2> QED
      BY <1>4, <2>1, <2>2, <2>3 DEF Player
  <1>5. ASSUME Terminal PROVE NoLostWakeup'
    <2>1. CASE CancelDrain \/ ShutdownDrain
      BY <2>1 DEF CancelDrain, ShutdownDrain, Drain, NoLostWakeup, workerVars
    <2>2. CASE ShutdownSwap
      BY <2>2 DEF ShutdownSwap, NoLostWakeup, workerVars
    <2>3. CASE Receive \/ SendShutdown \/ Join
      BY <1>2, <2>3 DEF Receive, SendShutdown, Join, workerVars, tokenVars
    <2> QED
      BY <1>5, <2>1, <2>2, <2>3 DEF Terminal
  <1>6. ASSUME Worker PROVE NoLostWakeup'
    <2>1. CASE \/ Started \/ StartFails \/ TakeInput \/ TakeShutdown
               \/ Rearm \/ SeeCancelled \/ StartCall \/ Finish \/ Select
               \/ Wake \/ Accept \/ SendResult
      BY <1>1, <2>1
         DEF Started, StartFails, TakeInput, TakeShutdown, Rearm, SeeCancelled,
             StartCall, Finish, Select, Wake, Accept, SendResult, EndTurn
    <2>2. CASE Register
      BY <2>2 DEF Register, EndTurn, NoLostWakeup
    <2> QED
      BY <1>6, <2>1, <2>2 DEF Worker
  <1>7. CASE Provider
    BY <1>3, <1>7 DEF Provider
  <1>8. CASE Exited \/ UNCHANGED vars
    BY <1>2, <1>8 DEF Exited, vars
  <1> QED
    BY <1>4, <1>5, <1>6, <1>7, <1>8 DEF Next

-----------------------------------------------------------------------------
(* The answer that the terminal waits for.                                 *)
LEMMA EventsStep ==
  ASSUME TypeInv, OneInput, EventsInv, [Next]_vars
  PROVE  EventsInv'
  <1> DEFINE NoShutdown == \A i \in 1..Len(commands) :
                             commands[i] = "shutdown" => ~Open
             Rest == /\ worker = "start" => events = <<>>
                     /\ Open /\ worker = "gone" => events = <<"error">>
                     /\ worker = "recv" /\ events # <<>> => EndsAnswered
  <1> commands \in Seq(Commands)
    BY DEF TypeInv
  <1>1. ~Open => ~Open'
    <2>1. ASSUME Player, ~Open PROVE ~Open'
      BY <2>1 DEF Player, Submit, SubmitBusy, LoopFails, Cancel, Quit, Open
    <2>2. ASSUME Terminal, ~Open PROVE ~Open'
      BY <2>2 DEF Terminal, CancelDrain, Receive, LoopFails, ShutdownSwap,
                  ShutdownDrain, SendShutdown, Join, Open
    <2>3. ASSUME Worker PROVE ui' = ui
      BY <2>3 DEF Worker, Started, StartFails, TakeInput, TakeShutdown, Rearm,
                  SeeCancelled, StartCall, Finish, Select, Register, Wake,
                  Accept, SendResult, uiVars
    <2> QED
      BY <2>1, <2>2, <2>3 DEF Next, Provider, Exited, vars, uiVars, Open
  <1>2. NoShutdown'
    <2>1. CASE commands' = commands
      BY <1>1, <2>1 DEF EventsInv
    <2>2. ASSUME NEW valid \in BOOLEAN, Submit(valid) PROVE NoShutdown'
      <3>1. PICK e \in Commands \ {"shutdown"} : commands' = Append(commands, e)
        BY <2>2 DEF Submit, Commands
      <3>2. /\ Len(commands') = Len(commands) + 1 /\ Len(commands) \in Nat
            /\ \A i \in 1..Len(commands) : commands'[i] = commands[i]
            /\ commands'[Len(commands) + 1] # "shutdown"
        BY <3>1, Sent
      <3> QED
        BY <1>1, <3>2 DEF EventsInv
    <2>3. CASE SendShutdown
      BY <2>3 DEF SendShutdown, Open
    <2>4. CASE TakeInput \/ TakeShutdown
      <3>1. commands # <<>> /\ commands' = Tail(commands)
        BY <2>4 DEF TakeInput, TakeShutdown
      <3> QED
        BY <1>1, <3>1, Received DEF EventsInv
    <2> QED
      BY <2>1, <2>2, <2>3, <2>4, StepCommands
  <1>3. Rest'
    <2>1. ASSUME events' = events, worker' = worker PROVE Rest'
      BY <1>1, <2>1 DEF EventsInv, EndsAnswered
    <2>2. ASSUME worker' \notin {"start", "recv", "gone"} PROVE Rest'
      BY <2>2
    <2>3. ASSUME Player PROVE Rest'
      BY <2>1, <2>3 DEF Player, Submit, SubmitBusy, Cancel, Quit, workerVars
    <2>4. CASE Receive
      <3>1. /\ events # <<>> /\ events' = Tail(events) /\ worker' = worker
            /\ Head(events) = "error" => ui' = "quit"
        BY <2>4 DEF Receive, LoopFails, workerVars
      <3>2. worker # "start"
        BY <3>1 DEF EventsInv
      <3>3. ASSUME worker' = "gone" PROVE ~Open'
        <4>1. CASE Open
          <5>1. events = <<"error">>
            BY <3>1, <3>3, <4>1 DEF EventsInv
          <5> QED
            BY <3>1, <5>1 DEF Open
        <4> QED
          BY <1>1, <4>1
      <3>4. ASSUME worker' = "recv", events' # <<>> PROVE EndsAnswered'
        <4>1. EndsAnswered
          BY <3>1, <3>4 DEF EventsInv
        <4>2. /\ Len(events') = Len(events) - 1 /\ Len(events) \in Nat
              /\ Len(events) > 1
              /\ \A i \in 1..Len(events') : events'[i] = events[i + 1]
          BY <3>1, <3>4, Received DEF TypeInv
        <4>3. events'[Len(events')] = events[Len(events)]
          BY <4>2
        <4> QED
          BY <3>4, <4>1, <4>3 DEF EndsAnswered
      <3> QED
        BY <3>1, <3>2, <3>3, <3>4
    <2>5. ASSUME Terminal PROVE Rest'
      <3>1. CASE CancelDrain \/ ShutdownSwap \/ ShutdownDrain \/ SendShutdown
                 \/ Join
        BY <2>1, <3>1
           DEF CancelDrain, ShutdownSwap, ShutdownDrain, SendShutdown, Join,
               workerVars
      <3> QED
        BY <2>4, <2>5, <3>1 DEF Terminal
    <2>6. CASE Started
      BY <2>6 DEF Started, EventsInv
    <2>7. CASE StartFails
      BY <2>7 DEF StartFails, EventsInv
    <2>8. CASE TakeShutdown
      <3>1. /\ commands # <<>> /\ Head(commands) = "shutdown"
            /\ worker' = "gone" /\ ui' = ui
        BY <2>8 DEF TakeShutdown, uiVars
      <3>2. 1 \in 1..Len(commands) /\ commands[1] = "shutdown"
        BY <3>1, Received
      <3> QED
        BY <3>1, <3>2 DEF EventsInv, Open
    <2>9. CASE SendResult
      <3>1. /\ worker' = "recv"
            /\ \E e \in {"snapshot", "error"} : events' = Append(events, e)
        BY <2>9 DEF SendResult
      <3> QED
        BY <3>1, Sent DEF TypeInv, EndsAnswered
    <2>10. CASE \/ TakeInput \/ Rearm \/ SeeCancelled \/ StartCall \/ Finish
                \/ Select \/ Register \/ Wake \/ Accept
      BY <2>2, <2>10 DEF TakeInput, Rearm, SeeCancelled, StartCall, Finish,
                         Select, Register, Wake, Accept, EndTurn
    <2>11. CASE Provider \/ Exited \/ UNCHANGED vars
      BY <2>1, <2>11 DEF Provider, Exited, vars
    <2> QED
      BY <2>3, <2>5, <2>6, <2>7, <2>8, <2>9, <2>10, <2>11 DEF Next, Worker
  <1> QED
    BY <1>2, <1>3 DEF EventsInv

LEMMA OwedStep ==
  ASSUME TypeInv, TypeInv', OneInput, EventsInv, EventsInv', AnswerOwed,
         [Next]_vars
  PROVE  AnswerOwed'
  <1>1. ASSUME UNCHANGED <<commands, events, worker, working>>, Open' => Open
        PROVE  AnswerOwed'
    BY <1>1 DEF AnswerOwed, Busy, IsInput, EndsAnswered
  <1>2. ASSUME ~Open' PROVE AnswerOwed'
    BY <1>2 DEF AnswerOwed
  <1>3. ASSUME \/ Busy' \/ worker' \in {"send_snapshot", "send_error"}
               \/ EndsAnswered'
        PROVE  AnswerOwed'
    BY <1>3 DEF AnswerOwed
  <1>4. ASSUME NEW valid \in BOOLEAN, Submit(valid) PROVE AnswerOwed'
    <2>1. PICK e \in Commands \ {"shutdown"} : commands' = Append(commands, e)
      BY <1>4 DEF Submit, Commands
    <2>2. /\ Len(commands') = Len(commands) + 1 /\ Len(commands) \in Nat
          /\ commands'[Len(commands')] # "shutdown"
      BY <2>1, Sent DEF TypeInv
    <2>3. Len(commands') \in 1..Len(commands')
      BY <2>2
    <2>4. \E i \in 1..Len(commands') : IsInput(i)'
      BY <2>2, <2>3 DEF IsInput
    <2>5. Open /\ UNCHANGED <<events, worker>>
      BY <1>4 DEF Submit, Open, workerVars
    <2>6. ASSUME worker = "gone" PROVE EndsAnswered'
      <3>1. events = <<"error">>
        BY <2>5, <2>6 DEF EventsInv
      <3>2. events # <<>> /\ Len(events) = 1 /\ events[1] = "error"
        BY <3>1
      <3> QED
        BY <2>5, <3>2 DEF EndsAnswered
    <2> QED
      BY <2>4, <2>5, <2>6 DEF AnswerOwed
  <1>5. ASSUME Player PROVE AnswerOwed'
    <2>1. CASE SubmitBusy \/ Quit
      BY <1>2, <2>1 DEF SubmitBusy, Quit, LoopFails, Open
    <2>2. CASE Cancel
      BY <1>1, <2>2 DEF Cancel, workerVars, Open
    <2> QED
      BY <1>4, <1>5, <2>1, <2>2 DEF Player
  <1>6. CASE Receive
    <2>1. /\ events # <<>> /\ events' = Tail(events) /\ Open
          /\ UNCHANGED <<worker, commands>>
      BY <1>6 DEF Receive, workerVars, Open
    <2>2. ASSUME Open', working' PROVE Head(events) = "phase"
      BY <1>6, <2>2 DEF Receive, LoopFails, Open
    <2>3. ASSUME Head(events) = "phase", worker = "recv"
          PROVE  EndsAnswered'
      <3>1. events[1] = "phase" /\ Len(events) \in Nat /\ Len(events) > 0
        BY <2>1, <2>3, Received DEF TypeInv
      <3>2. EndsAnswered
        BY <2>1, <2>3 DEF EventsInv
      <3>3. Len(events) > 1
        BY <3>1, <3>2 DEF EndsAnswered
      <3>4. /\ Len(events') = Len(events) - 1
            /\ events'[Len(events')] = events[Len(events)]
        BY <2>1, <3>3, Received DEF TypeInv
      <3>5. events' # <<>>
        BY <3>3, <3>4
      <3> QED
        BY <3>2, <3>4, <3>5 DEF EndsAnswered
    <2>4. ASSUME Head(events) = "phase"
          PROVE  worker # "start" /\ worker # "gone"
      BY <2>1, <2>4 DEF EventsInv
    <2>5. worker \in Positions
      BY DEF TypeInv
    <2> QED
      BY <1>3, <2>1, <2>2, <2>3, <2>4, <2>5 DEF AnswerOwed, Busy, Positions
  <1>7. ASSUME Terminal PROVE AnswerOwed'
    <2>1. CASE CancelDrain
      BY <1>1, <2>1 DEF CancelDrain, workerVars, Open
    <2>2. CASE ShutdownSwap \/ ShutdownDrain \/ SendShutdown \/ Join
      BY <1>2, <2>2 DEF ShutdownSwap, ShutdownDrain, SendShutdown, Join, Open
    <2> QED
      BY <1>6, <1>7, <2>1, <2>2 DEF Terminal
  <1>8. ASSUME Worker PROVE AnswerOwed'
    <2>1. CASE Started
      BY <2>1 DEF Started, uiVars, AnswerOwed, Busy, InTurn, IsInput,
                  EndsAnswered, Open
    <2>2. CASE StartFails
      <3>1. events' = Append(events, "error")
        BY <2>2 DEF StartFails
      <3> QED
        BY <1>3, <3>1, Sent DEF TypeInv, EndsAnswered
    <2>3. CASE TakeShutdown
      <3>1. /\ commands # <<>> /\ Head(commands) = "shutdown" /\ ui' = ui
        BY <2>3 DEF TakeShutdown, uiVars
      <3>2. 1 \in 1..Len(commands) /\ commands[1] = "shutdown"
        BY <3>1, Received DEF TypeInv
      <3> QED
        BY <1>2, <3>1, <3>2 DEF EventsInv, Open
    <2>4. CASE SendResult
      <3>1. \E e \in {"snapshot", "error"} : events' = Append(events, e)
        BY <2>4 DEF SendResult
      <3> QED
        BY <1>3, <3>1, Sent DEF TypeInv, EndsAnswered
    <2>5. CASE \/ TakeInput \/ Rearm \/ SeeCancelled \/ StartCall \/ Finish
               \/ Select \/ Register \/ Wake
      BY <1>3, <2>5 DEF TakeInput, Rearm, SeeCancelled, StartCall, Finish,
                        Select, Register, Wake, EndTurn, Busy, InTurn
    <2>6. CASE Accept
      BY <1>3, <2>6 DEF Accept
    <2> QED
      BY <1>8, <2>1, <2>2, <2>3, <2>4, <2>5, <2>6 DEF Worker
  <1>9. CASE Provider \/ Exited \/ UNCHANGED vars
    BY <1>1, <1>9 DEF Provider, Exited, vars, uiVars, Open
  <1> QED
    BY <1>5, <1>7, <1>8, <1>9 DEF Next

LEMMA AdapterInit == Init => AdapterInv
  <1> SUFFICES ASSUME Init PROVE AdapterInv
    OBVIOUS
  <1>1. commands = <<>> /\ events = <<>> /\ worker = "start"
    BY DEF Init
  <1>2. TypeInv
    <2>1. commands \in Seq(Commands)
          /\ events \in Seq({"phase", "snapshot", "error"})
      BY <1>1
    <2>2. {accepting, cancelled, waiting, woken, working} \subseteq BOOLEAN
      BY DEF Init
    <2> QED
      BY <1>1, <2>1, <2>2 DEF TypeInv, Positions
  <1> QED
    BY <1>1, <1>2
       DEF Init, AdapterInv, OneInput, Busy, InTurn, IsInput, OwnFlag,
           CancelIsOwn, NoLostWakeup, EventsInv, AnswerOwed

LEMMA AdapterStep == AdapterInv /\ [Next]_vars => AdapterInv'
  BY TypeStep, OneInputStep, OwnFlagStep, WakeupStep, EventsStep, OwedStep
     DEF AdapterInv

THEOREM AdapterInvariant == Spec => []AdapterInv
  BY AdapterInit, AdapterStep, PTL DEF Spec

(* A turn of the worker ends as cancelled only if the player cancelled or  *)
(* quit after submitting it (handle_player_input re-arms the token).       *)
THEOREM CancelOwn == Spec => []CancelIsOwn
  BY AdapterInvariant, PTL DEF AdapterInv

(* CancellationToken::cancel and Cancelled::poll lose no wake-up: a parked *)
(* worker that was cancelled has been woken, or is about to be.            *)
THEOREM WakeupKept == Spec => []NoLostWakeup
  BY AdapterInvariant, PTL DEF AdapterInv

(* The terminal never shows work in progress that nobody will end: the     *)
(* answer is on its way, or the worker has the input or will take it.      *)
THEOREM AnswerKept == Spec => []AnswerOwed
  BY AdapterInvariant, PTL DEF AdapterInv
=============================================================================
