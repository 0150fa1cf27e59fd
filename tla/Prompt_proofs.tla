---------------------------- MODULE Prompt_proofs ----------------------------
(***************************************************************************)
(* Proofs about the terminal prompt, for any number of prompts on one      *)
(* terminal and any number of ^C, at any moment.                           *)
(***************************************************************************)
EXTENDS Prompt, TLAPS

\* Where the value is being typed or has just been, and echo may be off.
Typing == {"reading", "restoring", "read"}

\* The goroutine that waits for the signal lives from its start to the end of
\* the process, and signals are caught from Notify to Stop.
HandlerInv ==
  /\ handler = "none" <=> main \in {"start", "opened", "notified", "ended"}
  /\ notified <=> main \notin {"start", "opened", "store", "ended"}
  /\ sig => main \notin {"start", "opened", "ended"}

\* A signal is caught where main was at that moment or before it.
CaughtInv ==
  /\ main \in {"start", "opened"} => caughtAt = "none"
  /\ sig \/ handler \in {"restore", "exit"} => caughtAt # "none"
  /\ caughtAt \in Typing => main \in Typing \union {"returning", "store", "ended"}

\* Outside of the reading itself the terminal is as the prompt found it, and a
\* handler that has caught a signal during the reading has put it back.
EchoInv ==
  /\ main \in {"gotattrs", "reading", "restoring", "read"} => attrs = state
  /\ main \notin {"start", "reading", "restoring", "ended"} => echo = state
  /\ caughtAt \in Typing /\ handler = "exit" => echo = state

IInv == TypeOK /\ HandlerInv /\ CaughtInv /\ EchoInv /\ InterruptedReadRestores
-----------------------------------------------------------------------------
\* The statuses a prompt ends with; Interrupted is none of the others.
LEMMA StatusTypes ==
  /\ {OK, Generic, Interrupted} \subseteq Statuses
  /\ Interrupted \notin {OK, Generic}
  BY DEF Statuses, OK, Generic, Interrupted

LEMMA InitIInv == Init => IInv
<1> SUFFICES ASSUME Init PROVE IInv
  OBVIOUS
<1>1. TypeOK
  <2>1. 1 \in 1..MaxPrompts
    BY PromptAssumption
  <2> QED
    BY <2>1, StatusTypes DEF Init, TypeOK
<1>2. HandlerInv /\ CaughtInv /\ EchoInv /\ InterruptedReadRestores
  BY DEF Init, HandlerInv, CaughtInv, EchoInv, Typing, InterruptedReadRestores, Running
<1> QED
  BY <1>1, <1>2 DEF IInv

\* Steps of the prompting goroutine.
LEMMA MainKeepsIInv ==
  ASSUME IInv,
         \/ OpenTty \/ Notify \/ SpawnHandler \/ ReadAttrs \/ EchoOff
         \/ EndOfRead \/ RestoreAttrs \/ AfterRead \/ Return \/ Finish
  PROVE  IInv'
<1> USE DEF IInv, TypeOK, HandlerInv, CaughtInv, EchoInv, InterruptedReadRestores, Typing, Running,
        Goto, EndWith
<1>1. CASE OpenTty
  <2>1. TypeOK'
    BY <1>1, StatusTypes DEF OpenTty
  <2>2. HandlerInv' /\ CaughtInv' /\ EchoInv' /\ InterruptedReadRestores'
    BY <1>1, StatusTypes DEF OpenTty
  <2> QED
    BY <2>1, <2>2
<1>2. CASE Notify
  BY <1>2 DEF Notify
<1>3. CASE SpawnHandler
  BY <1>3 DEF SpawnHandler
<1>4. CASE ReadAttrs
  BY <1>4 DEF ReadAttrs
<1>5. CASE EchoOff
  BY <1>5 DEF EchoOff
<1>6. CASE EndOfRead
  BY <1>6 DEF EndOfRead
<1>7. CASE RestoreAttrs
  BY <1>7 DEF RestoreAttrs
<1>8. CASE AfterRead
  BY <1>8 DEF AfterRead
<1>9. CASE Return
  BY <1>9 DEF Return
<1>10. CASE Finish
  BY <1>10, StatusTypes DEF Finish
<1> QED
  BY <1>1, <1>2, <1>3, <1>4, <1>5, <1>6, <1>7, <1>8, <1>9, <1>10

\* The user's ^C, the goroutine that waits for it, and the next prompt.
LEMMA SignalsKeepIInv == IInv /\ (Interrupt \/ Handler \/ NextPrompt) => IInv'
<1> SUFFICES ASSUME IInv, Interrupt \/ Handler \/ NextPrompt PROVE IInv'
  OBVIOUS
<1> USE DEF IInv, TypeOK, HandlerInv, CaughtInv, EchoInv, InterruptedReadRestores, Typing, Running,
        Goto, EndWith
<1>1. CASE Interrupt
  BY <1>1, StatusTypes DEF Interrupt
<1>2. CASE ReceiveSignal
  BY <1>2 DEF ReceiveSignal
<1>3. CASE RestoreState
  BY <1>3 DEF RestoreState, TtyOpen
<1>4. CASE ExitInterrupted
  BY <1>4, StatusTypes DEF ExitInterrupted
<1>5. CASE NextPrompt
  <2>1. prompts' \in 1..MaxPrompts
    BY <1>5, PromptAssumption DEF NextPrompt
  <2>2. TypeOK'
    BY <1>5, <2>1, StatusTypes DEF NextPrompt
  <2>3. HandlerInv' /\ CaughtInv' /\ EchoInv' /\ InterruptedReadRestores'
    BY <1>5 DEF NextPrompt
  <2> QED
    BY <2>2, <2>3
<1> QED
  BY <1>1, <1>2, <1>3, <1>4, <1>5 DEF Handler

\* The inductive invariant: every step of either goroutine and of the user keeps it.
THEOREM IInvHolds == Spec => []IInv
<1>1. IInv /\ UNCHANGED vars => IInv'
  BY DEF IInv, TypeOK, HandlerInv, CaughtInv, EchoInv, InterruptedReadRestores, Running, vars
<1>2. IInv /\ [Next]_vars => IInv'
  BY <1>1, MainKeepsIInv, SignalsKeepIInv DEF Next
<1> QED
  BY InitIInv, <1>2, PTL DEF Spec
-----------------------------------------------------------------------------
(***************************************************************************)
(* Typing; with it, that no signal is caught outside Notify and Stop.      *)
(***************************************************************************)
THEOREM TypeCorrect == Spec => []TypeOK
<1>1. IInv => TypeOK
  BY DEF IInv
<1> QED
  BY IInvHolds, <1>1, PTL

(***************************************************************************)
(* The terminal is as prompt found it: after prompt has returned, with a   *)
(* value or with an error, and after a ^C that was caught while echo was   *)
(* off, however the two goroutines interleave.                             *)
(***************************************************************************)
THEOREM TerminalIsRestored == Spec => []TerminalRestored
<1>1. IInv => InterruptedReadRestores
  BY DEF IInv
<1>2. IInv => ReturnRestores
  BY DEF IInv, EchoInv, ReturnRestores
<1>3. IInv => TerminalRestored
  BY <1>1, <1>2 DEF TerminalRestored
<1> QED
  BY IInvHolds, <1>3, PTL
=============================================================================
