------------------------------- MODULE Prompt -------------------------------
(***************************************************************************)
(* The terminal prompt of internal/cmd/set.go: the goroutine that reads    *)
(* the value with echo off, the goroutine that waits for SIGINT, the user  *)
(* who may type ^C at any moment, and the terminal they share.  Several    *)
(* prompts run one after the other on the same terminal, as in a script,   *)
(* so what one leaves behind the next one finds.                           *)
(*                                                                         *)
(* golang.org/x/term is external: ReadPassword is three steps, reading the *)
(* attributes, turning echo off, and, when the line is complete or the     *)
(* read fails, putting the attributes it read back.                        *)
(***************************************************************************)
EXTENDS Errs

CONSTANTS MaxPrompts \* bound: how many prompts the script runs

ASSUME PromptAssumption == MaxPrompts \in Nat \ {0}

VARIABLES
  echo,      \* whether the terminal echoes
  main,      \* where the prompting goroutine is
  handler,   \* where the goroutine waiting for the signal is
  notified,  \* signal.Notify is in effect
  sig,       \* the channel of capacity one holds a signal
  state,     \* the echo setting saved by term.GetState
  attrs,     \* the one saved inside ReadPassword
  failed,    \* the read ended in an error
  status,    \* the exit status of the last process to end
  caughtAt,  \* history: where main was when the signal was caught
  prompts    \* prompts started so far

vars == <<echo, main, handler, notified, sig, state, attrs, failed, status, caughtAt, prompts>>

Running == main # "ended"

\* Is /dev/tty still open, so that term.Restore on its descriptor has an effect?
TtyOpen == main \notin {"start", "store", "ended"}

Init ==
  /\ echo = TRUE /\ main = "start" /\ handler = "none"
  /\ notified = FALSE /\ sig = FALSE
  /\ state = TRUE /\ attrs = TRUE
  /\ failed = FALSE /\ status = OK
  /\ caughtAt = "none"
  /\ prompts = 1

Goto(from, to) == main = from /\ main' = to

\* The process is gone, with whatever goroutines it had.
EndWith(s) ==
  /\ main' = "ended" /\ handler' = "none"
  /\ notified' = FALSE /\ sig' = FALSE
  /\ status' = s

\* os.OpenFile("/dev/tty") and term.GetState; no terminal is an error.
OpenTty ==
  \/ /\ Goto("start", "opened")
     /\ state' = echo
     /\ UNCHANGED <<echo, handler, notified, sig, attrs, failed, status, caughtAt, prompts>>
  \/ /\ main = "start"
     /\ EndWith(Generic)
     /\ UNCHANGED <<echo, state, attrs, failed, caughtAt, prompts>>

Notify ==
  /\ Goto("opened", "notified")
  /\ notified' = TRUE
  /\ UNCHANGED <<echo, handler, sig, state, attrs, failed, status, caughtAt, prompts>>

\* Mutant of SpawnHandler: echo is turned off before the prompt is printed, so
\* ReadPassword finds it off and puts it back to off.
SpawnHandlerSilencing ==
  /\ Goto("notified", "spawned")
  /\ handler' = "wait" /\ echo' = FALSE
  /\ UNCHANGED <<notified, sig, state, attrs, failed, status, caughtAt, prompts>>

SpawnHandler ==
  /\ Goto("notified", "spawned")
  /\ handler' = "wait"
  /\ UNCHANGED <<echo, notified, sig, state, attrs, failed, status, caughtAt, prompts>>

\* ReadPassword, after the prompt has been printed.
ReadAttrs ==
  /\ Goto("spawned", "gotattrs")
  /\ attrs' = echo
  /\ UNCHANGED <<echo, handler, notified, sig, state, failed, status, caughtAt, prompts>>

EchoOff ==
  /\ Goto("gotattrs", "reading")
  /\ echo' = FALSE
  /\ UNCHANGED <<handler, notified, sig, state, attrs, failed, status, caughtAt, prompts>>

\* The user ends the line, or the read fails or meets end of file.
EndOfRead ==
  /\ Goto("reading", "restoring")
  /\ failed' \in BOOLEAN
  /\ UNCHANGED <<echo, handler, notified, sig, state, attrs, status, caughtAt, prompts>>

RestoreAttrs ==
  /\ Goto("restoring", "read")
  /\ echo' = attrs
  /\ UNCHANGED <<handler, notified, sig, state, attrs, failed, status, caughtAt, prompts>>

\* A read that failed is followed by a Restore of prompt's own.
AfterRead ==
  /\ Goto("read", "returning")
  /\ echo' = IF failed THEN state ELSE echo
  /\ UNCHANGED <<handler, notified, sig, state, attrs, failed, status, caughtAt, prompts>>

\* The deferred signal.Stop and Close of the terminal.  The handler lives on.
Return ==
  /\ Goto("returning", "store")
  /\ notified' = FALSE
  /\ UNCHANGED <<echo, handler, sig, state, attrs, failed, status, caughtAt, prompts>>

\* Set goes on to the store, or reports the error, and the process exits.
Finish ==
  /\ main = "store"
  /\ EndWith(IF failed THEN Generic ELSE OK)
  /\ UNCHANGED <<echo, state, attrs, failed, caughtAt, prompts>>

\* Mutant of Interrupt: an unbuffered channel, which drops what nobody receives.
InterruptUnbuffered ==
  /\ Running
  /\ caughtAt' = IF notified /\ caughtAt = "none" THEN main ELSE caughtAt
  /\ IF notified
     THEN /\ sig' = (sig \/ handler = "wait")
          /\ UNCHANGED <<main, handler, notified, status>>
     ELSE EndWith(Interrupted)
  /\ UNCHANGED <<echo, state, attrs, failed, prompts>>

\* Mutant of Interrupt: signal.Notify is in effect from the start of the verb.
InterruptAlwaysCaught ==
  /\ Running
  /\ caughtAt' = IF caughtAt = "none" THEN main ELSE caughtAt
  /\ sig' = TRUE
  /\ UNCHANGED <<echo, main, handler, notified, state, attrs, failed, status, prompts>>

\* The user types ^C.  Unless the signal is being caught it ends the process.
Interrupt ==
  /\ Running
  /\ caughtAt' = IF notified /\ caughtAt = "none" THEN main ELSE caughtAt
  /\ IF notified
     THEN /\ sig' = TRUE
          /\ UNCHANGED <<main, handler, notified, status>>
     ELSE EndWith(Interrupted)
  /\ UNCHANGED <<echo, state, attrs, failed, prompts>>

ReceiveSignal ==
  /\ handler = "wait" /\ sig
  /\ handler' = "restore" /\ sig' = FALSE
  /\ UNCHANGED <<echo, main, notified, state, attrs, failed, status, caughtAt, prompts>>

\* Mutant of RestoreState: the handler exits without touching the terminal.
RestoreNothing ==
  /\ handler = "restore" /\ handler' = "exit"
  /\ UNCHANGED <<echo, main, notified, sig, state, attrs, failed, status, caughtAt, prompts>>

RestoreState ==
  /\ handler = "restore" /\ handler' = "exit"
  /\ echo' = IF TtyOpen THEN state ELSE echo
  /\ UNCHANGED <<main, notified, sig, state, attrs, failed, status, caughtAt, prompts>>

\* os.Exit(130), wherever main is by now.
ExitInterrupted ==
  /\ handler = "exit"
  /\ EndWith(Interrupted)
  /\ UNCHANGED <<echo, state, attrs, failed, caughtAt, prompts>>

\* The script's next prompt.
NextPrompt ==
  /\ ~Running /\ prompts < MaxPrompts
  /\ main' = "start"
  /\ failed' = FALSE /\ status' = OK /\ caughtAt' = "none"
  /\ prompts' = prompts + 1
  /\ UNCHANGED <<echo, handler, notified, sig, state, attrs>>

Handler == ReceiveSignal \/ RestoreState \/ ExitInterrupted

Next ==
  \/ OpenTty \/ Notify \/ SpawnHandler \/ ReadAttrs \/ EchoOff \/ EndOfRead
  \/ RestoreAttrs \/ AfterRead \/ Return \/ Finish
  \/ Interrupt \/ Handler \/ NextPrompt

\* Both goroutines run; main starts the handler without waiting for the user.
Spec == Init /\ [][Next]_vars /\ WF_vars(Handler) /\ WF_vars(Notify) /\ WF_vars(SpawnHandler)
-----------------------------------------------------------------------------
TypeOK ==
  /\ echo \in BOOLEAN /\ state \in BOOLEAN /\ attrs \in BOOLEAN
  /\ main \in {"start", "opened", "notified", "spawned", "gotattrs", "reading", "restoring",
               "read", "returning", "store", "ended"}
  /\ handler \in {"none", "wait", "restore", "exit"}
  /\ notified \in BOOLEAN /\ sig \in BOOLEAN /\ failed \in BOOLEAN
  /\ status \in Statuses
  /\ caughtAt \in {"none", "notified", "spawned", "gotattrs", "reading", "restoring", "read",
                   "returning"}
  /\ prompts \in 1..MaxPrompts

(***************************************************************************)
(* A ^C caught while the value is being typed, with echo off, leaves the   *)
(* terminal as the prompt found it, whichever goroutine gets how far       *)
(* before the process exits.                                               *)
(***************************************************************************)
InterruptedReadRestores ==
  ~Running /\ status = Interrupted /\ caughtAt \in {"reading", "restoring", "read"} =>
    echo = state

(***************************************************************************)
(* A prompt that nobody interrupts leaves the terminal as it found it,     *)
(* whether it returns a value or an error.                                 *)
(***************************************************************************)
ReturnRestores == main \in {"returning", "store"} /\ handler = "wait" => echo = state

(***************************************************************************)
(* The terminal is left as it was found, however the value was asked for:  *)
(* by a return and by a ^C while echo is off (set.go, 86-87: "A ^C during  *)
(* the prompt must not leave the terminal with echo off").                 *)
(***************************************************************************)
TerminalRestored == InterruptedReadRestores /\ ReturnRestores

(***************************************************************************)
(* A ^C that signal.Notify has taken away from the default action is never *)
(* swallowed: the process does end.                                        *)
(***************************************************************************)
InterruptEnds == (caughtAt # "none") ~> ~Running

(***************************************************************************)
(* set.go, 86: "A ^C during the prompt must not leave the terminal with    *)
(* echo off."                                                              *)
(***************************************************************************)
EchoSurvivesInterrupt == ~Running /\ status = Interrupted => echo
=============================================================================
