----------------------------- MODULE CopyHandoff -----------------------------
(***************************************************************************)
(* The two halves of the copy verb, internal/cmd/copy.go: the process the  *)
(* user waits for, which spawns the other half, hands it the value over a  *)
(* pipe and waits for its report; and the background process, which takes  *)
(* the clipboard through the first backend that works (Serve of            *)
(* internal/clipboard/clipboard.go) and holds it until the deadline.  The  *)
(* pipes, the timers, the display server and the user who may press ^C     *)
(* meanwhile act between any two steps of either.                          *)
(*                                                                         *)
(* What a backend does on the wire is in X11Selection and                  *)
(* WaylandSelection; here it is what those promise: the selection is taken *)
(* at some moment, and confirmed only after it was.                        *)
(***************************************************************************)
EXTENDS Naturals, Sequences

VARIABLES
  parent,    \* where spawnServer is, or how copy ended
  child,     \* where CopyServe is
  large,     \* the value does not fit into a pipe
  sent,      \* how much of it the parent has written
  got,       \* how much of it the child has read
  status,    \* what the child has written to the status pipe
  open,      \* the child still has the status pipe open
  timedOut,  \* the read deadline of the status pipe has passed
  expired,   \* the context's deadline, --clear-after, has passed
  selection, \* who owns the clipboard: "none", "kleidos" or "other"
  confirmed  \* history: the display server has confirmed our ownership

pipes == <<large, sent, status, open>>
vars == <<parent, child, pipes, got, timedOut, expired, selection, confirmed>>

Init ==
  /\ parent = "start" /\ child = "none"
  /\ large \in BOOLEAN /\ sent = "nothing" /\ got = "nothing"
  /\ status = <<>> /\ open = TRUE
  /\ timedOut = FALSE /\ expired = FALSE
  /\ selection \in {"none", "other"} /\ confirmed = FALSE
-----------------------------------------------------------------------------
(***************************************************************************)
(* The parent.                                                             *)
(***************************************************************************)
ParentGoto(from, to) == parent = from /\ parent' = to

\* Bad arguments, no terminal, no such key, no pipe, or no process.
Refuse ==
  /\ ParentGoto("start", "failed")
  /\ UNCHANGED <<child, pipes, got, timedOut, expired, selection, confirmed>>

Spawn ==
  /\ ParentGoto("start", "write")
  /\ child' = "exec"
  /\ UNCHANGED <<pipes, got, timedOut, expired, selection, confirmed>>

\* A large value fills the pipe; the rest waits for the child to read, and
\* fails once the child has died.  Either way the pipe is closed after it.
WriteValue ==
  /\ \/ large /\ sent = "nothing" /\ sent' = "part" /\ UNCHANGED parent
     \/ ~large /\ sent' = "whole" /\ ParentGoto("write", "await")
     \/ sent = "part" /\ child = "read" /\ sent' = "whole" /\ ParentGoto("write", "await")
     \/ child = "gone" /\ UNCHANGED sent /\ ParentGoto("write", "await")
  /\ parent = "write"
  /\ UNCHANGED <<child, large, got, status, open, timedOut, expired, selection, confirmed>>

\* Mutant of Judge: any report will do.
JudgeAnyReport(seen) == IF seen # <<>> THEN "copied" ELSE "wait"

Judge(seen) == IF seen = <<"ok">> THEN "copied" ELSE "wait"

\* The status pipe is read to its end.
ReadStatus ==
  /\ ~open
  /\ ParentGoto("await", Judge(status))
  /\ UNCHANGED <<child, pipes, got, timedOut, expired, selection, confirmed>>

\* Mutant of StatusDeadline: no SetReadDeadline.
NoDeadline == FALSE /\ UNCHANGED vars

\* A read after the deadline fails even if there is something to read, so what
\* the child has written by now may or may not have been seen.
StatusDeadline ==
  /\ timedOut
  /\ \E seen \in {<<>>, status} :
       ParentGoto("await", IF seen = <<"ok">> THEN "copied" ELSE "kill")
  /\ UNCHANGED <<child, pipes, got, timedOut, expired, selection, confirmed>>

\* The display server drops a selection with its owner's connection.
Dropped == IF selection = "kleidos" THEN "none" ELSE selection

\* Mutant of KillChild: the slow child is only waited for no longer.
AbandonChild ==
  /\ ParentGoto("kill", "failed")
  /\ UNCHANGED <<child, pipes, got, timedOut, expired, selection, confirmed>>

KillChild ==
  /\ ParentGoto("kill", "wait")
  /\ child' = "gone" /\ open' = FALSE /\ selection' = Dropped
  /\ UNCHANGED <<large, sent, got, status, timedOut, expired, confirmed>>

Wait ==
  /\ child = "gone"
  /\ ParentGoto("wait", "failed")
  /\ UNCHANGED <<child, pipes, got, timedOut, expired, selection, confirmed>>

Parent == WriteValue \/ ReadStatus \/ StatusDeadline \/ KillChild \/ Wait

\* Ten seconds are over.
Timeout ==
  /\ parent = "await" /\ ~timedOut /\ timedOut' = TRUE
  /\ UNCHANGED <<parent, child, pipes, got, expired, selection, confirmed>>

\* ^C at the terminal: the child has a session of its own and is not hit.
Interrupt ==
  /\ parent \in {"write", "await", "kill", "wait"} /\ parent' = "interrupted"
  /\ UNCHANGED <<child, pipes, got, timedOut, expired, selection, confirmed>>
-----------------------------------------------------------------------------
(***************************************************************************)
(* The child.                                                              *)
(***************************************************************************)
ChildGoto(from, to) == child = from /\ child' = to

\* The arguments are those spawnServer made, and fd 3 is the status pipe.
CopyServe ==
  /\ ChildGoto("exec", "read")
  /\ UNCHANGED <<parent, pipes, got, timedOut, expired, selection, confirmed>>

\* ReadAll returns when the write end is closed, by the parent or by its death.
\* Serve refuses an empty value; else the deadline starts now.
ReadValue ==
  /\ \/ /\ parent # "write" /\ got' = sent
        /\ ChildGoto("read", IF sent = "nothing" THEN "report" ELSE "wayland")
     \/ ChildGoto("read", "report") /\ UNCHANGED got
  /\ UNCHANGED <<parent, pipes, timedOut, expired, selection, confirmed>>

Expire ==
  /\ child \notin {"none", "exec", "read", "gone"} /\ ~expired /\ expired' = TRUE
  /\ UNCHANGED <<parent, child, pipes, got, timedOut, selection, confirmed>>

\* A backendError: nothing was offered, and the next backend is tried.
Unavailable ==
  /\ ChildGoto("wayland", "x11") \/ ChildGoto("x11", "report")
  /\ UNCHANGED <<parent, pipes, got, timedOut, expired, selection, confirmed>>

TakeSelection ==
  /\ ChildGoto("wayland", "confirm") \/ ChildGoto("x11", "confirm")
  /\ selection' = "kleidos"
  /\ UNCHANGED <<parent, pipes, got, timedOut, expired, confirmed>>

Confirm ==
  /\ selection = "kleidos"
  /\ ChildGoto("confirm", "ready")
  /\ confirmed' = TRUE
  /\ UNCHANGED <<parent, pipes, got, timedOut, expired, selection>>

\* Any other error is final; returning closes the connection.
Break ==
  /\ \/ ChildGoto("wayland", "report") \/ ChildGoto("x11", "report")
     \/ ChildGoto("confirm", "report")
  /\ selection' = Dropped
  /\ UNCHANGED <<parent, pipes, got, timedOut, expired, confirmed>>

\* The ready callback writes, then closes, then remembers that it has reported.
Ready ==
  /\ ChildGoto("ready", "close")
  /\ status' = Append(status, "ok")
  /\ UNCHANGED <<parent, large, sent, open, got, timedOut, expired, selection, confirmed>>

CloseReady ==
  /\ ChildGoto("close", "serving")
  /\ open' = FALSE
  /\ UNCHANGED <<parent, large, sent, status, got, timedOut, expired, selection, confirmed>>

\* Mutant of EndServing: what the backend returned is reported once more.
EndServingReporting ==
  /\ expired \/ selection # "kleidos"
  /\ ChildGoto("serving", "report")
  /\ selection' = Dropped
  /\ UNCHANGED <<parent, pipes, got, timedOut, expired, confirmed>>

\* Mutant of EndServing: only a loss ends it.
EndServingOnLoss ==
  /\ selection # "kleidos"
  /\ ChildGoto("serving", "exit")
  /\ UNCHANGED <<parent, pipes, got, timedOut, expired, selection, confirmed>>

\* The deadline clears the selection, with the race X11Selection looks into, or
\* a loss is noticed.
EndServing ==
  /\ \/ expired /\ selection' \in {"none", Dropped}
     \/ selection # "kleidos" /\ UNCHANGED selection
  /\ ChildGoto("serving", "exit")
  /\ UNCHANGED <<parent, pipes, got, timedOut, expired, confirmed>>

\* The connection fails while the value is served.
Disconnect ==
  /\ ChildGoto("serving", "exit")
  /\ selection' = Dropped
  /\ UNCHANGED <<parent, pipes, got, timedOut, expired, confirmed>>

\* Nothing was reported: the error is, and then the pipe is closed.
ReportError ==
  /\ ChildGoto("report", "closeerr")
  /\ status' = Append(status, "error")
  /\ UNCHANGED <<parent, large, sent, open, got, timedOut, expired, selection, confirmed>>

CloseError ==
  /\ ChildGoto("closeerr", "exit")
  /\ open' = FALSE
  /\ UNCHANGED <<parent, large, sent, status, got, timedOut, expired, selection, confirmed>>

ChildExit ==
  /\ ChildGoto("exit", "gone")
  /\ UNCHANGED <<parent, pipes, got, timedOut, expired, selection, confirmed>>

\* The child is killed from outside: out of memory, or the session ends.
ChildKilled ==
  /\ child \notin {"none", "gone"}
  /\ child' = "gone" /\ open' = FALSE /\ selection' = Dropped
  /\ UNCHANGED <<parent, large, sent, status, got, timedOut, expired, confirmed>>

OtherCopies ==
  /\ selection' = "other"
  /\ UNCHANGED <<parent, child, pipes, got, timedOut, expired, confirmed>>

\* What the child does by itself, and what it does when the display server lets it.
Child ==
  CopyServe \/ ReadValue \/ Ready \/ CloseReady \/ EndServing \/ ReportError
    \/ CloseError \/ ChildExit
Setup == Unavailable \/ TakeSelection \/ Confirm \/ Break

Next ==
  \/ Refuse \/ Spawn \/ Parent \/ Timeout \/ Interrupt
  \/ Child \/ Setup \/ Disconnect \/ Expire \/ ChildKilled \/ OtherCopies

\* The display server owes nobody an answer.
Spec ==
  Init /\ [][Next]_vars
    /\ WF_vars(Parent) /\ WF_vars(Timeout) /\ WF_vars(Child) /\ WF_vars(Expire)

\* One that answers.
ServerAnswers == WF_vars(Setup)
-----------------------------------------------------------------------------
TypeOK ==
  /\ parent \in {"start", "write", "await", "kill", "wait", "copied", "failed", "interrupted"}
  /\ child \in {"none", "exec", "read", "wayland", "x11", "confirm", "ready", "close",
                "serving", "report", "closeerr", "exit", "gone"}
  /\ large \in BOOLEAN /\ open \in BOOLEAN
  /\ {sent, got} \subseteq {"nothing", "part", "whole"}
  /\ status \in {<<>>, <<"ok">>, <<"error">>}
  /\ timedOut \in BOOLEAN /\ expired \in BOOLEAN /\ confirmed \in BOOLEAN
  /\ selection \in {"none", "kleidos", "other"}

(***************************************************************************)
(* "copied" is the truth (copy.go, 85: "never printed for a copy that      *)
(* failed"): when the parent reports success the display server has        *)
(* confirmed the ownership, and what is served is the whole value.         *)
(***************************************************************************)
CopiedMeansHeld == parent = "copied" => confirmed /\ got = "whole"

(***************************************************************************)
(* A failure leaves nothing behind: when the parent reports one, timeouts  *)
(* that race the child's report included, there is no background process   *)
(* any more and none can put the value on the clipboard later.             *)
(***************************************************************************)
FailureLeavesNothing ==
  parent = "failed" => child \in {"none", "gone"} /\ selection # "kleidos"

(***************************************************************************)
(* The child reports exactly once (copy.go, 165-167): one that ends by     *)
(* itself has written one report, whole, and closed the pipe.              *)
(***************************************************************************)
ReportsOnce == child = "exit" => Len(status) = 1 /\ ~open

(***************************************************************************)
(* The user's shell gets its prompt back, although the display server may  *)
(* accept the connection and never answer (copy.go, 122).                  *)
(***************************************************************************)
CopyReturns == (parent = "write") ~> (parent \in {"copied", "failed", "interrupted"})

(***************************************************************************)
(* With a display server that answers, a copy whose parent was interrupted *)
(* during the handshake still ends at its deadline: nobody is left to      *)
(* time the child out.                                                     *)
(***************************************************************************)
OrphanEnds == ServerAnswers => ((parent = "interrupted") ~> (child = "gone"))
=============================================================================
