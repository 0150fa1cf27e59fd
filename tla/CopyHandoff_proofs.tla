-------------------------- MODULE CopyHandoff_proofs --------------------------
(***************************************************************************)
(* Proofs about the copy verb: what the parent's report is worth, for      *)
(* every interleaving of the parent, its background process, the timers,   *)
(* the display server and the user.                                        *)
(***************************************************************************)
EXTENDS CopyHandoff, SequenceTheorems, TLAPS

Unreported == {"none", "exec", "read", "wayland", "x11", "confirm", "ready", "report"}
Holding == {"confirm", "ready", "close", "serving"}

\* What is in the status pipe, and whether it is still open, by where the child
\* is: it writes one report and closes the pipe once.
StatusInv ==
  /\ child \in Unreported => status = <<>> /\ open
  /\ child \in {"close", "serving"} => status = <<"ok">>
  /\ child = "closeerr" => status = <<"error">>
  /\ child = "exit" => status # <<>>
  /\ child \in {"serving", "exit", "gone"} => ~open

\* Only a parent that dies, or whose child does, leaves the value in part.
ValueInv ==
  /\ parent = "start" => child = "none"
  /\ child = "none" => parent \in {"start", "failed"}
  /\ sent # "whole" => parent \in {"start", "write", "failed", "interrupted"} \/ child = "gone"
  /\ child \in Holding \union {"wayland", "x11"} => got = "whole" \/ parent = "interrupted"

\* A report of success says that the server has confirmed the ownership of the
\* whole value.
ReportInv ==
  /\ child \in {"ready", "close", "serving"} => confirmed
  /\ status = <<"ok">> => confirmed /\ (got = "whole" \/ parent = "interrupted")
  /\ parent = "copied" => status = <<"ok">>

\* The selection is held by a child that has offered it, and not once it is gone.
SelectionInv ==
  /\ selection = "kleidos" => child \in Holding
  /\ parent = "failed" => child \in {"none", "gone"}

IInv == TypeOK /\ StatusInv /\ ValueInv /\ ReportInv /\ SelectionInv
-----------------------------------------------------------------------------
LEMMA OneReport == ASSUME NEW r PROVE Append(<<>>, r) = <<r>>
  OBVIOUS

LEMMA InitIInv == Init => IInv
<1> SUFFICES ASSUME Init PROVE IInv
  OBVIOUS
<1>1. TypeOK
  BY DEF Init, TypeOK
<1>2. StatusInv /\ ValueInv /\ ReportInv /\ SelectionInv
  BY DEF Init, StatusInv, ValueInv, ReportInv, SelectionInv, Unreported, Holding
<1> QED
  BY <1>1, <1>2 DEF IInv

\* Steps of the parent: they read the status, and only KillChild touches the child.
LEMMA ParentKeepsIInv == IInv /\ (Refuse \/ Spawn \/ Parent \/ Timeout \/ Interrupt) => IInv'
<1> SUFFICES ASSUME IInv, Refuse \/ Spawn \/ Parent \/ Timeout \/ Interrupt PROVE IInv'
  OBVIOUS
<1> USE DEF IInv, TypeOK, StatusInv, ValueInv, ReportInv, SelectionInv, Unreported, Holding,
        pipes, ParentGoto
<1>1. CASE Refuse
  BY <1>1 DEF Refuse
<1>2. CASE Spawn
  BY <1>2 DEF Spawn
<1>3. CASE WriteValue
  BY <1>3 DEF WriteValue
<1>4. CASE ReadStatus
  BY <1>4 DEF ReadStatus, Judge
<1>5. CASE StatusDeadline
  BY <1>5 DEF StatusDeadline
<1>6. CASE KillChild
  BY <1>6 DEF KillChild, Dropped
<1>7. CASE Wait
  BY <1>7 DEF Wait
<1>8. CASE Timeout
  BY <1>8 DEF Timeout
<1>9. CASE Interrupt
  BY <1>9 DEF Interrupt
<1> QED
  BY <1>1, <1>2, <1>3, <1>4, <1>5, <1>6, <1>7, <1>8, <1>9 DEF Parent

\* Steps of the child on its way to the selection, and of its reports.
LEMMA ChildKeepsIInv == IInv /\ (Child \/ Setup \/ Disconnect) => IInv'
<1> SUFFICES ASSUME IInv, Child \/ Setup \/ Disconnect PROVE IInv'
  OBVIOUS
<1> USE DEF IInv, TypeOK, StatusInv, ValueInv, ReportInv, SelectionInv, Unreported, Holding,
        pipes, ChildGoto
<1>1. CASE CopyServe
  BY <1>1 DEF CopyServe
<1>2. CASE ReadValue
  BY <1>2 DEF ReadValue
<1>3. CASE Unavailable
  BY <1>3 DEF Unavailable
<1>4. CASE TakeSelection
  BY <1>4 DEF TakeSelection
<1>5. CASE Confirm
  BY <1>5 DEF Confirm
<1>6. CASE Break
  BY <1>6 DEF Break, Dropped
<1>7. CASE Ready
  BY <1>7, OneReport DEF Ready
<1>8. CASE CloseReady
  BY <1>8 DEF CloseReady
<1>9. CASE EndServing
  BY <1>9 DEF EndServing, Dropped
<1>10. CASE Disconnect
  BY <1>10 DEF Disconnect, Dropped
<1>11. CASE ReportError
  BY <1>11, OneReport DEF ReportError
<1>12. CASE CloseError
  <2>1. TypeOK'
    BY <1>12 DEF CloseError
  <2>2. StatusInv' /\ ValueInv' /\ ReportInv' /\ SelectionInv'
    BY <1>12 DEF CloseError
  <2> QED
    BY <2>1, <2>2
<1>13. CASE ChildExit
  BY <1>13 DEF ChildExit
<1> QED
  BY <1>1, <1>2, <1>3, <1>4, <1>5, <1>6, <1>7, <1>8, <1>9, <1>10, <1>11, <1>12, <1>13
  DEF Child, Setup

\* Steps of the clock, of whoever kills the child, and of other clients.
LEMMA OthersKeepIInv == IInv /\ (Expire \/ ChildKilled \/ OtherCopies) => IInv'
<1> SUFFICES ASSUME IInv, Expire \/ ChildKilled \/ OtherCopies PROVE IInv'
  OBVIOUS
<1> USE DEF IInv, TypeOK, StatusInv, ValueInv, ReportInv, SelectionInv, Unreported, Holding, pipes
<1>1. CASE Expire
  BY <1>1 DEF Expire
<1>2. CASE ChildKilled
  <2>1. TypeOK'
    BY <1>2 DEF ChildKilled, Dropped
  <2>2. StatusInv' /\ ValueInv' /\ ReportInv' /\ SelectionInv'
    BY <1>2 DEF ChildKilled, Dropped
  <2> QED
    BY <2>1, <2>2
<1>3. CASE OtherCopies
  BY <1>3 DEF OtherCopies
<1> QED
  BY <1>1, <1>2, <1>3

\* The inductive invariant: every handler of either process keeps it.
THEOREM IInvHolds == Spec => []IInv
<1>1. IInv /\ UNCHANGED vars => IInv'
  BY DEF IInv, TypeOK, StatusInv, ValueInv, ReportInv, SelectionInv, vars, pipes
<1>2. IInv /\ [Next]_vars => IInv'
  BY <1>1, ParentKeepsIInv, ChildKeepsIInv, OthersKeepIInv DEF Next
<1> QED
  BY InitIInv, <1>2, PTL DEF Spec
-----------------------------------------------------------------------------
(***************************************************************************)
(* Typing; with it, that the status pipe never holds more than one report. *)
(***************************************************************************)
THEOREM TypeCorrect == Spec => []TypeOK
<1>1. IInv => TypeOK
  BY DEF IInv
<1> QED
  BY IInvHolds, <1>1, PTL

(***************************************************************************)
(* spawnServer never reports a copy that failed (copy.go, 85): its success *)
(* means that the whole value was served and the ownership confirmed.      *)
(***************************************************************************)
THEOREM CopiedIsTrue == Spec => []CopiedMeansHeld
<1>1. IInv => CopiedMeansHeld
  BY DEF IInv, ReportInv, CopiedMeansHeld
<1> QED
  BY IInvHolds, <1>1, PTL

(***************************************************************************)
(* When spawnServer reports a failure the background process is gone, or   *)
(* never was, and the clipboard is not its own.                            *)
(***************************************************************************)
THEOREM FailureIsClean == Spec => []FailureLeavesNothing
<1>1. IInv => FailureLeavesNothing
  BY DEF IInv, SelectionInv, Holding, FailureLeavesNothing
<1> QED
  BY IInvHolds, <1>1, PTL

(***************************************************************************)
(* CopyServe reports exactly once, and closes the pipe, however it ends.   *)
(***************************************************************************)
THEOREM OneReportPerCopy == Spec => []ReportsOnce
<1>1. IInv => ReportsOnce
  BY DEF IInv, TypeOK, StatusInv, ReportsOnce
<1> QED
  BY IInvHolds, <1>1, PTL
=============================================================================
