-------------------------- MODULE ClipboardBackend --------------------------
(***************************************************************************)
(* What Serve of internal/clipboard/clipboard.go, and the copy verb behind *)
(* it, may count on from a backend, whatever its wire protocol: ready is   *)
(* called once, after the selection was ours; no paste is answered once    *)
(* the backend has returned; it returns without an error only after ready; *)
(* and the error that makes Serve try the next backend means that ready    *)
(* was not called and that nobody was given the value.  X11Selection and   *)
(* WaylandSelection implement it.                                          *)
(***************************************************************************)
CONSTANT
  EarlyPastes  \* whether pastes are answered while the ownership is being confirmed

VARIABLES
  offered,  \* the display server has made the selection ours
  readied,  \* ready has been called
  pasted,   \* somebody has been given the value
  outcome   \* "none" until it returns "nil", "backend" for a backendError, or "final"

vars == <<offered, readied, pasted, outcome>>

Init == offered = FALSE /\ readied = FALSE /\ pasted = FALSE /\ outcome = "none"

\* The request may be acted on late, even when the backend has given up.
Offer == offered' = TRUE /\ UNCHANGED <<readied, pasted, outcome>>

Ready ==
  /\ outcome = "none" /\ offered /\ ~readied
  /\ readied' = TRUE /\ UNCHANGED <<offered, pasted, outcome>>

Paste ==
  /\ outcome = "none" /\ offered /\ (readied \/ EarlyPastes)
  /\ pasted' = TRUE /\ UNCHANGED <<offered, readied, outcome>>

Return ==
  /\ outcome = "none"
  /\ \/ ~readied /\ ~pasted /\ outcome' = "backend"
     \/ readied /\ outcome' = "nil"
     \/ outcome' = "final"
  /\ UNCHANGED <<offered, readied, pasted>>

Next == Offer \/ Ready \/ Paste \/ Return

Spec == Init /\ [][Next]_vars
=============================================================================
