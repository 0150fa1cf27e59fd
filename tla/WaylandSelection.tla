-------------------------- MODULE WaylandSelection --------------------------
(***************************************************************************)
(* serveWayland of internal/clipboard/wayland.go and the compositor it     *)
(* talks to through data-control: offering a source, confirming it with a  *)
(* roundtrip, handing the value to each paste, and clearing the selection  *)
(* at the deadline or losing it to another client.                         *)
(*                                                                         *)
(* Requests and events travel in order over one socket; between a request  *)
(* and the compositor acting on it another client may act.  The compositor *)
(* and the other clients are external: a set_selection needs no serial and *)
(* a null one unsets whatever is selected.                                 *)
(***************************************************************************)
EXTENDS Integers, Sequences

CONSTANTS
  MaxEvents, \* bound: pastes waiting to be handled
  MaxPastes, \* bound: pastes in all
  MaxCopies  \* bound: copies by the other client

ASSUME WaylandAssumption == MaxEvents \in Nat \ {0} /\ MaxPastes \in Nat /\ MaxCopies \in Nat

VARIABLES
  pc,        \* where serveWayland is
  result,    \* how it returned: "nil", "backend" for a backendError, "final"
  readied,   \* ready has been called
  owned,     \* no cancelled event has been handled
  expired,   \* the context's deadline has passed
  toServer,  \* requests the compositor has not processed
  events,    \* events serveWayland has not read
  selection, \* whose source is selected: "none", "kleidos" or "other"
  copies,    \* copies made by the other client
  pastes,    \* pastes asked of this client
  granted,   \* history: the compositor has selected this client's source
  served     \* history: pastes given the value

client == <<pc, result, readied, owned, served>>
compositor == <<selection, copies, pastes, granted>>
vars == <<client, expired, toServer, events, compositor>>

Init ==
  /\ pc = "connect" /\ result = "none" /\ readied = FALSE /\ owned = TRUE /\ served = 0
  /\ expired = FALSE
  /\ toServer = <<>> /\ events = <<>>
  /\ selection \in {"none", "other"} /\ copies = 0 /\ pastes = 0 /\ granted = FALSE
-----------------------------------------------------------------------------
(***************************************************************************)
(* The client.                                                             *)
(***************************************************************************)
Finish(from, r) == pc = from /\ pc' = "done" /\ result' = r

Receive == events # <<>> /\ events' = Tail(events)

\* The socket and the globals; without a seat or a manager X11 gets its turn.
Connect ==
  /\ \/ pc = "connect" /\ pc' = "offer" /\ UNCHANGED result
     \/ Finish("connect", "backend")
  /\ UNCHANGED <<readied, owned, served, expired, toServer, events, compositor>>

\* Mutant of Offer: a request that cannot be sent is one more missing backend.
OfferUnavailable ==
  /\ \/ /\ pc = "offer" /\ pc' = "confirm"
        /\ toServer' = <<"select", "sync">> /\ UNCHANGED result
     \/ /\ Finish("offer", "backend")
        /\ toServer' \in {<<>>, <<"select">>}
  /\ UNCHANGED <<readied, owned, served, expired, events, compositor>>

\* Mutant of Offer: success is announced without waiting for the roundtrip.
OfferUnconfirmed ==
  /\ pc = "offer" /\ pc' = "serve" /\ readied' = TRUE
  /\ toServer' = <<"select">>
  /\ UNCHANGED <<result, owned, served, expired, events, compositor>>

\* The source, its types and set_selection, then the sync of the roundtrip.
\* When a write fails, what was written before it may still arrive.
Offer ==
  /\ \/ /\ pc = "offer" /\ pc' = "confirm"
        /\ toServer' = <<"select", "sync">> /\ UNCHANGED result
     \/ /\ Finish("offer", "final")
        /\ toServer' \in {<<>>, <<"select">>}
  /\ UNCHANGED <<readied, owned, served, expired, events, compositor>>

\* Mutant of Handle: losing the selection is not noticed.
HandleNoCancel(ev) ==
  \/ /\ ev = "send" /\ served' = served + 1
     /\ UNCHANGED <<pc, result, owned>>
  \/ /\ ev = "finished" /\ Finish(pc, "final")
     /\ UNCHANGED <<owned, served>>
  \/ /\ ev = "cancelled"
     /\ UNCHANGED <<pc, result, owned, served>>

\* Mutant of Handle: each descriptor is written to twice.
HandleTwice(ev) ==
  /\ ev = "send" /\ served' = served + 2
  /\ UNCHANGED <<pc, result, owned>>

\* handle: the events that concern the selection.
Handle(ev) ==
  \/ /\ ev = "send" /\ served' = served + 1
     /\ UNCHANGED <<pc, result, owned>>
  \/ /\ ev = "cancelled" /\ owned' = FALSE
     /\ UNCHANGED <<pc, result, served>>
  \/ /\ ev = "finished" /\ Finish(pc, "final")
     /\ UNCHANGED <<owned, served>>

\* The roundtrip passes every event to handle until the sync comes back, and
\* ready follows if nothing was lost on the way.
Confirm ==
  /\ pc = "confirm" /\ Receive
  /\ \/ Handle(Head(events)) /\ UNCHANGED readied
     \/ /\ Head(events) = "error" /\ Finish("confirm", "final")
        /\ UNCHANGED <<readied, owned, served>>
     \/ /\ Head(events) = "done" /\ owned
        /\ pc' = "serve" /\ readied' = TRUE
        /\ UNCHANGED <<result, owned, served>>
     \/ /\ Head(events) = "done" /\ ~owned /\ Finish("confirm", "final")
        /\ UNCHANGED <<readied, owned, served>>
  /\ UNCHANGED <<expired, toServer, compositor>>

Serve ==
  /\ pc = "serve" /\ owned /\ Receive
  /\ \/ Handle(Head(events))
     \/ /\ Head(events) = "error" /\ Finish("serve", "final")
        /\ UNCHANGED <<owned, served>>
  /\ UNCHANGED <<readied, expired, toServer, compositor>>

\* The loop ends when the selection has been lost.
Lost ==
  /\ ~owned /\ Finish("serve", "nil")
  /\ UNCHANGED <<readied, owned, served, expired, toServer, events, compositor>>

\* Mutant of Clear: the loop reads by itself, so the deadline is looked at only
\* when there is an event.
ClearOnEvent ==
  /\ expired /\ owned /\ events # <<>>
  /\ pc = "serve" /\ pc' = "clearing"
  /\ toServer' = toServer \o <<"unset", "sync">>
  /\ UNCHANGED <<result, readied, owned, served, expired, events, compositor>>

\* The context is done: set_selection(null) and a sync; a failed write ends it.
Clear ==
  /\ expired /\ owned
  /\ \/ /\ pc = "serve" /\ pc' = "clearing"
        /\ toServer' = toServer \o <<"unset", "sync">> /\ UNCHANGED result
     \/ /\ Finish("serve", "nil")
        /\ toServer' \in {toServer, Append(toServer, "unset")}
  /\ UNCHANGED <<readied, owned, served, expired, events, compositor>>

\* While the compositor acts on it, pastes are closed empty.
AwaitCleared ==
  /\ pc = "clearing" /\ Receive
  /\ IF Head(events) = "done" THEN Finish("clearing", "nil") ELSE UNCHANGED <<pc, result>>
  /\ UNCHANGED <<readied, owned, served, expired, toServer, compositor>>

\* Mutant of GiveUp: the wait for the compositor has no deadline of its own.
NeverGiveUp ==
  /\ toServer = <<>> /\ events = <<>> /\ Finish("clearing", "nil")
  /\ UNCHANGED <<readied, owned, served, expired, toServer, events, compositor>>

\* One second is enough.
GiveUp ==
  /\ Finish("clearing", "nil")
  /\ UNCHANGED <<readied, owned, served, expired, toServer, events, compositor>>

\* The socket breaks.  In the wait after the deadline that is an end like any.
Break ==
  /\ \/ Finish("confirm", "final") \/ Finish("serve", "final") \/ Finish("clearing", "nil")
  /\ UNCHANGED <<readied, owned, served, expired, toServer, events, compositor>>

Expire ==
  /\ ~expired /\ expired' = TRUE
  /\ UNCHANGED <<client, toServer, events, compositor>>
-----------------------------------------------------------------------------
(***************************************************************************)
(* The compositor and the other clients.                                   *)
(***************************************************************************)
\* A source that is no longer selected is told.  So is one whose own client unset
\* it, which does not look at that any more.
Select(who) ==
  /\ selection' = who
  /\ granted' = (granted \/ who = "kleidos")
  /\ events' = IF selection = "kleidos" /\ who # "kleidos" THEN Append(events, "cancelled")
                                                          ELSE events

Process ==
  /\ toServer # <<>> /\ toServer' = Tail(toServer)
  /\ \/ Head(toServer) = "select" /\ Select("kleidos")
     \/ Head(toServer) = "select" /\ events' = Append(events, "error")
          /\ UNCHANGED <<selection, granted>>
     \/ Head(toServer) = "unset" /\ Select("none")
     \/ Head(toServer) = "sync" /\ events' = Append(events, "done")
          /\ UNCHANGED <<selection, granted>>
  /\ UNCHANGED <<client, expired, copies, pastes>>

\* The connection is closed: its source is gone.
Disconnect ==
  /\ pc = "done" /\ toServer = <<>> /\ selection = "kleidos"
  /\ selection' = "none"
  /\ UNCHANGED <<client, expired, toServer, events, copies, pastes, granted>>

OtherCopies ==
  /\ copies < MaxCopies /\ copies' = copies + 1
  /\ Select("other")
  /\ UNCHANGED <<client, expired, toServer, pastes>>

Paste ==
  /\ selection = "kleidos" /\ pastes < MaxPastes /\ Len(events) < MaxEvents
  /\ pastes' = pastes + 1
  /\ events' = Append(events, "send")
  /\ UNCHANGED <<client, expired, toServer, selection, copies, granted>>

\* The seat disappears, and with it the data-control device.
SeatGone ==
  /\ pc \in {"confirm", "serve", "clearing"} /\ Len(events) < MaxEvents
  /\ events' = Append(events, "finished")
  /\ UNCHANGED <<client, expired, toServer, compositor>>
-----------------------------------------------------------------------------
Client == Connect \/ Offer \/ Confirm \/ Serve \/ Lost \/ Clear \/ AwaitCleared \/ GiveUp

Next ==
  \/ Client \/ Break \/ Expire
  \/ Process \/ Disconnect \/ OtherCopies \/ Paste \/ SeatGone

\* The client runs, its select passes no ready branch over for ever, and its
\* timer fires; of the compositor nothing is assumed.
Spec == Init /\ [][Next]_vars /\ WF_vars(Client) /\ SF_vars(Clear) /\ WF_vars(GiveUp)

\* A compositor that does its part.
CompositorServes == WF_vars(Process) /\ WF_vars(Disconnect)
-----------------------------------------------------------------------------
Events == {"send", "cancelled", "finished", "error", "done"}

TypeOK ==
  /\ pc \in {"connect", "offer", "confirm", "serve", "clearing", "done"}
  /\ result \in {"none", "nil", "backend", "final"}
  /\ readied \in BOOLEAN /\ owned \in BOOLEAN /\ expired \in BOOLEAN /\ granted \in BOOLEAN
  /\ \A i \in DOMAIN toServer : toServer[i] \in {"select", "unset", "sync"}
  /\ \A i \in DOMAIN events : events[i] \in Events
  /\ selection \in {"none", "kleidos", "other"}
  /\ copies \in 0..MaxCopies /\ pastes \in 0..MaxPastes /\ served \in 0..MaxPastes

(***************************************************************************)
(* serveWayland is a backend as Serve understands it, but for pastes that  *)
(* arrive during the roundtrip: that is a confirmation (wayland.go,        *)
(* 308-310), so ready follows the selection of this source, nothing is     *)
(* served after the return, and an end without error comes after ready.    *)
(***************************************************************************)
Backend == INSTANCE ClipboardBackend WITH
  EarlyPastes <- TRUE, offered <- granted, pasted <- served > 0, outcome <- result
IsBackend == Backend!Spec

(***************************************************************************)
(* The next backend is tried only while this one has offered nothing: no   *)
(* copy is ever made through both (clipboard.go, 24-25: "before anything   *)
(* was offered").                                                          *)
(***************************************************************************)
FallbackIsClean == result = "backend" => ~granted /\ served = 0

(***************************************************************************)
(* Once ready, the deadline makes serveWayland return, though pastes keep  *)
(* arriving and the compositor may never react to its requests.            *)
(***************************************************************************)
DeadlineReturns == (expired /\ readied) ~> pc = "done"

(***************************************************************************)
(* With a compositor that processes its requests, the value does leave the *)
(* clipboard after the deadline.                                           *)
(***************************************************************************)
ValueGoesAway == CompositorServes => ((expired /\ readied) ~> selection # "kleidos")

(***************************************************************************)
(* When another client has copied something, and the compositor says so,   *)
(* the copy ends.                                                          *)
(***************************************************************************)
LossEnds == CompositorServes => ((readied /\ selection = "other") ~> pc = "done")

(***************************************************************************)
(* clipboard.go, 74-76: "An error returned without ready having been       *)
(* called means the value never reached the clipboard."                    *)
(***************************************************************************)
ErrorMeansUnserved == pc = "done" /\ result = "final" /\ ~readied => served = 0
=============================================================================
