---------------------------- MODULE X11Selection ----------------------------
(***************************************************************************)
(* serveX11 of internal/clipboard/x11.go and the X server it talks to:     *)
(* taking the CLIPBOARD selection, answering pastes, and giving the        *)
(* selection up at the deadline or losing it to another client.            *)
(*                                                                         *)
(* Requests and packets travel in order over one connection, and each side *)
(* reads them when it gets to it: between sending a request and the server *)
(* acting on it, another client may act.  The server, the client that      *)
(* copies something else and the one that pastes are external.  The server *)
(* keeps a clock in milliseconds; a timestamp on the wire is that clock    *)
(* modulo Wrap, 2^32 in the protocol, and 0 stands for CurrentTime.        *)
(***************************************************************************)
EXTENDS Integers, Sequences

CONSTANTS
  Wrap,      \* timestamps are taken modulo this
  MaxTime,   \* bound: the server's clock stops here
  MaxQueue,  \* bound: requests under way, and packets not yet handled
  MaxCopies  \* bound: copies by the other client

ASSUME X11Assumption ==
  Wrap \in Nat \ {0} /\ MaxTime \in Nat \ {0} /\ MaxQueue \in Nat \ {0} /\ MaxCopies \in Nat

VARIABLES
  pc,        \* where serveX11 is
  result,    \* how it returned: "nil", "backend" for a backendError, "final"
  readied,   \* ready has been called
  expired,   \* the context's deadline has passed
  ownTime,   \* the timestamp it takes the selection with
  pending,   \* packets set aside while waiting for a reply
  toServer,  \* requests the server has not processed
  toClient,  \* packets serveX11 has not read
  owner,     \* the selection's owner: "none", "kleidos" or "other"
  changed,   \* when the owner last changed, by the server's clock
  clock,     \* the server's clock
  copies,    \* copies made by the other client
  granted,   \* history: when kleidos was made the owner, 0 if never
  served,    \* history: the times of the pastes answered with the value
  refused    \* history: the times of the pastes refused

server == <<owner, changed, clock, copies, granted>>
client == <<pc, result, readied, ownTime, pending, served, refused>>
vars == <<client, expired, toServer, toClient, server>>

Wire(t) == t % Wrap

\* A request carries the wire time the pasting client put in it; real is that
\* client's actual time, for the properties only.
PropertyNotify == [kind |-> "notify", time |-> Wire(clock)]
OwnerReply == [kind |-> "reply", owner |-> owner]
SelectionClear == [kind |-> "clear"]
SelectionRequest(real) == [kind |-> "request", time |-> Wire(real), real |-> real]

Probe == [op |-> "probe"]
SetOwner(who, time) == [op |-> "set", who |-> who, time |-> time]
GetOwner == [op |-> "get"]
Notify == [op |-> "answer"]

Init ==
  /\ pc = "dial" /\ result = "none" /\ readied = FALSE /\ expired = FALSE
  /\ ownTime = 0 /\ pending = <<>>
  /\ toServer = <<>> /\ toClient = <<>>
  /\ owner \in {"none", "other"} /\ changed = 0 /\ clock = 1 /\ copies = 0
  /\ granted = 0 /\ served = {} /\ refused = {}
-----------------------------------------------------------------------------
(***************************************************************************)
(* The client.                                                             *)
(***************************************************************************)
Goto(from, to) == pc = from /\ pc' = to

\* Mutant of Send: a write never waits for the server to read.
SendUnbounded(m) == toServer' = Append(toServer, m)

Send(m) == Len(toServer) < MaxQueue /\ toServer' = Append(toServer, m)

Receive == toClient # <<>> /\ toClient' = Tail(toClient)

\* The connection and its handshake; any failure leaves X11 untried.
Dial ==
  /\ \/ Goto("dial", "setup") /\ UNCHANGED result
     \/ Goto("dial", "done") /\ result' = "backend"
  /\ UNCHANGED <<readied, expired, ownTime, pending, served, refused, toServer, toClient, server>>

\* A value that no single request can carry is refused for good, before
\* anything is taken; an atom or the window may still fail.
Setup ==
  /\ \/ Goto("setup", "probe") /\ UNCHANGED result
     \/ Goto("setup", "done") /\ result' \in {"backend", "final"}
  /\ UNCHANGED <<readied, expired, ownTime, pending, served, refused, toServer, toClient, server>>

\* A zero-length append to a property, to be told the server's time.
ProbeTime ==
  /\ Goto("probe", "time")
  /\ Send(Probe)
  /\ UNCHANGED <<result, readied, expired, ownTime, pending, served, refused, toClient, server>>

\* The loop runs until it has a time other than zero.
LearnTime ==
  /\ pc = "time" /\ ownTime = 0 /\ Receive
  /\ ownTime' = IF Head(toClient).kind = "notify" THEN Head(toClient).time ELSE 0
  /\ UNCHANGED <<pc, result, readied, expired, pending, served, refused, toServer, server>>

TakeSelection ==
  /\ ownTime # 0 /\ Goto("time", "ask")
  /\ Send(SetOwner("kleidos", ownTime))
  /\ UNCHANGED <<result, readied, expired, ownTime, pending, served, refused, toClient, server>>

AskOwner ==
  /\ Goto("ask", "confirm")
  /\ Send(GetOwner)
  /\ UNCHANGED <<result, readied, expired, ownTime, pending, served, refused, toClient, server>>

\* Mutant of Confirm: whatever the server replies, it must have worked.
ConfirmAnything ==
  /\ pc = "confirm" /\ Receive
  /\ IF Head(toClient).kind = "reply"
     THEN /\ pc' = "drain" /\ readied' = TRUE
          /\ UNCHANGED <<result, pending>>
     ELSE /\ pending' = Append(pending, Head(toClient))
          /\ UNCHANGED <<pc, result, readied>>
  /\ UNCHANGED <<expired, ownTime, served, refused, toServer, server>>

\* Mutant of Confirm: events that come before the answer are dropped.
ConfirmDropping ==
  /\ pc = "confirm" /\ Receive
  /\ \/ /\ Head(toClient).kind # "reply"
        /\ UNCHANGED <<pc, result, readied>>
     \/ /\ Head(toClient).kind = "reply" /\ Head(toClient).owner = "kleidos"
        /\ pc' = "drain" /\ readied' = TRUE
        /\ UNCHANGED result
     \/ /\ Head(toClient).kind = "reply" /\ Head(toClient).owner # "kleidos"
        /\ pc' = "done" /\ result' = "final"
        /\ UNCHANGED readied
  /\ UNCHANGED <<pending, expired, ownTime, served, refused, toServer, server>>

\* reply sets events aside until the answer comes; ready follows if it is us.
Confirm ==
  /\ pc = "confirm" /\ Receive
  /\ \/ /\ Head(toClient).kind # "reply"
        /\ pending' = Append(pending, Head(toClient))
        /\ UNCHANGED <<pc, result, readied>>
     \/ /\ Head(toClient).kind = "reply" /\ Head(toClient).owner = "kleidos"
        /\ pc' = "drain" /\ readied' = TRUE
        /\ UNCHANGED <<result, pending>>
     \/ /\ Head(toClient).kind = "reply" /\ Head(toClient).owner # "kleidos"
        /\ pc' = "done" /\ result' = "final"
        /\ UNCHANGED <<readied, pending>>
  /\ UNCHANGED <<expired, ownTime, served, refused, toServer, server>>

\* Mutant of Refuses: a request's time is not looked at.
RefusesNone(time) == FALSE

Refuses(time) == time # 0 /\ time < ownTime

\* handle: a request is answered with the value or refused; losing the
\* selection is the end; anything else is ignored.
Handle(p) ==
  \/ /\ p.kind = "request"
     /\ Send(Notify)
     /\ served' = IF Refuses(p.time) THEN served ELSE served \union {p.real}
     /\ refused' = IF Refuses(p.time) THEN refused \union {p.real} ELSE refused
     /\ UNCHANGED <<pc, result>>
  \/ /\ p.kind = "clear"
     /\ pc' = "done" /\ result' = "nil"
     /\ UNCHANGED <<toServer, served, refused>>
  \/ /\ p.kind \notin {"request", "clear"}
     /\ UNCHANGED <<pc, result, toServer, served, refused>>

\* What was set aside before ready is handled now, in order.
Drain ==
  /\ pc = "drain"
  /\ \/ /\ pending # <<>> /\ pending' = Tail(pending) /\ Handle(Head(pending))
     \/ /\ pending = <<>> /\ pc' = "serve"
        /\ UNCHANGED <<pending, result, toServer, served, refused>>
  /\ UNCHANGED <<readied, expired, ownTime, toClient, server>>

Serve ==
  /\ pc = "serve" /\ Receive /\ Handle(Head(toClient))
  /\ UNCHANGED <<readied, expired, ownTime, pending, server>>

\* Mutant of Relinquish: the deadline is looked at only when nothing arrives.
RelinquishWhenIdle ==
  /\ expired /\ Goto("serve", "done") /\ toClient = <<>>
  /\ Send(SetOwner("none", 0))
  /\ result' = "nil"
  /\ UNCHANGED <<readied, expired, ownTime, pending, served, refused, toClient, server>>

\* The context is done: the selection is given up, with CurrentTime.
Relinquish ==
  /\ expired /\ Goto("serve", "done")
  /\ Send(SetOwner("none", 0))
  /\ result' = "nil"
  /\ UNCHANGED <<readied, expired, ownTime, pending, served, refused, toClient, server>>

\* Mutant of Break: a broken connection always lets the next backend try.
BreakUnavailable ==
  /\ pc \in {"probe", "time", "ask", "confirm", "drain", "serve"}
  /\ pc' = "done" /\ result' = "backend"
  /\ UNCHANGED <<readied, expired, ownTime, pending, served, refused, toServer, toClient, server>>

\* The connection breaks.  Up to ready, that leaves the backend untried.
Break ==
  /\ pc \in {"probe", "time", "ask", "confirm", "drain", "serve"}
  /\ pc' = "done"
  /\ result' = IF readied THEN "final" ELSE "backend"
  /\ UNCHANGED <<readied, expired, ownTime, pending, served, refused, toServer, toClient, server>>

Expire ==
  /\ ~expired /\ expired' = TRUE
  /\ UNCHANGED <<client, toServer, toClient, server>>
-----------------------------------------------------------------------------
(***************************************************************************)
(* The X server and the other clients, as the protocol has them.           *)
(***************************************************************************)
\* The time a wire timestamp means now: the latest past one that looks like it.
Means(time) == clock - ((clock - time) % Wrap)

\* SetSelectionOwner: a timestamp older than the last change is ignored, and
\* the owner that is replaced, if any, is told.
Change(who, at) ==
  /\ owner' = who /\ changed' = at
  /\ granted' = IF who = "kleidos" THEN at ELSE granted
  /\ toClient' = IF owner = "kleidos" /\ who # "kleidos" THEN Append(toClient, SelectionClear)
                                                         ELSE toClient

Process ==
  /\ toServer # <<>> /\ toServer' = Tail(toServer)
  /\ LET m == Head(toServer) IN
     \/ /\ m.op = "probe" /\ toClient' = Append(toClient, PropertyNotify)
        /\ UNCHANGED server
     \/ /\ m.op = "get" /\ toClient' = Append(toClient, OwnerReply)
        /\ UNCHANGED server
     \/ /\ m.op = "answer"
        /\ UNCHANGED <<server, toClient>>
     \/ /\ m.op = "set"
        /\ LET at == IF m.time = 0 THEN clock ELSE Means(m.time) IN
           IF at >= changed THEN Change(m.who, at)
                            ELSE UNCHANGED <<owner, changed, granted, toClient>>
        /\ UNCHANGED <<clock, copies>>
  /\ UNCHANGED <<client, expired>>

\* Once serveX11 has returned, its connection is closed and owns nothing.
Disconnect ==
  /\ pc = "done" /\ toServer = <<>> /\ owner = "kleidos"
  /\ owner' = "none" /\ changed' = clock
  /\ UNCHANGED <<client, expired, toServer, toClient, clock, copies, granted>>

Tick ==
  /\ clock < MaxTime /\ clock' = clock + 1
  /\ UNCHANGED <<client, expired, toServer, toClient, owner, changed, copies, granted>>

OtherCopies ==
  /\ copies < MaxCopies /\ copies' = copies + 1
  /\ Change("other", clock)
  /\ UNCHANGED <<client, expired, toServer, clock>>

\* A paste of whatever is selected, made at a moment up to now.
Paste ==
  /\ owner = "kleidos" /\ Len(toClient) + Len(pending) < MaxQueue
  /\ \E real \in 0..clock : toClient' = Append(toClient, SelectionRequest(real))
  /\ UNCHANGED <<client, expired, toServer, server>>
-----------------------------------------------------------------------------
Client ==
  \/ Dial \/ Setup \/ ProbeTime \/ LearnTime \/ TakeSelection \/ AskOwner \/ Confirm
  \/ Drain \/ Serve \/ Relinquish

Next ==
  \/ Client \/ Break \/ Expire
  \/ Process \/ Disconnect \/ Tick \/ OtherCopies \/ Paste

\* The client and the server run; a select with several branches ready picks
\* among them at random, so none is passed over for ever.
Spec ==
  /\ Init /\ [][Next]_vars
  /\ WF_vars(Client) /\ SF_vars(Relinquish) /\ WF_vars(Process) /\ WF_vars(Disconnect)
-----------------------------------------------------------------------------
Packets ==
  [kind : {"notify"}, time : 0..Wrap - 1] \union [kind : {"clear"}]
    \union [kind : {"reply"}, owner : {"none", "kleidos", "other"}]
    \union [kind : {"request"}, time : 0..Wrap - 1, real : 0..MaxTime]

TypeOK ==
  /\ pc \in {"dial", "setup", "probe", "time", "ask", "confirm", "drain", "serve", "done"}
  /\ result \in {"none", "nil", "backend", "final"}
  /\ readied \in BOOLEAN /\ expired \in BOOLEAN
  /\ ownTime \in 0..Wrap - 1
  /\ \A i \in DOMAIN pending : pending[i] \in Packets
  /\ \A i \in DOMAIN toClient : toClient[i] \in Packets
  /\ Len(toServer) <= MaxQueue
  /\ owner \in {"none", "kleidos", "other"}
  /\ changed \in 0..MaxTime /\ clock \in 1..MaxTime /\ granted \in 0..MaxTime
  /\ copies \in 0..MaxCopies
  /\ served \subseteq 0..MaxTime /\ refused \subseteq 0..MaxTime

(***************************************************************************)
(* serveX11 is a backend as Serve understands it: ready only after the     *)
(* server has granted the selection, no paste before it (clipboard.go, 74) *)
(* or after the return, and the next backend's turn only while nobody has  *)
(* been given the value.                                                   *)
(***************************************************************************)
Backend == INSTANCE ClipboardBackend WITH
  EarlyPastes <- FALSE, offered <- granted > 0, pasted <- served # {}, outcome <- result
IsBackend == Backend!Spec

(***************************************************************************)
(* Pastes are judged by when their users asked for them: one made before   *)
(* this process took the selection meant what was copied then and is not   *)
(* given the value, and only such a one is refused.  As long as the        *)
(* server's clock does not wrap.                                           *)
(***************************************************************************)
PastesJudgedByTime ==
  /\ \A real \in served : real = 0 \/ real >= granted
  /\ \A real \in refused : real < granted

(***************************************************************************)
(* The deadline ends it: however busy the pastes, serveX11 returns and the *)
(* selection is no longer its.                                             *)
(***************************************************************************)
DeadlineEnds == expired ~> (pc = "done" /\ owner # "kleidos")

(***************************************************************************)
(* A paste is answered, with the value or a refusal, unless serveX11       *)
(* returns first: also one that arrives while a reply is awaited and is    *)
(* set aside (x11.go, 240-257 and 398-403), and one behind others.         *)
(***************************************************************************)
Waiting(real) ==
  \E queue \in {pending, toClient} :
    \E i \in DOMAIN queue : queue[i].kind = "request" /\ queue[i].real = real
PastesAnswered ==
  \A real \in 0..MaxTime : Waiting(real) ~> (real \in served \union refused \/ pc = "done")

(***************************************************************************)
(* x11.go, 408-410: relinquishing "cannot steal from a newer owner": what  *)
(* another client has copied is never cleared.                             *)
(***************************************************************************)
NewerOwnerKept == [][owner = "other" => owner' # "none"]_vars
=============================================================================
