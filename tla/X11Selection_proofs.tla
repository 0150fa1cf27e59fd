-------------------------- MODULE X11Selection_proofs --------------------------
(***************************************************************************)
(* Proofs about serveX11, for every modulus of the timestamps, every       *)
(* length of the run and of the queues, and any number of other copies.    *)
(***************************************************************************)
EXTENDS X11Selection, TLAPS

(***************************************************************************)
(* What is under way in either direction.                                  *)
(***************************************************************************)

\* The owner a reply can have named by now: us, only after a grant.
Owners == {"none", "other"} \union {who \in {"kleidos"} : granted > 0}

\* What the client can have sent so far: it takes the selection with one time only.
Requests ==
  {Probe, GetOwner, Notify, SetOwner("none", 0)}
    \union {SetOwner("kleidos", time) : time \in {ownTime} \ {0}}

\* What the server can have sent so far.
Arrivals ==
  {[kind |-> "notify", time |-> Wire(t)] : t \in 1..clock}
    \union {[kind |-> "reply", owner |-> who] : who \in Owners}
    \union {SelectionClear} \union {SelectionRequest(real) : real \in 0..clock}

ChannelInv ==
  /\ toServer \in Seq(Requests) /\ Len(toServer) <= MaxQueue
  /\ toClient \in Seq(Arrivals) /\ pending \in Seq(Arrivals)

(***************************************************************************)
(* The two ends.                                                           *)
(***************************************************************************)

Connecting == {"dial", "setup", "probe", "time", "ask", "confirm"}

\* serveX11 is ready from the drain on, has answered nobody before, and has a
\* result when it is done.
ClientInv ==
  /\ pc \in Connecting \union {"drain", "serve", "done"}
  /\ result \in {"none", "nil", "backend", "final"} /\ (pc # "done" => result = "none")
  /\ readied \in BOOLEAN /\ expired \in BOOLEAN
  /\ pc \in Connecting => ~readied
  /\ pc \in {"drain", "serve"} => readied
  /\ ~readied => served = {} /\ refused = {}
  /\ readied => granted > 0
  /\ ownTime \in 0..Wrap - 1
  /\ served \subseteq 0..clock /\ refused \subseteq 0..clock

\* The last change of owner is not before the grant, nor in the future.
ServerInv ==
  /\ owner \in {"none", "kleidos", "other"}
  /\ clock \in 1..MaxTime /\ changed \in 0..clock /\ granted \in 0..changed
  /\ owner = "kleidos" => granted > 0
  /\ copies \in 0..MaxCopies

IInv == ChannelInv /\ ClientInv /\ ServerInv

\* As long as the clock does not wrap, the selection is granted as of the very
\* time that was learnt, and that is what the pastes are compared with.
JudgedInv ==
  /\ ownTime <= clock
  /\ granted \in {0, ownTime}
  /\ \A real \in served : real = 0 \/ real >= ownTime
  /\ \A real \in refused : real < ownTime
-----------------------------------------------------------------------------
(***************************************************************************)
(* Lemmas about timestamps, packets and requests.                          *)
(***************************************************************************)

LEMMA WireRange == ASSUME NEW t \in Int PROVE Wire(t) \in 0..Wrap - 1
  BY X11Assumption DEF Wire

\* As long as nothing wraps a timestamp is the time itself...
LEMMA WireSmall == ASSUME NEW t \in 0..Wrap - 1 PROVE Wire(t) = t
  BY X11Assumption DEF Wire

\* ... and the server takes it for that time.
LEMMA MeansSmall ==
  ASSUME clock \in 1..MaxTime, MaxTime < Wrap, NEW time \in 0..clock PROVE Means(time) = time
<1>1. clock - time \in 0..Wrap - 1
  BY X11Assumption
<1>2. (clock - time) % Wrap = clock - time
  BY <1>1, X11Assumption
<1> QED
  BY <1>2 DEF Means

\* A nonzero timestamp that the server accepts, whatever it takes it for, is
\* neither zero nor in the future.
LEMMA MeansPositive ==
  ASSUME clock \in 1..MaxTime, NEW time \in 1..Wrap - 1, Means(time) >= 0
  PROVE  Means(time) \in 1..clock
<1>1. (clock - time) % Wrap \in 0..Wrap - 1
  BY X11Assumption
<1>2. clock # (clock - time) % Wrap
  BY X11Assumption
<1> QED
  BY <1>1, <1>2, X11Assumption DEF Means

LEMMA RequestKinds ==
  ASSUME NEW m \in Requests, m.op = "set"
  PROVE  \/ m.who = "none" /\ m.time = 0
         \/ m.who = "kleidos" /\ m.time = ownTime /\ ownTime # 0
  BY DEF Requests, Probe, GetOwner, Notify, SetOwner

LEMMA ArrivalKinds ==
  ASSUME NEW p \in Arrivals
  PROVE  /\ p.kind = "reply" /\ p.owner = "kleidos" => granted > 0
         /\ p.kind = "request" => p.real \in 0..clock /\ p.time = Wire(p.real)
         /\ p.kind = "notify" => \E t \in 1..clock : p.time = Wire(t)
  BY DEF Arrivals, Owners, SelectionClear, SelectionRequest

\* What the server sends belongs to what it can have sent.
LEMMA Sendings ==
  ASSUME ServerInv
  PROVE  /\ PropertyNotify \in Arrivals /\ OwnerReply \in Arrivals /\ SelectionClear \in Arrivals
         /\ \A real \in 0..clock : SelectionRequest(real) \in Arrivals
  BY DEF ServerInv, Arrivals, Owners, PropertyNotify, OwnerReply

LEMMA ArrivalsTyped == ServerInv => Arrivals \subseteq Packets
<1> SUFFICES ASSUME ServerInv, NEW p \in Arrivals PROVE p \in Packets
  OBVIOUS
<1>1. CASE \E t \in 1..clock : p = [kind |-> "notify", time |-> Wire(t)]
  BY <1>1, WireRange, X11Assumption DEF ServerInv, Packets
<1>2. CASE \E who \in Owners : p = [kind |-> "reply", owner |-> who]
  BY <1>2 DEF Owners, Packets
<1>3. CASE p = SelectionClear
  BY <1>3 DEF SelectionClear, Packets
<1>4. CASE \E real \in 0..clock : p = SelectionRequest(real)
  BY <1>4, WireRange, X11Assumption DEF ServerInv, SelectionRequest, Packets
<1> QED
  BY <1>1, <1>2, <1>3, <1>4 DEF Arrivals

LEMMA SeqGrows == ASSUME NEW S, NEW T, S \subseteq T PROVE Seq(S) \subseteq Seq(T)
  OBVIOUS

\* What was under way still is what can have been sent, as time passes and
\* after a grant.
LEMMA ArrivalsGrow ==
  ASSUME ServerInv, ServerInv', clock <= clock', granted > 0 => granted' > 0
  PROVE  Seq(Arrivals) \subseteq Seq(Arrivals')
<1>1. 1..clock \subseteq 1..clock' /\ 0..clock \subseteq 0..clock'
  BY DEF ServerInv
<1>2. Owners \subseteq Owners'
  BY DEF Owners
<1>3. Arrivals \subseteq Arrivals'
  BY <1>1, <1>2 DEF Arrivals, Wire, SelectionClear, SelectionRequest
<1> QED
  BY <1>3, SeqGrows

LEMMA ArrivalsKept == UNCHANGED <<clock, granted>> => Arrivals' = Arrivals
  BY DEF Arrivals, Owners, Wire, SelectionClear, SelectionRequest

LEMMA RequestsKept == UNCHANGED ownTime => Requests' = Requests
  BY DEF Requests, Probe, GetOwner, Notify, SetOwner

LEMMA ServerKept == ServerInv /\ UNCHANGED server => ServerInv'
  BY DEF ServerInv, server
-----------------------------------------------------------------------------
(***************************************************************************)
(* The inductive invariant: one lemma for each side of the connection.     *)
(***************************************************************************)

LEMMA InitIInv == Init => IInv
<1> SUFFICES ASSUME Init PROVE IInv
  OBVIOUS
<1>1. ChannelInv
  BY X11Assumption DEF Init, ChannelInv
<1>2. ClientInv
  <2>1. ownTime \in 0..Wrap - 1
    BY X11Assumption DEF Init
  <2> QED
    BY <2>1 DEF Init, ClientInv, Connecting
<1>3. ServerInv
  BY X11Assumption DEF Init, ServerInv
<1> QED
  BY <1>1, <1>2, <1>3 DEF IInv

\* A step of the client leaves the server alone, so only its own state and the
\* channels are to be looked at.
LEMMA ClientStep ==
  ASSUME IInv, UNCHANGED server,
         toServer' = toServer \/ \E m \in Requests' : Send(m),
         ownTime' = ownTime \/ ownTime = 0,
         toClient' = toClient \/ Receive,
         \/ pending' = pending
         \/ pending # <<>> /\ pending' = Tail(pending)
         \/ toClient # <<>> /\ pending' = Append(pending, Head(toClient))
  PROVE  ServerInv' /\ ChannelInv'
<1> USE DEF IInv
<1>1. ServerInv'
  BY ServerKept
<1>2. Arrivals' = Arrivals
  BY ArrivalsKept DEF server
<1>3. Requests \subseteq Requests'
  BY DEF Requests, Probe, GetOwner, Notify, SetOwner
<1>4. Seq(Requests) \subseteq Seq(Requests')
  BY <1>3, SeqGrows
<1>5. toServer' \in Seq(Requests') /\ Len(toServer') <= MaxQueue
  <2>1. toServer \in Seq(Requests') /\ Len(toServer) <= MaxQueue
    BY <1>4 DEF ChannelInv
  <2>2. ASSUME NEW m \in Requests', Send(m)
        PROVE  toServer' \in Seq(Requests') /\ Len(toServer') <= MaxQueue
    <3>1. toServer' = Append(toServer, m) /\ Len(toServer) < MaxQueue
      BY <2>2 DEF Send
    <3>2. Append(toServer, m) \in Seq(Requests') /\ Len(Append(toServer, m)) = Len(toServer) + 1
      BY <2>1
    <3> QED
      BY <2>1, <3>1, <3>2, X11Assumption
  <2> QED
    BY <2>1, <2>2
<1>6. toClient' \in Seq(Arrivals)
  BY DEF ChannelInv, Receive
<1>7. pending' \in Seq(Arrivals)
  <2>1. pending \in Seq(Arrivals) /\ toClient \in Seq(Arrivals)
    BY DEF ChannelInv
  <2>2. CASE pending # <<>> /\ pending' = Tail(pending)
    BY <2>1, <2>2
  <2>3. CASE toClient # <<>> /\ pending' = Append(pending, Head(toClient))
    BY <2>1, <2>3
  <2> QED
    BY <2>1, <2>2, <2>3
<1> QED
  BY <1>1, <1>2, <1>5, <1>6, <1>7 DEF ChannelInv

\* Handling one packet, once ready.
LEMMA HandleStep ==
  ASSUME ClientInv, ServerInv, pc \in {"drain", "serve"}, NEW p \in Arrivals, Handle(p),
         UNCHANGED <<readied, expired, ownTime, server>>
  PROVE  ClientInv' /\ (toServer' = toServer \/ Send(Notify))
<1>1. toServer' = toServer \/ Send(Notify)
  BY DEF Handle
<1>2. (pc' = pc /\ result' = result) \/ (pc' = "done" /\ result' = "nil")
  BY DEF Handle
<1>3. p.kind = "request" => p.real \in 0..clock
  BY ArrivalKinds
<1>4. served' \subseteq 0..clock /\ refused' \subseteq 0..clock
  BY <1>3 DEF Handle, ClientInv
<1> QED
  BY <1>1, <1>2, <1>4 DEF ClientInv, Connecting, server

LEMMA RequestsIn ==
  /\ {Probe, GetOwner, Notify, SetOwner("none", 0)} \subseteq Requests
  /\ ownTime # 0 => SetOwner("kleidos", ownTime) \in Requests
  BY DEF Requests

LEMMA ClientKeepsIInv == IInv /\ (Client \/ Break \/ Expire) => IInv'
<1> SUFFICES ASSUME IInv, Client \/ Break \/ Expire PROVE IInv'
  OBVIOUS
<1> USE DEF IInv, Goto
<1>1. CASE Dial
  <2>1. ClientInv'
    BY <1>1 DEF Dial, ClientInv, Connecting, server
  <2> QED
    BY <1>1, <2>1, ClientStep DEF Dial
<1>2. CASE Setup
  <2>1. ClientInv'
    BY <1>2 DEF Setup, ClientInv, Connecting, server
  <2> QED
    BY <1>2, <2>1, ClientStep DEF Setup
<1>3. CASE ProbeTime
  <2>1. ClientInv'
    BY <1>3 DEF ProbeTime, ClientInv, Connecting, server
  <2>2. Probe \in Requests'
    BY RequestsIn DEF Requests
  <2> QED
    BY <1>3, <2>1, <2>2, ClientStep DEF ProbeTime
<1>4. CASE LearnTime
  <2>1. Head(toClient) \in Arrivals
    BY <1>4 DEF LearnTime, Receive, ChannelInv
  <2>2. ownTime' \in 0..Wrap - 1
    BY <1>4, <2>1, ArrivalKinds, WireRange, X11Assumption DEF LearnTime
  <2>3. ClientInv'
    BY <1>4, <2>2 DEF LearnTime, ClientInv, Connecting, server
  <2> QED
    BY <1>4, <2>3, ClientStep DEF LearnTime
<1>5. CASE TakeSelection
  <2>1. ClientInv'
    BY <1>5 DEF TakeSelection, ClientInv, Connecting, server
  <2>2. SetOwner("kleidos", ownTime) \in Requests'
    BY <1>5, RequestsIn, RequestsKept DEF TakeSelection
  <2> QED
    BY <1>5, <2>1, <2>2, ClientStep DEF TakeSelection
<1>6. CASE AskOwner
  <2>1. ClientInv'
    BY <1>6 DEF AskOwner, ClientInv, Connecting, server
  <2>2. GetOwner \in Requests'
    BY <1>6, RequestsIn, RequestsKept DEF AskOwner
  <2> QED
    BY <1>6, <2>1, <2>2, ClientStep DEF AskOwner
<1>7. CASE Confirm
  <2>1. Head(toClient) \in Arrivals
    BY <1>7 DEF Confirm, Receive, ChannelInv
  <2>2. Head(toClient).kind = "reply" /\ Head(toClient).owner = "kleidos" => granted > 0
    BY <2>1, ArrivalKinds
  <2>3. pc = "confirm" /\ UNCHANGED <<expired, ownTime, served, refused, server>>
    BY <1>7 DEF Confirm
  <2>4. ClientInv'
    <3>1. CASE Head(toClient).kind = "reply" /\ Head(toClient).owner = "kleidos"
      <4>1. granted > 0 /\ readied' = TRUE /\ pc' = "drain" /\ result' = result
        BY <1>7, <2>2, <3>1 DEF Confirm
      <4> QED
        BY <2>3, <4>1 DEF ClientInv, Connecting, server
    <3>2. CASE ~(Head(toClient).kind = "reply" /\ Head(toClient).owner = "kleidos")
      <4>1. readied' = readied
        BY <1>7, <3>2 DEF Confirm
      <4>2. UNCHANGED <<pc, result>> \/ (pc' = "done" /\ result' = "final")
        BY <1>7, <3>2 DEF Confirm
      <4> QED
        BY <2>3, <4>1, <4>2 DEF ClientInv, Connecting, server
    <3> QED
      BY <3>1, <3>2
  <2>5. \/ pending' = pending
        \/ toClient # <<>> /\ pending' = Append(pending, Head(toClient))
    BY <1>7 DEF Confirm, Receive
  <2> QED
    BY <1>7, <2>4, <2>5, ClientStep DEF Confirm
<1>8. CASE Drain
  <2>1. CASE pending = <<>>
    <3>1. ClientInv'
      BY <1>8, <2>1 DEF Drain, ClientInv, Connecting, server
    <3> QED
      BY <1>8, <2>1, <3>1, ClientStep DEF Drain
  <2>2. CASE pending # <<>>
    <3>1. Head(pending) \in Arrivals
      BY <2>2 DEF ChannelInv
    <3>2. ClientInv' /\ (toServer' = toServer \/ Send(Notify))
      BY <1>8, <2>2, <3>1, HandleStep DEF Drain
    <3>3. Notify \in Requests'
      BY <1>8, RequestsIn, RequestsKept DEF Drain
    <3> QED
      BY <1>8, <2>2, <3>2, <3>3, ClientStep DEF Drain
  <2> QED
    BY <2>1, <2>2
<1>9. CASE Serve
  <2>1. Head(toClient) \in Arrivals
    BY <1>9 DEF Serve, Receive, ChannelInv
  <2>2. ClientInv' /\ (toServer' = toServer \/ Send(Notify))
    BY <1>9, <2>1, HandleStep DEF Serve
  <2>3. Notify \in Requests'
    BY <1>9, RequestsIn, RequestsKept DEF Serve
  <2> QED
    BY <1>9, <2>2, <2>3, ClientStep DEF Serve
<1>10. CASE Relinquish
  <2>1. ClientInv'
    BY <1>10 DEF Relinquish, ClientInv, Connecting, server
  <2>2. SetOwner("none", 0) \in Requests'
    BY <1>10, RequestsIn, RequestsKept DEF Relinquish
  <2> QED
    BY <1>10, <2>1, <2>2, ClientStep DEF Relinquish
<1>11. CASE Break
  <2>1. ClientInv'
    BY <1>11 DEF Break, ClientInv, Connecting, server
  <2> QED
    BY <1>11, <2>1, ClientStep DEF Break
<1>12. CASE Expire
  <2>1. ClientInv'
    BY <1>12 DEF Expire, ClientInv, Connecting, server, client
  <2> QED
    BY <1>12, <2>1, ClientStep DEF Expire, client
<1> QED
  BY <1>1, <1>2, <1>3, <1>4, <1>5, <1>6, <1>7, <1>8, <1>9, <1>10, <1>11, <1>12 DEF Client

\* A step of the server or of another client leaves serveX11 alone.
LEMMA ServerStep ==
  ASSUME IInv, ServerInv', UNCHANGED <<client, expired>>,
         clock <= clock', granted > 0 => granted' > 0,
         toServer' = toServer \/ (toServer # <<>> /\ toServer' = Tail(toServer)),
         toClient' = toClient \/ \E p \in Arrivals : toClient' = Append(toClient, p)
  PROVE  IInv' /\ (granted > 0 => granted' > 0)
<1> USE DEF IInv
<1>1. toServer' \in Seq(Requests') /\ Len(toServer') <= MaxQueue
  <2>1. Requests' = Requests
    BY RequestsKept DEF client
  <2>2. toServer \in Seq(Requests) /\ Len(toServer) <= MaxQueue
    BY DEF ChannelInv
  <2>3. CASE toServer # <<>> /\ toServer' = Tail(toServer)
    <3>1. Tail(toServer) \in Seq(Requests) /\ Len(Tail(toServer)) = Len(toServer) - 1
      BY <2>2, <2>3
    <3>2. Len(toServer) - 1 <= MaxQueue
      BY <2>2, X11Assumption
    <3> QED
      BY <2>1, <2>3, <3>1, <3>2
  <2> QED
    BY <2>1, <2>2, <2>3
<1>2. toClient' \in Seq(Arrivals') /\ pending' \in Seq(Arrivals')
  <2>1. toClient \in Seq(Arrivals) /\ pending \in Seq(Arrivals)
    BY DEF ChannelInv
  <2>2. toClient' \in Seq(Arrivals) /\ pending' \in Seq(Arrivals)
    BY <2>1 DEF client
  <2> QED
    BY <2>2, ArrivalsGrow
<1>3. ClientInv'
  <2>1. 0..clock \subseteq 0..clock'
    BY DEF ServerInv
  <2> QED
    BY <2>1 DEF ClientInv, Connecting, client
<1> QED
  BY <1>1, <1>2, <1>3 DEF ChannelInv

\* SetSelectionOwner, by us or by another client: the times stay in order.
LEMMA ChangeStep ==
  ASSUME ServerInv, NEW who \in {"none", "kleidos", "other"}, NEW at \in 0..clock, at >= changed,
         who = "kleidos" => at > 0, Change(who, at), clock' = clock, copies' \in 0..MaxCopies
  PROVE  /\ ServerInv' /\ (granted > 0 => granted' > 0)
         /\ toClient' = toClient \/ \E p \in Arrivals : toClient' = Append(toClient, p)
<1>1. ServerInv' /\ (granted > 0 => granted' > 0)
  BY X11Assumption DEF ServerInv, Change
<1>2. toClient' = toClient \/ \E p \in Arrivals : toClient' = Append(toClient, p)
  BY Sendings DEF Change
<1> QED
  BY <1>1, <1>2

\* The server keeps it too, and never takes back that the selection was granted.
LEMMA ServerKeepsIInv ==
  IInv /\ (Process \/ Disconnect \/ Tick \/ OtherCopies \/ Paste) =>
    IInv' /\ (granted > 0 => granted' > 0)
<1> SUFFICES ASSUME IInv, Process \/ Disconnect \/ Tick \/ OtherCopies \/ Paste
             PROVE  IInv' /\ (granted > 0 => granted' > 0)
  OBVIOUS
<1> USE DEF IInv
<1>1. CASE Process
  <2> DEFINE m == Head(toServer)
  <2>1. m \in Requests
    BY <1>1 DEF Process, ChannelInv
  <2>2. CASE m.op # "set"
    <3>1. UNCHANGED server /\ (toClient' = toClient \/ \E p \in Arrivals : toClient' = Append(toClient, p))
      BY <1>1, <2>2, Sendings DEF Process
    <3>2. ServerInv' /\ clock <= clock' /\ (granted > 0 => granted' > 0)
      BY <3>1, ServerKept DEF server, ServerInv
    <3> QED
      BY <1>1, <3>1, <3>2, ServerStep DEF Process
  <2>3. CASE m.op = "set"
    <3> DEFINE at == IF m.time = 0 THEN clock ELSE Means(m.time)
    <3>1. \/ at >= changed /\ Change(m.who, at)
          \/ UNCHANGED <<owner, changed, granted, toClient>>
      BY <1>1, <2>3 DEF Process
    <3>2. UNCHANGED <<clock, copies>>
      BY <1>1, <2>3 DEF Process
    <3>3. CASE UNCHANGED <<owner, changed, granted, toClient>>
      <4>1. ServerInv' /\ clock <= clock' /\ (granted > 0 => granted' > 0)
        BY <3>2, <3>3 DEF ServerInv
      <4> QED
        BY <1>1, <3>3, <4>1, ServerStep DEF Process
    <3>4. CASE at >= changed /\ Change(m.who, at)
      <4>1. \/ m.who = "none" /\ m.time = 0
            \/ m.who = "kleidos" /\ m.time \in 1..Wrap - 1
        BY <2>1, <2>3, RequestKinds, X11Assumption DEF ClientInv
      <4>2. at \in 0..clock /\ (m.who = "kleidos" => at > 0)
        <5>1. CASE m.who = "none" /\ m.time = 0
          BY <5>1 DEF ServerInv
        <5>2. CASE m.who = "kleidos" /\ m.time \in 1..Wrap - 1
          <6>1. Means(m.time) >= 0 /\ at = Means(m.time)
            BY <3>4, <5>2, X11Assumption DEF ServerInv, Means
          <6>2. Means(m.time) \in 1..clock
            BY <5>2, <6>1, MeansPositive DEF ServerInv
          <6> QED
            BY <6>1, <6>2 DEF ServerInv
        <5> QED
          BY <4>1, <5>1, <5>2
      <4>3. /\ ServerInv' /\ clock <= clock' /\ (granted > 0 => granted' > 0)
            /\ toClient' = toClient \/ \E p \in Arrivals : toClient' = Append(toClient, p)
        BY <3>2, <3>4, <4>1, <4>2, ChangeStep DEF ServerInv
      <4> QED
        BY <1>1, <4>3, ServerStep DEF Process
    <3> QED
      BY <3>1, <3>3, <3>4
  <2> QED
    BY <2>2, <2>3
<1>2. CASE Disconnect
  <2>1. ServerInv' /\ clock <= clock' /\ (granted > 0 => granted' > 0)
    BY <1>2 DEF Disconnect, ServerInv
  <2> QED
    BY <1>2, <2>1, ServerStep DEF Disconnect
<1>3. CASE Tick
  <2>1. ServerInv' /\ clock <= clock' /\ (granted > 0 => granted' > 0)
    BY <1>3, X11Assumption DEF Tick, ServerInv
  <2> QED
    BY <1>3, <2>1, ServerStep DEF Tick
<1>4. CASE OtherCopies
  <2>1. clock' = clock /\ copies' \in 0..MaxCopies /\ Change("other", clock)
    BY <1>4, X11Assumption DEF OtherCopies, ServerInv
  <2>2. clock \in 0..clock /\ clock >= changed /\ clock <= clock'
    BY <2>1 DEF ServerInv
  <2>3. /\ ServerInv' /\ (granted > 0 => granted' > 0)
        /\ toClient' = toClient \/ \E p \in Arrivals : toClient' = Append(toClient, p)
    BY <2>1, <2>2, ChangeStep
  <2> QED
    BY <1>4, <2>2, <2>3, ServerStep DEF OtherCopies
<1>5. CASE Paste
  <2>1. ServerInv' /\ clock <= clock' /\ (granted > 0 => granted' > 0)
    BY <1>5, ServerKept DEF Paste, ServerInv, server
  <2>2. \E p \in Arrivals : toClient' = Append(toClient, p)
    BY <1>5, Sendings DEF Paste
  <2> QED
    BY <1>5, <2>1, <2>2, ServerStep DEF Paste
<1> QED
  BY <1>1, <1>2, <1>3, <1>4, <1>5

\* The inductive invariant: every step of serveX11, of the server and of the
\* other clients keeps it.
THEOREM IInvHolds == Spec => []IInv
<1>1. IInv /\ UNCHANGED vars => IInv'
  <2> SUFFICES ASSUME IInv, UNCHANGED vars PROVE IInv'
    OBVIOUS
  <2>1. ServerInv' /\ clock <= clock' /\ (granted > 0 => granted' > 0)
    BY ServerKept DEF IInv, ServerInv, vars, server
  <2> QED
    BY <2>1, ServerStep DEF vars
<1>2. IInv /\ [Next]_vars => IInv'
  BY <1>1, ClientKeepsIInv, ServerKeepsIInv DEF Next
<1> QED
  BY InitIInv, <1>2, PTL DEF Spec
-----------------------------------------------------------------------------
(***************************************************************************)
(* Typing; with it, that no more than MaxQueue requests are under way.     *)
(***************************************************************************)
THEOREM TypeCorrect == Spec => []TypeOK
<1>1. IInv => TypeOK
  <2> SUFFICES ASSUME IInv PROVE TypeOK
    OBVIOUS
  <2>1. Seq(Arrivals) \subseteq Seq(Packets)
    BY ArrivalsTyped, SeqGrows DEF IInv
  <2>2. pending \in Seq(Packets) /\ toClient \in Seq(Packets)
    BY <2>1 DEF IInv, ChannelInv
  <2>3. /\ \A i \in DOMAIN pending : pending[i] \in Packets
        /\ \A i \in DOMAIN toClient : toClient[i] \in Packets
    BY <2>2
  <2>4. 0..clock \subseteq 0..MaxTime /\ changed \in 0..MaxTime /\ granted \in 0..MaxTime
    BY X11Assumption DEF IInv, ServerInv
  <2> QED
    BY <2>3, <2>4 DEF IInv, ChannelInv, ClientInv, ServerInv, Connecting, TypeOK
<1> QED
  BY IInvHolds, <1>1, PTL
-----------------------------------------------------------------------------
(***************************************************************************)
(* serveX11 implements ClipboardBackend.                                   *)
(***************************************************************************)

\* A grant, however late, is the abstract Offer; without one the server's steps
\* do not show.
LEMMA ServerRefines ==
  ASSUME IInv, IInv', UNCHANGED <<readied, served, result>>, granted > 0 => granted' > 0
  PROVE  [Backend!Next]_(Backend!vars)
  BY DEF Backend!Next, Backend!Offer, Backend!vars

LEMMA HandleRefines ==
  ASSUME IInv, pc \in {"drain", "serve"}, NEW p, Handle(p), UNCHANGED <<readied, server>>
  PROVE  [Backend!Next]_(Backend!vars)
<1>1. result = "none" /\ readied /\ granted > 0 /\ granted' = granted
  BY DEF IInv, ClientInv, server
<1>2. CASE p.kind = "request"
  <2>1. result' = result /\ served \subseteq served'
    BY <1>2 DEF Handle
  <2> QED
    BY <1>1, <2>1 DEF Backend!Next, Backend!Paste, Backend!vars
<1>3. CASE p.kind # "request"
  <2>1. served' = served /\ (result' = result \/ result' = "nil")
    BY <1>3 DEF Handle
  <2> QED
    BY <1>1, <2>1 DEF Backend!Next, Backend!Return, Backend!vars
<1> QED
  BY <1>2, <1>3

LEMMA ClientRefines ==
  IInv /\ (Client \/ Break \/ Expire) => [Backend!Next]_(Backend!vars)
<1> SUFFICES ASSUME IInv, Client \/ Break \/ Expire PROVE [Backend!Next]_(Backend!vars)
  OBVIOUS
<1> USE DEF Goto, IInv, ClientInv, Connecting, server, Backend!vars
<1>1. CASE Dial
  BY <1>1 DEF Dial, Backend!Next, Backend!Return
<1>2. CASE Setup
  BY <1>2 DEF Setup, Backend!Next, Backend!Return
<1>3. CASE ProbeTime \/ LearnTime \/ TakeSelection \/ AskOwner \/ Expire
  BY <1>3 DEF ProbeTime, LearnTime, TakeSelection, AskOwner, Expire, client
<1>4. CASE Confirm
  <2>1. Head(toClient) \in Arrivals
    BY <1>4 DEF Confirm, Receive, ChannelInv
  <2>2. Head(toClient).kind = "reply" /\ Head(toClient).owner = "kleidos" => granted > 0
    BY <2>1, ArrivalKinds
  <2>3. CASE UNCHANGED <<readied, result>>
    BY <1>4, <2>3 DEF Confirm
  <2>4. CASE Head(toClient).kind = "reply" /\ Head(toClient).owner = "kleidos"
    BY <1>4, <2>2, <2>4 DEF Confirm, Backend!Next, Backend!Ready
  <2>5. CASE result' = "final" /\ UNCHANGED readied
    BY <1>4, <2>5 DEF Confirm, Backend!Next, Backend!Return
  <2> QED
    BY <1>4, <2>3, <2>4, <2>5 DEF Confirm
<1>5. CASE Drain
  <2>1. CASE pending = <<>>
    BY <1>5, <2>1 DEF Drain
  <2>2. CASE pending # <<>>
    BY <1>5, <2>2, HandleRefines DEF Drain
  <2> QED
    BY <2>1, <2>2
<1>6. CASE Serve
  BY <1>6, HandleRefines DEF Serve
<1>7. CASE Relinquish
  BY <1>7 DEF Relinquish, Backend!Next, Backend!Return
<1>8. CASE Break
  BY <1>8 DEF Break, Backend!Next, Backend!Return
<1> QED
  BY <1>1, <1>2, <1>3, <1>4, <1>5, <1>6, <1>7, <1>8 DEF Client

(***************************************************************************)
(* serveX11 is a backend as Serve and the copy verb understand it, for     *)
(* every order of its steps, the server's and the other clients': ready    *)
(* follows a grant, no paste is answered before ready or after the return, *)
(* and the next backend is tried only if nobody was given the value.       *)
(***************************************************************************)
THEOREM RefinesBackend == Spec => IsBackend
<1>1. Init => Backend!Init
  BY DEF Init, Backend!Init
<1>2. IInv /\ [Next]_vars => [Backend!Next]_(Backend!vars)
  <2> SUFFICES ASSUME IInv, [Next]_vars PROVE [Backend!Next]_(Backend!vars)
    OBVIOUS
  <2>1. CASE Client \/ Break \/ Expire
    BY <2>1, ClientRefines
  <2>2. CASE Process \/ Disconnect \/ Tick \/ OtherCopies \/ Paste
    <3>1. IInv' /\ (granted > 0 => granted' > 0)
      BY <2>2, ServerKeepsIInv
    <3>2. UNCHANGED client
      BY <2>2 DEF Process, Disconnect, Tick, OtherCopies, Paste
    <3> QED
      BY <3>1, <3>2, ServerRefines DEF client
  <2>3. CASE UNCHANGED vars
    BY <2>3 DEF vars, client, server, Backend!vars
  <2> QED
    BY <2>1, <2>2, <2>3 DEF Next
<1> QED
  BY <1>1, <1>2, IInvHolds, PTL DEF Spec, IsBackend, Backend!Spec
-----------------------------------------------------------------------------
(***************************************************************************)
(* Pastes and their times, as long as the server's clock does not wrap.    *)
(***************************************************************************)
LEMMA HandleJudges ==
  ASSUME MaxTime < Wrap, IInv, JudgedInv, NEW p \in Arrivals, Handle(p),
         UNCHANGED <<ownTime, server>>
  PROVE  JudgedInv'
<1>1. CASE p.kind = "request"
  <2>1. p.real \in 0..clock /\ p.time = p.real
    <3>1. p.real \in 0..clock /\ p.time = Wire(p.real)
      BY <1>1, ArrivalKinds
    <3>2. p.real \in 0..Wrap - 1
      BY <3>1, X11Assumption DEF IInv, ServerInv
    <3> QED
      BY <3>1, <3>2, WireSmall
  <2>2. CASE Refuses(p.time)
    <3>1. p.real < ownTime /\ served' = served /\ refused' = refused \union {p.real}
      BY <1>1, <2>1, <2>2 DEF Handle, Refuses
    <3> QED
      BY <3>1 DEF JudgedInv, server
  <2>3. CASE ~Refuses(p.time)
    <3>1. p.real = 0 \/ p.real >= ownTime
      BY <2>1, <2>3 DEF Refuses, IInv, ClientInv, ServerInv
    <3>2. served' = served \union {p.real} /\ refused' = refused
      BY <1>1, <2>3 DEF Handle
    <3> QED
      BY <3>1, <3>2 DEF JudgedInv, server
  <2> QED
    BY <2>2, <2>3
<1>2. CASE p.kind # "request"
  BY <1>2 DEF Handle, JudgedInv, server
<1> QED
  BY <1>1, <1>2

LEMMA JudgedKept ==
  ASSUME MaxTime < Wrap, IInv, JudgedInv, [Next]_vars PROVE JudgedInv'
<1> USE DEF IInv
<1>1. CASE UNCHANGED <<ownTime, granted, served, refused>> /\ clock' \in Nat /\ clock' >= clock
  BY <1>1 DEF JudgedInv, ClientInv, ServerInv
<1>2. CASE Dial \/ Setup \/ ProbeTime \/ TakeSelection \/ AskOwner \/ Confirm \/ Relinquish
           \/ Break \/ Expire
  BY <1>2 DEF Dial, Setup, ProbeTime, TakeSelection, AskOwner, Confirm, Relinquish, Break,
     Expire, client, server, JudgedInv
<1>3. CASE LearnTime
  <2>1. Head(toClient) \in Arrivals
    BY <1>3 DEF LearnTime, Receive, ChannelInv
  <2>2. ownTime' \in 0..clock
    <3>1. CASE Head(toClient).kind = "notify"
      <4>1. PICK t \in 1..clock : Head(toClient).time = Wire(t)
        BY <2>1, <3>1, ArrivalKinds
      <4>2. Wire(t) = t
        BY <4>1, WireSmall, X11Assumption DEF ServerInv
      <4> QED
        BY <1>3, <3>1, <4>1, <4>2 DEF LearnTime, ServerInv
    <3>2. CASE Head(toClient).kind # "notify"
      BY <1>3, <3>2 DEF LearnTime, ServerInv
    <3> QED
      BY <3>1, <3>2
  <2>3. served' = {} /\ refused' = {} /\ granted' = 0 /\ clock' = clock
    BY <1>3 DEF LearnTime, ClientInv, Connecting, JudgedInv, server
  <2> QED
    BY <2>2, <2>3 DEF JudgedInv, ServerInv
<1>4. CASE Drain
  <2>1. CASE pending = <<>>
    BY <1>4, <2>1 DEF Drain, JudgedInv, server
  <2>2. CASE pending # <<>>
    <3>1. Head(pending) \in Arrivals
      BY <2>2 DEF ChannelInv
    <3> QED
      BY <1>4, <2>2, <3>1, HandleJudges DEF Drain
  <2> QED
    BY <2>1, <2>2
<1>5. CASE Serve
  <2>1. Head(toClient) \in Arrivals
    BY <1>5 DEF Serve, Receive, ChannelInv
  <2> QED
    BY <1>5, <2>1, HandleJudges DEF Serve
<1>6. CASE Process
  <2>1. UNCHANGED <<ownTime, served, refused, clock>>
    BY <1>6 DEF Process, client, server
  <2>2. CASE granted' = granted
    BY <2>1, <2>2 DEF JudgedInv
  <2>3. CASE granted' # granted
    <3> DEFINE m == Head(toServer)
    <3>1. m \in Requests
      BY <1>6 DEF Process, ChannelInv
    <3>2. /\ m.op = "set" /\ m.who = "kleidos"
          /\ granted' = IF m.time = 0 THEN clock ELSE Means(m.time)
      BY <1>6, <2>3 DEF Process, Change, server
    <3>3. m.time = ownTime /\ ownTime # 0
      BY <3>1, <3>2, RequestKinds
    <3>4. ownTime \in 0..clock
      BY DEF JudgedInv, ClientInv, ServerInv
    <3>5. granted' = ownTime
      BY <3>2, <3>3, <3>4, MeansSmall DEF ServerInv
    <3> QED
      BY <2>1, <3>5 DEF JudgedInv
  <2> QED
    BY <2>2, <2>3
<1>7. CASE Disconnect \/ Paste
  BY <1>7 DEF Disconnect, Paste, client, server, JudgedInv
<1>8. CASE Tick \/ OtherCopies
  BY <1>1, <1>8 DEF Tick, OtherCopies, Change, client, server, ServerInv
<1>9. CASE UNCHANGED vars
  BY <1>9 DEF vars, client, server, JudgedInv
<1> QED
  BY <1>2, <1>3, <1>4, <1>5, <1>6, <1>7, <1>8, <1>9 DEF Next, Client

(***************************************************************************)
(* A paste made before serveX11 took the selection is refused, and no      *)
(* other is, while the clock has not wrapped.                              *)
(***************************************************************************)
THEOREM PastesJudged ==
  ASSUME MaxTime < Wrap PROVE Spec => []PastesJudgedByTime
<1>1. Init => JudgedInv
  BY DEF Init, JudgedInv
<1>2. IInv /\ JudgedInv /\ [Next]_vars => JudgedInv'
  BY JudgedKept
<1>3. IInv /\ JudgedInv => PastesJudgedByTime
  BY DEF IInv, ClientInv, ServerInv, JudgedInv, PastesJudgedByTime
<1> QED
  BY IInvHolds, <1>1, <1>2, <1>3, PTL DEF Spec
=============================================================================
