------------------------ MODULE WaylandSelection_proofs ------------------------
(***************************************************************************)
(* Proofs about serveWayland, for any number of pastes and of copies by    *)
(* other clients, and events waiting in any number.                        *)
(***************************************************************************)
EXTENDS WaylandSelection, FiniteSetTheorems, TLAPS

Requests == {"select", "unset", "sync"}

\* The pastes that wait to be handled, by their places among the events.
SendsIn(q) == {i \in DOMAIN q : q[i] = "send"}
Sends == SendsIn(events)

\* A paste is given the value once: those that were, and those that wait, are
\* pastes that somebody asked for.
CountInv ==
  /\ served \in Nat /\ pastes \in 0..MaxPastes
  /\ IsFiniteSet(Sends)
  /\ served + Cardinality(Sends) <= pastes

\* serveWayland is ready from the serving on, and has a result when it is done.
ClientInv ==
  /\ pc \in {"connect", "offer", "confirm", "serve", "clearing", "done"}
  /\ result \in {"none", "nil", "backend", "final"} /\ (pc # "done" => result = "none")
  /\ readied \in BOOLEAN /\ owned \in BOOLEAN /\ expired \in BOOLEAN
  /\ pc \in {"connect", "offer", "confirm"} => ~readied
  /\ pc \in {"serve", "clearing"} => readied
  /\ readied => granted

\* Whoever is selected, is asked for the value or has been asked was granted it.
CompositorInv ==
  /\ selection \in {"none", "kleidos", "other"}
  /\ copies \in 0..MaxCopies /\ granted \in BOOLEAN
  /\ toServer \in Seq(Requests) /\ events \in Seq(Events)
  /\ selection = "kleidos" \/ served > 0 \/ Sends # {} => granted

\* Nothing has been asked of the compositor, nor will be by one that was not there.
OfferInv ==
  pc \in {"connect", "offer"} \/ result = "backend" =>
    /\ toServer = <<>> /\ ~granted
    /\ pc \in {"connect", "offer"} => events = <<>>

Refused(q, n) == \E j \in 1..n : q[j] = "error"

\* The compositor answers the sync after it has selected the source or refused it.
Answered(q, selected) == \A i \in DOMAIN q : q[i] = "done" => selected \/ Refused(q, i - 1)

RoundtripInv ==
  pc = "confirm" =>
    /\ toServer \in {<<"select", "sync">>, <<"sync">>, <<>>}
    /\ toServer = <<"select", "sync">> => \A i \in DOMAIN events : events[i] # "done"
    /\ toServer = <<"sync">> => granted \/ Refused(events, Len(events))
    /\ Answered(events, granted)

IInv == CountInv /\ ClientInv /\ CompositorInv /\ OfferInv /\ RoundtripInv
-----------------------------------------------------------------------------
(***************************************************************************)
(* Lemmas about the events: taking the first and adding one.               *)
(***************************************************************************)

\* A paste that is handled waits no more.
LEMMA TailSends ==
  ASSUME NEW q \in Seq(Events), q # <<>>, IsFiniteSet(SendsIn(q))
  PROVE  /\ IsFiniteSet(SendsIn(Tail(q)))
         /\ Cardinality(SendsIn(Tail(q))) <= Cardinality(SendsIn(q))
         /\ Head(q) = "send" => Cardinality(SendsIn(Tail(q))) + 1 <= Cardinality(SendsIn(q))
         /\ SendsIn(q) = {} => SendsIn(Tail(q)) = {}
<1> DEFINE first == SendsIn(q) \ {1}
           rest == SendsIn(Tail(q))
           next == [i \in rest |-> i + 1]
<1>1. Len(Tail(q)) = Len(q) - 1 /\ \A i \in 1..Len(q) - 1 : Tail(q)[i] = q[i + 1]
  OBVIOUS
<1>2. \A i \in rest : i \in Nat \ {0} /\ i + 1 \in first
  BY <1>1 DEF SendsIn
<1>3. next \in Injection(rest, first)
  BY <1>2 DEF Injection, IsInjective
<1>4. IsFiniteSet(first) /\ Cardinality(first) = IF 1 \in SendsIn(q) THEN Cardinality(SendsIn(q)) - 1
                                                               ELSE Cardinality(SendsIn(q))
  BY FS_RemoveElement
<1>5. IsFiniteSet(rest) /\ Cardinality(rest) <= Cardinality(first)
  BY <1>3, <1>4, FS_Injection
<1>6. Cardinality(rest) \in Int /\ Cardinality(first) \in Int /\ Cardinality(SendsIn(q)) \in Int
  BY <1>4, <1>5, FS_CardinalityType
<1>7. Head(q) = "send" <=> 1 \in SendsIn(q)
  BY DEF SendsIn
<1>8. SendsIn(q) = {} => rest = {}
  BY <1>2
<1> QED
  BY <1>4, <1>5, <1>6, <1>7, <1>8

LEMMA AppendSends ==
  ASSUME NEW q \in Seq(Events), NEW e \in Events, IsFiniteSet(SendsIn(q))
  PROVE  /\ IsFiniteSet(SendsIn(Append(q, e)))
         /\ e # "send" => SendsIn(Append(q, e)) = SendsIn(q)
         /\ e = "send" => Cardinality(SendsIn(Append(q, e))) = Cardinality(SendsIn(q)) + 1
<1>1. CASE e # "send"
  <2>1. DOMAIN Append(q, e) = 1..Len(q) + 1 /\ DOMAIN q = 1..Len(q)
    OBVIOUS
  <2>2. \A i : i \in SendsIn(Append(q, e)) <=> i \in SendsIn(q)
    BY <1>1, <2>1 DEF SendsIn
  <2>3. SendsIn(Append(q, e)) = SendsIn(q)
    BY <2>2 DEF SendsIn
  <2> QED
    BY <1>1, <2>3
<1>2. CASE e = "send"
  <2>1. SendsIn(Append(q, e)) = SendsIn(q) \union {Len(q) + 1} /\ Len(q) + 1 \notin SendsIn(q)
    BY <1>2 DEF SendsIn
  <2> QED
    BY <1>2, <2>1, FS_AddElement
<1> QED
  BY <1>1, <1>2

\* While no refusal is handled, what is said of the answers stays true.
LEMMA TailAnswers ==
  ASSUME NEW q \in Seq(Events), q # <<>>, Head(q) # "error", NEW selected
  PROVE  /\ Answered(q, selected) => Answered(Tail(q), selected)
         /\ Refused(q, Len(q)) => Refused(Tail(q), Len(Tail(q)))
<1>1. Len(Tail(q)) = Len(q) - 1 /\ \A i \in 1..Len(q) - 1 : Tail(q)[i] = q[i + 1]
  OBVIOUS
<1>2. ASSUME NEW n \in 0..Len(q) - 1, Refused(q, n + 1) PROVE Refused(Tail(q), n)
  <2>1. PICK j \in 1..n + 1 : q[j] = "error"
    BY <1>2 DEF Refused
  <2>2. j - 1 \in 1..n /\ Tail(q)[j - 1] = "error"
    BY <1>1, <2>1
  <2> QED
    BY <2>2 DEF Refused
<1>3. ASSUME Answered(q, selected), NEW i \in DOMAIN Tail(q), Tail(q)[i] = "done"
      PROVE  selected \/ Refused(Tail(q), i - 1)
  <2>1. i + 1 \in DOMAIN q /\ q[i + 1] = "done"
    BY <1>1, <1>3
  <2>2. selected \/ Refused(q, (i - 1) + 1)
    BY <1>1, <1>3, <2>1 DEF Answered
  <2> QED
    BY <1>1, <1>2, <2>2
<1>4. Refused(q, Len(q)) => Refused(Tail(q), Len(Tail(q)))
  <2>1. Len(q) \in Nat \ {0}
    OBVIOUS
  <2> QED
    BY <1>1, <1>2, <2>1
<1> QED
  BY <1>3, <1>4 DEF Answered

LEMMA AppendAnswers ==
  ASSUME NEW q \in Seq(Events), NEW e \in Events, NEW selected
  PROVE  /\ Answered(q, selected) /\ (e = "done" => selected \/ Refused(q, Len(q))) =>
              Answered(Append(q, e), selected)
         /\ Refused(q, Len(q)) \/ e = "error" => Refused(Append(q, e), Len(Append(q, e)))
<1>1. /\ Len(Append(q, e)) = Len(q) + 1 /\ Append(q, e)[Len(q) + 1] = e
      /\ \A i \in 1..Len(q) : Append(q, e)[i] = q[i]
  OBVIOUS
<1>2. ASSUME NEW n \in 0..Len(q), Refused(q, n) PROVE Refused(Append(q, e), n)
  BY <1>1, <1>2 DEF Refused
<1>3. ASSUME Answered(q, selected), e = "done" => selected \/ Refused(q, Len(q)),
             NEW i \in DOMAIN Append(q, e), Append(q, e)[i] = "done"
      PROVE  selected \/ Refused(Append(q, e), i - 1)
  <2>1. CASE i = Len(q) + 1
    BY <1>1, <1>2, <1>3, <2>1
  <2>2. CASE i \in 1..Len(q)
    <3>1. selected \/ Refused(q, i - 1)
      BY <1>1, <1>3, <2>2 DEF Answered
    <3> QED
      BY <1>2, <2>2, <3>1
  <2> QED
    BY <1>1, <2>1, <2>2
<1>4. Refused(q, Len(q)) \/ e = "error" => Refused(Append(q, e), Len(q) + 1)
  BY <1>1 DEF Refused
<1> QED
  BY <1>1, <1>3, <1>4 DEF Answered
-----------------------------------------------------------------------------
(***************************************************************************)
(* The inductive invariant: one lemma for each side of the socket.         *)
(***************************************************************************)

\* What is sent in one go.
LEMMA RequestPairs ==
  /\ <<"select", "sync">> \in Seq(Requests) /\ <<"select">> \in Seq(Requests)
  /\ <<>> \in Seq(Requests)
  /\ \A q \in Seq(Requests) : q \o <<"unset", "sync">> \in Seq(Requests)
                             /\ Append(q, "unset") \in Seq(Requests)
<1>1. /\ <<"select", "sync">> \in Seq(Requests) /\ <<"select">> \in Seq(Requests)
      /\ <<"unset", "sync">> \in Seq(Requests)
  BY DEF Requests
<1>2. ASSUME NEW q \in Seq(Requests)
      PROVE  /\ q \o <<"unset", "sync">> \in Seq(Requests)
             /\ Append(q, "unset") \in Seq(Requests)
  BY <1>1 DEF Requests
<1> QED
  BY <1>1, <1>2

LEMMA InitIInv == Init => IInv
<1> SUFFICES ASSUME Init PROVE IInv
  OBVIOUS
<1>1. Sends = {}
  BY DEF Init, Sends, SendsIn
<1>2. CountInv
  BY <1>1, FS_EmptySet, WaylandAssumption DEF Init, CountInv
<1>3. ClientInv
  BY DEF Init, ClientInv
<1>4. CompositorInv
  <2>1. 0 \in 0..MaxCopies /\ toServer \in Seq(Requests) /\ events \in Seq(Events)
    BY WaylandAssumption DEF Init
  <2>2. selection \in {"none", "other"} /\ copies = 0 /\ granted \in BOOLEAN
    BY DEF Init
  <2>3. ~(selection = "kleidos" \/ served > 0 \/ Sends # {})
    BY <1>1 DEF Init
  <2> QED
    BY <2>1, <2>2, <2>3 DEF CompositorInv
<1>5. OfferInv /\ RoundtripInv
  BY DEF Init, OfferInv, RoundtripInv
<1> QED
  BY <1>2, <1>3, <1>4, <1>5 DEF IInv

\* Steps of the client that read no event.
LEMMA SilentStep ==
  ASSUME IInv, ClientInv', OfferInv', UNCHANGED <<served, events, compositor>>,
         toServer' \in Seq(Requests), RoundtripInv'
  PROVE  IInv'
<1>1. Sends' = Sends
  BY DEF Sends
<1>2. CountInv'
  BY <1>1 DEF IInv, CountInv, compositor
<1>3. CompositorInv'
  BY <1>1 DEF IInv, CompositorInv, compositor
<1> QED
  BY <1>2, <1>3 DEF IInv

\* Steps of the client that read one event, and serve it if they do.
LEMMA ReceiveStep ==
  ASSUME IInv, Receive, pc \in {"confirm", "serve", "clearing"}, UNCHANGED <<toServer, compositor>>,
         served' = served \/ (Head(events) = "send" /\ served' = served + 1),
         ClientInv', pc' \notin {"connect", "offer"}, result' # "backend",
         pc' = "confirm" => pc = "confirm" /\ Head(events) # "error"
  PROVE  IInv'
<1> DEFINE sends == Cardinality(Sends)
<1>1. /\ events \in Seq(Events) /\ events # <<>> /\ events' = Tail(events)
      /\ events' \in Seq(Events) /\ IsFiniteSet(Sends) /\ Sends' = SendsIn(Tail(events))
  BY DEF IInv, CompositorInv, CountInv, Receive, Sends, SendsIn
<1>2. /\ IsFiniteSet(Sends') /\ Cardinality(Sends') <= sends
      /\ Head(events) = "send" => Cardinality(Sends') + 1 <= sends
      /\ Sends = {} => Sends' = {}
  BY <1>1, TailSends DEF Sends
<1>3. sends \in Nat /\ Cardinality(Sends') \in Nat
  BY <1>1, <1>2, FS_CardinalityType
<1>4. CountInv'
  BY <1>2, <1>3 DEF IInv, CountInv, compositor
<1>5. CompositorInv'
  <2>1. Head(events) = "send" => Sends # {}
    <3>1. Head(events) = "send" => 1 \in Sends
      BY <1>1 DEF Sends, SendsIn
    <3> QED
      BY <3>1
  <2>2. selection' = "kleidos" \/ served' > 0 \/ Sends' # {} => granted'
    BY <1>2, <2>1 DEF IInv, CompositorInv, CountInv, compositor
  <2> QED
    BY <1>1, <2>2 DEF IInv, CompositorInv, compositor
<1>6. OfferInv'
  BY DEF OfferInv
<1>7. RoundtripInv'
  <2> SUFFICES ASSUME pc = "confirm", Head(events) # "error" PROVE RoundtripInv'
    BY DEF RoundtripInv
  <2>1. toServer = <<"select", "sync">> => \A i \in DOMAIN events' : events'[i] # "done"
    BY <1>1 DEF IInv, RoundtripInv
  <2>2. /\ Answered(events, granted) => Answered(events', granted)
        /\ Refused(events, Len(events)) => Refused(events', Len(events'))
    BY <1>1, TailAnswers
  <2> QED
    BY <2>1, <2>2 DEF IInv, RoundtripInv, Answered, Refused, compositor
<1> QED
  BY <1>4, <1>5, <1>6, <1>7 DEF IInv

LEMMA ClientKeepsIInv == IInv /\ (Client \/ Break \/ Expire) => IInv'
<1> SUFFICES ASSUME IInv, Client \/ Break \/ Expire PROVE IInv'
  OBVIOUS
<1> USE DEF Finish
<1>1. toServer \in Seq(Requests)
  BY DEF IInv, CompositorInv
<1>2. CASE Connect
  <2>1. ClientInv' /\ OfferInv' /\ RoundtripInv'
    BY <1>2 DEF Connect, IInv, ClientInv, OfferInv, RoundtripInv, compositor
  <2> QED
    BY <1>1, <1>2, <2>1, SilentStep DEF Connect
<1>3. CASE Offer
  <2>1. ClientInv' /\ OfferInv'
    BY <1>3 DEF Offer, IInv, ClientInv, OfferInv, compositor
  <2>2. toServer' \in {<<"select", "sync">>, <<>>, <<"select">>}
    BY <1>3 DEF Offer
  <2>3. toServer' \in Seq(Requests)
    BY <2>2, RequestPairs
  <2>4. events = <<>>
    BY <1>3 DEF Offer, IInv, OfferInv
  <2>5. RoundtripInv'
    BY <1>3, <2>4 DEF Offer, RoundtripInv, Answered
  <2> QED
    BY <1>3, <2>1, <2>3, <2>5, SilentStep DEF Offer
<1>4. CASE Confirm
  <2>1. CASE Handle(Head(events)) /\ UNCHANGED readied
    <3>1. ClientInv'
      BY <1>4, <2>1 DEF Confirm, Handle, IInv, ClientInv, compositor
    <3> QED
      BY <1>4, <2>1, <3>1, ReceiveStep DEF Confirm, Handle, IInv, ClientInv
  <2>2. CASE Finish("confirm", "final") /\ UNCHANGED <<readied, owned, served>>
    <3>1. ClientInv'
      BY <1>4, <2>2 DEF Confirm, IInv, ClientInv, compositor
    <3> QED
      BY <1>4, <2>2, <3>1, ReceiveStep DEF Confirm
  <2>3. CASE /\ Head(events) = "done" /\ owned /\ pc' = "serve" /\ readied' = TRUE
             /\ UNCHANGED <<result, owned, served>>
    <3>1. events \in Seq(Events) /\ events # <<>>
      BY <1>4 DEF Confirm, Receive, IInv, CompositorInv
    <3>2. 1 \in DOMAIN events /\ events[1] = "done"
      BY <2>3, <3>1
    <3>3. granted \/ Refused(events, 0)
      BY <1>4, <3>2 DEF Confirm, IInv, RoundtripInv, Answered
    <3>4. granted
      BY <3>3 DEF Refused
    <3>5. ClientInv'
      BY <1>4, <2>3, <3>4 DEF Confirm, IInv, ClientInv, compositor
    <3> QED
      BY <1>4, <2>3, <3>5, ReceiveStep DEF Confirm, IInv, ClientInv
  <2> QED
    BY <1>4, <2>1, <2>2, <2>3 DEF Confirm
<1>5. CASE Serve
  <2>1. ClientInv'
    BY <1>5 DEF Serve, Handle, IInv, ClientInv, compositor
  <2> QED
    BY <1>5, <2>1, ReceiveStep DEF Serve, Handle, IInv, ClientInv
<1>6. CASE Lost
  <2>1. ClientInv' /\ OfferInv' /\ RoundtripInv'
    BY <1>6 DEF Lost, IInv, ClientInv, OfferInv, RoundtripInv, compositor
  <2> QED
    BY <1>1, <1>6, <2>1, SilentStep DEF Lost
<1>7. CASE Clear
  <2>1. ClientInv' /\ OfferInv' /\ RoundtripInv'
    BY <1>7 DEF Clear, IInv, ClientInv, OfferInv, RoundtripInv, compositor
  <2>2. toServer' \in Seq(Requests)
    BY <1>1, <1>7, RequestPairs DEF Clear
  <2> QED
    BY <1>7, <2>1, <2>2, SilentStep DEF Clear
<1>8. CASE AwaitCleared
  <2>1. ClientInv'
    BY <1>8 DEF AwaitCleared, IInv, ClientInv, compositor
  <2> QED
    BY <1>8, <2>1, ReceiveStep DEF AwaitCleared, IInv, ClientInv
<1>9. CASE GiveUp \/ Break
  <2>1. ClientInv' /\ OfferInv' /\ RoundtripInv'
    BY <1>9 DEF GiveUp, Break, IInv, ClientInv, OfferInv, RoundtripInv, compositor
  <2> QED
    BY <1>1, <1>9, <2>1, SilentStep DEF GiveUp, Break
<1>10. CASE Expire
  <2>1. ClientInv' /\ OfferInv'
    BY <1>10 DEF Expire, IInv, ClientInv, OfferInv, compositor, client
  <2>2. RoundtripInv'
    BY <1>10 DEF Expire, IInv, RoundtripInv, Answered, Refused, compositor, client
  <2> QED
    BY <1>1, <1>10, <2>1, <2>2, SilentStep DEF Expire, client
<1> QED
  BY <1>2, <1>3, <1>4, <1>5, <1>6, <1>7, <1>8, <1>9, <1>10 DEF Client

\* Steps of the compositor that add one event at most and take one request at most.
LEMMA CompositorStep ==
  ASSUME IInv, UNCHANGED <<client, expired>>,
         events' = events \/ \E e \in Events : events' = Append(events, e),
         events' = Append(events, "send") => granted /\ pastes' = pastes + 1,
         pastes' \in 0..MaxPastes, pastes' >= pastes,
         toServer' \in Seq(Requests), selection' \in {"none", "kleidos", "other"},
         copies' \in 0..MaxCopies, granted' \in BOOLEAN, granted => granted',
         selection' = "kleidos" => granted',
         OfferInv', RoundtripInv'
  PROVE  IInv'
<1>1. /\ events \in Seq(Events) /\ IsFiniteSet(Sends) /\ Sends' = SendsIn(events')
      /\ Cardinality(Sends) \in Nat /\ served \in Nat /\ served' = served
      /\ pastes \in Int /\ pastes' \in Int
  BY FS_CardinalityType DEF IInv, CompositorInv, CountInv, Sends, client
<1>2. /\ events' \in Seq(Events) /\ IsFiniteSet(Sends')
      /\ Sends' = Sends \/ (granted /\ pastes' = pastes + 1
                           /\ Cardinality(Sends') = Cardinality(Sends) + 1)
  <2>1. CASE events' = events
    BY <1>1, <2>1 DEF Sends
  <2>2. CASE \E e \in Events : events' = Append(events, e)
    <3>1. PICK e \in Events : events' = Append(events, e)
      BY <2>2
    <3>2. /\ IsFiniteSet(SendsIn(events'))
          /\ e # "send" => SendsIn(events') = SendsIn(events)
          /\ e = "send" => Cardinality(SendsIn(events')) = Cardinality(SendsIn(events)) + 1
      BY <1>1, <3>1, AppendSends DEF Sends
    <3>3. events' \in Seq(Events)
      BY <1>1, <3>1
    <3> QED
      BY <1>1, <3>1, <3>2, <3>3 DEF Sends
  <2> QED
    BY <2>1, <2>2
<1>3. CountInv'
  BY <1>1, <1>2 DEF IInv, CountInv
<1>4. CompositorInv'
  BY <1>1, <1>2 DEF IInv, CompositorInv
<1>5. ClientInv'
  BY DEF IInv, ClientInv, client
<1> QED
  BY <1>3, <1>4, <1>5 DEF IInv

\* An event that is no answer to the sync leaves the answers what they are.
LEMMA RoundtripKept ==
  ASSUME IInv, UNCHANGED <<pc, toServer>>, granted => granted',
         events' = events \/ \E e \in Events \ {"done"} : events' = Append(events, e)
  PROVE  RoundtripInv'
<1>1. CASE events' = events
  BY <1>1 DEF IInv, RoundtripInv, Answered, Refused
<1>2. CASE \E e \in Events \ {"done"} : events' = Append(events, e)
  <2>1. PICK e \in Events \ {"done"} : events' = Append(events, e)
    BY <1>2
  <2>2. events \in Seq(Events)
    BY DEF IInv, CompositorInv
  <2>3. /\ Answered(events, granted) => Answered(events', granted)
        /\ Refused(events, Len(events)) => Refused(events', Len(events'))
    BY <2>1, <2>2, AppendAnswers
  <2>4. (\A i \in DOMAIN events : events[i] # "done") => \A i \in DOMAIN events' : events'[i] # "done"
    BY <2>1, <2>2
  <2>5. Answered(events', granted) => Answered(events', granted')
    BY DEF Answered
  <2> QED
    BY <2>3, <2>4, <2>5 DEF IInv, RoundtripInv
<1> QED
  BY <1>1, <1>2

\* The compositor takes the requests in order: the sync is answered last.
LEMMA ProcessKeepsRoundtrip == IInv /\ Process => RoundtripInv'
<1> SUFFICES ASSUME IInv, Process, pc = "confirm" PROVE RoundtripInv'
  BY DEF Process, RoundtripInv, client
<1>1. events \in Seq(Events) /\ RoundtripInv /\ pc' = "confirm"
  BY DEF IInv, CompositorInv, Process, client
<1>2. toServer \in {<<"select", "sync">>, <<"sync">>}
  BY <1>1 DEF RoundtripInv, Process
<1>3. CASE toServer = <<"select", "sync">>
  <2>1. Head(toServer) = "select" /\ toServer' = <<"sync">>
    BY <1>3 DEF Process
  <2>2. Answered(events, granted) /\ \A i \in DOMAIN events : events[i] # "done"
    BY <1>1, <1>3 DEF RoundtripInv
  <2>3. CASE Select("kleidos")
    <3>1. granted' /\ events' = events
      BY <2>3 DEF Select
    <3> QED
      BY <1>1, <2>1, <2>2, <3>1 DEF RoundtripInv, Answered
  <2>4. CASE events' = Append(events, "error") /\ UNCHANGED <<selection, granted>>
    <3>1. Refused(events', Len(events')) /\ Answered(events', granted)
      BY <1>1, <2>2, <2>4, AppendAnswers DEF Events
    <3> QED
      BY <1>1, <2>1, <2>4, <3>1 DEF RoundtripInv
  <2> QED
    BY <2>1, <2>3, <2>4 DEF Process
<1>4. CASE toServer = <<"sync">>
  <2>1. Head(toServer) = "sync" /\ toServer' = <<>>
    BY <1>4 DEF Process
  <2>2. Answered(events, granted) /\ (granted \/ Refused(events, Len(events)))
    BY <1>1, <1>4 DEF RoundtripInv
  <2>3. events' = Append(events, "done") /\ granted' = granted
    BY <2>1 DEF Process
  <2>4. Answered(events', granted)
    BY <1>1, <2>2, <2>3, AppendAnswers DEF Events
  <2> QED
    BY <2>1, <2>3, <2>4 DEF RoundtripInv
<1> QED
  BY <1>2, <1>3, <1>4

LEMMA CompositorKeepsIInv ==
  IInv /\ (Process \/ Disconnect \/ OtherCopies \/ Paste \/ SeatGone) => IInv'
<1> SUFFICES ASSUME IInv, Process \/ Disconnect \/ OtherCopies \/ Paste \/ SeatGone PROVE IInv'
  OBVIOUS
<1>1. /\ toServer \in Seq(Requests) /\ events \in Seq(Events)
      /\ selection \in {"none", "kleidos", "other"} /\ (selection = "kleidos" => granted)
      /\ copies \in 0..MaxCopies /\ granted \in BOOLEAN
      /\ pastes \in 0..MaxPastes /\ pastes >= pastes
  BY DEF IInv, CompositorInv, CountInv
<1>2. CASE Process
  <2>1. toServer' \in Seq(Requests) /\ UNCHANGED <<client, expired, copies, pastes>>
    BY <1>1, <1>2 DEF Process
  <2>2. /\ events' = events \/ \E e \in Events \ {"send"} : events' = Append(events, e)
        /\ selection' \in {"none", "kleidos", "other"} /\ (selection' = "kleidos" => granted')
        /\ granted' \in BOOLEAN /\ (granted => granted')
    <3>1. CASE Select("kleidos") \/ Select("none")
      BY <1>1, <3>1 DEF Select, Events
    <3>2. CASE /\ \E e \in {"error", "done"} : events' = Append(events, e)
               /\ UNCHANGED <<selection, granted>>
      BY <1>1, <3>2 DEF Events
    <3> QED
      BY <1>2, <3>1, <3>2 DEF Process
  <2>3. events' # Append(events, "send")
    BY <1>1, <2>2 DEF Events
  <2>4. OfferInv'
    BY <1>2 DEF IInv, OfferInv, Process, client
  <2>5. RoundtripInv'
    BY <1>2, ProcessKeepsRoundtrip
  <2> QED
    BY <1>1, <2>1, <2>2, <2>3, <2>4, <2>5, CompositorStep
<1>3. CASE Disconnect
  <2>1. OfferInv' /\ RoundtripInv'
    BY <1>3, RoundtripKept DEF Disconnect, IInv, OfferInv, client
  <2>2. events' # Append(events, "send")
    BY <1>1, <1>3 DEF Disconnect
  <2> QED
    BY <1>1, <1>3, <2>1, <2>2, CompositorStep DEF Disconnect
<1>4. CASE OtherCopies
  <2>1. /\ events' = events \/ events' = Append(events, "cancelled")
        /\ selection' = "other" /\ granted' = granted /\ copies' \in 0..MaxCopies
        /\ UNCHANGED <<client, expired, toServer, pastes>>
    BY <1>1, <1>4, WaylandAssumption DEF OtherCopies, Select
  <2>2. \E e \in Events \ {"done", "send"} : events' = events \/ events' = Append(events, e)
    BY <2>1 DEF Events
  <2>3. events' # Append(events, "send")
    BY <1>1, <2>2 DEF Events
  <2>4. OfferInv'
    BY <1>4, <2>1 DEF IInv, OfferInv, CompositorInv, OtherCopies, Select, client
  <2>5. RoundtripInv'
    BY <2>1, <2>2, RoundtripKept DEF client
  <2> QED
    BY <1>1, <2>1, <2>2, <2>3, <2>4, <2>5, CompositorStep
<1>5. CASE Paste
  <2>1. events' = Append(events, "send") /\ granted /\ pastes' = pastes + 1
    BY <1>1, <1>5 DEF Paste
  <2>2. pastes' \in 0..MaxPastes /\ pastes' >= pastes
    BY <1>1, <1>5, WaylandAssumption DEF Paste
  <2>3. OfferInv'
    BY <1>5, <2>1 DEF IInv, OfferInv, Paste, client
  <2>4. RoundtripInv'
    BY <1>5, <2>1, RoundtripKept DEF Paste, Events, client
  <2> QED
    BY <1>1, <1>5, <2>1, <2>2, <2>3, <2>4, CompositorStep DEF Paste, Events
<1>6. CASE SeatGone
  <2>1. events' = Append(events, "finished") /\ events' # Append(events, "send")
    BY <1>1, <1>6 DEF SeatGone, Events
  <2>2. OfferInv'
    BY <1>6 DEF IInv, OfferInv, ClientInv, SeatGone, client, compositor
  <2>3. RoundtripInv'
    BY <1>6, <2>1, RoundtripKept DEF SeatGone, Events, client, compositor
  <2> QED
    BY <1>1, <1>6, <2>1, <2>2, <2>3, CompositorStep DEF SeatGone, Events, compositor
<1> QED
  BY <1>2, <1>3, <1>4, <1>5, <1>6

\* The inductive invariant: every step of serveWayland, of the compositor and of
\* the other clients keeps it.
THEOREM IInvHolds == Spec => []IInv
<1>1. IInv /\ UNCHANGED vars => IInv'
  BY DEF IInv, CountInv, ClientInv, CompositorInv, OfferInv, RoundtripInv, Answered, Refused,
     Sends, SendsIn, vars, client, compositor
<1>2. IInv /\ [Next]_vars => IInv'
  BY <1>1, ClientKeepsIInv, CompositorKeepsIInv DEF Next
<1> QED
  BY InitIInv, <1>2, PTL DEF Spec
-----------------------------------------------------------------------------
(***************************************************************************)
(* Typing; with it, that the value is given to no more pastes than there   *)
(* were: handle answers each send event once.                              *)
(***************************************************************************)
THEOREM TypeCorrect == Spec => []TypeOK
<1>1. IInv => TypeOK
  <2> SUFFICES ASSUME IInv PROVE TypeOK
    OBVIOUS
  <2>1. served \in 0..MaxPastes
    <3>1. Cardinality(Sends) \in Nat /\ served \in Nat /\ pastes \in 0..MaxPastes
      BY FS_CardinalityType DEF IInv, CountInv
    <3> QED
      BY <3>1, WaylandAssumption DEF IInv, CountInv
  <2>2. /\ \A i \in DOMAIN toServer : toServer[i] \in Requests
        /\ \A i \in DOMAIN events : events[i] \in Events
    BY DEF IInv, CompositorInv
  <2> QED
    BY <2>1, <2>2 DEF IInv, ClientInv, CompositorInv, CountInv, Requests, TypeOK
<1> QED
  BY IInvHolds, <1>1, PTL

(***************************************************************************)
(* A backendError leaves nothing behind: when Serve goes on to X11, the    *)
(* compositor never had this source and never will (clipboard.go, 24-25).  *)
(***************************************************************************)
THEOREM FallbackClean == Spec => []FallbackIsClean
<1>1. IInv => FallbackIsClean
  BY DEF IInv, CountInv, CompositorInv, OfferInv, FallbackIsClean
<1> QED
  BY IInvHolds, <1>1, PTL
-----------------------------------------------------------------------------
(***************************************************************************)
(* serveWayland implements ClipboardBackend.                               *)
(***************************************************************************)

\* What an event does to the backend: a paste, or the end.
LEMMA HandleRefines ==
  ASSUME IInv, Receive, pc \in {"confirm", "serve"}, Handle(Head(events)),
         UNCHANGED <<readied, compositor>>
  PROVE  [Backend!Next]_(Backend!vars)
<1>1. result = "none" /\ granted' = granted
  BY DEF IInv, ClientInv, compositor
<1>2. CASE Head(events) = "send" /\ served' = served + 1
  <2>1. 1 \in Sends
    BY <1>2 DEF IInv, CompositorInv, Receive, Sends, SendsIn
  <2>2. granted
    BY <2>1 DEF IInv, CompositorInv
  <2>3. served' > 0
    BY <1>2 DEF IInv, CountInv
  <2>4. result' = result
    BY <1>2 DEF Handle
  <2> QED
    BY <1>1, <2>2, <2>3, <2>4 DEF Backend!Next, Backend!Paste
<1>3. CASE served' = served
  <2>1. result' = result \/ result' = "final"
    BY DEF Handle, Finish
  <2> QED
    BY <1>1, <1>3, <2>1 DEF Backend!Next, Backend!Return, Backend!vars
<1> QED
  BY <1>2, <1>3 DEF Handle

LEMMA ClientRefines ==
  IInv /\ IInv' /\ (Client \/ Break \/ Expire) => [Backend!Next]_(Backend!vars)
<1> SUFFICES ASSUME IInv, IInv', Client \/ Break \/ Expire PROVE [Backend!Next]_(Backend!vars)
  OBVIOUS
<1> USE DEF Finish
<1>1. CASE Connect
  <2>1. result = "none" /\ ~readied /\ ~(served > 0)
    BY <1>1 DEF Connect, IInv, ClientInv, CompositorInv, OfferInv
  <2> QED
    BY <1>1, <2>1 DEF Connect, compositor, Backend!Next, Backend!Return, Backend!vars
<1>2. CASE Offer
  BY <1>2 DEF Offer, IInv, ClientInv, compositor, Backend!Next, Backend!Return, Backend!vars
<1>3. CASE Confirm
  <2>1. CASE Handle(Head(events)) /\ UNCHANGED readied
    BY <1>3, <2>1, HandleRefines DEF Confirm
  <2>2. CASE Finish("confirm", "final") /\ UNCHANGED <<readied, owned, served>>
    BY <1>3, <2>2 DEF Confirm, IInv, ClientInv, compositor, Backend!Next, Backend!Return
  <2>3. CASE readied' = TRUE /\ UNCHANGED <<result, owned, served>>
    <3>1. granted' = granted /\ granted /\ ~readied /\ result = "none"
      BY <1>3, <2>3 DEF Confirm, IInv, ClientInv, compositor
    <3> QED
      BY <2>3, <3>1 DEF Backend!Next, Backend!Ready
  <2> QED
    BY <1>3, <2>1, <2>2, <2>3 DEF Confirm
<1>4. CASE Serve
  <2>1. CASE Handle(Head(events))
    BY <1>4, <2>1, HandleRefines DEF Serve
  <2>2. CASE Finish("serve", "final") /\ UNCHANGED <<owned, served>>
    BY <1>4, <2>2 DEF Serve, IInv, ClientInv, compositor, Backend!Next, Backend!Return
  <2> QED
    BY <1>4, <2>1, <2>2 DEF Serve
<1>5. CASE Lost \/ Clear \/ AwaitCleared \/ GiveUp
  <2>1. /\ readied /\ result = "none" /\ result' \in {"none", "nil"}
        /\ UNCHANGED <<readied, served, granted>>
    BY <1>5 DEF Lost, Clear, AwaitCleared, GiveUp, IInv, ClientInv, compositor
  <2> QED
    BY <2>1 DEF Backend!Next, Backend!Return, Backend!vars
<1>6. CASE Break
  BY <1>6 DEF Break, IInv, ClientInv, compositor, Backend!Next, Backend!Return
<1>7. CASE Expire
  BY <1>7 DEF Expire, client, compositor, Backend!vars
<1> QED
  BY <1>1, <1>2, <1>3, <1>4, <1>5, <1>6, <1>7 DEF Client

\* A selection, however late, is the abstract Offer; nothing else the compositor
\* does shows.
LEMMA CompositorRefines ==
  IInv /\ (Process \/ Disconnect \/ OtherCopies \/ Paste \/ SeatGone) =>
    [Backend!Next]_(Backend!vars)
<1> SUFFICES ASSUME IInv, Process \/ Disconnect \/ OtherCopies \/ Paste \/ SeatGone
             PROVE  [Backend!Next]_(Backend!vars)
  OBVIOUS
<1>1. UNCHANGED <<readied, served, result>>
  BY DEF Process, Disconnect, OtherCopies, Paste, SeatGone, client
<1>2. granted' = granted \/ granted' = TRUE
  BY DEF Process, Disconnect, OtherCopies, Paste, SeatGone, Select, compositor, IInv, CompositorInv
<1> QED
  BY <1>1, <1>2 DEF Backend!Next, Backend!Offer, Backend!vars

(***************************************************************************)
(* serveWayland is a backend as Serve and the copy verb understand it, but *)
(* that it answers pastes during the roundtrip: ready follows the          *)
(* compositor's selecting the source, an end without error follows ready,  *)
(* nothing is answered after the return, and X11 gets its turn only if     *)
(* nobody was given the value.                                             *)
(***************************************************************************)
THEOREM RefinesBackend == Spec => IsBackend
<1>1. Init => Backend!Init
  BY DEF Init, Backend!Init
<1>2. IInv /\ IInv' /\ [Next]_vars => [Backend!Next]_(Backend!vars)
  <2> SUFFICES ASSUME IInv, IInv', [Next]_vars PROVE [Backend!Next]_(Backend!vars)
    OBVIOUS
  <2>1. CASE UNCHANGED vars
    BY <2>1 DEF vars, client, compositor, Backend!vars
  <2> QED
    BY <2>1, ClientRefines, CompositorRefines DEF Next
<1> QED
  BY <1>1, <1>2, IInvHolds, PTL DEF Spec, IsBackend, Backend!Spec
=============================================================================
