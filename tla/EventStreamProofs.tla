-------------------------- MODULE EventStreamProofs --------------------------
(***************************************************************************)
(* Theorems about the event stream of a run, for every size of the buffers *)
(* and of the history and any number of events and connections.            *)
(***************************************************************************)
EXTENDS EventStream, SequenceTheorems, TLAPS

-----------------------------------------------------------------------------
(***************************************************************************)
(* Sequences of events.                                                    *)
(***************************************************************************)
Increasing(events) == \A i, j \in DOMAIN events : i < j => events[i] < events[j]

\* An event is added at the end of a channel or of the history.
LEMMA AddEvent ==
    ASSUME NEW S, NEW events \in Seq(S), NEW e \in S
    PROVE  /\ Append(events, e) \in Seq(S)
           /\ Members(Append(events, e)) = Members(events) \cup {e}
<1> DEFINE longer == Append(events, e)
<1>1. /\ longer \in Seq(S) /\ Len(longer) = Len(events) + 1
      /\ \A i \in 1..Len(events) : longer[i] = events[i]
      /\ longer[Len(events) + 1] = e
  BY AppendProperties
<1>2. Len(events) \in Nat /\ DOMAIN events = 1..Len(events)
  BY LenProperties
<1>3. DOMAIN longer = 1..(Len(events) + 1)
  BY <1>1, LenProperties
<1> HIDE DEF longer
<1> QED BY <1>1, <1>2, <1>3 DEF Members, longer

\* One that is later than all before keeps them in order.
LEMMA AddLater ==
    ASSUME NEW events \in Seq(Nat), NEW e \in Nat, Increasing(events),
           \A m \in Members(events) : m < e
    PROVE  Increasing(Append(events, e))
<1> DEFINE longer == Append(events, e)
<1>1. /\ longer \in Seq(Nat) /\ Len(longer) = Len(events) + 1
      /\ \A i \in 1..Len(events) : longer[i] = events[i]
      /\ longer[Len(events) + 1] = e
  BY AppendProperties
<1>2. Len(events) \in Nat /\ DOMAIN events = 1..Len(events)
  BY LenProperties
<1>3. DOMAIN longer = 1..(Len(events) + 1)
  BY <1>1, LenProperties
<1> HIDE DEF longer
<1>4. ASSUME NEW i \in DOMAIN longer, NEW j \in DOMAIN longer, i < j
      PROVE  longer[i] < longer[j]
  <2>1. i \in 1..Len(events)
    BY <1>2, <1>3, <1>4
  <2>2. longer[i] = events[i] /\ events[i] \in Members(events)
    BY <1>1, <1>2, <2>1 DEF Members
  <2>3. CASE j = Len(events) + 1
    BY <1>1, <2>2, <2>3
  <2>4. CASE j \in 1..Len(events)
    BY <1>1, <1>2, <1>4, <2>1, <2>4 DEF Increasing
  <2> QED BY <1>2, <1>3, <1>4, <2>3, <2>4
<1> QED BY <1>4 DEF Increasing, longer

\* The oldest event is taken out of a channel.
LEMMA TakeEvent ==
    ASSUME NEW S, NEW events \in Seq(S), events # <<>>
    PROVE  /\ Head(events) \in S /\ Tail(events) \in Seq(S)
           /\ Members(events) = Members(Tail(events)) \cup {Head(events)}
<1>1. /\ Head(events) \in S /\ Tail(events) \in Seq(S)
      /\ Len(Tail(events)) = Len(events) - 1
      /\ \A i \in 1..Len(Tail(events)) : Tail(events)[i] = events[i + 1]
  BY HeadTailProperties
<1>2. Len(events) \in Nat \ {0} /\ DOMAIN events = 1..Len(events)
  BY EmptySeq, LenProperties
<1>3. DOMAIN Tail(events) = 1..(Len(events) - 1)
  BY <1>1, LenProperties
<1>4. Head(events) = events[1]
  BY <1>2
<1>5. ASSUME NEW i \in DOMAIN events PROVE events[i] \in Members(Tail(events)) \cup {Head(events)}
  <2>1. CASE i = 1
    BY <1>4, <2>1
  <2>2. CASE i # 1
    <3>1. i - 1 \in 1..Len(Tail(events)) /\ (i - 1) + 1 = i
      BY <1>1, <1>2, <2>2
    <3> QED BY <1>1, <1>3, <3>1 DEF Members
  <2> QED BY <2>1, <2>2
<1>6. ASSUME NEW i \in DOMAIN Tail(events) PROVE Tail(events)[i] \in Members(events)
  <2>1. i + 1 \in DOMAIN events /\ Tail(events)[i] = events[i + 1]
    BY <1>1, <1>2, <1>3
  <2> QED BY <2>1 DEF Members
<1>7. Head(events) \in Members(events)
  BY <1>2, <1>4 DEF Members
<1> QED BY <1>1, <1>5, <1>6, <1>7 DEF Members

LEMMA TakeEarliest ==
    ASSUME NEW events \in Seq(Nat), events # <<>>, Increasing(events)
    PROVE  /\ Increasing(Tail(events))
           /\ \A m \in Members(Tail(events)) : Head(events) < m
<1>1. /\ Tail(events) \in Seq(Nat)
      /\ Len(Tail(events)) = Len(events) - 1
      /\ \A i \in 1..Len(Tail(events)) : Tail(events)[i] = events[i + 1]
  BY HeadTailProperties
<1>2. Len(events) \in Nat \ {0} /\ DOMAIN events = 1..Len(events)
  BY EmptySeq, LenProperties
<1>3. DOMAIN Tail(events) = 1..(Len(events) - 1)
  BY <1>1, LenProperties
<1>4. Head(events) = events[1]
  BY <1>2
<1>5. ASSUME NEW i \in DOMAIN Tail(events)
      PROVE  i \in Nat /\ i + 1 \in DOMAIN events /\ Tail(events)[i] = events[i + 1]
  BY <1>1, <1>2, <1>3
<1>6. ASSUME NEW i \in DOMAIN Tail(events), NEW j \in DOMAIN Tail(events), i < j
      PROVE  Tail(events)[i] < Tail(events)[j]
  <2>1. i + 1 < j + 1
    BY <1>5, <1>6
  <2> QED BY <1>5, <2>1 DEF Increasing
<1>7. ASSUME NEW i \in DOMAIN Tail(events) PROVE Head(events) < Tail(events)[i]
  <2>1. 1 \in DOMAIN events /\ 1 < i + 1
    BY <1>2, <1>3, <1>5
  <2> QED BY <1>4, <1>5, <2>1 DEF Increasing
<1> QED BY <1>6, <1>7 DEF Increasing, Members

\* A part of a history.
LEMMA PartOfEvents ==
    ASSUME NEW S, NEW events \in Seq(S), NEW m \in Nat \ {0}, NEW n \in 0..Len(events)
    PROVE  LET part == SubSeq(events, m, n) IN
           /\ part \in Seq(S) /\ Len(part) = IF m <= n THEN n - m + 1 ELSE 0
           /\ Members(part) \subseteq Members(events)
           /\ S = Nat /\ Increasing(events) => Increasing(part)
<1> DEFINE part == SubSeq(events, m, n)
<1>1. Len(events) \in Nat /\ DOMAIN events = 1..Len(events)
  BY LenProperties
<1>2. n \in Int /\ m \in Int /\ \A i \in m..n : i \in DOMAIN events /\ events[i] \in S
  BY <1>1, ElementOfSeq
<1>3. /\ part \in Seq(S) /\ Len(part) = IF m <= n THEN n - m + 1 ELSE 0
      /\ \A i \in 1..(n - m + 1) : part[i] = events[m + i - 1]
  BY <1>2, SubSeqProperties
<1>4. DOMAIN part = 1..Len(part)
  BY <1>3, LenProperties
<1> HIDE DEF part
<1>5. ASSUME NEW i \in DOMAIN part
      PROVE  i \in Nat /\ m + i - 1 \in DOMAIN events /\ part[i] = events[m + i - 1]
  <2>1. m <= n /\ i \in 1..(n - m + 1)
    BY <1>2, <1>3, <1>4
  <2>2. m + i - 1 \in m..n
    BY <1>2, <2>1
  <2> QED BY SMTT(30), <1>2, <1>3, <2>1, <2>2
<1>6. Members(part) \subseteq Members(events)
  BY <1>5 DEF Members
<1>7. ASSUME Increasing(events), NEW i \in DOMAIN part, NEW j \in DOMAIN part, i < j
      PROVE  part[i] < part[j]
  <2>1. m + i - 1 < m + j - 1
    BY <1>5, <1>7
  <2> QED BY <1>5, <1>7, <2>1 DEF Increasing
<1> QED BY <1>3, <1>6, <1>7 DEF Increasing, part

\* What the history keeps, and what of it is replayed.
LEMMA LastEvents ==
    ASSUME NEW events \in Seq(Nat), NEW n \in Nat \ {0}
    PROVE  /\ LastN(events, n) \in Seq(Nat) /\ Len(LastN(events, n)) <= n
           /\ Members(LastN(events, n)) \subseteq Members(events)
           /\ Increasing(events) => Increasing(LastN(events, n))
<1> DEFINE first == IF Len(events) > n THEN Len(events) - n + 1 ELSE 1
<1>1. Len(events) \in Nat /\ first \in Nat \ {0} /\ Len(events) \in 0..Len(events)
  BY LenProperties
<1>2. (IF first <= Len(events) THEN Len(events) - first + 1 ELSE 0) <= n
  BY <1>1
<1>3. LastN(events, n) = SubSeq(events, first, Len(events))
  BY DEF LastN
<1> HIDE DEF first
<1> QED BY <1>1, <1>2, <1>3, PartOfEvents

LEMMA FirstEvents ==
    ASSUME NEW events \in Seq(Nat), NEW n \in Nat
    PROVE  /\ FirstN(events, n) \in Seq(Nat)
           /\ Members(FirstN(events, n)) \subseteq Members(events)
           /\ Increasing(events) => Increasing(FirstN(events, n))
<1> DEFINE last == IF Len(events) > n THEN n ELSE Len(events)
<1>1. Len(events) \in Nat /\ last \in 0..Len(events) /\ 1 \in Nat \ {0}
  BY LenProperties
<1>2. FirstN(events, n) = SubSeq(events, 1, last)
  BY DEF FirstN
<1> HIDE DEF last
<1> QED BY <1>1, <1>2, PartOfEvents

LEMMA NoEvents ==
    ASSUME NEW S
    PROVE  <<>> \in Seq(S) /\ Members(<<>>) = {} /\ Increasing(<<>>)
<1>1. DOMAIN <<>> = 1..0
  BY EmptySeq, LenProperties
<1> QED BY <1>1, EmptySeq DEF Members, Increasing

-----------------------------------------------------------------------------
(***************************************************************************)
(* Types.                                                                  *)
(***************************************************************************)
\* Of the two halves, a step of the run leaves one alone but for the events
\* that the drain goroutine publishes.
LEMMA StepCases ==
    ASSUME [Next]_vars
    PROVE  \/ (Emit \/ CloseEmitter \/ CloseReturns \/ Take \/ DrainEnds)
                  /\ UNCHANGED <<broadcasterVars, serverVars>>
           \/ Delivered /\ Publish(delivering) /\ UNCHANGED serverVars
           \/ FinishRun
           \/ \E s \in Conn : Connect(s) \/ Disconnect(s) \/ Watch(s) \/ Serve(s) \/ ServeEnds(s)
           \/ UNCHANGED vars
BY DEF Next, Engine, Drain, Handle

LEMMA EmitterTyped ==
    ASSUME EmitterTypeOK,
           Emit \/ CloseEmitter \/ CloseReturns \/ Take \/ DrainEnds \/ Delivered
    PROVE  EmitterTypeOK'
<1> USE EmitterAssumption DEF EmitterTypeOK
<1>1. CASE Emit
  <2>1. emitted' \in Event /\ emitted' \in 0..MaxEvents
    BY <1>1 DEF Emit, Event
  <2>2. Append(queue, emitted') \in Seq(Event)
    BY <2>1, AddEvent
  <2> QED BY <1>1, <2>1, <2>2 DEF Emit
<1>2. CASE Take
  <2>1. Head(queue) \in Event /\ Tail(queue) \in Seq(Event)
    BY <1>2, TakeEvent DEF Take
  <2> QED BY <1>2, <2>1 DEF Take, Event
<1>3. CASE CloseEmitter
  BY <1>3 DEF CloseEmitter
<1>4. CASE CloseReturns
  BY <1>4 DEF CloseReturns
<1>5. CASE DrainEnds
  BY <1>5 DEF DrainEnds
<1>6. CASE Delivered
  BY <1>6 DEF Delivered
<1> QED BY <1>1, <1>2, <1>3, <1>4, <1>5, <1>6

LEMMA PublishTyped ==
    ASSUME BroadcasterTypeOK, NEW evt \in Nat, Publish(evt)
    PROVE  BroadcasterTypeOK'
<1> USE BroadcasterAssumption DEF BroadcasterTypeOK
<1>1. Append(history, evt) \in Seq(Nat)
  BY AddEvent
<1>2. /\ LastN(Append(history, evt), MaxHistory) \in Seq(Nat)
      /\ Len(LastN(Append(history, evt), MaxHistory)) <= MaxHistory
  BY <1>1, LastEvents
<1>3. history' \in Seq(Nat) /\ Len(history') <= MaxHistory
  BY <1>2 DEF Publish
<1>4. ASSUME NEW s \in Conn PROVE Append(chan[s], evt) \in Seq(Nat)
  BY AddEvent
<1>5. chan' \in [Conn -> Seq(Nat)]
  BY <1>4 DEF Publish
<1>6. missed' \in [Conn -> SUBSET Nat]
  BY DEF Publish
<1> QED BY <1>3, <1>5, <1>6 DEF Publish

LEMMA ConnectTyped ==
    ASSUME TypeOK, NEW s \in Conn, Connect(s)
    PROVE  TypeOK'
<1> USE BroadcasterAssumption DEF TypeOK, BroadcasterTypeOK
<1>1. FirstN(history, SubBufSize) \in Seq(Nat)
  BY FirstEvents
<1>2. Published \in SUBSET Nat
  BY DEF Published, EmitterTypeOK
<1>3. BroadcasterTypeOK'
  <2> DEFINE replay == FirstN(history, SubBufSize)
             lost == Published \ Members(replay)
  <2>1. /\ chan' = [chan EXCEPT ![s] = replay]
        /\ missed' = [missed EXCEPT ![s] = lost]
        /\ closes' \in {closes, [closes EXCEPT ![s] = @ + 1]}
        /\ subs' \in {subs, subs \cup {s}} /\ watched' \in {watched, watched \cup {s}}
        /\ UNCHANGED <<history, ctxDone, bClosed>>
    BY DEF Connect, Subscribe
  <2>2. replay \in Seq(Nat) /\ lost \in SUBSET Nat
    BY <1>1, <1>2
  <2> HIDE DEF replay, lost
  <2>3. chan' \in [Conn -> Seq(Nat)] /\ missed' \in [Conn -> SUBSET Nat]
    BY <2>1, <2>2
  <2>4. closes' \in [Conn -> Nat]
    <3>1. closes \in [Conn -> Nat] /\ [closes EXCEPT ![s] = @ + 1] \in [Conn -> Nat]
      OBVIOUS
    <3> QED BY <2>1, <3>1
  <2> QED BY <2>1, <2>3, <2>4
<1>4. Prev[s] # None => LastId(Prev[s]) \in Nat
  <2> SUFFICES ASSUME Prev[s] # None PROVE LastId(Prev[s]) \in Nat
    OBVIOUS
  <2> DEFINE given == sent[Prev[s]]
  <2>1. given \in Seq([id : Nat, evt : Nat])
    BY PrevAssumption
  <2>2. LastId(Prev[s]) = IF given = <<>> THEN 0 ELSE given[Len(given)].id
    BY DEF LastId
  <2> HIDE DEF given
  <2>3. given # <<>> => Len(given) \in 1..Len(given)
    BY <2>1, EmptySeq
  <2>4. given # <<>> => given[Len(given)] \in [id : Nat, evt : Nat]
    BY <2>1, <2>3, ElementOfSeq
  <2> QED BY <2>2, <2>4
<1>5. skip' \in [Conn -> Nat]
  BY <1>4 DEF Connect
<1> QED BY <1>3, <1>5 DEF Connect, EmitterTypeOK, emitterVars

LEMMA ServeTyped ==
    ASSUME TypeOK, NEW s \in Conn, Serve(s)
    PROVE  TypeOK'
<1> USE DEF TypeOK, BroadcasterTypeOK
<1>1. Head(chan[s]) \in Nat /\ Tail(chan[s]) \in Seq(Nat)
  BY TakeEvent DEF Serve
<1>2. BroadcasterTypeOK'
  BY <1>1 DEF Serve
<1>3. seq' \in [Conn -> Nat]
  BY DEF Serve
<1>4. Append(sent[s], [id |-> seq'[s], evt |-> Head(chan[s])]) \in Seq([id : Nat, evt : Nat])
  BY <1>1, <1>3, AddEvent
<1>5. sent' \in [Conn -> Seq([id : Nat, evt : Nat])]
  BY <1>4 DEF Serve
<1> QED BY <1>2, <1>3, <1>5 DEF Serve, EmitterTypeOK, emitterVars

LEMMA TypeStep == TypeOK /\ [Next]_vars => TypeOK'
<1> SUFFICES ASSUME TypeOK, [Next]_vars PROVE TypeOK'
  OBVIOUS
<1>1. CASE /\ Emit \/ CloseEmitter \/ CloseReturns \/ Take \/ DrainEnds
           /\ UNCHANGED <<broadcasterVars, serverVars>>
  BY <1>1, EmitterTyped DEF TypeOK, BroadcasterTypeOK, broadcasterVars, serverVars
<1>2. CASE Delivered /\ Publish(delivering) /\ UNCHANGED serverVars
  <2>1. delivering \in Nat
    BY EmitterAssumption DEF TypeOK, EmitterTypeOK
  <2>2. EmitterTypeOK' /\ BroadcasterTypeOK'
    BY <1>2, <2>1, EmitterTyped, PublishTyped DEF TypeOK
  <2> QED BY <1>2, <2>2 DEF TypeOK, serverVars
<1>3. CASE FinishRun
  BY <1>3 DEF FinishRun, CloseBroadcaster, TypeOK, EmitterTypeOK, BroadcasterTypeOK,
              emitterVars, serverVars
<1>4. ASSUME NEW s \in Conn, Disconnect(s) PROVE TypeOK'
  BY <1>4 DEF Disconnect, EndContext, TypeOK, EmitterTypeOK, BroadcasterTypeOK, emitterVars
<1>5. ASSUME NEW s \in Conn, Watch(s) PROVE TypeOK'
  <2>1. BroadcasterTypeOK'
    BY <1>5 DEF Watch, Unregister, TypeOK, BroadcasterTypeOK
  <2> QED BY <1>5, <2>1 DEF Watch, TypeOK, EmitterTypeOK, emitterVars, serverVars
<1>6. ASSUME NEW s \in Conn, ServeEnds(s) PROVE TypeOK'
  BY <1>6 DEF ServeEnds, TypeOK, EmitterTypeOK, BroadcasterTypeOK, emitterVars, broadcasterVars
<1>7. CASE UNCHANGED vars
  BY <1>7 DEF vars, TypeOK, EmitterTypeOK, BroadcasterTypeOK, emitterVars, broadcasterVars, serverVars
<1> QED BY <1>1, <1>2, <1>3, <1>4, <1>5, <1>6, <1>7, ConnectTyped, ServeTyped, StepCases

LEMMA InitTyped == Init => TypeOK
<1> SUFFICES ASSUME Init PROVE TypeOK
  OBVIOUS
<1>1. /\ <<>> \in Seq(Event) /\ <<>> \in Seq(Nat) /\ Len(<<>>) = 0
      /\ <<>> \in Seq([id : Nat, evt : Nat])
  BY EmptySeq
<1>2. EmitterTypeOK
  <2>1. queue \in Seq(Event)
    BY <1>1 DEF Init, EmitterInit
  <2>2. dropped \in SUBSET Event
    BY DEF Init, EmitterInit
  <2>3. emitted \in 0..MaxEvents /\ delivering \in 0..MaxEvents
    BY EmitterAssumption DEF Init, EmitterInit
  <2>4. closing \in {"open", "closed", "returned"} /\ drained \in BOOLEAN
    BY DEF Init, EmitterInit
  <2> QED BY <2>1, <2>2, <2>3, <2>4 DEF EmitterTypeOK
<1>3. BroadcasterTypeOK
  <2>1. /\ history \in Seq(Nat) /\ Len(history) <= MaxHistory
        /\ chan \in [Conn -> Seq(Nat)]
    BY <1>1, BroadcasterAssumption DEF Init, BroadcasterInit
  <2>2. /\ subs \in SUBSET Conn /\ closes \in [Conn -> Nat] /\ bClosed \in BOOLEAN
        /\ watched \in SUBSET Conn /\ ctxDone \in SUBSET Conn
        /\ missed \in [Conn -> SUBSET Nat]
    BY DEF Init, BroadcasterInit
  <2> QED BY <2>1, <2>2 DEF BroadcasterTypeOK
<1> QED BY <1>1, <1>2, <1>3 DEF Init, TypeOK

LEMMA Typed == Spec => []TypeOK
BY InitTyped, TypeStep, PTL DEF Spec

-----------------------------------------------------------------------------
(***************************************************************************)
(* The channel of a subscription.                                          *)
(***************************************************************************)
\* It is closed once the subscription is no longer registered, by whoever
\* removed it, and not before; after Close nobody is registered.
ClosedOnce ==
    /\ \A s \in Conn :
        /\ s \in subs => handler[s] # "none"
        /\ closes[s] = IF handler[s] = "none" \/ s \in subs THEN 0 ELSE 1
    /\ bClosed => subs = {}

LEMMA ClosedStep == TypeOK /\ ClosedOnce /\ [Next]_vars => ClosedOnce'
<1> SUFFICES ASSUME TypeOK, ClosedOnce, [Next]_vars PROVE ClosedOnce'
  OBVIOUS
<1> USE DEF TypeOK, BroadcasterTypeOK, ClosedOnce
<1>1. CASE /\ Emit \/ CloseEmitter \/ CloseReturns \/ Take \/ DrainEnds
           /\ UNCHANGED <<broadcasterVars, serverVars>>
  BY <1>1 DEF broadcasterVars, serverVars
<1>2. CASE Delivered /\ Publish(delivering) /\ UNCHANGED serverVars
  BY <1>2 DEF Publish, serverVars
<1>3. CASE FinishRun
  BY <1>3 DEF FinishRun, CloseBroadcaster, serverVars
<1>4. ASSUME NEW s \in Conn, Connect(s) PROVE ClosedOnce'
  BY <1>4 DEF Connect, Subscribe
<1>5. ASSUME NEW s \in Conn, Disconnect(s) PROVE ClosedOnce'
  BY <1>5 DEF Disconnect, EndContext
<1>6. ASSUME NEW s \in Conn, Watch(s) PROVE ClosedOnce'
  BY <1>6 DEF Watch, Unregister, serverVars
<1>7. ASSUME NEW s \in Conn, Serve(s) PROVE ClosedOnce'
  BY <1>7 DEF Serve
<1>8. ASSUME NEW s \in Conn, ServeEnds(s) PROVE ClosedOnce'
  BY <1>8 DEF ServeEnds, broadcasterVars
<1>9. CASE UNCHANGED vars
  BY <1>9 DEF vars, broadcasterVars, serverVars
<1> QED BY <1>1, <1>2, <1>3, <1>4, <1>5, <1>6, <1>7, <1>8, <1>9, StepCases

LEMMA ChannelsClosedOnce == Spec => []ClosedOnce
<1>1. Init => ClosedOnce
  BY DEF Init, BroadcasterInit, ClosedOnce
<1> QED BY <1>1, ClosedStep, Typed, PTL DEF Spec

\* Close of the broadcaster and the goroutine that waits for the end of a
\* request may come in any order: neither closes a channel the other closed,
\* and nothing is published to a closed one (sse/broadcaster.go, Subscribe
\* and Close).
THEOREM NoPanicOnChannels == Spec => []ChannelsSafe
<1>1. TypeOK /\ ClosedOnce => ChannelsSafe
  <2> SUFFICES ASSUME TypeOK, ClosedOnce PROVE ChannelsSafe
    OBVIOUS
  <2>1. ASSUME NEW s \in Conn PROVE closes[s] <= 1 /\ (s \in subs => closes[s] = 0)
    <3>1. closes[s] = IF handler[s] = "none" \/ s \in subs THEN 0 ELSE 1
      BY DEF ClosedOnce
    <3>2. s \in subs => handler[s] # "none"
      BY DEF ClosedOnce
    <3> QED BY <3>1, <3>2
  <2> QED BY <2>1 DEF TypeOK, BroadcasterTypeOK, ChannelsSafe
<1> QED BY <1>1, ChannelsClosedOnce, Typed, PTL

-----------------------------------------------------------------------------
(***************************************************************************)
(* The emitter.                                                            *)
(***************************************************************************)
\* Where an event is: published, held by the drain goroutine, in the channel
\* or dropped; those not yet published are later than those that are.
EmitterInOrder ==
    /\ Increasing(queue)
    /\ \A e \in Members(queue) : e \in 1..emitted /\ delivering < e /\ e \notin dropped
    /\ delivering <= emitted /\ delivering \notin dropped
    /\ dropped \subseteq 1..emitted
    /\ \A e \in Published :
        /\ delivering # 0 => e < delivering
        /\ \A later \in Members(queue) : e < later

\* The emitter is closed, drained and only then its Close returns, and the
\* broadcaster is closed after that.
ClosedInOrder ==
    /\ closing = "returned" => drained
    /\ drained => closing # "open" /\ queue = <<>> /\ delivering = 0
    /\ bClosed => closing = "returned"

LEMMA EmitOrder ==
    ASSUME EmitterTypeOK, EmitterInOrder, Emit
    PROVE  EmitterInOrder' /\ Published' = Published
<1>1. /\ emitted \in Nat /\ emitted' = emitted + 1 /\ delivering' = delivering
      /\ delivering \in Nat
  BY EmitterAssumption DEF Emit, EmitterTypeOK
<1>2. queue \in Seq(Nat)
  BY SeqMonotonic, EmitterAssumption DEF EmitterTypeOK, Event
<1>3. \A e \in Members(queue) : e \in 1..emitted /\ delivering < e
  BY DEF EmitterInOrder
<1>4. CASE Len(queue) < BufSize
  <2>1. queue' = Append(queue, emitted + 1) /\ dropped' = dropped
    BY <1>1, <1>4 DEF Emit
  <2>2. Members(queue') = Members(queue) \cup {emitted + 1}
    BY <1>1, <1>2, <2>1, AddEvent
  <2>3. Increasing(queue')
    BY <1>1, <1>2, <1>3, <2>1, AddLater DEF EmitterInOrder
  <2>4. Published' = Published
    BY <1>1, <2>1, <2>2 DEF Published, EmitterInOrder
  <2>5. \A e \in Published : e \in 1..emitted
    BY DEF Published
  <2> QED BY <1>1, <2>1, <2>2, <2>3, <2>4, <2>5 DEF EmitterInOrder
<1>5. CASE ~(Len(queue) < BufSize)
  <2>1. queue' = queue /\ dropped' = dropped \cup {emitted + 1}
    BY <1>1, <1>5 DEF Emit
  <2>2. Published' = Published
    BY <1>1, <2>1 DEF Published, EmitterInOrder
  <2> QED BY <1>1, <2>1, <2>2 DEF EmitterInOrder
<1> QED BY <1>4, <1>5

LEMMA TakeOrder ==
    ASSUME EmitterTypeOK, EmitterInOrder, Take
    PROVE  EmitterInOrder' /\ Published' = Published
<1>1. /\ emitted \in Nat /\ emitted' = emitted /\ delivering = 0 /\ dropped' = dropped
      /\ delivering' = Head(queue) /\ queue' = Tail(queue) /\ queue # <<>>
  BY EmitterAssumption DEF Take, EmitterTypeOK
<1>2. queue \in Seq(Nat)
  BY SeqMonotonic, EmitterAssumption DEF EmitterTypeOK, Event
<1>3. Members(queue) = Members(queue') \cup {delivering'} /\ delivering' \in Nat
  BY <1>1, <1>2, TakeEvent
<1>4. Increasing(queue') /\ \A e \in Members(queue') : delivering' < e
  BY <1>1, <1>2, TakeEarliest DEF EmitterInOrder
<1>5. Published' = Published
  BY <1>1, <1>3 DEF Published
<1> QED BY <1>1, <1>3, <1>4, <1>5 DEF EmitterInOrder

LEMMA DeliveredOrder ==
    ASSUME EmitterTypeOK, EmitterInOrder, Delivered
    PROVE  EmitterInOrder' /\ Published' = Published \cup {delivering}
<1>1. /\ emitted \in Nat /\ UNCHANGED <<emitted, queue, dropped>>
      /\ delivering \in Nat \ {0} /\ delivering' = 0
  BY EmitterAssumption DEF Delivered, EmitterTypeOK
<1>2. Members(queue') = Members(queue) /\ \A e \in Members(queue) : delivering < e
  BY <1>1 DEF Members, EmitterInOrder
<1>3. Published' = Published \cup {delivering}
  BY <1>1, <1>2 DEF Published, EmitterInOrder
<1> QED BY <1>1, <1>2, <1>3 DEF EmitterInOrder

LEMMA EmitterOrder ==
    ASSUME TypeOK, EmitterInOrder, [Next]_vars
    PROVE  /\ EmitterInOrder'
           /\ Published' = Published \/ (Delivered /\ Published' = Published \cup {delivering})
<1>1. CASE Emit \/ Take \/ Delivered
  BY <1>1, EmitOrder, TakeOrder, DeliveredOrder DEF TypeOK
<1>2. CASE UNCHANGED <<emitted, queue, delivering, dropped>>
  BY <1>2 DEF EmitterInOrder, Published, Members, Increasing
<1> QED BY <1>1, <1>2, StepCases DEF CloseEmitter, CloseReturns, DrainEnds, FinishRun, Connect,
           Disconnect, Watch, Serve, ServeEnds, emitterVars, vars

LEMMA CloseOrder == ClosedInOrder /\ [Next]_vars => ClosedInOrder'
<1> SUFFICES ASSUME ClosedInOrder, [Next]_vars PROVE ClosedInOrder'
  OBVIOUS
<1> USE DEF ClosedInOrder
<1>1. CASE /\ Emit \/ CloseEmitter \/ CloseReturns \/ Take \/ DrainEnds
           /\ UNCHANGED <<broadcasterVars, serverVars>>
  BY <1>1 DEF broadcasterVars, Emit, CloseEmitter, CloseReturns, Take, DrainEnds
<1>2. CASE Delivered /\ Publish(delivering)
  BY <1>2 DEF Publish, Delivered
<1>3. CASE FinishRun
  BY <1>3 DEF FinishRun, CloseBroadcaster, emitterVars
<1>4. CASE UNCHANGED <<emitterVars, bClosed>>
  BY <1>4 DEF emitterVars
<1> QED BY <1>1, <1>2, <1>3, <1>4, StepCases DEF Connect, Subscribe, Disconnect, EndContext, Watch,
           Unregister, Serve, ServeEnds, broadcasterVars, vars

-----------------------------------------------------------------------------
(***************************************************************************)
(* The connections.                                                        *)
(***************************************************************************)
\* What a client was given is earlier than what waits in its channel, which is
\* in order.
InOrder(s) ==
    /\ Increasing(chan[s]) /\ Members(chan[s]) \subseteq Published
    /\ Given(s) \subseteq Published
    /\ \A e \in Given(s), later \in Members(chan[s]) : e < later
    /\ handler[s] = "none" => sent[s] = <<>> /\ chan[s] = <<>>

StreamInOrder ==
    /\ Increasing(history) /\ Members(history) \subseteq Published
    /\ \A s \in Conn : InOrder(s)

LEMMA PublishOrder ==
    ASSUME TypeOK, ClosedOnce, EmitterInOrder, StreamInOrder,
           Delivered /\ Publish(delivering) /\ UNCHANGED serverVars
    PROVE  StreamInOrder'
<1>1. /\ delivering \in Nat \ {0} /\ Published' = Published \cup {delivering}
      /\ \A e \in Published : e < delivering
  BY EmitterAssumption, DeliveredOrder DEF Delivered, TypeOK, EmitterTypeOK, EmitterInOrder
<1>2. Increasing(history') /\ Members(history') \subseteq Published'
  <2> DEFINE longer == Append(history, delivering)
  <2>1. history \in Seq(Nat) /\ MaxHistory \in Nat \ {0}
    BY BroadcasterAssumption DEF TypeOK, BroadcasterTypeOK
  <2>2. longer \in Seq(Nat) /\ Increasing(longer) /\ Members(longer) \subseteq Published'
    BY <1>1, <2>1, AddEvent, AddLater DEF StreamInOrder
  <2>3. history' = history \/ history' = LastN(longer, MaxHistory)
    BY DEF Publish
  <2> HIDE DEF longer
  <2>4. CASE history' = history
    BY <1>1, <2>4 DEF StreamInOrder, Increasing, Members
  <2>5. CASE history' = LastN(longer, MaxHistory)
    BY <2>1, <2>2, <2>5, LastEvents
  <2> QED BY <2>3, <2>4, <2>5
<1>3. ASSUME NEW s \in Conn PROVE InOrder(s)'
  <2>1. InOrder(s) /\ chan[s] \in Seq(Nat) /\ UNCHANGED <<handler, sent>>
    BY DEF StreamInOrder, TypeOK, BroadcasterTypeOK, serverVars
  <2>2. Given(s)' = Given(s)
    BY <2>1 DEF Given
  <2>3. CASE chan'[s] = chan[s]
    BY <1>1, <2>1, <2>2, <2>3 DEF InOrder
  <2>4. CASE s \in subs /\ chan'[s] = Append(chan[s], delivering)
    <3>1. /\ Increasing(chan'[s])
          /\ Members(chan'[s]) = Members(chan[s]) \cup {delivering}
      BY <1>1, <2>1, <2>4, AddEvent, AddLater DEF InOrder
    <3> QED BY <1>1, <2>1, <2>2, <2>4, <3>1 DEF InOrder, ClosedOnce
  <2>5. \/ chan'[s] = chan[s]
        \/ s \in subs /\ chan'[s] = Append(chan[s], delivering)
    BY DEF Publish
  <2> QED BY <2>3, <2>4, <2>5
<1> QED BY <1>2, <1>3 DEF StreamInOrder

LEMMA ConnectOrder ==
    ASSUME TypeOK, StreamInOrder, NEW c \in Conn, Connect(c)
    PROVE  StreamInOrder'
<1> DEFINE replay == FirstN(history, SubBufSize)
<1>1. /\ history \in Seq(Nat) /\ SubBufSize \in Nat /\ chan \in [Conn -> Seq(Nat)]
  BY BroadcasterAssumption DEF TypeOK, BroadcasterTypeOK
<1>2. Increasing(replay) /\ Members(replay) \subseteq Published
  BY <1>1, FirstEvents DEF StreamInOrder
<1>3. /\ handler[c] = "none" /\ handler' = [handler EXCEPT ![c] = "serving"]
      /\ chan' = [chan EXCEPT ![c] = replay]
      /\ UNCHANGED <<emitterVars, history, sent>>
  BY DEF Connect, Subscribe
<1> HIDE DEF replay
<1>4. Published' = Published
  BY <1>3 DEF Published, emitterVars
<1>5. ASSUME NEW s \in Conn PROVE InOrder(s)'
  <2>1. InOrder(s) /\ Given(s)' = Given(s)
    BY <1>3 DEF StreamInOrder, Given
  <2>2. CASE s = c
    <3>1. chan'[s] = replay /\ handler'[s] = "serving"
      BY <1>1, <1>3, <2>2 DEF TypeOK
    <3>2. Given(s) = {}
      BY <1>3, <2>1, <2>2, NoEvents DEF InOrder, Given, Members
    <3> QED BY <1>2, <1>4, <2>1, <3>1, <3>2 DEF InOrder
  <2>3. CASE s # c
    <3>1. chan'[s] = chan[s] /\ handler'[s] = handler[s]
      BY <1>1, <1>3, <2>3 DEF TypeOK
    <3> QED BY <1>3, <1>4, <2>1, <3>1 DEF InOrder
  <2> QED BY <2>2, <2>3
<1> QED BY <1>3, <1>4, <1>5 DEF StreamInOrder

\* What Serve does to what the client was given.
LEMMA ServeGives ==
    ASSUME TypeOK, NEW c \in Conn, Serve(c)
    PROVE  /\ handler[c] = "serving" /\ chan[c] # <<>> /\ UNCHANGED <<handler, emitterVars, history>>
           /\ Head(chan[c]) \in Nat
           /\ chan[c] \in Seq(Nat) /\ chan' = [chan EXCEPT ![c] = Tail(@)]
           /\ \A s \in Conn :
               Given(s)' = IF s = c /\ seq'[c] > skip[c] /\ c \notin gone
                           THEN Given(s) \cup {Head(chan[s])} ELSE Given(s)
           /\ \A s \in Conn : s # c => sent'[s] = sent[s]
<1> DEFINE Rec == [id : Nat, evt : Nat]
           item == [id |-> seq'[c], evt |-> Head(chan[c])]
<1>1. /\ chan[c] \in Seq(Nat) /\ sent \in [Conn -> Seq(Rec)] /\ seq' \in [Conn -> Nat]
  BY ServeTyped DEF TypeOK, BroadcasterTypeOK
<1>2. Head(chan[c]) \in Nat /\ item \in Rec
  BY <1>1, TakeEvent DEF Serve
<1>3. sent' = IF seq'[c] > skip[c] /\ c \notin gone
              THEN [sent EXCEPT ![c] = Append(@, item)] ELSE sent
  BY DEF Serve
<1>4. ASSUME NEW s \in Conn PROVE Given(s) = {r.evt : r \in Members(sent[s])}
  BY DEF Given, Members
<1>5. ASSUME NEW s \in Conn PROVE Given(s)' = {r.evt : r \in Members(sent'[s])}
  BY DEF Given, Members
<1>6. item.evt = Head(chan[c])
  OBVIOUS
<1> HIDE DEF item, Rec
<1>7. Members(Append(sent[c], item)) = Members(sent[c]) \cup {item}
  BY <1>1, <1>2, AddEvent
<1>8. ASSUME NEW s \in Conn
      PROVE  Given(s)' = IF s = c /\ seq'[c] > skip[c] /\ c \notin gone
                         THEN Given(s) \cup {Head(chan[s])} ELSE Given(s)
  <2>1. CASE s = c /\ seq'[c] > skip[c] /\ c \notin gone
    <3>1. sent'[s] = Append(sent[c], item)
      BY <1>1, <1>3, <2>1
    <3>2. Given(s)' = {r.evt : r \in Members(sent[c]) \cup {item}}
      BY <1>5, <1>7, <3>1
    <3> QED BY <1>4, <1>6, <2>1, <3>2
  <2>2. CASE ~(s = c /\ seq'[c] > skip[c] /\ c \notin gone)
    <3>1. sent'[s] = sent[s]
      BY <1>1, <1>3, <2>2
    <3> QED BY <1>4, <1>5, <2>2, <3>1
  <2> QED BY <2>1, <2>2
<1>9. ASSUME NEW s \in Conn, s # c PROVE sent'[s] = sent[s]
  BY <1>1, <1>3, <1>9
<1> QED BY <1>1, <1>2, <1>8, <1>9 DEF Serve

LEMMA ServeOrder ==
    ASSUME TypeOK, StreamInOrder, NEW c \in Conn, Serve(c)
    PROVE  StreamInOrder'
<1>1. Published' = Published /\ history' = history
  BY ServeGives DEF Published, emitterVars
<1>2. chan \in [Conn -> Seq(Nat)]
  BY DEF TypeOK, BroadcasterTypeOK
<1>3. ASSUME NEW s \in Conn PROVE InOrder(s)'
  <2>1. InOrder(s)
    BY DEF StreamInOrder
  <2>2. CASE s = c
    <3>0. chan[s] \in Seq(Nat) /\ chan[s] # <<>> /\ chan'[s] = Tail(chan[s])
      BY <1>2, <2>2, ServeGives
    <3>1. /\ Members(chan[s]) = Members(chan'[s]) \cup {Head(chan[s])}
          /\ Increasing(chan'[s]) /\ \A m \in Members(chan'[s]) : Head(chan[s]) < m
      BY <2>1, <3>0, TakeEvent, TakeEarliest DEF InOrder
    <3>2. Given(s)' \subseteq Given(s) \cup {Head(chan[s])} /\ handler'[s] = "serving"
      BY <2>2, ServeGives
    <3> QED BY <1>1, <2>1, <3>1, <3>2 DEF InOrder
  <2>3. CASE s # c
    <3>1. chan'[s] = chan[s] /\ Given(s)' = Given(s) /\ sent'[s] = sent[s] /\ handler' = handler
      BY <1>2, <2>3, ServeGives
    <3> QED BY <1>1, <2>1, <3>1 DEF InOrder
  <2> QED BY <2>2, <2>3
<1> QED BY <1>1, <1>3 DEF StreamInOrder

LEMMA StreamOrder ==
    ASSUME TypeOK, ClosedOnce, EmitterInOrder, StreamInOrder, [Next]_vars
    PROVE  StreamInOrder'
<1>1. CASE Delivered /\ Publish(delivering) /\ UNCHANGED serverVars
  BY <1>1, PublishOrder
<1>2. CASE /\ UNCHANGED <<history, chan, sent>> /\ Published' = Published
           /\ \A s \in Conn : handler'[s] = "none" => handler[s] = "none"
  BY <1>2 DEF StreamInOrder, InOrder, Given
<1>3. CASE UNCHANGED <<emitterVars, history, chan, sent, handler>>
  BY <1>2, <1>3 DEF emitterVars, Published
<1>4. CASE /\ Emit \/ CloseEmitter \/ CloseReturns \/ Take \/ DrainEnds
           /\ UNCHANGED <<broadcasterVars, serverVars>>
  <2>1. Published' = Published
    BY <1>4, EmitOrder, TakeOrder DEF CloseEmitter, CloseReturns, DrainEnds, Published, TypeOK
  <2> QED BY <1>2, <1>4, <2>1 DEF broadcasterVars, serverVars
<1>5. ASSUME NEW s \in Conn, ServeEnds(s) PROVE StreamInOrder'
  <2>1. /\ UNCHANGED <<emitterVars, history, chan, sent>>
        /\ \A c \in Conn : handler'[c] = "none" => handler[c] = "none"
    BY <1>5 DEF ServeEnds, broadcasterVars, TypeOK
  <2> QED BY <1>2, <2>1 DEF emitterVars, Published
<1>6. ASSUME NEW s \in Conn, Disconnect(s) \/ Watch(s) PROVE StreamInOrder'
  BY <1>3, <1>6 DEF Disconnect, EndContext, Watch, Unregister, serverVars
<1>7. CASE FinishRun
  BY <1>3, <1>7 DEF FinishRun, CloseBroadcaster, serverVars
<1>8. CASE UNCHANGED vars
  BY <1>3, <1>8 DEF vars, broadcasterVars, serverVars
<1> QED BY <1>1, <1>4, <1>5, <1>6, <1>7, <1>8, ConnectOrder, ServeOrder, StepCases

\* The invariant of the whole path.
EventsInOrder == TypeOK /\ ClosedOnce /\ EmitterInOrder /\ ClosedInOrder /\ StreamInOrder

LEMMA EventsAreInOrder == Spec => []EventsInOrder
<1>1. Init => EmitterInOrder /\ ClosedInOrder /\ StreamInOrder
  <2> SUFFICES ASSUME Init PROVE EmitterInOrder /\ ClosedInOrder /\ StreamInOrder
    OBVIOUS
  <2>1. Members(<<>>) = {} /\ Increasing(<<>>)
    BY NoEvents
  <2>2. Published = {} /\ emitted = 0
    BY DEF Init, EmitterInit, Published
  <2>3. EmitterInOrder /\ ClosedInOrder
    BY <2>1, <2>2 DEF Init, EmitterInit, BroadcasterInit, EmitterInOrder, ClosedInOrder
  <2>4. ASSUME NEW s \in Conn PROVE InOrder(s)
    <3>1. Given(s) = {} /\ chan[s] = <<>> /\ sent[s] = <<>>
      BY <2>1 DEF Init, BroadcasterInit, Given, Members
    <3> QED BY <2>1, <3>1 DEF InOrder
  <2> QED BY <2>1, <2>3, <2>4 DEF Init, BroadcasterInit, StreamInOrder
<1>2. EventsInOrder /\ [Next]_vars => EventsInOrder'
  BY TypeStep, ClosedStep, EmitterOrder, CloseOrder, StreamOrder DEF EventsInOrder
<1>3. Init => EventsInOrder
  BY <1>1, InitTyped DEF EventsInOrder, Init, BroadcasterInit, ClosedOnce
<1> QED BY <1>2, <1>3, PTL DEF Spec

-----------------------------------------------------------------------------
(***************************************************************************)
(* The end of a stream.                                                    *)
(***************************************************************************)
\* What was published is accounted for at every connection that is not lost
\* and skips nothing: its client was given it, it waits in the channel, or the
\* connection missed it.
Accounted(s) ==
    /\ missed[s] \subseteq Published
    /\ s \in ctxDone => s \in gone \/ bClosed
    /\ handler[s] # "none" /\ s \notin gone =>
        /\ s \in subs \/ bClosed
        /\ skip[s] = 0 => Given(s) \cup Members(chan[s]) = Published \ missed[s]
    /\ handler[s] = "ended" => chan[s] = <<>> /\ s \notin subs

AllAccounted == \A s \in Conn : Accounted(s)

LEMMA PublishAccounted ==
    ASSUME EventsInOrder, AllAccounted, Delivered /\ Publish(delivering) /\ UNCHANGED serverVars
    PROVE  AllAccounted'
<1> SUFFICES ASSUME NEW s \in Conn PROVE Accounted(s)'
  BY DEF AllAccounted
<1>1. /\ delivering \in Nat /\ Published' = Published \cup {delivering}
      /\ delivering \notin Published /\ bClosed = FALSE
  BY EmitterAssumption, DeliveredOrder
     DEF Delivered, EventsInOrder, TypeOK, EmitterTypeOK, BroadcasterTypeOK, EmitterInOrder,
         ClosedInOrder, Published
<1>2. /\ Accounted(s) /\ Given(s)' = Given(s) /\ chan[s] \in Seq(Nat)
      /\ UNCHANGED <<handler, gone, skip, subs, ctxDone, bClosed>>
  BY DEF AllAccounted, Given, EventsInOrder, TypeOK, BroadcasterTypeOK, Publish, serverVars
<1>3. CASE s \in subs /\ Len(chan[s]) < SubBufSize
  <2>0. Len(chan[s]) \in Nat /\ ~(Len(chan[s]) >= SubBufSize)
    BY <1>2, <1>3, LenProperties, BroadcasterAssumption
  <2>1. chan'[s] = Append(chan[s], delivering) /\ missed'[s] = missed[s]
    BY <1>3, <2>0 DEF Publish
  <2>2. Members(chan'[s]) = Members(chan[s]) \cup {delivering}
    BY <1>1, <1>2, <2>1, AddEvent
  <2> QED BY <1>1, <1>2, <1>3, <2>1, <2>2 DEF Accounted
<1>4. CASE s \in subs /\ ~(Len(chan[s]) < SubBufSize)
  <2>1. Len(chan[s]) \in Nat /\ Len(chan[s]) >= SubBufSize
    BY <1>2, <1>4, LenProperties, BroadcasterAssumption
  <2>2. chan'[s] = chan[s] /\ missed'[s] = missed[s] \cup {delivering}
    BY <1>4, <2>1 DEF Publish
  <2> QED BY <1>1, <1>2, <1>4, <2>2 DEF Accounted
<1>5. CASE s \notin subs
  <2>1. chan'[s] = chan[s] /\ missed'[s] = missed[s]
    BY <1>5 DEF Publish
  <2> QED BY <1>1, <1>2, <1>5, <2>1 DEF Accounted
<1> QED BY <1>3, <1>4, <1>5

LEMMA ConnectAccounted ==
    ASSUME EventsInOrder, AllAccounted, NEW c \in Conn, Connect(c)
    PROVE  AllAccounted'
<1> SUFFICES ASSUME NEW s \in Conn PROVE Accounted(s)'
  BY DEF AllAccounted
<1> DEFINE replay == FirstN(history, SubBufSize)
<1>1. /\ history \in Seq(Nat) /\ SubBufSize \in Nat
      /\ chan \in [Conn -> Seq(Nat)] /\ missed \in [Conn -> SUBSET Nat]
      /\ handler \in [Conn -> {"none", "serving", "ended"}] /\ skip \in [Conn -> Nat]
  BY BroadcasterAssumption DEF EventsInOrder, TypeOK, BroadcasterTypeOK
<1>2. Members(replay) \subseteq Published
  BY <1>1, FirstEvents DEF EventsInOrder, StreamInOrder
<1>3. /\ handler[c] = "none" /\ handler' = [handler EXCEPT ![c] = "serving"]
      /\ chan' = [chan EXCEPT ![c] = replay]
      /\ missed' = [missed EXCEPT ![c] = Published \ Members(replay)]
      /\ subs' = (IF bClosed THEN subs ELSE subs \cup {c})
      /\ skip' = [skip EXCEPT ![c] = IF Prev[c] = None THEN 0 ELSE LastId(Prev[c])]
      /\ UNCHANGED <<emitterVars, sent, gone, ctxDone, bClosed>>
  BY DEF Connect, Subscribe
<1> HIDE DEF replay
<1>4. Published' = Published /\ Given(s)' = Given(s) /\ Accounted(s)
  BY <1>3 DEF Published, emitterVars, Given, AllAccounted
<1>5. CASE s = c
  <2>1. Given(s) = {}
    BY <1>3, <1>5, NoEvents DEF EventsInOrder, StreamInOrder, InOrder, Given, Members
  <2>2. /\ chan'[s] = replay /\ missed'[s] = Published \ Members(replay)
        /\ handler'[s] = "serving"
        /\ s \in subs' \/ bClosed'
    BY <1>1, <1>3, <1>5
  <2> QED BY <1>2, <1>3, <1>4, <2>1, <2>2 DEF Accounted
<1>6. CASE s # c
  <2>1. /\ chan'[s] = chan[s] /\ missed'[s] = missed[s] /\ handler'[s] = handler[s]
        /\ skip'[s] = skip[s] /\ s \in subs' <=> s \in subs
    BY <1>1, <1>3, <1>6
  <2> QED BY <1>3, <1>4, <2>1 DEF Accounted
<1> QED BY <1>5, <1>6

LEMMA ServeAccounted ==
    ASSUME EventsInOrder, AllAccounted, NEW c \in Conn, Serve(c)
    PROVE  AllAccounted'
<1> SUFFICES ASSUME NEW s \in Conn PROVE Accounted(s)'
  BY DEF AllAccounted
<1>1. TypeOK /\ Accounted(s) /\ chan \in [Conn -> Seq(Nat)]
  BY DEF EventsInOrder, TypeOK, BroadcasterTypeOK, AllAccounted
<1>2. UNCHANGED <<handler, gone, skip, subs, missed, ctxDone, bClosed>> /\ Published' = Published
  BY DEF Serve, Published, emitterVars
<1>3. CASE s = c
  <2>1. /\ handler[s] = "serving" /\ chan[s] \in Seq(Nat) /\ chan[s] # <<>>
        /\ chan'[s] = Tail(chan[s])
    BY <1>1, <1>3, ServeGives
  <2>2. Members(chan[s]) = Members(chan'[s]) \cup {Head(chan[s])}
    BY <2>1, TakeEvent
  <2>3. skip[s] = 0 /\ s \notin gone => Given(s)' = Given(s) \cup {Head(chan[s])}
    <3>1. seq'[c] = seq[c] + 1 /\ seq[c] \in Nat
      BY <1>1 DEF Serve, TypeOK
    <3>2. skip[s] = 0 => seq'[c] > skip[c]
      BY <1>3, <3>1
    <3> QED BY <1>1, <1>3, <3>2, ServeGives
  <2> QED BY <1>1, <1>2, <2>1, <2>2, <2>3 DEF Accounted
<1>4. CASE s # c
  <2>1. chan'[s] = chan[s] /\ Given(s)' = Given(s)
    BY <1>1, <1>4, ServeGives
  <2> QED BY <1>1, <1>2, <2>1 DEF Accounted
<1> QED BY <1>3, <1>4

LEMMA AccountedStep == EventsInOrder /\ AllAccounted /\ [Next]_vars => AllAccounted'
<1> SUFFICES ASSUME EventsInOrder, AllAccounted, [Next]_vars PROVE AllAccounted'
  OBVIOUS
<1>1. TypeOK /\ \A s \in Conn : Accounted(s)
  BY DEF EventsInOrder, AllAccounted
<1>2. CASE Delivered /\ Publish(delivering) /\ UNCHANGED serverVars
  BY <1>2, PublishAccounted
<1>3. CASE /\ Emit \/ CloseEmitter \/ CloseReturns \/ Take \/ DrainEnds
           /\ UNCHANGED <<broadcasterVars, serverVars>>
  <2>1. Published' = Published
    BY <1>3, EmitOrder, TakeOrder
       DEF CloseEmitter, CloseReturns, DrainEnds, Published, EventsInOrder, TypeOK
  <2> QED BY <1>1, <1>3, <2>1 DEF AllAccounted, Accounted, Given, broadcasterVars, serverVars
<1>4. CASE FinishRun
  BY <1>1, <1>4 DEF FinishRun, CloseBroadcaster, AllAccounted, Accounted, Given, Published,
                    emitterVars, serverVars
<1>5. ASSUME NEW c \in Conn, Disconnect(c) PROVE AllAccounted'
  BY <1>1, <1>5 DEF Disconnect, EndContext, AllAccounted, Accounted, Given, Published, emitterVars
<1>6. ASSUME NEW c \in Conn, Watch(c) PROVE AllAccounted'
  <2>1. c \in subs => c \in gone
    BY <1>1, <1>6 DEF Watch, Unregister, Accounted, EventsInOrder, ClosedOnce
  <2> QED BY <1>1, <1>6, <2>1 DEF Watch, Unregister, AllAccounted, Accounted, Given, Published,
                                  emitterVars, serverVars
<1>7. ASSUME NEW c \in Conn, ServeEnds(c) PROVE AllAccounted'
  <2>1. c \notin subs
    BY <1>1, <1>7 DEF ServeEnds, EventsInOrder, ClosedOnce
  <2> SUFFICES ASSUME NEW s \in Conn PROVE Accounted(s)'
    BY DEF AllAccounted
  <2>2. /\ UNCHANGED <<subs, bClosed, ctxDone, gone, missed>> /\ Published' = Published
        /\ skip'[s] = skip[s] /\ chan'[s] = chan[s] /\ Given(s)' = Given(s)
    BY <1>7 DEF ServeEnds, Given, Published, emitterVars, broadcasterVars
  <2>3. /\ handler[c] = "serving" /\ chan[c] = <<>>
        /\ handler'[s] = IF s = c THEN "ended" ELSE handler[s]
    BY <1>1, <1>7 DEF ServeEnds, TypeOK
  <2> QED BY <1>1, <2>1, <2>2, <2>3 DEF Accounted
<1>8. CASE UNCHANGED vars
  BY <1>1, <1>8 DEF vars, AllAccounted, Accounted, Given, Published, emitterVars,
                    broadcasterVars, serverVars
<1> QED BY <1>2, <1>3, <1>4, <1>5, <1>6, <1>7, <1>8, ConnectAccounted, ServeAccounted, StepCases

\* The run closes the emitter, which drains its channel, and then the
\* broadcaster, which leaves the channels of its subscriptions to be read to
\* their end: a client that is told that the stream is over was given every
\* event but those that found a full buffer or had left the history
\* (events/events.go, Close; runmgr/manager.go; server/handlers.go,
\* handleEvents).
THEOREM NothingLostAtTheEnd == Spec => []DoneMeansAll
<1>1. Init => AllAccounted
  BY DEF Init, BroadcasterInit, AllAccounted, Accounted
<1>2. EventsInOrder /\ AllAccounted => DoneMeansAll
  <2> SUFFICES ASSUME EventsInOrder, AllAccounted, NEW s \in Conn,
                      handler[s] = "ended", s \notin gone, skip[s] = 0
               PROVE  closing # "open" /\ Given(s) = 1..emitted \ (dropped \cup missed[s])
    BY DEF DoneMeansAll
  <2>1. bClosed /\ chan[s] = <<>> /\ Given(s) \cup Members(chan[s]) = Published \ missed[s]
    BY DEF AllAccounted, Accounted
  <2>2. closing # "open" /\ queue = <<>> /\ delivering = 0
    BY <2>1 DEF EventsInOrder, ClosedInOrder
  <2>3. Published = 1..emitted \ dropped /\ Members(chan[s]) = {}
    BY <2>1, <2>2, NoEvents DEF Published
  <2> QED BY <2>1, <2>2, <2>3
<1> QED BY <1>1, <1>2, AccountedStep, EventsAreInOrder, PTL DEF Spec

-----------------------------------------------------------------------------
(***************************************************************************)
(* The feed of a client.                                                   *)
(***************************************************************************)
\* An event that a handler writes is later than the one it wrote last.
LEMMA GivesLater ==
    ASSUME EventsInOrder, NEW c \in Conn, Serve(c)
    PROVE  Feed!Give(c) \/ UNCHANGED Feed!feedVars
<1> DEFINE Rec == [id : Nat, evt : Nat]
           e == Head(chan[c])
           item == [id |-> seq'[c], evt |-> e]
           feedOf(r) == [i \in DOMAIN sent[r] |-> sent[r][i].evt]
           feeds == [r \in Conn |-> feedOf(r)]
           longer == Append(sent[c], item)
<1>1. CASE ~(seq'[c] > skip[c] /\ c \notin gone)
  BY <1>1 DEF Serve, emitterVars, Feed!feedVars
<1>2. CASE seq'[c] > skip[c] /\ c \notin gone
  <2>1. TypeOK /\ InOrder(c) /\ sent[c] \in Seq(Rec) /\ sent \in [Conn -> Seq(Rec)]
    BY DEF EventsInOrder, StreamInOrder, TypeOK
  <2>2. /\ handler[c] = "serving" /\ chan[c] # <<>> /\ chan[c] \in Seq(Nat) /\ e \in Nat
        /\ UNCHANGED <<handler, emitted>>
    BY <2>1, ServeGives DEF emitterVars
  <2>3. seq'[c] \in Nat /\ item \in Rec /\ item.evt = e
    BY <2>1, <2>2 DEF Serve, TypeOK
  <2>4. sent' = [sent EXCEPT ![c] = longer]
    BY <1>2 DEF Serve
  <2>5. e \in Members(chan[c])
    BY <2>2, TakeEvent
  <2>6. e \in 1..emitted /\ \A g \in Given(c) : g < e
    BY <2>1, <2>5 DEF InOrder, Published
  <2>7. /\ Len(sent[c]) \in Nat /\ DOMAIN sent[c] = 1..Len(sent[c])
        /\ sent[c] # <<>> => Len(sent[c]) \in DOMAIN sent[c]
        /\ \A i \in DOMAIN sent[c] : sent[c][i].evt \in Nat
    <3> HIDE DEF Rec
    <3>1. Len(sent[c]) \in Nat /\ DOMAIN sent[c] = 1..Len(sent[c])
      BY <2>1, LenProperties
    <3>2. sent[c] # <<>> => Len(sent[c]) \in DOMAIN sent[c]
      BY <2>1, <3>1, EmptySeq
    <3>3. ASSUME NEW i \in DOMAIN sent[c] PROVE sent[c][i] \in Rec
      BY <2>1, <3>1, ElementOfSeq
    <3> QED BY <3>1, <3>2, <3>3 DEF Rec
  <2>8. feedOf(c) \in Seq(Nat) /\ Len(feedOf(c)) = Len(sent[c])
    BY <2>7
  <2> DEFINE latest == IF feedOf(c) = <<>> THEN 0 ELSE feedOf(c)[Len(feedOf(c))]
  <2>9. latest \in Nat /\ latest < e
    BY <2>6, <2>7, <2>8 DEF Given
  <2>10. /\ longer \in Seq(Rec) /\ Len(longer) = Len(sent[c]) + 1
         /\ \A i \in 1..Len(sent[c]) : longer[i] = sent[c][i]
         /\ longer[Len(sent[c]) + 1] = item
    BY <2>1, <2>3, AppendProperties
  <2>11. [i \in DOMAIN longer |-> longer[i].evt] = Append(feedOf(c), e)
    BY <2>3, <2>7, <2>8, <2>10
  <2>12. ASSUME NEW r \in Conn
         PROVE  feedOf(r)' = IF r = c THEN Append(feedOf(r), e) ELSE feedOf(r)
    <3>1. CASE r = c
      <4>1. sent'[r] = longer
        BY <2>1, <2>4, <3>1
      <4> HIDE DEF longer, e
      <4> QED BY <2>11, <3>1, <4>1
    <3>2. CASE r # c
      <4>1. sent'[r] = sent[r]
        BY <2>1, <2>4, <3>2
      <4> QED BY <3>2, <4>1
    <3> QED BY <3>1, <3>2
  <2>13. feeds' = [feeds EXCEPT ![c] = Append(@, e)]
    <3> HIDE DEF feedOf, e
    <3> QED BY <2>12
  <2>14. Feed!Latest(c) = latest /\ e \in (latest + 1)..emitted
    BY <2>6, <2>9 DEF Feed!Latest
  <2> HIDE DEF latest
  <2> QED BY <2>2, <2>13, <2>14 DEF Feed!Give
<1> QED BY <1>1, <1>2

\* A client is given the events in the order in which the engine emitted them
\* and none twice, whatever is dropped, replayed or skipped on the way, and
\* none after the stream is over: the path from the emitter to the handlers
\* implements EventFeed.
THEOREM FeedsAreInOrder == Spec => FeedsInOrder
<1> DEFINE feedOf(r) == [i \in DOMAIN sent[r] |-> sent[r][i].evt]
<1>1. Init => Feed!Init
  <2> SUFFICES ASSUME Init PROVE Feed!Init
    OBVIOUS
  <2>1. ASSUME NEW r \in Conn PROVE feedOf(r) = <<>>
    <3>1. sent[r] = <<>> /\ DOMAIN <<>> = {}
      BY DEF Init
    <3> QED BY <3>1
  <2> QED BY <2>1 DEF Init, EmitterInit, Feed!Init
<1>2. EventsInOrder /\ [Next]_vars => [Feed!Next]_(Feed!feedVars)
  <2> SUFFICES ASSUME EventsInOrder, [Next]_vars PROVE Feed!Next \/ UNCHANGED Feed!feedVars
    OBVIOUS
  <2>1. CASE UNCHANGED <<emitted, handler, sent>>
    BY <2>1 DEF Feed!feedVars
  <2>2. CASE Emit /\ UNCHANGED serverVars
    BY <2>2 DEF Emit, serverVars, Feed!Next, Feed!Emit
  <2>3. ASSUME NEW s \in Conn, Connect(s) PROVE UNCHANGED Feed!feedVars
    BY <2>3 DEF Connect, emitterVars, EventsInOrder, TypeOK, Feed!feedVars
  <2>4. ASSUME NEW s \in Conn, ServeEnds(s) PROVE Feed!End(s)
    BY <2>4 DEF ServeEnds, emitterVars, EventsInOrder, TypeOK, Feed!End
  <2>5. ASSUME NEW s \in Conn, Serve(s) PROVE Feed!Give(s) \/ UNCHANGED Feed!feedVars
    BY <2>5, GivesLater
  <2> QED BY <2>1, <2>2, <2>3, <2>4, <2>5, StepCases
      DEF CloseEmitter, CloseReturns, Take, DrainEnds, Delivered, FinishRun, Disconnect, Watch,
          emitterVars, serverVars, vars, Feed!Next
<1> QED BY <1>1, <1>2, EventsAreInOrder, PTL DEF Spec, FeedsInOrder, Feed!Spec
=============================================================================
