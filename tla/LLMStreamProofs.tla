--------------------------- MODULE LLMStreamProofs ---------------------------
(***************************************************************************)
(* Theorems about a streamed answer, for every adapter, every capacity of  *)
(* the channel and a cancellation or an early Close at any point.          *)
(***************************************************************************)
EXTENDS LLMStream, SequenceTheorems, FiniteSetTheorems, TLAPS

\* The channel is closed by the goroutine's last step, with nothing left to
\* send; before the stream is open there is no goroutine; the body is closed
\* after the channel.
FinishedLast ==
    /\ closed => producer = "ended" /\ pending = <<>>
    /\ reader \in {"opening", "backoff"} => producer = "none" /\ pending = <<>>
    /\ body = "closed" => closed

\* Finish is the last thing the goroutine does.
LEMMA GoroutineFinishesLast == Spec => []FinishedLast
<1>1. Init => FinishedLast
  BY DEF Init, FinishedLast
<1>2. FinishedLast /\ [Next]_vars => FinishedLast'
  <2> SUFFICES ASSUME FinishedLast, [Next]_vars PROVE FinishedLast'
    OBVIOUS
  <2> USE DEF FinishedLast, turnVars, readVars, streamVars
  <2>1. CASE Cancel
    BY <2>1 DEF Cancel
  <2>2. CASE Receive
    BY <2>2 DEF Receive
  <2>3. ASSUME NEW how \in {"eof", "broken"}, BodyEnds(how) PROVE FinishedLast'
    BY <2>3 DEF BodyEnds, Finish
  <2>4. CASE Sent
    BY <2>4 DEF Sent
  <2>5. CASE SendGivesUp
    BY <2>5 DEF SendGivesUp
  <2>6. CASE FinishResponded
    BY <2>6 DEF FinishResponded, Finish
  <2>7. CASE FinishFailed
    BY <2>7 DEF FinishFailed, Finish
  <2>8. CASE Opened
    BY <2>8 DEF Opened
  <2>9. ASSUME NEW n \in 0..Cardinality(Index), OpenedWhole(n) PROVE FinishedLast'
    BY <2>9 DEF OpenedWhole, Finish
  <2>10. CASE BackoffEnds
    BY <2>10 DEF BackoffEnds, GiveUp, Finish
  <2>11. ASSUME NEW cause \in Causes, OpeningFails(cause) PROVE FinishedLast'
    BY <2>11 DEF OpeningFails, GiveUp, Finish
  <2>12. CASE NextGives \/ NextIsLast \/ StopEarly \/ CloseCancels \/ CloseDrains \/ CloseReturns
    BY <2>12 DEF NextGives, NextIsLast, StopEarly, CloseCancels, CloseDrains, CloseReturns
  <2>13. CASE UNCHANGED vars
    BY <2>13 DEF vars
  <2> QED BY <2>1, <2>2, <2>3, <2>4, <2>5, <2>6, <2>7, <2>8, <2>9, <2>10, <2>11, <2>12, <2>13
             DEF Next, Produce, Read, Turn, Open
<1> QED BY <1>1, <1>2, PTL DEF Spec

\* Close of a stream cancels the goroutine of the provider and drains the
\* channel until it is closed, and only then closes the response body
\* (internal/llm/stream.go, Close): whoever gives the answer up, at whatever
\* point, no goroutine reads a closed body, and none is left when Close returns.
THEOREM BodyOutlivesReader == Spec => []BodyClosedLast
<1>1. FinishedLast => BodyClosedLast
  BY DEF FinishedLast, BodyClosedLast
<1> QED BY <1>1, GoroutineFinishesLast, PTL

-----------------------------------------------------------------------------
(***************************************************************************)
(* Events given.                                                           *)
(***************************************************************************)
\* The deltas of a block are places of the events, and finitely many.
LEMMA DeltasAreFew ==
    ASSUME NEW n \in Nat, NEW events, DOMAIN events = 1..n, NEW i
    PROVE  /\ Deltas(events, i) \in SUBSET (1..n) /\ IsFiniteSet(Deltas(events, i))
           /\ Cardinality(Deltas(events, i)) \in Nat
<1>1. Deltas(events, i) \in SUBSET (1..n) /\ IsFiniteSet(1..n)
  BY FS_Interval DEF Deltas
<1> QED BY <1>1, FS_Subset, FS_CardinalityType

\* Before anything is given.
LEMMA NothingGiven ==
    ASSUME NEW events, DOMAIN events = {}
    PROVE  /\ Started(events) = {}
           /\ \A i : Deltas(events, i) = {} /\ Spelled(events, i, << >>)
<1>1. Started(events) = {} /\ \A i : Deltas(events, i) = {}
  BY DEF Started, Deltas
<1>2. Len(<< >>) = 0 /\ Cardinality({}) = 0
  BY FS_EmptySet
<1> QED BY <1>1, <1>2 DEF Spelled

\* more is events with one more at the end.
OneMore(more, events, n) ==
    /\ DOMAIN events = 1..n /\ DOMAIN more = 1..n + 1
    /\ \A k \in 1..n : more[k] = events[k]

\* Is the event a delta of the block?
IsDelta(e, i) == e.type = "delta" /\ e.index = i

\* One more event given may start a block or be a delta of one.
LEMMA OneMoreGiven ==
    ASSUME NEW n \in Nat, NEW events, NEW more, OneMore(more, events, n)
    PROVE  /\ Started(more) = Started(events) \cup
                  (IF more[n + 1].type = "start" THEN {more[n + 1].index} ELSE {})
           /\ \A i : Deltas(more, i) = Deltas(events, i) \cup
                  (IF IsDelta(more[n + 1], i) THEN {n + 1} ELSE {})
<1>1. /\ DOMAIN events = 1..n /\ DOMAIN more = (1..n) \cup {n + 1}
      /\ \A k \in 1..n : more[k] = events[k]
  BY DEF OneMore
<1> QED BY <1>1, Zenon DEF Started, Deltas, IsDelta

\* A delta of the block adds its piece to the text, another event nothing.
LEMMA OneMoreSpelled ==
    ASSUME NEW n \in Nat, NEW events, NEW more, OneMore(more, events, n),
           NEW i, NEW text \in Seq(Nat), Spelled(events, i, text)
    PROVE  /\ ~IsDelta(more[n + 1], i) => Spelled(more, i, text)
           /\ \A t \in Nat : IsDelta(more[n + 1], i) /\ more[n + 1].text = << t >>
                                => Spelled(more, i, Append(text, t))
<1> DEFINE D == Deltas(events, i)
           Rank(k) == Cardinality({j \in D : j <= k})
<1>1. /\ DOMAIN events = 1..n /\ \A k \in 1..n : more[k] = events[k]
      /\ \A k \in D : more[k] = events[k] /\ k \in Nat /\ k < n + 1
  <2>1. DOMAIN events = 1..n /\ \A k \in 1..n : more[k] = events[k]
    BY DEF OneMore
  <2>2. D \in SUBSET (1..n)
    BY <2>1, DeltasAreFew
  <2> QED BY <2>1, <2>2
<1>2. IsFiniteSet(D) /\ Cardinality(D) \in Nat /\ Len(text) = Cardinality(D)
  BY <1>1, DeltasAreFew DEF Spelled
<1>3. \A k \in D : events[k].text = << text[Rank(k)] >>
  BY DEF Spelled
<1>4. Deltas(more, i) = D \cup (IF IsDelta(more[n + 1], i) THEN {n + 1} ELSE {})
  BY OneMoreGiven
<1>5. ASSUME NEW k \in D PROVE Rank(k) \in 1..Len(text)
  <2>1. {j \in D : j <= k} \in SUBSET D /\ k \in {j \in D : j <= k}
    BY <1>1
  <2>2. IsFiniteSet({j \in D : j <= k}) /\ Rank(k) <= Cardinality(D) /\ Rank(k) \in Nat
    BY <1>2, <2>1, FS_Subset, FS_CardinalityType
  <2>3. Rank(k) # 0
    BY <2>1, <2>2, FS_EmptySet
  <2> HIDE DEF Rank, D
  <2> QED BY <1>2, <2>2, <2>3
<1> HIDE DEF D
<1>6. ASSUME ~IsDelta(more[n + 1], i) PROVE Spelled(more, i, text)
  <2>1. Deltas(more, i) = D
    BY <1>4, <1>6
  <2> QED BY <1>1, <1>2, <1>3, <2>1 DEF Spelled
<1>7. ASSUME NEW t \in Nat, IsDelta(more[n + 1], i), more[n + 1].text = << t >>
      PROVE  Spelled(more, i, Append(text, t))
  <2> DEFINE longer == Append(text, t)
  <2>1. /\ Len(longer) = Len(text) + 1 /\ longer[Len(text) + 1] = t
        /\ \A m \in 1..Len(text) : longer[m] = text[m]
    BY AppendProperties
  <2>2. Deltas(more, i) = D \cup {n + 1}
    BY <1>4, <1>7
  <2>3. n + 1 \notin D
    BY <1>1
  <2>4. Cardinality(D \cup {n + 1}) = Cardinality(D) + 1
    BY <1>2, <2>3, FS_AddElement
  <2>5. {j \in D \cup {n + 1} : j <= n + 1} = D \cup {n + 1}
    BY <1>1
  <2>6. ASSUME NEW k \in D PROVE {j \in D \cup {n + 1} : j <= k} = {j \in D : j <= k}
    BY <1>1
  <2> HIDE DEF longer
  <2>7. more[n + 1].text = << longer[Cardinality({j \in D \cup {n + 1} : j <= n + 1})] >>
    BY <1>2, <1>7, <2>1, <2>4, <2>5
  <2>8. ASSUME NEW k \in D
        PROVE  more[k].text = << longer[Cardinality({j \in D \cup {n + 1} : j <= k})] >>
    <3>1. longer[Rank(k)] = text[Rank(k)]
      BY <1>5, <2>1
    <3> QED BY <1>1, <1>3, <2>6, <3>1
  <2>9. Len(longer) = Cardinality(D \cup {n + 1})
    BY <1>2, <2>1, <2>4
  <2>10. Spelled(more, i, longer)
    BY <2>2, <2>7, <2>8, <2>9 DEF Spelled
  <2> QED BY <2>10 DEF longer
<1> QED BY <1>6, <1>7

\* less is events without the one at place p.
Without(less, events, n, p) ==
    /\ DOMAIN events = 1..n /\ DOMAIN less = 1..n - 1
    /\ \A k \in 1..n - 1 : less[k] = IF k < p THEN events[k] ELSE events[k + 1]

\* An event that neither starts a block nor is a delta may be lost.
LEMMA OneLess ==
    ASSUME NEW n \in Nat, NEW p \in 1..n, NEW events, NEW less, Without(less, events, n, p),
           events[p].type \notin {"start", "delta"}
    PROVE  /\ Started(less) = Started(events)
           /\ \A i, text : Spelled(events, i, text) => Spelled(less, i, text)
           /\ \A i, text : SaidLast(events, i, text) => SaidLast(less, i, text)
<1> DEFINE to(k) == IF k < p THEN k ELSE k - 1
           from(k) == IF k < p THEN k ELSE k + 1
<1>1. /\ DOMAIN events = 1..n /\ DOMAIN less = 1..n - 1
      /\ \A k \in 1..n - 1 : less[k] = events[from(k)]
  BY DEF Without
<1>2. /\ \A k \in 1..n : k # p => to(k) \in 1..n - 1 /\ from(to(k)) = k
      /\ \A k \in 1..n - 1 : from(k) \in 1..n /\ from(k) # p /\ to(from(k)) = k
      /\ \A j, k \in 1..n : j # p /\ k # p => (j <= k <=> to(j) <= to(k))
  OBVIOUS
<1>3. \A k \in 1..n : k # p => less[to(k)] = events[k]
  BY <1>1, <1>2
<1> HIDE DEF to, from
<1>4. Started(less) = Started(events)
  <2>1. ASSUME NEW k \in 1..n, events[k].type = "start"
        PROVE  to(k) \in 1..n - 1 /\ less[to(k)] = events[k]
    <3>1. k # p
      BY <2>1
    <3> QED BY <1>2, <1>3, <3>1
  <2>2. ASSUME NEW k \in 1..n - 1
        PROVE  from(k) \in 1..n /\ less[k] = events[from(k)]
    BY <1>1, <1>2
  <2>3. ASSUME NEW b \in Started(events) PROVE b \in Started(less)
    <3>1. PICK k \in 1..n : events[k].type = "start" /\ events[k].index = b
      BY <1>1 DEF Started
    <3> QED BY <1>1, <2>1, <3>1 DEF Started
  <2>4. ASSUME NEW b \in Started(less) PROVE b \in Started(events)
    <3>1. PICK k \in 1..n - 1 : less[k].type = "start" /\ less[k].index = b
      BY <1>1 DEF Started
    <3> QED BY <1>1, <2>2, <3>1 DEF Started
  <2> QED BY <2>3, <2>4
<1>5. ASSUME NEW i
      PROVE  /\ \A k \in Deltas(events, i) : k \in 1..n /\ k # p /\ to(k) \in Deltas(less, i)
             /\ \A k \in Deltas(less, i) : k \in 1..n - 1 /\ from(k) \in Deltas(events, i)
  <2>1. ASSUME NEW k \in Deltas(events, i) PROVE k \in 1..n /\ k # p /\ to(k) \in Deltas(less, i)
    <3>1. k \in 1..n /\ events[k].type = "delta" /\ events[k].index = i
      BY <1>1 DEF Deltas
    <3>2. k # p
      BY <3>1
    <3>3. to(k) \in 1..n - 1 /\ less[to(k)] = events[k]
      BY <1>2, <1>3, <3>1, <3>2
    <3> QED BY <1>1, <3>1, <3>2, <3>3 DEF Deltas
  <2>2. ASSUME NEW k \in Deltas(less, i) PROVE k \in 1..n - 1 /\ from(k) \in Deltas(events, i)
    <3>1. k \in 1..n - 1 /\ less[k].type = "delta" /\ less[k].index = i
      BY <1>1 DEF Deltas
    <3>2. from(k) \in 1..n /\ less[k] = events[from(k)]
      BY <1>1, <1>2, <3>1
    <3> QED BY <1>1, <3>1, <3>2 DEF Deltas
  <2> QED BY <2>1, <2>2
<1>6. ASSUME NEW i, NEW text, Spelled(events, i, text) PROVE Spelled(less, i, text)
  <2> DEFINE D == Deltas(events, i)
             E == Deltas(less, i)
             Rank(S, k) == {j \in S : j <= k}
  <2>1. IsFiniteSet(D)
    BY <1>1, DeltasAreFew
  <2>2. ASSUME NEW S \in SUBSET D, NEW T \in SUBSET E,
               \A k \in S : to(k) \in T, \A k \in T : from(k) \in S
        PROVE  Cardinality(S) = Cardinality(T)
    <3> DEFINE f == [k \in S |-> to(k)]
    <3>1. f \in [S -> T]
      BY <2>2
    <3>2. ASSUME NEW j \in S, NEW k \in S, f[j] = f[k] PROVE j = k
      <4>1. from(to(j)) = j /\ from(to(k)) = k
        BY <1>2, <1>5, <2>2
      <4> QED BY <3>2, <4>1
    <3>3. ASSUME NEW k \in T PROVE \E j \in S : f[j] = k
      <4>1. from(k) \in S /\ to(from(k)) = k
        BY <1>2, <1>5, <2>2
      <4> QED BY <4>1
    <3> HIDE DEF f
    <3>4. f \in Bijection(S, T)
      BY <3>1, <3>2, <3>3 DEF Bijection, Injection, Surjection, IsInjective
    <3>5. ExistsBijection(S, T)
      BY <3>4 DEF ExistsBijection
    <3>6. IsFiniteSet(S)
      BY <2>1, FS_Subset
    <3> QED BY <3>5, <3>6, FS_Bijection
  <2>3. \A k \in D : k \in 1..n /\ k # p /\ to(k) \in E
    BY <1>5
  <2>4. \A k \in E : k \in 1..n - 1 /\ from(k) \in D
    BY <1>5
  <2>5. /\ Len(text) = Cardinality(D)
        /\ \A k \in D : events[k].text = << text[Cardinality(Rank(D, k))] >>
    BY <1>6 DEF Spelled
  <2> HIDE DEF D, E
  <2>6. Cardinality(D) = Cardinality(E)
    BY <2>2, <2>3, <2>4
  <2>7. ASSUME NEW k \in E PROVE less[k].text = << text[Cardinality(Rank(E, k))] >>
    <3>1. /\ from(k) \in D /\ less[k] = events[from(k)] /\ to(from(k)) = k
          /\ k \in 1..n - 1 /\ from(k) \in 1..n /\ from(k) # p
      BY <1>1, <1>2, <2>4
    <3>2. ASSUME NEW j \in Rank(D, from(k)) PROVE to(j) \in Rank(E, k)
      <4>1. j \in 1..n /\ j # p /\ to(j) \in E /\ j <= from(k)
        BY <2>3, <3>2
      <4>2. to(j) <= to(from(k))
        BY <1>2, <3>1, <4>1
      <4> QED BY <3>1, <4>1, <4>2
    <3>3. ASSUME NEW j \in Rank(E, k) PROVE from(j) \in Rank(D, from(k))
      <4>1. j \in 1..n - 1 /\ from(j) \in D /\ j <= k
        BY <2>4, <3>3
      <4>2. from(j) \in 1..n /\ from(j) # p /\ to(from(j)) = j
        BY <1>2, <4>1
      <4>3. from(j) <= from(k)
        BY <1>2, <3>1, <4>1, <4>2
      <4> QED BY <4>1, <4>3
    <3>4. Rank(D, from(k)) \in SUBSET D /\ Rank(E, k) \in SUBSET E
      OBVIOUS
    <3> HIDE DEF Rank
    <3>5. Cardinality(Rank(D, from(k))) = Cardinality(Rank(E, k))
      BY <2>2, <3>2, <3>3, <3>4
    <3> QED BY <2>5, <3>1, <3>5
  <2> USE DEF E
  <2> QED BY <2>5, <2>6, <2>7 DEF Spelled
<1>7. ASSUME NEW i, NEW text, SaidLast(events, i, text) PROVE SaidLast(less, i, text)
  <2>1. Deltas(less, i) # {}
    BY <1>5, <1>7 DEF SaidLast
  <2>2. ASSUME NEW k \in Deltas(less, i), \A j \in Deltas(less, i) : j <= k
        PROVE  less[k].text = text
    <3>1. /\ k \in 1..n - 1 /\ from(k) \in Deltas(events, i) /\ less[k] = events[from(k)]
          /\ from(k) \in 1..n /\ from(k) # p /\ to(from(k)) = k
      BY <1>1, <1>2, <1>5
    <3>2. ASSUME NEW j \in Deltas(events, i) PROVE j <= from(k)
      <4>1. j \in 1..n /\ j # p /\ to(j) \in Deltas(less, i)
        BY <1>5
      <4>2. to(j) <= to(from(k))
        BY <2>2, <3>1, <4>1
      <4> QED BY <1>2, <3>1, <4>1, <4>2
    <3> QED BY <1>7, <3>1, <3>2 DEF SaidLast
  <2> QED BY <2>1, <2>2 DEF SaidLast
<1> QED BY <1>4, <1>6, <1>7

\* The events and then those of the sends.
Then(events, n, sends) ==
    [k \in 1..n + Len(sends) |-> IF k <= n THEN events[k] ELSE sends[k - n].event]

\* These are n events.
IsStream(events, n) == events = [k \in 1..n |-> events[k]]

\* When nothing is sent, nothing is added.
LEMMA ThenNone ==
    ASSUME NEW n \in Nat, NEW events, IsStream(events, n)
    PROVE  Then(events, n, << >>) = events
<1>1. Len(<< >>) = 0 /\ n + 0 = n /\ \A k \in 1..n : k <= n
  OBVIOUS
<1>2. Then(events, n, << >>) = [k \in 1..n |-> events[k]]
  BY <1>1 DEF Then
<1> QED BY <1>2 DEF IsStream

\* More events say of every block what fewer said, or one piece more of one.
SaysSame(more, events) ==
    \A i : \A text \in Seq(Nat) : Spelled(events, i, text) => Spelled(more, i, text)

SaysMore(more, events, b, n) ==
    \A i : \A text \in Seq(Nat) : Spelled(events, i, text) =>
        Spelled(more, i, IF i = b THEN Append(text, n) ELSE text)

\* What one more event says.
OneSaid(more, events, e) ==
    /\ Started(more) = Started(events) \cup (IF e.type = "start" THEN {e.index} ELSE {})
    /\ e.type # "delta" => SaysSame(more, events)
    /\ \A t \in Nat : e.type = "delta" /\ e.text = << t >>
                          => SaysMore(more, events, e.index, t)

LEMMA ThenOne ==
    ASSUME NEW n \in Nat, NEW events, IsStream(events, n), NEW send, NEW more, NEW e,
           more = Then(events, n, << send >>), e = send.event
    PROVE  OneSaid(more, events, e)
<1>1. DOMAIN events = 1..n
  BY DEF IsStream
<1>2. Len(<< send >>) = 1 /\ << send >>[1] = send
  OBVIOUS
<1>3. DOMAIN more = 1..n + 1
  BY <1>2 DEF Then
<1>4. \A k \in 1..n : more[k] = events[k]
  <2>1. \A k \in 1..n : k \in 1..n + 1 /\ k <= n
    OBVIOUS
  <2> QED BY <1>2, <2>1 DEF Then
<1>5. more[n + 1] = send.event
  <2>1. n + 1 \in 1..n + 1 /\ ~(n + 1 <= n) /\ (n + 1) - n = 1
    OBVIOUS
  <2> QED BY <1>2, <2>1 DEF Then
<1>6. OneMore(more, events, n)
  BY <1>1, <1>3, <1>4 DEF OneMore
<1>7. Started(more) = Started(events) \cup
          (IF more[n + 1].type = "start" THEN {more[n + 1].index} ELSE {})
  BY <1>6, OneMoreGiven
<1>8. ASSUME NEW i, NEW text \in Seq(Nat), Spelled(events, i, text)
      PROVE  /\ ~IsDelta(send.event, i) => Spelled(more, i, text)
             /\ \A t \in Nat : IsDelta(send.event, i) /\ send.event.text = << t >>
                                  => Spelled(more, i, Append(text, t))
  BY <1>5, <1>6, <1>8, OneMoreSpelled
<1>9. ASSUME e.type # "delta" PROVE SaysSame(more, events)
  <2>1. \A i : ~IsDelta(e, i)
    BY <1>9 DEF IsDelta
  <2> QED BY <1>8, <2>1 DEF SaysSame
<1>10. ASSUME NEW t \in Nat, e.type = "delta", e.text = << t >>
       PROVE  SaysMore(more, events, e.index, t)
  <2>1. \A i : IsDelta(e, i) <=> i = e.index
    BY <1>10 DEF IsDelta
  <2> QED BY <1>8, <1>10, <2>1 DEF SaysMore
<1> QED BY <1>5, <1>7, <1>9, <1>10 DEF OneSaid

\* The rest of the events says all of the block's text once more.
LEMMA RestSaid ==
    ASSUME NEW n \in Nat, NEW m \in Nat, NEW events, NEW more,
           DOMAIN events = 1..n, DOMAIN more = 1..n + m, NEW i, NEW text,
           \E k \in n + 1..n + m : k \in Deltas(more, i),
           \A k \in n + 1..n + m : k \in Deltas(more, i) => more[k].text = text
    PROVE  SaidLast(more, i, text)
<1>1. PICK l \in n + 1..n + m : l \in Deltas(more, i)
  OBVIOUS
<1>2. ASSUME NEW k \in Deltas(more, i), \A j \in Deltas(more, i) : j <= k
      PROVE  more[k].text = text
  <2>1. l <= k /\ k \in 1..n + m
    BY <1>1, <1>2 DEF Deltas
  <2>2. k \in n + 1..n + m
    BY <2>1
  <2> QED BY <2>2
<1> QED BY <1>1, <1>2 DEF SaidLast

-----------------------------------------------------------------------------
(***************************************************************************)
(* Types.                                                                  *)
(***************************************************************************)
\* The events of a stream, the sends of them, what a server has said, and what is
\* gathered of it.
Types   == {"meta", "start", "delta", "stop", "usage", "error"}
Event   == [type : Types, index : Int, text : Seq(Nat)]
Sending == [event : Event, must : BOOLEAN]
Answer  == [begun : SUBSET Index, stopped : SUBSET Index, parted : SUBSET Index,
            said : [Index -> Seq(Nat)]]
APart   == [index : Int, id : Int, text : Seq(Nat)]
Gathered == [known : SUBSET Index, text : [Index -> Seq(Nat)], content : Seq(APart)]

\* What may be lost says nothing.
Careful(sends) ==
    \A k \in DOMAIN sends : ~sends[k].must => sends[k].event.type \notin {"start", "delta"}

\* What a provider makes of an event of the server.
Sound(reads) ==
    /\ reads.acc \in Gathered /\ reads.sends \in Seq(Sending) /\ Careful(reads.sends)
    /\ reads.then \in {"more", "respond", "fail"}

\* The indices of the blocks are integers.
LEMMA IndexInt ==
    /\ \A i \in Index : i \in Nat /\ i \in Int /\ i # NoBlock
    /\ NoBlock \in Int /\ Tools \subseteq Index
<1>1. Index = 0..Cardinality(Index) - 1 /\ Cardinality(Index) \in Nat /\ Tools \subseteq Index
  BY IndexAssumption, FS_CardinalityType
<1>2. \A k \in 0..Cardinality(Index) - 1 : k \in Nat /\ k # -1
  BY <1>1
<1> QED BY <1>1, <1>2 DEF NoBlock

\* The events that are sent.
LEMMA EventTypes ==
    ASSUME NEW i \in Int, NEW type \in Types
    PROVE  /\ Plain(type, i) \in Event /\ Plain(type, i).type = type /\ Plain(type, i).index = i
           /\ \A text \in Seq(Nat) : StreamEvent(type, i, text) \in Event
           /\ \A e \in Event : Checked(e) \in Sending /\ Unchecked(e) \in Sending
<1>1. << >> \in Seq(Nat)
  BY EmptySeq
<1> QED BY <1>1 DEF Plain, StreamEvent, Event, Checked, Unchecked, Sending

\* What the server has said is of its type after each event of a block and of
\* the whole answer.
LEMMA AnswerType ==
    ASSUME NEW srv \in Answer, NEW e, NEW n \in Nat,
           \/ e.index \in Index
           \/ e.index = NoBlock /\ e.type \notin {"start", "extend", "stop", "part", "delta"}
    PROVE  After(srv, e, n) \in Answer
<1>1. CASE e.index \in Index
  <2>1. Append(srv.said[e.index], n) \in Seq(Nat)
    BY <1>1, AppendProperties DEF Answer
  <2> QED BY <1>1, <2>1 DEF After, Answer, Says
<1>2. CASE e.index = NoBlock /\ e.type \notin {"start", "extend", "stop", "part", "delta"}
  BY <1>2 DEF After, Answer, Says
<1> QED BY <1>1, <1>2

\* One more part of the response.
LEMMA OneMorePart ==
    ASSUME NEW content \in Seq(APart), NEW part \in APart
    PROVE  /\ Append(content, part) \in Seq(APart)
           /\ Range(Append(content, part)) = Range(content) \cup {part}
<1> DEFINE longer == Append(content, part)
<1>1. /\ longer \in Seq(APart) /\ Len(longer) = Len(content) + 1
      /\ \A k \in 1..Len(content) : longer[k] = content[k]
      /\ longer[Len(content) + 1] = part
  BY AppendProperties
<1> HIDE DEF longer
<1>2. /\ DOMAIN content = 1..Len(content) /\ DOMAIN longer = 1..Len(content) + 1
      /\ Len(content) \in Nat
  BY <1>1, LenProperties
<1>3. DOMAIN longer = DOMAIN content \cup {Len(content) + 1}
  BY <1>2
<1>4. Range(longer) = Range(content) \cup {part}
  <2>1. ASSUME NEW x \in Range(longer) PROVE x \in Range(content) \cup {part}
    <3>1. PICK k \in DOMAIN longer : longer[k] = x
      BY <2>1 DEF Range
    <3>2. k \in 1..Len(content) \/ k = Len(content) + 1
      BY <1>2, <1>3, <3>1
    <3> QED BY <1>1, <1>2, <3>1, <3>2 DEF Range
  <2>2. ASSUME NEW k \in DOMAIN content PROVE content[k] \in Range(longer)
    BY <1>1, <1>2, <1>3 DEF Range
  <2>3. part \in Range(longer)
    BY <1>1, <1>3 DEF Range
  <2>4. \A x \in Range(content) : x \in Range(longer)
    BY <2>2 DEF Range
  <2> QED BY <2>1, <2>3, <2>4
<1> QED BY <1>1, <1>4 DEF longer

-----------------------------------------------------------------------------
(***************************************************************************)
(* Anthropic and OpenAI: what is gathered and what is sent agree block by  *)
(* block.                                                                  *)
(***************************************************************************)
\* The events say what the server has said; a block that is through is a part.
BlocksTold(adapter, events, srv, ac) ==
    /\ srv.stopped \subseteq srv.begun /\ srv.parted \subseteq srv.begun \ Tools
    /\ Started(events) = IF adapter = "anthropic" THEN srv.begun
                                                  ELSE (srv.begun \cap Tools) \cup srv.parted
    /\ \A i \in Index : Spelled(events, i, srv.said[i])
    /\ \A i \in Index \ srv.begun : srv.said[i] = << >>
    /\ adapter = "anthropic" =>
          ac.known = srv.begun /\ \A i \in srv.begun : ac.text[i] = srv.said[i]
    /\ {part.index : part \in Range(ac.content)} = srv.stopped \cap Started(events)
    /\ \A part \in Range(ac.content) : part.text = srv.said[part.index] /\ part.id = part.index

\* What a server has said.
Heard(begun, stopped, parted, said) ==
    [begun |-> begun, stopped |-> stopped, parted |-> parted, said |-> said]

\* A block begins; it need not be announced.
LEMMA BlockBegins ==
    ASSUME NEW adapter \in {"anthropic", "openai"}, NEW events, NEW more,
           NEW srv \in Answer, NEW ac \in Gathered, BlocksTold(adapter, events, srv, ac),
           NEW i \in Index \ srv.begun, NEW s2 \in Answer, NEW a2 \in Gathered,
           s2 = Heard(srv.begun \cup {i}, srv.stopped, srv.parted, srv.said),
           a2.content = ac.content,
           adapter = "anthropic" => /\ a2.known = ac.known \cup {i}
                                    /\ a2.text = [ac.text EXCEPT ![i] = << >>],
           Started(more) = Started(events)
                              \cup (IF adapter = "anthropic" \/ i \in Tools THEN {i} ELSE {}),
           SaysSame(more, events)
    PROVE  BlocksTold(adapter, more, s2, a2)
<1>1. /\ s2.begun = srv.begun \cup {i} /\ s2.stopped = srv.stopped
      /\ s2.parted = srv.parted /\ s2.said = srv.said
  BY DEF Answer, Heard
<1>2. /\ srv.stopped \subseteq srv.begun /\ srv.parted \subseteq srv.begun \ Tools
      /\ Started(events) = IF adapter = "anthropic" THEN srv.begun
                                                    ELSE (srv.begun \cap Tools) \cup srv.parted
      /\ \A j \in Index : srv.said[j] \in Seq(Nat) /\ Spelled(events, j, srv.said[j])
      /\ srv.said[i] = << >>
  BY DEF BlocksTold, Answer
<1>3. i \notin srv.stopped /\ i \notin srv.parted
  BY <1>2
<1>4. /\ s2.stopped \subseteq s2.begun /\ s2.parted \subseteq s2.begun \ Tools
      /\ Started(more) = IF adapter = "anthropic" THEN s2.begun
                                                  ELSE (s2.begun \cap Tools) \cup s2.parted
      /\ s2.stopped \cap Started(more) = srv.stopped \cap Started(events)
  <2>1. s2.stopped \subseteq s2.begun /\ s2.parted \subseteq s2.begun \ Tools
    BY <1>1, <1>2
  <2>2. Started(more) = IF adapter = "anthropic" THEN s2.begun
                                                 ELSE (s2.begun \cap Tools) \cup s2.parted
    <3>1. CASE adapter = "anthropic"
      <4>1. Started(more) = srv.begun \cup {i}
        BY <1>2, <3>1
      <4> QED BY <1>1, <3>1, <4>1
    <3>2. CASE adapter # "anthropic"
      <4>1. Started(more) = ((srv.begun \cap Tools) \cup srv.parted)
                               \cup (IF i \in Tools THEN {i} ELSE {})
        BY <1>2, <3>2
      <4>2. ((srv.begun \cap Tools) \cup srv.parted) \cup (IF i \in Tools THEN {i} ELSE {})
               = ((srv.begun \cup {i}) \cap Tools) \cup srv.parted
        OBVIOUS
      <4> QED BY <1>1, <3>2, <4>1, <4>2
    <3> QED BY <3>1, <3>2
  <2>3. s2.stopped \cap Started(more) = srv.stopped \cap Started(events)
    BY <1>1, <1>3
  <2> QED BY <2>1, <2>2, <2>3
<1>5. \A j \in Index : Spelled(more, j, s2.said[j])
  BY <1>1, <1>2 DEF SaysSame
<1>6. \A j \in Index \ s2.begun : s2.said[j] = << >>
  BY <1>1 DEF BlocksTold
<1>7. ASSUME adapter = "anthropic"
      PROVE  a2.known = s2.begun /\ \A j \in s2.begun : a2.text[j] = s2.said[j]
  <2>1. ac.known = srv.begun /\ \A j \in srv.begun : ac.text[j] = srv.said[j]
    BY <1>7 DEF BlocksTold
  <2>2. \A j \in Index : a2.text[j] = IF j = i THEN << >> ELSE ac.text[j]
    BY <1>7 DEF Gathered
  <2>3. s2.begun \subseteq Index
    BY DEF Answer, Heard
  <2> QED BY <1>1, <1>2, <1>7, <2>1, <2>2, <2>3
<1>8. /\ {part.index : part \in Range(a2.content)} = srv.stopped \cap Started(events)
      /\ \A part \in Range(a2.content) : part.text = s2.said[part.index] /\ part.id = part.index
  BY <1>1 DEF BlocksTold
<1> QED BY <1>4, <1>5, <1>6, <1>7, <1>8 DEF BlocksTold

\* OpenAI adds the part of a message to it, and it is announced now.
LEMMA PartBegins ==
    ASSUME NEW events, NEW more,
           NEW srv \in Answer, NEW ac \in Gathered, BlocksTold("openai", events, srv, ac),
           NEW i \in (srv.begun \ srv.stopped) \ Tools, NEW s2 \in Answer,
           s2 = Heard(srv.begun, srv.stopped, srv.parted \cup {i}, srv.said),
           Started(more) = Started(events) \cup {i},
           SaysSame(more, events)
    PROVE  BlocksTold("openai", more, s2, ac)
<1>1. /\ s2.begun = srv.begun /\ s2.stopped = srv.stopped
      /\ s2.parted = srv.parted \cup {i} /\ s2.said = srv.said
  BY DEF Answer, Heard
<1>2. /\ srv.stopped \subseteq srv.begun /\ srv.parted \subseteq srv.begun \ Tools
      /\ Started(events) = (srv.begun \cap Tools) \cup srv.parted
      /\ \A j \in Index : srv.said[j] \in Seq(Nat) /\ Spelled(events, j, srv.said[j])
  BY DEF BlocksTold, Answer
<1>3. /\ s2.stopped \subseteq s2.begun /\ s2.parted \subseteq s2.begun \ Tools
      /\ Started(more) = (s2.begun \cap Tools) \cup s2.parted
      /\ s2.stopped \cap Started(more) = srv.stopped \cap Started(events)
  BY <1>1, <1>2
<1>4. \A j \in Index : Spelled(more, j, s2.said[j])
  BY <1>1, <1>2 DEF SaysSame
<1>5. /\ \A j \in Index \ s2.begun : s2.said[j] = << >>
      /\ {part.index : part \in Range(ac.content)} = srv.stopped \cap Started(events)
      /\ \A part \in Range(ac.content) : part.text = s2.said[part.index] /\ part.id = part.index
  BY <1>1 DEF BlocksTold
<1> QED BY <1>3, <1>4, <1>5 DEF BlocksTold

\* A delta is sent as it comes, and gathered.
LEMMA BlockGrows ==
    ASSUME NEW adapter \in {"anthropic", "openai"}, NEW events, NEW more, NEW n \in Nat,
           NEW srv \in Answer, NEW ac \in Gathered, BlocksTold(adapter, events, srv, ac),
           NEW i \in srv.begun \ srv.stopped, NEW s2 \in Answer, NEW a2 \in Gathered,
           s2 = Heard(srv.begun, srv.stopped, srv.parted, [srv.said EXCEPT ![i] = Append(@, n)]),
           a2.content = ac.content, a2.known = ac.known,
           adapter = "anthropic" => a2.text = [ac.text EXCEPT ![i] = Append(@, n)],
           Started(more) = Started(events),
           SaysMore(more, events, i, n)
    PROVE  BlocksTold(adapter, more, s2, a2)
<1>1. /\ s2.begun = srv.begun /\ s2.stopped = srv.stopped /\ s2.parted = srv.parted
      /\ \A j \in Index : s2.said[j] = IF j = i THEN Append(srv.said[j], n) ELSE srv.said[j]
      /\ i \in Index /\ srv.begun \subseteq Index
  <2>1. srv.said \in [Index -> Seq(Nat)] /\ srv.begun \subseteq Index /\ i \in Index
    BY DEF Answer, Heard
  <2>2. /\ s2.begun = srv.begun /\ s2.stopped = srv.stopped /\ s2.parted = srv.parted
        /\ s2.said = [srv.said EXCEPT ![i] = Append(srv.said[i], n)]
    BY DEF Answer, Heard
  <2> QED BY <2>1, <2>2
<1>2. /\ srv.stopped \subseteq srv.begun /\ srv.parted \subseteq srv.begun \ Tools
      /\ \A j \in Index : srv.said[j] \in Seq(Nat) /\ Spelled(events, j, srv.said[j])
      /\ {part.index : part \in Range(ac.content)} = srv.stopped \cap Started(events)
      /\ \A part \in Range(ac.content) : part.text = srv.said[part.index] /\ part.id = part.index
  BY DEF BlocksTold, Answer
<1>3. ASSUME NEW j \in Index PROVE Spelled(more, j, s2.said[j])
  <2>1. srv.said[j] \in Seq(Nat) /\ Spelled(events, j, srv.said[j])
    BY <1>2
  <2>2. Spelled(more, j, IF j = i THEN Append(srv.said[j], n) ELSE srv.said[j])
    BY <2>1 DEF SaysMore
  <2>3. s2.said[j] = IF j = i THEN Append(srv.said[j], n) ELSE srv.said[j]
    BY <1>1
  <2> QED BY <2>2, <2>3
<1>4. \A j \in Index \ s2.begun : s2.said[j] = << >>
  BY <1>1 DEF BlocksTold
<1>5. ASSUME adapter = "anthropic"
      PROVE  a2.known = s2.begun /\ \A j \in s2.begun : a2.text[j] = s2.said[j]
  <2>1. ac.known = srv.begun /\ \A j \in srv.begun : ac.text[j] = srv.said[j]
    BY <1>5 DEF BlocksTold
  <2>2. \A j \in Index : a2.text[j] = IF j = i THEN Append(ac.text[j], n) ELSE ac.text[j]
    BY <1>5 DEF Gathered
  <2>3. ASSUME NEW j \in s2.begun PROVE a2.text[j] = s2.said[j]
    <3>1. j \in Index /\ ac.text[j] = srv.said[j]
      BY <1>1, <2>1
    <3> QED BY <1>1, <2>2, <3>1
  <2> QED BY <1>1, <2>1, <2>3
<1>6. \A part \in Range(ac.content) : part.text = s2.said[part.index]
  <2>1. ASSUME NEW part \in Range(ac.content) PROVE part.text = s2.said[part.index]
    <3>1. part.index \in srv.stopped /\ part.text = srv.said[part.index]
      BY <1>2
    <3> QED BY <1>1, <1>2, <3>1
  <2> QED BY <2>1
<1>7. Started(more) = IF adapter = "anthropic" THEN s2.begun
                                               ELSE (s2.begun \cap Tools) \cup s2.parted
  BY <1>1 DEF BlocksTold
<1> QED BY <1>1, <1>2, <1>3, <1>4, <1>5, <1>6, <1>7 DEF BlocksTold

\* The end of a block makes a part of it, if it was announced.
LEMMA BlockStops ==
    ASSUME NEW adapter \in {"anthropic", "openai"}, NEW events, NEW more,
           NEW srv \in Answer, NEW ac \in Gathered, BlocksTold(adapter, events, srv, ac),
           NEW i \in srv.begun \ srv.stopped, NEW s2 \in Answer, NEW a2 \in Gathered,
           s2 = Heard(srv.begun, srv.stopped \cup {i}, srv.parted, srv.said),
           a2.known = ac.known, a2.text = ac.text,
           a2.content = IF i \in Started(events) THEN Append(ac.content, Part(i, i, srv.said[i]))
                                                 ELSE ac.content,
           Started(more) = Started(events),
           SaysSame(more, events)
    PROVE  BlocksTold(adapter, more, s2, a2)
<1>1. /\ s2.begun = srv.begun /\ s2.stopped = srv.stopped \cup {i}
      /\ s2.parted = srv.parted /\ s2.said = srv.said /\ i \in Index
  BY DEF Answer, Heard
<1>2. /\ srv.stopped \subseteq srv.begun /\ srv.parted \subseteq srv.begun \ Tools
      /\ \A j \in Index : srv.said[j] \in Seq(Nat) /\ Spelled(events, j, srv.said[j])
      /\ {part.index : part \in Range(ac.content)} = srv.stopped \cap Started(events)
      /\ \A part \in Range(ac.content) : part.text = srv.said[part.index] /\ part.id = part.index
  BY DEF BlocksTold, Answer
<1>3. \A j \in Index : Spelled(more, j, s2.said[j])
  BY <1>1, <1>2 DEF SaysSame
<1>4. /\ \A j \in Index \ s2.begun : s2.said[j] = << >>
      /\ adapter = "anthropic" => a2.known = s2.begun /\ \A j \in s2.begun : a2.text[j] = s2.said[j]
      /\ Started(more) = IF adapter = "anthropic" THEN s2.begun
                                                  ELSE (s2.begun \cap Tools) \cup s2.parted
  BY <1>1 DEF BlocksTold
<1>5. /\ {part.index : part \in Range(a2.content)} = s2.stopped \cap Started(more)
      /\ \A part \in Range(a2.content) : part.text = s2.said[part.index] /\ part.id = part.index
  <2>1. CASE i \notin Started(events)
    BY <1>1, <1>2, <2>1
  <2>2. CASE i \in Started(events)
    <3> DEFINE part == Part(i, i, srv.said[i])
    <3>1. part \in APart /\ part.index = i /\ part.id = i /\ part.text = srv.said[i]
      BY <1>1, <1>2, IndexInt DEF Part, APart
    <3>2. Range(a2.content) = Range(ac.content) \cup {part}
      BY <2>2, <3>1, OneMorePart DEF Gathered
    <3> HIDE DEF part
    <3>3. {p.index : p \in Range(a2.content)} = {p.index : p \in Range(ac.content)} \cup {i}
      BY <3>1, <3>2
    <3> QED BY <1>1, <1>2, <2>2, <3>1, <3>2, <3>3
  <2> QED BY <2>1, <2>2
<1> QED BY <1>1, <1>2, <1>3, <1>4, <1>5 DEF BlocksTold

\* When every block is through, the response is what was sent.
LEMMA BlocksGiven ==
    ASSUME NEW adapter \in {"anthropic", "openai"}, NEW events, NEW more,
           NEW srv \in Answer, NEW ac \in Gathered, BlocksTold(adapter, events, srv, ac),
           srv.begun = srv.stopped, Started(more) = Started(events),
           SaysSame(more, events)
    PROVE  Shows(more, ac.content, adapter)
<1>1. /\ srv.begun \subseteq Index /\ srv.parted \subseteq srv.begun
      /\ \A j \in Index : srv.said[j] \in Seq(Nat) /\ Spelled(events, j, srv.said[j])
      /\ {part.index : part \in Range(ac.content)} = srv.stopped \cap Started(events)
      /\ \A part \in Range(ac.content) : part.text = srv.said[part.index] /\ part.id = part.index
      /\ Started(events) \subseteq srv.begun
  BY DEF BlocksTold, Answer
<1>2. ASSUME NEW part \in Range(ac.content)
      PROVE  Spelled(more, part.index, part.text) /\ part.id = part.index
  <2>1. part.index \in Index /\ part.text = srv.said[part.index] /\ part.id = part.index
    BY <1>1
  <2> QED BY <1>1, <2>1 DEF SaysSame
<1> QED BY <1>1, <1>2 DEF Shows

\* What Anthropic's goroutine gathers and sends has the right types.
LEMMA AnthropicSound ==
    ASSUME NEW srv \in Answer, NEW ac \in Gathered, NEW n \in Nat,
           NEW e \in AnthropicSends(srv), NEW r \in AnthropicReads(ac, e, n)
    PROVE  After(srv, e, n) \in Answer /\ Sound(r)
<1>1. \/ e.type \in {"start", "delta", "stop"} /\ e.index \in Index
      \/ e.type \in {"error", "meta", "usage", "end"} /\ e.index = NoBlock
  BY DEF AnthropicSends, OfBlocks, OfAnswer, ServerEvent, Answer
<1>2. After(srv, e, n) \in Answer
  BY <1>1, AnswerType
<1>3. AnthropicBuilds(ac, e, n) \in Gathered
  <2>1. CASE e.type = "start"
    <3>1. << >> \in Seq(Nat) /\ e.index \in Index
      BY <1>1, <2>1, EmptySeq
    <3> QED BY <2>1, <3>1 DEF AnthropicBuilds, Gathered
  <2>2. CASE e.type = "delta" /\ e.index \in ac.known
    <3>1. Append(ac.text[e.index], n) \in Seq(Nat)
      BY <2>2, AppendProperties DEF Gathered
    <3> QED BY <2>2, <3>1 DEF AnthropicBuilds, Gathered
  <2>3. CASE e.type = "stop" /\ e.index \in ac.known
    <3>1. Part(e.index, e.index, ac.text[e.index]) \in APart
      BY <2>3, IndexInt DEF Gathered, Part, APart
    <3>2. Append(ac.content, Part(e.index, e.index, ac.text[e.index])) \in Seq(APart)
      BY <3>1, OneMorePart DEF Gathered
    <3> QED BY <2>3, <3>2 DEF AnthropicBuilds, Gathered
  <2>4. CASE /\ e.type # "start" /\ ~(e.type = "delta" /\ e.index \in ac.known)
             /\ ~(e.type = "stop" /\ e.index \in ac.known)
    <3>1. AnthropicBuilds(ac, e, n) = ac
      BY <2>4 DEF AnthropicBuilds
    <3> QED BY <3>1
  <2> QED BY <2>1, <2>2, <2>3, <2>4
<1>4. e.index \in Int /\ << n >> \in Seq(Nat)
  <2>1. e.index \in Int
    <3>1. CASE e.index \in Index
      BY <3>1, IndexInt
    <3>2. CASE e.index = NoBlock
      BY <3>2, IndexInt
    <3> QED BY <1>1, <3>1, <3>2
  <2>2. << n >> \in Seq(Nat)
    OBVIOUS
  <2> QED BY <2>1, <2>2
<1>5. /\ e.type \in Types => Plain(e.type, e.index) \in Event
      /\ StreamEvent("delta", e.index, << n >>) \in Event
      /\ Plain("stop", e.index) \in Event /\ Plain("error", NoBlock) \in Event
      /\ Plain("error", NoBlock).type = "error"
  BY <1>4, EventTypes, IndexInt DEF Types
<1>6. ASSUME NEW s \in Sending, s.must \/ s.event.type \notin {"start", "delta"}
      PROVE  << s >> \in Seq(Sending) /\ Careful(<< s >>)
  BY <1>6 DEF Careful
<1>7. << >> \in Seq(Sending) /\ Careful(<< >>)
  BY EmptySeq DEF Careful
<1>8. AnthropicForwards(ac, e, n) \in Seq(Sending) /\ Careful(AnthropicForwards(ac, e, n))
  <2>1. ASSUME NEW x \in Event PROVE << Checked(x) >> \in Seq(Sending) /\ Careful(<< Checked(x) >>)
    <3>1. Checked(x) \in Sending /\ Checked(x).must
      BY EventTypes DEF Checked, Sending
    <3> QED BY <1>6, <3>1
  <2>2. << Unchecked(Plain("error", NoBlock)) >> \in Seq(Sending)
        /\ Careful(<< Unchecked(Plain("error", NoBlock)) >>)
    <3>1. Unchecked(Plain("error", NoBlock)) \in Sending
          /\ Unchecked(Plain("error", NoBlock)).event.type = "error"
      BY <1>5 DEF Unchecked, Sending
    <3> QED BY <1>6, <3>1
  <2> QED BY <1>5, <1>7, <2>1, <2>2 DEF AnthropicForwards, Types
<1>9. r = Reads(AnthropicBuilds(ac, e, n), AnthropicForwards(ac, e, n),
                CASE e.type = "end" -> "respond" [] e.type = "error" -> "fail" [] OTHER -> "more")
  BY DEF AnthropicReads
<1> QED BY <1>2, <1>3, <1>8, <1>9 DEF Sound, Reads

\* What Anthropic's goroutine sends is what it gathers.
LEMMA AnthropicTells ==
    ASSUME NEW srv \in Answer, NEW ac \in Gathered, NEW n \in Nat,
           NEW e \in AnthropicSends(srv), NEW r \in AnthropicReads(ac, e, n),
           NEW len \in Nat, NEW events, IsStream(events, len),
           BlocksTold("anthropic", events, srv, ac)
    PROVE  LET more == Then(events, len, r.sends) IN
           /\ r.then = "more" => BlocksTold("anthropic", more, After(srv, e, n), r.acc)
           /\ r.then = "respond" => Shows(more, r.acc.content, "anthropic")
<1> DEFINE more == Then(events, len, r.sends)
           s2   == After(srv, e, n)
           i    == e.index
<1>1. r = Reads(AnthropicBuilds(ac, e, n), AnthropicForwards(ac, e, n),
                CASE e.type = "end" -> "respond" [] e.type = "error" -> "fail" [] OTHER -> "more")
  BY DEF AnthropicReads
<1>2. /\ r.acc = AnthropicBuilds(ac, e, n) /\ r.sends = AnthropicForwards(ac, e, n)
      /\ r.then = CASE e.type = "end" -> "respond" [] e.type = "error" -> "fail" [] OTHER -> "more"
  BY <1>1 DEF Reads
<1>3. s2 \in Answer /\ r.acc \in Gathered
  BY AnthropicSound DEF Sound
<1>4. /\ ac.known = srv.begun /\ srv.stopped \subseteq srv.begun /\ Started(events) = srv.begun
      /\ \A j \in srv.begun : ac.text[j] = srv.said[j]
      /\ srv.begun \subseteq Index
  BY DEF BlocksTold, Answer
<1>5. \/ e.type = "start" /\ i \in Index \ srv.begun
      \/ e.type \in {"delta", "stop"} /\ i \in srv.begun \ srv.stopped
      \/ e.type \in {"error", "meta", "usage"} /\ i = NoBlock
      \/ e.type = "end" /\ i = NoBlock /\ srv.begun = srv.stopped
  BY DEF AnthropicSends, OfBlocks, OfAnswer, ServerEvent
<1>6. CASE e.type = "start" /\ i \in Index \ srv.begun
  <2>1. /\ r.sends = << Checked(Plain("start", i)) >> /\ r.then = "more"
        /\ r.acc = [ac EXCEPT !.known = @ \cup {i}, !.text[i] = << >>]
    BY <1>2, <1>6 DEF AnthropicBuilds, AnthropicForwards
  <2>2. r.acc.known = ac.known \cup {i} /\ r.acc.text = [ac.text EXCEPT ![i] = << >>]
        /\ r.acc.content = ac.content
    BY <2>1 DEF Gathered
  <2>3. s2 = Heard(srv.begun \cup {i}, srv.stopped, srv.parted, srv.said)
    BY <1>6 DEF After, Says, Heard
  <2>4. /\ Checked(Plain("start", i)).event.type = "start"
        /\ Checked(Plain("start", i)).event.index = i
    BY DEF Checked, Plain, StreamEvent
  <2>5. /\ Started(more) = Started(events) \cup {i}
        /\ SaysSame(more, events)
    <3>1. OneSaid(more, events, Checked(Plain("start", i)).event)
      BY <2>1, ThenOne
    <3> HIDE DEF more
    <3> QED BY <2>4, <3>1 DEF OneSaid
  <2> HIDE DEF more, s2, i
  <2>6. BlocksTold("anthropic", more, s2, r.acc)
    BY <1>3, <1>6, <2>2, <2>3, <2>5, BlockBegins
  <2> QED BY <2>1, <2>6 DEF more, s2, i
<1>7. CASE e.type = "delta" /\ i \in srv.begun \ srv.stopped
  <2>1. /\ r.sends = << Checked(StreamEvent("delta", i, << n >>)) >> /\ r.then = "more"
        /\ r.acc = [ac EXCEPT !.text[i] = Append(@, n)]
    BY <1>2, <1>4, <1>7 DEF AnthropicBuilds, AnthropicForwards
  <2>2. r.acc.known = ac.known /\ r.acc.text = [ac.text EXCEPT ![i] = Append(@, n)]
        /\ r.acc.content = ac.content
    BY <2>1 DEF Gathered
  <2>3. s2 = Heard(srv.begun, srv.stopped, srv.parted, [srv.said EXCEPT ![i] = Append(@, n)])
    BY <1>7 DEF After, Says, Heard
  <2> DEFINE d == Checked(StreamEvent("delta", i, << n >>)).event
  <2>4. d.type = "delta" /\ d.text = << n >> /\ d.index = i
    BY DEF Checked, StreamEvent
  <2>5. /\ Started(more) = Started(events)
        /\ SaysMore(more, events, i, n)
    <3>1. OneSaid(more, events, Checked(StreamEvent("delta", i, << n >>)).event)
      BY <2>1, ThenOne
    <3> HIDE DEF more
    <3> QED BY <2>4, <3>1 DEF OneSaid
  <2> HIDE DEF more, s2, i
  <2>6. BlocksTold("anthropic", more, s2, r.acc)
    BY <1>3, <1>7, <2>2, <2>3, <2>5, BlockGrows
  <2> QED BY <2>1, <2>6 DEF more, s2, i
<1>8. CASE e.type = "stop" /\ i \in srv.begun \ srv.stopped
  <2>1. /\ r.sends = << Checked(Plain("stop", i)) >> /\ r.then = "more"
        /\ r.acc = [ac EXCEPT !.content = Append(@, Part(i, i, ac.text[i]))]
    BY <1>2, <1>4, <1>8 DEF AnthropicBuilds, AnthropicForwards
  <2>2. r.acc.known = ac.known /\ r.acc.text = ac.text
        /\ r.acc.content = Append(ac.content, Part(i, i, srv.said[i])) /\ i \in Started(events)
    BY <1>4, <1>8, <2>1 DEF Gathered
  <2>3. s2 = Heard(srv.begun, srv.stopped \cup {i}, srv.parted, srv.said)
    BY <1>8 DEF After, Says, Heard
  <2>4. Checked(Plain("stop", i)).event.type = "stop"
    BY DEF Checked, Plain, StreamEvent
  <2>5. /\ Started(more) = Started(events)
        /\ SaysSame(more, events)
    <3>1. OneSaid(more, events, Checked(Plain("stop", i)).event)
      BY <2>1, ThenOne
    <3> HIDE DEF more
    <3> QED BY <2>4, <3>1 DEF OneSaid
  <2> HIDE DEF more, s2, i
  <2>6. BlocksTold("anthropic", more, s2, r.acc)
    BY <1>3, <1>8, <2>2, <2>3, <2>5, BlockStops
  <2> QED BY <2>1, <2>6 DEF more, s2, i
<1>9. CASE e.type \in {"error", "meta", "usage", "end"}
  <2>1. r.acc = ac
    BY <1>2, <1>9 DEF AnthropicBuilds
  <2>2. s2 = Heard(srv.begun, srv.stopped, srv.parted, srv.said)
    BY <1>9 DEF After, Says, Heard
  <2>3. /\ Started(more) = Started(events)
        /\ SaysSame(more, events)
    <3>1. CASE e.type = "end"
      <4>1. r.sends = << >>
        BY <1>2, <3>1 DEF AnthropicForwards
      <4> QED BY <4>1, ThenNone DEF SaysSame
    <3>2. CASE e.type # "end"
      <4>1. PICK s : /\ r.sends = << s >> /\ s.event.type \notin {"start", "delta"}
        <5>1. CASE e.type = "error"
          BY <1>2, <5>1 DEF AnthropicForwards, Unchecked, Plain, StreamEvent
        <5>2. CASE e.type # "error"
          BY <1>2, <1>9, <3>2, <5>2 DEF AnthropicForwards, Checked, Plain, StreamEvent
        <5> QED BY <5>1, <5>2
      <4>2. OneSaid(more, events, s.event)
        BY <4>1, ThenOne
      <4> HIDE DEF more
      <4> QED BY <4>1, <4>2 DEF OneSaid
    <3> QED BY <3>1, <3>2
  <2>4. CASE e.type = "end"
    <3>1. srv.begun = srv.stopped /\ r.then = "respond"
      BY <1>2, <1>5, <2>4
    <3>2. Shows(more, r.acc.content, "anthropic")
      <4> HIDE DEF more
      <4> QED BY <2>1, <2>3, <3>1, BlocksGiven
    <3> QED BY <3>1, <3>2
  <2>5. CASE e.type # "end"
    <3>1. r.then # "respond"
      BY <1>2, <1>9, <2>5
    <3>2. BlocksTold("anthropic", more, s2, r.acc)
      <4> HIDE DEF more
      <4>1. s2 = srv
        BY <2>2 DEF Answer, Heard
      <4> HIDE DEF s2
      <4> QED BY <2>1, <2>3, <4>1 DEF BlocksTold, SaysSame, Answer
    <3> QED BY <3>1, <3>2
  <2> QED BY <2>4, <2>5
<1> QED BY <1>5, <1>6, <1>7, <1>8, <1>9

\* What OpenAI's goroutine gathers and sends has the right types.
LEMMA OpenAISound ==
    ASSUME NEW srv \in Answer, NEW ac \in Gathered, NEW n \in Nat, NEW e \in OpenAISends(srv),
           NEW r \in OpenAIReads(ac, e, After(srv, e, n), n)
    PROVE  After(srv, e, n) \in Answer /\ Sound(r)
<1> DEFINE s2 == After(srv, e, n)
<1>1. \/ e.type \in {"start", "part", "delta", "stop"} /\ e.index \in Index
      \/ e.type \in {"error", "meta", "end"} /\ e.index = NoBlock
  BY DEF OpenAISends, OfBlocks, OfAnswer, ServerEvent, Answer
<1>2. s2 \in Answer
  BY <1>1, AnswerType
<1> HIDE DEF s2
<1>3. OpenAIBuilds(ac, e, s2) \in Gathered
  <2>1. CASE e.type = "start"
    <3>1. e.index \in Index
      BY <1>1, <2>1
    <3> QED BY <2>1, <3>1 DEF OpenAIBuilds, Gathered
  <2>2. CASE e.type = "stop" /\ e.index \in Tools \cup s2.parted
    <3>1. e.index \in Index
      BY <1>1, <2>2
    <3>2. Part(e.index, e.index, s2.said[e.index]) \in APart
      BY <1>2, <3>1, IndexInt DEF Answer, Part, APart
    <3>3. Append(ac.content, Part(e.index, e.index, s2.said[e.index])) \in Seq(APart)
      BY <3>2, OneMorePart DEF Gathered
    <3> QED BY <2>2, <3>3 DEF OpenAIBuilds, Gathered
  <2>3. CASE e.type # "start" /\ ~(e.type = "stop" /\ e.index \in Tools \cup s2.parted)
    <3>1. OpenAIBuilds(ac, e, s2) = ac
      BY <2>3 DEF OpenAIBuilds
    <3> QED BY <3>1
  <2> QED BY <2>1, <2>2, <2>3
<1>4. \A i \in Index : i \in Int
  BY IndexInt
<1>5. ASSUME NEW sends \in OpenAIForwards(ac, e, n)
      PROVE  sends \in Seq(Sending) /\ Careful(sends)
  <2>1. ASSUME NEW s \in Sending, s.must \/ s.event.type \notin {"start", "delta"}
        PROVE  << s >> \in Seq(Sending) /\ Careful(<< s >>)
    BY <2>1 DEF Careful
  <2>2. << >> \in Seq(Sending) /\ Careful(<< >>)
    BY EmptySeq DEF Careful
  <2>3. ASSUME NEW x \in Event PROVE << Checked(x) >> \in Seq(Sending) /\ Careful(<< Checked(x) >>)
    <3>1. Checked(x) \in Sending /\ Checked(x).must
      BY EventTypes DEF Checked, Sending
    <3> QED BY <2>1, <3>1
  <2>4. ASSUME NEW type \in {"usage", "error"}
        PROVE  LET x == Unchecked(Plain(type, NoBlock))
               IN  << x >> \in Seq(Sending) /\ Careful(<< x >>)
    <3>1. Plain(type, NoBlock) \in Event /\ Plain(type, NoBlock).type = type
      BY EventTypes, IndexInt DEF Types
    <3>2. /\ Unchecked(Plain(type, NoBlock)) \in Sending
          /\ Unchecked(Plain(type, NoBlock)).event.type \notin {"start", "delta"}
      BY <3>1 DEF Unchecked, Sending
    <3> QED BY <2>1, <3>2
  <2>5. CASE e.type \in {"start", "part"}
    <3>1. Plain("start", e.index) \in Event
      BY <1>1, <1>4, <2>5, EventTypes DEF Types
    <3> QED BY <2>2, <2>3, <2>5, <3>1 DEF OpenAIForwards
  <2>6. CASE e.type = "delta"
    <3>1. << n >> \in Seq(Nat) /\ e.index \in Int
      BY <1>1, <1>4, <2>6
    <3>2. StreamEvent("delta", e.index, << n >>) \in Event
      BY <3>1, EventTypes DEF Types
    <3> QED BY <2>3, <2>6, <3>2 DEF OpenAIForwards
  <2>7. CASE e.type = "stop"
    <3>1. \A i \in ac.known : Plain("stop", i) \in Event
      BY <1>4, EventTypes DEF Types, Gathered
    <3> QED BY <2>2, <2>3, <2>7, <3>1 DEF OpenAIForwards
  <2>8. CASE e.type = "meta"
    <3>1. Plain("meta", NoBlock) \in Event
      BY EventTypes, IndexInt DEF Types
    <3> QED BY <2>3, <2>8, <3>1 DEF OpenAIForwards
  <2>9. CASE e.type \in {"end", "error"}
    BY <2>4, <2>9 DEF OpenAIForwards
  <2> QED BY <1>1, <2>5, <2>6, <2>7, <2>8, <2>9
<1>6. PICK sends \in OpenAIForwards(ac, e, n) :
          r = Reads(OpenAIBuilds(ac, e, s2), sends,
                CASE e.type = "end" -> "respond" [] e.type = "error" -> "fail" [] OTHER -> "more")
  BY DEF OpenAIReads, s2
<1> QED BY <1>2, <1>3, <1>5, <1>6 DEF Sound, Reads, s2

\* What OpenAI's goroutine sends is what it makes the response of.
LEMMA OpenAITells ==
    ASSUME NEW srv \in Answer, NEW ac \in Gathered, NEW n \in Nat, NEW e \in OpenAISends(srv),
           NEW r \in OpenAIReads(ac, e, After(srv, e, n), n),
           NEW len \in Nat, NEW events, IsStream(events, len), BlocksTold("openai", events, srv, ac)
    PROVE  LET more == Then(events, len, r.sends) IN
           /\ r.then = "more" => BlocksTold("openai", more, After(srv, e, n), r.acc)
           /\ r.then = "respond" => Shows(more, r.acc.content, "openai")
<1> DEFINE more == Then(events, len, r.sends)
           s2   == After(srv, e, n)
           i    == e.index
<1>1. /\ r.acc = OpenAIBuilds(ac, e, s2) /\ r.sends \in OpenAIForwards(ac, e, n)
      /\ r.then = CASE e.type = "end" -> "respond" [] e.type = "error" -> "fail" [] OTHER -> "more"
  BY DEF OpenAIReads, Reads
<1>2. s2 \in Answer /\ r.acc \in Gathered
  BY OpenAISound DEF Sound
<1>3. /\ srv.stopped \subseteq srv.begun /\ srv.begun \subseteq Index
      /\ Started(events) = (srv.begun \cap Tools) \cup srv.parted
  BY DEF BlocksTold, Answer
<1>4. \/ e.type = "start" /\ i \in Index \ srv.begun
      \/ e.type = "part" /\ i \in (srv.begun \ srv.stopped) \ Tools
      \/ e.type \in {"delta", "stop"} /\ i \in srv.begun \ srv.stopped
      \/ e.type \in {"error", "meta"} /\ i = NoBlock
      \/ e.type = "end" /\ i = NoBlock /\ srv.begun = srv.stopped
  BY DEF OpenAISends, OfBlocks, OfAnswer, ServerEvent
\* Nothing is sent, or one event that starts no block and is no delta.
<1>5. ASSUME r.sends = << >> \/ \E s : r.sends = << s >> /\ s.event.type \notin {"start", "delta"}
      PROVE  Started(more) = Started(events) /\ SaysSame(more, events)
  <2>1. CASE r.sends = << >>
    BY <2>1, ThenNone DEF SaysSame
  <2>2. CASE \E s : r.sends = << s >> /\ s.event.type \notin {"start", "delta"}
    <3>1. PICK s : r.sends = << s >> /\ s.event.type \notin {"start", "delta"}
      BY <2>2
    <3>2. OneSaid(more, events, s.event)
      BY <3>1, ThenOne
    <3> HIDE DEF more
    <3> QED BY <3>1, <3>2 DEF OneSaid
  <2> QED BY <1>5, <2>1, <2>2
<1>6. CASE e.type = "start" /\ i \in Index \ srv.begun
  <2>1. r.then = "more" /\ r.acc = [ac EXCEPT !.known = @ \cup {i}]
    BY <1>1, <1>6 DEF OpenAIBuilds
  <2>2. r.acc.content = ac.content
    BY <2>1 DEF Gathered
  <2>3. s2 = Heard(srv.begun \cup {i}, srv.stopped, srv.parted, srv.said)
    BY <1>6 DEF After, Says, Heard
  <2>4. /\ Started(more) = Started(events) \cup (IF i \in Tools THEN {i} ELSE {})
        /\ SaysSame(more, events)
    <3>1. CASE i \in Tools
      <4>1. r.sends = << Checked(Plain("start", i)) >>
        BY <1>1, <1>6, <3>1 DEF OpenAIForwards
      <4>2. /\ Checked(Plain("start", i)).event.type = "start"
            /\ Checked(Plain("start", i)).event.index = i
        BY DEF Checked, Plain, StreamEvent
      <4>3. OneSaid(more, events, Checked(Plain("start", i)).event)
        BY <4>1, ThenOne
      <4> HIDE DEF more
      <4> QED BY <3>1, <4>2, <4>3 DEF OneSaid
    <3>2. CASE i \notin Tools
      <4>1. r.sends = << >>
        BY <1>1, <1>6, <3>2 DEF OpenAIForwards
      <4> HIDE DEF more
      <4> QED BY <1>5, <3>2, <4>1
    <3> QED BY <3>1, <3>2
  <2> HIDE DEF more, s2, i
  <2>5. BlocksTold("openai", more, s2, r.acc)
    BY <1>2, <1>6, <2>2, <2>3, <2>4, BlockBegins
  <2> QED BY <2>1, <2>5 DEF more, s2, i
<1>7. CASE e.type = "part" /\ i \in (srv.begun \ srv.stopped) \ Tools
  <2>1. r.then = "more" /\ r.acc = ac /\ r.sends = << Checked(Plain("start", i)) >>
    BY <1>1, <1>7 DEF OpenAIBuilds, OpenAIForwards
  <2>2. s2 = Heard(srv.begun, srv.stopped, srv.parted \cup {i}, srv.said)
    BY <1>7 DEF After, Says, Heard
  <2>3. /\ Checked(Plain("start", i)).event.type = "start"
        /\ Checked(Plain("start", i)).event.index = i
    BY DEF Checked, Plain, StreamEvent
  <2>4. Started(more) = Started(events) \cup {i} /\ SaysSame(more, events)
    <3>1. OneSaid(more, events, Checked(Plain("start", i)).event)
      BY <2>1, ThenOne
    <3> HIDE DEF more
    <3> QED BY <2>3, <3>1 DEF OneSaid
  <2> HIDE DEF more, s2, i
  <2>5. BlocksTold("openai", more, s2, ac)
    BY <1>2, <1>7, <2>2, <2>4, PartBegins
  <2> QED BY <2>1, <2>5 DEF more, s2, i
<1>8. CASE e.type = "delta" /\ i \in srv.begun \ srv.stopped
  <2>1. /\ r.then = "more" /\ r.acc = ac
        /\ r.sends = << Checked(StreamEvent("delta", i, << n >>)) >>
    BY <1>1, <1>8 DEF OpenAIBuilds, OpenAIForwards
  <2>2. s2 = Heard(srv.begun, srv.stopped, srv.parted, [srv.said EXCEPT ![i] = Append(@, n)])
    BY <1>8 DEF After, Says, Heard
  <2> DEFINE d == Checked(StreamEvent("delta", i, << n >>)).event
  <2>3. d.type = "delta" /\ d.text = << n >> /\ d.index = i
    BY DEF Checked, StreamEvent
  <2>4. Started(more) = Started(events) /\ SaysMore(more, events, i, n)
    <3>1. OneSaid(more, events, d)
      BY <2>1, ThenOne
    <3> HIDE DEF more
    <3> QED BY <2>3, <3>1 DEF OneSaid
  <2> HIDE DEF more, s2, i
  <2>5. BlocksTold("openai", more, s2, ac)
    BY <1>2, <1>8, <2>2, <2>4, BlockGrows
  <2> QED BY <2>1, <2>5 DEF more, s2, i
<1>9. CASE e.type = "stop" /\ i \in srv.begun \ srv.stopped
  <2>1. s2 = Heard(srv.begun, srv.stopped \cup {i}, srv.parted, srv.said)
    BY <1>9 DEF After, Says, Heard
  <2>2. s2.parted = srv.parted /\ s2.said = srv.said
    BY <2>1 DEF Heard
  <2>3. i \in Started(events) <=> i \in Tools \cup srv.parted
    BY <1>3, <1>9
  <2>4. /\ r.then = "more" /\ r.acc.known = ac.known /\ r.acc.text = ac.text
        /\ r.acc.content = IF i \in Started(events)
                           THEN Append(ac.content, Part(i, i, srv.said[i])) ELSE ac.content
    <3>1. r.then = "more"
      BY <1>1, <1>9
    <3>2. r.acc = IF i \in Started(events)
                  THEN [ac EXCEPT !.content = Append(@, Part(i, i, srv.said[i]))] ELSE ac
      <4> HIDE DEF s2
      <4> QED BY <1>1, <1>9, <2>2, <2>3 DEF OpenAIBuilds
    <3> QED BY <3>1, <3>2 DEF Gathered
  <2>5. Started(more) = Started(events) /\ SaysSame(more, events)
    <3>1. \/ r.sends = << >> \/ \E k : r.sends = << Checked(Plain("stop", k)) >>
      BY <1>1, <1>9 DEF OpenAIForwards
    <3>2. \A k : Checked(Plain("stop", k)).event.type = "stop"
      BY DEF Checked, Plain, StreamEvent
    <3>3. r.sends = << >> \/ \E s : r.sends = << s >> /\ s.event.type \notin {"start", "delta"}
      BY <3>1, <3>2
    <3> HIDE DEF more
    <3> QED BY <1>5, <3>3
  <2> HIDE DEF more, s2, i
  <2>6. BlocksTold("openai", more, s2, r.acc)
    BY <1>2, <1>9, <2>1, <2>4, <2>5, BlockStops
  <2> QED BY <2>4, <2>6 DEF more, s2, i
<1>10. CASE e.type \in {"error", "meta", "end"}
  <2>1. r.acc = ac
    BY <1>1, <1>10 DEF OpenAIBuilds
  <2>2. s2 = Heard(srv.begun, srv.stopped, srv.parted, srv.said)
    BY <1>10 DEF After, Says, Heard
  <2>3. Started(more) = Started(events) /\ SaysSame(more, events)
    <3>1. \E s : r.sends = << s >> /\ s.event.type \notin {"start", "delta"}
      BY <1>1, <1>10 DEF OpenAIForwards, Checked, Unchecked, Plain, StreamEvent
    <3> HIDE DEF more
    <3> QED BY <1>5, <3>1
  <2>4. CASE e.type = "end"
    <3>1. srv.begun = srv.stopped /\ r.then = "respond"
      BY <1>1, <1>4, <2>4
    <3>2. Shows(more, r.acc.content, "openai")
      <4> HIDE DEF more
      <4> QED BY <2>1, <2>3, <3>1, BlocksGiven
    <3> QED BY <3>1, <3>2
  <2>5. CASE e.type # "end"
    <3>1. r.then # "respond"
      BY <1>1, <1>10, <2>5
    <3>2. BlocksTold("openai", more, s2, r.acc)
      <4> HIDE DEF more
      <4>1. s2 = srv
        BY <2>2 DEF Answer, Heard
      <4> HIDE DEF s2
      <4> QED BY <2>1, <2>3, <4>1 DEF BlocksTold, SaysSame, Answer
    <3> QED BY <3>1, <3>2
  <2> QED BY <2>4, <2>5
<1> QED BY <1>4, <1>6, <1>7, <1>8, <1>9, <1>10

-----------------------------------------------------------------------------
(***************************************************************************)
(* Gemini: every chunk repeats the parts so far, and what was said last of *)
(* a part is all of it.                                                    *)
(***************************************************************************)
\* The server's parts come in order, and the goroutine counts them.
Ordered(srv, ac) ==
    ac.known = srv.begun /\ srv.begun = 0..Cardinality(srv.begun) - 1

\* The events say, last, what the server has said of each part.
PartsTold(events, srv) ==
    /\ Started(events) = srv.begun
    /\ \A i \in srv.begun : SaidLast(events, i, srv.said[i])

\* These sends start the parts that are new and say all of every part.
Repeats(S, old, srv) ==
    /\ \A s \in S : s.event.type = "start" => s.event.index \in srv.begun \ old
    /\ \A i \in srv.begun \ old : \E s \in S : s.event.type = "start" /\ s.event.index = i
    /\ \A i \in srv.begun : \E s \in S : IsDelta(s.event, i)
    /\ \A s \in S : \A i \in srv.begun : IsDelta(s.event, i) => s.event.text = srv.said[i]

\* These sends say nothing of the blocks.
Quiet(S) == \A s \in S : s.event.type \notin {"start", "delta"}

\* The places of the events and of the sends after them.
LEMMA ThenPlaces ==
    ASSUME NEW n \in Nat, NEW events, IsStream(events, n), NEW sends \in Seq(Sending)
    PROVE  LET more == Then(events, n, sends) IN
           /\ DOMAIN events = 1..n /\ DOMAIN more = 1..n + Len(sends) /\ Len(sends) \in Nat
           /\ \A k \in 1..n : k \in DOMAIN more /\ more[k] = events[k]
           /\ \A j \in DOMAIN sends :
                  n + j \in n + 1..n + Len(sends) /\ more[n + j] = sends[j].event
           /\ \A k \in n + 1..n + Len(sends) :
                  k \in DOMAIN more /\ k - n \in DOMAIN sends /\ more[k] = sends[k - n].event
<1>1. Len(sends) \in Nat /\ DOMAIN sends = 1..Len(sends)
  BY LenProperties
<1>2. DOMAIN events = 1..n
  BY DEF IsStream
<1>3. ASSUME NEW m \in Nat
      PROVE  /\ \A k \in 1..n : k \in 1..n + m /\ k <= n
             /\ \A j \in 1..m : n + j \in n + 1..n + m /\ n + j \in 1..n + m
                                  /\ ~(n + j <= n) /\ (n + j) - n = j
             /\ \A k \in n + 1..n + m : k \in 1..n + m /\ k - n \in 1..m /\ ~(k <= n)
  OBVIOUS
<1> QED BY <1>1, <1>2, <1>3 DEF Then

\* What says nothing of the parts leaves what was said.
LEMMA QuietKeeps ==
    ASSUME NEW n \in Nat, NEW events, IsStream(events, n), NEW sends \in Seq(Sending),
           Quiet(Range(sends)), NEW srv, PartsTold(events, srv)
    PROVE  PartsTold(Then(events, n, sends), srv)
<1> DEFINE more == Then(events, n, sends)
           m == Len(sends)
<1>1. /\ DOMAIN events = 1..n /\ DOMAIN more = 1..n + m /\ m \in Nat
      /\ \A k \in 1..n : k \in DOMAIN more /\ more[k] = events[k]
      /\ \A k \in n + 1..n + m : k - n \in DOMAIN sends /\ more[k] = sends[k - n].event
  BY ThenPlaces
<1> HIDE DEF more, m
<1>2. \A k \in DOMAIN more : k \in 1..n \/ k \in n + 1..n + m
  BY <1>1
<1>3. \A k \in n + 1..n + m : more[k].type \notin {"start", "delta"}
  BY <1>1 DEF Quiet, Range
<1>4. Started(more) = Started(events)
  <2>1. {k \in DOMAIN more : more[k].type = "start"}
           = {k \in DOMAIN events : events[k].type = "start"}
    BY <1>1, <1>2, <1>3
  <2>2. \A k \in {l \in DOMAIN events : events[l].type = "start"} : more[k] = events[k]
    BY <1>1
  <2> QED BY <2>1, <2>2 DEF Started
<1>5. ASSUME NEW i PROVE Deltas(more, i) = Deltas(events, i)
  BY <1>1, <1>2, <1>3 DEF Deltas
<1>6. ASSUME NEW i, NEW k \in Deltas(events, i) PROVE more[k] = events[k]
  BY <1>1 DEF Deltas
<1>7. PartsTold(more, srv)
  BY <1>4, <1>5, <1>6 DEF PartsTold, SaidLast
<1> QED BY <1>7 DEF more

\* Sends that repeat the parts say what the server has said by now.
LEMMA RepeatsTell ==
    ASSUME NEW n \in Nat, NEW events, IsStream(events, n), NEW sends \in Seq(Sending),
           NEW srv, NEW s2, PartsTold(events, srv), srv.begun \subseteq s2.begun,
           Repeats(Range(sends), srv.begun, s2)
    PROVE  PartsTold(Then(events, n, sends), s2)
<1> DEFINE more == Then(events, n, sends)
           m == Len(sends)
<1>1. /\ DOMAIN events = 1..n /\ DOMAIN more = 1..n + m /\ m \in Nat
      /\ \A k \in 1..n : k \in DOMAIN more /\ more[k] = events[k]
      /\ \A j \in DOMAIN sends : n + j \in n + 1..n + m /\ more[n + j] = sends[j].event
      /\ \A k \in n + 1..n + m :
             k \in DOMAIN more /\ k - n \in DOMAIN sends /\ more[k] = sends[k - n].event
  BY ThenPlaces
<1> HIDE DEF more, m
<1>2. \A k \in DOMAIN more : k \in 1..n \/ k \in n + 1..n + m
  BY <1>1
<1>3. /\ \A k \in n + 1..n + m : \E s \in Range(sends) : s.event = more[k]
      /\ \A s \in Range(sends) : \E k \in n + 1..n + m : s.event = more[k]
  <2>1. ASSUME NEW k \in n + 1..n + m PROVE \E s \in Range(sends) : s.event = more[k]
    <3>1. k - n \in DOMAIN sends /\ more[k] = sends[k - n].event
      BY <1>1
    <3>2. sends[k - n] \in Range(sends)
      BY <3>1 DEF Range
    <3> QED BY <3>1, <3>2
  <2>2. ASSUME NEW s \in Range(sends) PROVE \E k \in n + 1..n + m : s.event = more[k]
    <3>1. PICK j \in DOMAIN sends : s = sends[j]
      BY DEF Range
    <3>2. n + j \in n + 1..n + m /\ more[n + j] = sends[j].event
      BY <1>1, <3>1
    <3> QED BY <3>1, <3>2
  <2> QED BY <2>1, <2>2
<1>4. Started(more) = s2.begun
  <2>1. ASSUME NEW i \in Started(more) PROVE i \in s2.begun
    <3>1. PICK k \in DOMAIN more : more[k].type = "start" /\ more[k].index = i
      BY DEF Started
    <3>2. CASE k \in 1..n
      BY <1>1, <3>1, <3>2 DEF Started, PartsTold
    <3>3. CASE k \in n + 1..n + m
      BY <1>3, <3>1, <3>3 DEF Repeats
    <3> QED BY <1>2, <3>1, <3>2, <3>3
  <2>2. ASSUME NEW i \in s2.begun PROVE i \in Started(more)
    <3>1. CASE i \in srv.begun
      <4>1. PICK k \in DOMAIN events : events[k].type = "start" /\ events[k].index = i
        BY <3>1 DEF Started, PartsTold
      <4> QED BY <1>1, <4>1 DEF Started
    <3>2. CASE i \notin srv.begun
      <4>1. PICK s \in Range(sends) : s.event.type = "start" /\ s.event.index = i
        BY <3>2 DEF Repeats
      <4>2. PICK k \in n + 1..n + m : s.event = more[k]
        BY <1>3, <4>1
      <4> QED BY <1>1, <4>1, <4>2 DEF Started
    <3> QED BY <3>1, <3>2
  <2> QED BY <2>1, <2>2
<1>5. ASSUME NEW i \in s2.begun PROVE SaidLast(more, i, s2.said[i])
  <2>1. \E k \in n + 1..n + m : k \in Deltas(more, i)
    <3>1. PICK s \in Range(sends) : IsDelta(s.event, i)
      BY DEF Repeats
    <3>2. PICK k \in n + 1..n + m : s.event = more[k]
      BY <1>3, <3>1
    <3> QED BY <1>1, <3>1, <3>2 DEF IsDelta, Deltas
  <2>2. ASSUME NEW k \in n + 1..n + m, k \in Deltas(more, i) PROVE more[k].text = s2.said[i]
    <3>1. PICK s \in Range(sends) : s.event = more[k]
      BY <1>3
    <3>2. IsDelta(s.event, i)
      BY <2>2, <3>1 DEF IsDelta, Deltas
    <3> QED BY <3>1, <3>2 DEF Repeats
  <2> QED BY <1>1, <2>1, <2>2, RestSaid
<1>6. PartsTold(more, s2)
  BY <1>4, <1>5 DEF PartsTold
<1> QED BY <1>6 DEF more

\* The parts so far and the new ones, counted.
LEMMA PartsCounted ==
    ASSUME NEW srv \in Answer, NEW e \in GeminiSends(srv), NEW n \in Nat,
           srv.begun = 0..Cardinality(srv.begun) - 1
    PROVE  LET s2 == After(srv, e, n) IN
           /\ s2 \in Answer /\ srv.begun \subseteq s2.begun
           /\ s2.begun = 0..Cardinality(s2.begun) - 1
           /\ Cardinality(srv.begun) \in Nat /\ Cardinality(s2.begun) \in Nat
           /\ Cardinality(srv.begun) <= Cardinality(s2.begun)
           /\ e.type = "tokens" => s2 = srv
<1> DEFINE s2 == After(srv, e, n)
           c  == Cardinality(srv.begun)
<1>1. /\ IsFiniteSet(srv.begun) /\ c \in Nat
      /\ \A k \in Nat : IsFiniteSet(0..k) /\ Cardinality(0..k) = k + 1
  <2>1. IsFiniteSet(srv.begun)
    BY IndexAssumption, FS_Subset DEF Answer
  <2>2. ASSUME NEW k \in Nat PROVE IsFiniteSet(0..k) /\ Cardinality(0..k) = k + 1
    <3>1. 0 \in Int /\ k \in Int /\ ~(0 > k) /\ k - 0 + 1 = k + 1
      OBVIOUS
    <3> QED BY <3>1, FS_Interval
  <2> QED BY <2>1, <2>2, FS_CardinalityType
<1>2. \/ e.type = "extend" /\ e.index \in Index /\ (e.index = c \/ e.index = c - 1)
      \/ e.type \in {"repeat", "tokens"} /\ e.index = NoBlock
  BY DEF GeminiSends, Chunk
<1>3. s2 \in Answer
  BY <1>2, AnswerType
<1>4. CASE e.type = "extend" /\ e.index = c
  <2>1. s2.begun = srv.begun \cup {c}
    BY <1>4 DEF After
  <2>2. srv.begun = 0..c - 1
    OBVIOUS
  <2> HIDE DEF c
  <2>5. 0..c = (0..c - 1) \cup {c} /\ c = (c + 1) - 1 /\ c <= c + 1 /\ c + 1 \in Nat
    <3>1. \A k \in Nat : \A i \in Int : i \in 0..k <=> i \in 0..k - 1 \/ i = k
      OBVIOUS
    <3>2. c \in Nat /\ c \in Int
      BY <1>1
    <3>3. 0..c = (0..c - 1) \cup {c}
      BY <3>1, <3>2
    <3> QED BY <3>2, <3>3
  <2>3. s2.begun = 0..c
    <3> HIDE DEF s2
    <3> QED BY <2>1, <2>2, <2>5
  <2>4. Cardinality(s2.begun) = c + 1
    BY <1>1, <2>3
  <2>6. e.type # "tokens"
    BY <1>4
  <2>7. s2.begun = 0..Cardinality(s2.begun) - 1
    BY <2>3, <2>4, <2>5
  <2> USE DEF c
  <2> QED BY <1>1, <1>3, <2>1, <2>4, <2>5, <2>6, <2>7
<1>5. CASE e.type = "extend" /\ e.index = c - 1 /\ e.index \in Index
  <2>1. s2.begun = srv.begun \cup {c - 1}
    BY <1>5 DEF After
  <2>2. c - 1 \in 0..c - 1
    <3>1. c - 1 \in Nat
      BY <1>5, IndexInt
    <3> QED BY <1>1, <3>1
  <2>3. s2.begun = srv.begun
    BY <2>1, <2>2
  <2> QED BY <1>1, <1>3, <1>5, <2>3
<1>6. CASE e.type \in {"repeat", "tokens"}
  <2>1. s2.begun = srv.begun /\ s2 = srv
    BY <1>6 DEF After, Says, Answer
  <2> QED BY <1>1, <1>3, <2>1
<1> QED BY <1>2, <1>4, <1>5, <1>6

\* Places of the starts and the texts of m new parts after b old ones.
LEMMA TwoForEach ==
    ASSUME NEW b \in Nat, NEW m \in Nat
    PROVE  /\ \A k \in 1..2 * m : b + (k - 1) \div 2 \in b..b + m - 1
           /\ \A j \in b..b + m - 1 :
                  /\ 2 * (j - b) + 1 \in 1..2 * m /\ 2 * (j - b) + 2 \in 1..2 * m
                  /\ (2 * (j - b) + 1) % 2 = 1 /\ (2 * (j - b) + 2) % 2 # 1
                  /\ b + ((2 * (j - b) + 1) - 1) \div 2 = j
                  /\ b + ((2 * (j - b) + 2) - 1) \div 2 = j
OBVIOUS

\* A chunk's parts are sent on: the old ones again, the new ones started first.
LEMMA PartsRepeated ==
    ASSUME NEW ac \in Gathered, NEW s2 \in Answer,
           ac.known = 0..Cardinality(ac.known) - 1, s2.begun = 0..Cardinality(s2.begun) - 1,
           Cardinality(ac.known) \in Nat, Cardinality(s2.begun) \in Nat,
           Cardinality(ac.known) <= Cardinality(s2.begun)
    PROVE  /\ SendsParts(ac, s2) \in Seq(Sending)
           /\ Repeats(Range(SendsParts(ac, s2)), ac.known, s2)
           /\ \A s \in Range(SendsParts(ac, s2)) : s.must
<1> DEFINE b == Cardinality(ac.known)
           m == Cardinality(s2.begun) - b
           Text(i)  == Checked(StreamEvent("delta", i, s2.said[i]))
           Begin(i) == Checked(Plain("start", i))
           part(k)  == b + (k - 1) \div 2
           old == [k \in 1..b |-> Text(k - 1)]
           new == [k \in 1..2 * m |-> IF k % 2 = 1 THEN Begin(part(k)) ELSE Text(part(k))]
<1>1. /\ b \in Nat /\ m \in Nat /\ ac.known = 0..b - 1 /\ s2.begun = 0..b + m - 1
      /\ 2 * m \in Nat
  OBVIOUS
<1>2. SendsParts(ac, s2) = old \o new
  BY DEF SendsParts
<1>3. \A i \in s2.begun : Text(i) \in Sending /\ Begin(i) \in Sending
  <2>1. ASSUME NEW i \in s2.begun PROVE Text(i) \in Sending /\ Begin(i) \in Sending
    <3>1. i \in Index /\ i \in Int /\ s2.said[i] \in Seq(Nat)
      BY IndexInt DEF Answer
    <3>2. StreamEvent("delta", i, s2.said[i]) \in Event /\ Plain("start", i) \in Event
      BY <3>1, EventTypes DEF Types
    <3> QED BY <3>2 DEF Checked, Sending
  <2> QED BY <2>1
<1>4. /\ \A k \in 1..2 * m : part(k) \in b..b + m - 1
      /\ \A j \in b..b + m - 1 :
             \E k, l \in 1..2 * m : k % 2 = 1 /\ part(k) = j /\ l % 2 # 1 /\ part(l) = j
  <2> HIDE DEF b, m
  <2>1. \A k \in 1..2 * m : part(k) \in b..b + m - 1
    BY <1>1, TwoForEach
  <2>2. ASSUME NEW j \in b..b + m - 1
        PROVE  \E k, l \in 1..2 * m : k % 2 = 1 /\ part(k) = j /\ l % 2 # 1 /\ part(l) = j
    <3> DEFINE k == 2 * (j - b) + 1
               l == 2 * (j - b) + 2
    <3>1. k \in 1..2 * m /\ l \in 1..2 * m /\ k % 2 = 1 /\ l % 2 # 1 /\ part(k) = j /\ part(l) = j
      BY <1>1, TwoForEach
    <3> HIDE DEF k, l, part
    <3> QED BY <3>1
  <2> QED BY <2>1, <2>2
<1>5. /\ \A j \in b..b + m - 1 : j \in s2.begun \ ac.known
      /\ \A j \in s2.begun \ ac.known : j \in b..b + m - 1
      /\ \A k \in 1..b : k - 1 \in ac.known /\ k - 1 \in s2.begun
      /\ \A i \in ac.known : i + 1 \in 1..b /\ (i + 1) - 1 = i
  <2> HIDE DEF b, m
  <2>1. /\ \A j \in b..b + m - 1 : j \in 0..b + m - 1 /\ j \notin 0..b - 1
        /\ \A j \in 0..b + m - 1 : j \notin 0..b - 1 => j \in b..b + m - 1
        /\ \A k \in 1..b : k - 1 \in 0..b - 1 /\ k - 1 \in 0..b + m - 1
        /\ \A i \in 0..b - 1 : i + 1 \in 1..b /\ (i + 1) - 1 = i
    BY <1>1
  <2> QED BY <1>1, <2>1
<1> HIDE DEF b, m, part
<1>6. old \in Seq(Sending) /\ Range(old) = {Text(i) : i \in ac.known}
  <2>1. \A k \in 1..b : old[k] = Text(k - 1)
    OBVIOUS
  <2>2. DOMAIN old = 1..b
    OBVIOUS
  <2> HIDE DEF old, Text
  <2>3. \A k \in 1..b : old[k] \in Sending
    BY <1>3, <1>5, <2>1
  <2>4. old = [k \in 1..b |-> old[k]]
    BY <2>1 DEF old
  <2>5. [k \in 1..b |-> old[k]] \in Seq(Sending)
    BY <1>1, <2>3, IsASeq
  <2>6. old \in Seq(Sending)
    BY <2>4, <2>5
  <2>7. \A i \in ac.known : Text(i) \in Range(old)
    BY <1>5, <2>1, <2>2 DEF Range
  <2>8. \A x \in Range(old) : \E i \in ac.known : x = Text(i)
    BY <1>5, <2>1, <2>2 DEF Range
  <2>9. Range(old) = {Text(i) : i \in ac.known}
    BY <2>7, <2>8
  <2> QED BY <2>6, <2>9
<1>7. new \in Seq(Sending)
      /\ Range(new) = {Text(i) : i \in s2.begun \ ac.known}
                         \cup {Begin(i) : i \in s2.begun \ ac.known}
  <2>1. \A k \in 1..2 * m : new[k] = IF k % 2 = 1 THEN Begin(part(k)) ELSE Text(part(k))
    OBVIOUS
  <2>2. DOMAIN new = 1..2 * m
    OBVIOUS
  <2>3. new = [k \in 1..2 * m |-> new[k]]
    OBVIOUS
  <2> HIDE DEF new, Text, Begin
  <2>4. \A k \in 1..2 * m : part(k) \in s2.begun \ ac.known
    BY <1>4, <1>5
  <2>5. \A k \in 1..2 * m : new[k] \in Sending
    BY <1>3, <2>1, <2>4
  <2>6. [k \in 1..2 * m |-> new[k]] \in Seq(Sending)
    BY <1>1, <2>5, IsASeq
  <2>7. ASSUME NEW i \in s2.begun \ ac.known PROVE Text(i) \in Range(new) /\ Begin(i) \in Range(new)
    <3>1. i \in b..b + m - 1
      BY <1>5
    <3>2. PICK k, l \in 1..2 * m : k % 2 = 1 /\ part(k) = i /\ l % 2 # 1 /\ part(l) = i
      BY <1>4, <3>1
    <3> QED BY <2>1, <2>2, <3>2 DEF Range
  <2>8. \A x \in Range(new) : \E i \in s2.begun \ ac.known : x = Text(i) \/ x = Begin(i)
    BY <2>1, <2>2, <2>4 DEF Range
  <2>9. Range(new) = {Text(i) : i \in s2.begun \ ac.known}
                        \cup {Begin(i) : i \in s2.begun \ ac.known}
    BY <2>7, <2>8
  <2> QED BY <2>3, <2>6, <2>9
<1> HIDE DEF old, new
<1>8. old \o new \in Seq(Sending) /\ Range(old \o new) = Range(old) \cup Range(new)
  <2>1. old \in Seq(Sending) /\ new \in Seq(Sending)
    BY <1>6, <1>7
  <2> QED BY <2>1, ConcatProperties, RangeConcatenation
<1>9. ac.known \subseteq s2.begun
  <2>1. \A i \in 0..b - 1 : i \in 0..b + m - 1
    BY <1>1
  <2> QED BY <1>1, <2>1
<1>10. Range(old \o new) = {Text(i) : i \in s2.begun} \cup {Begin(i) : i \in s2.begun \ ac.known}
  <2> DEFINE O == Range(old)
             N == Range(new)
             R == Range(old \o new)
  <2> HIDE DEF Text, Begin, O, N, R
  <2>1. /\ R = O \cup N /\ O = {Text(i) : i \in ac.known}
        /\ N = {Text(i) : i \in s2.begun \ ac.known} \cup {Begin(i) : i \in s2.begun \ ac.known}
    BY <1>6, <1>7, <1>8 DEF O, N, R
  <2>2. R = {Text(i) : i \in s2.begun} \cup {Begin(i) : i \in s2.begun \ ac.known}
    BY <1>9, <2>1
  <2> QED BY <2>2 DEF R
<1>11. \A i : /\ Text(i).must /\ Begin(i).must
              /\ Text(i).event.type = "delta" /\ Text(i).event.index = i
              /\ Text(i).event.text = s2.said[i]
              /\ Begin(i).event.type = "start" /\ Begin(i).event.index = i
  BY DEF Checked, StreamEvent, Plain
<1> HIDE DEF Text, Begin
<1>12. Repeats(Range(old \o new), ac.known, s2)
  BY <1>10, <1>11 DEF Repeats, IsDelta
<1>13. \A s \in Range(old \o new) : s.must
  BY <1>10, <1>11
<1> QED BY <1>2, <1>8, <1>12, <1>13

\* Quiet sends beside those that repeat the parts.
LEMMA RepeatsAmongQuiet ==
    ASSUME NEW S, NEW Q, NEW old, NEW srv, Repeats(S, old, srv), Quiet(Q)
    PROVE  Repeats(S \cup Q, old, srv)
BY DEF Repeats, Quiet, IsDelta

\* Quiet sends may be lost.
LEMMA QuietIsCareful ==
    ASSUME NEW sends, NEW S, NEW Q, Range(sends) = S \cup Q, \A s \in S : s.must, Quiet(Q)
    PROVE  Careful(sends)
BY DEF Careful, Quiet, Range

\* What is made of a chunk.
Made(reads, e, srv, s2, ac) ==
    /\ reads.sends \in Seq(Sending) /\ Careful(reads.sends)
    /\ reads.acc = [known |-> s2.begun, text |-> ac.text, content |-> reads.acc.content]
    /\ \/ e.type = "tokens" /\ reads.then = "more" /\ reads.acc = ac /\ Quiet(Range(reads.sends))
       \/ /\ Repeats(Range(reads.sends), srv.begun, s2)
          /\ \/ reads.then = "more" /\ reads.acc.content = ac.content
             \/ reads.then = "respond" /\ reads.acc.content \in GeminiResponses(s2)

\* The sends around the parts, and the three outcomes of a chunk.
FirstMeta(n)  == IF n = 1 THEN << Checked(Plain("meta", NoBlock)) >> ELSE << >>
Stops(order)  == [k \in DOMAIN order |-> Unchecked(Plain("stop", order[k]))]
LastUsage     == << Unchecked(Plain("usage", NoBlock)) >>
Counted(ac, s2)   == [ac EXCEPT !.known = s2.begun]
Full(ac, s2, content) == [Counted(ac, s2) EXCEPT !.content = content]
LastChunks(ac, s2, n) ==
    { Reads(Full(ac, s2, content),
            FirstMeta(n) \o SendsParts(ac, s2) \o Stops(order) \o LastUsage, "respond") :
      content \in GeminiResponses(s2), order \in Orders(s2.begun) }

\* A chunk counts tokens, is one of many, or the last.
LEMMA ChunkRead ==
    ASSUME NEW ac, NEW e, NEW s2, NEW n
    PROVE  GeminiReads(ac, e, s2, n) =
               IF e.type = "tokens" THEN { Reads(ac, FirstMeta(n), "more") }
               ELSE IF ~e.last
               THEN { Reads(Counted(ac, s2), FirstMeta(n) \o SendsParts(ac, s2), "more") }
               ELSE LastChunks(ac, s2, n)
BY DEF GeminiReads, FirstMeta, Stops, LastUsage, Counted, Full, LastChunks

\* Every chunk is sent on with all of the parts, unless it only counts tokens.
LEMMA GeminiMakes ==
    ASSUME NEW srv \in Answer, NEW ac \in Gathered, Ordered(srv, ac), NEW n \in Nat,
           NEW e \in GeminiSends(srv), NEW r \in GeminiReads(ac, e, After(srv, e, n), n)
    PROVE  Made(r, e, srv, After(srv, e, n), ac)
<1> DEFINE s2    == After(srv, e, n)
           meta  == FirstMeta(n)
           built == Counted(ac, s2)
           parts == SendsParts(ac, s2)
<1>1. /\ s2 \in Answer /\ srv.begun \subseteq s2.begun
      /\ ac.known = srv.begun /\ ac.known = 0..Cardinality(ac.known) - 1
      /\ s2.begun = 0..Cardinality(s2.begun) - 1
      /\ Cardinality(ac.known) \in Nat /\ Cardinality(s2.begun) \in Nat
      /\ Cardinality(ac.known) <= Cardinality(s2.begun)
      /\ e.type = "tokens" => s2 = srv
  <2>1. ac.known = srv.begun /\ srv.begun = 0..Cardinality(srv.begun) - 1
    BY DEF Ordered
  <2>2. /\ s2 \in Answer /\ srv.begun \subseteq s2.begun
        /\ s2.begun = 0..Cardinality(s2.begun) - 1
        /\ Cardinality(srv.begun) \in Nat /\ Cardinality(s2.begun) \in Nat
        /\ Cardinality(srv.begun) <= Cardinality(s2.begun)
        /\ e.type = "tokens" => s2 = srv
    BY <2>1, PartsCounted
  <2> HIDE DEF s2
  <2>3. Cardinality(ac.known) = Cardinality(srv.begun)
    BY <2>1
  <2> QED BY <2>1, <2>2, <2>3
<1>2. meta \in Seq(Sending) /\ Quiet(Range(meta))
  <2>1. Checked(Plain("meta", NoBlock)) \in Sending
    <3>1. Plain("meta", NoBlock) \in Event
      BY EventTypes, IndexInt DEF Types
    <3> QED BY <3>1 DEF Checked, Sending
  <2>2. Checked(Plain("meta", NoBlock)).event.type = "meta"
    BY DEF Checked, Plain, StreamEvent
  <2>3. CASE n = 1
    <3>1. meta = << Checked(Plain("meta", NoBlock)) >>
      BY <2>3 DEF FirstMeta
    <3> QED BY <2>1, <2>2, <3>1 DEF Quiet, Range
  <2>4. CASE n # 1
    <3>1. meta = << >>
      BY <2>4 DEF FirstMeta
    <3> QED BY <3>1, EmptySeq DEF Quiet, Range
  <2> QED BY <2>3, <2>4
<1>3. LastUsage \in Seq(Sending) /\ Quiet(Range(LastUsage))
  <2>1. Unchecked(Plain("usage", NoBlock)) \in Sending
    <3>1. Plain("usage", NoBlock) \in Event
      BY EventTypes, IndexInt DEF Types
    <3> QED BY <3>1 DEF Unchecked, Sending
  <2>2. Unchecked(Plain("usage", NoBlock)).event.type = "usage"
    BY DEF Unchecked, Plain, StreamEvent
  <2> QED BY <2>1, <2>2 DEF Quiet, Range, LastUsage
<1>4. ASSUME NEW order \in Orders(s2.begun)
      PROVE  Stops(order) \in Seq(Sending) /\ Quiet(Range(Stops(order)))
  <2>1. DOMAIN order = 1..Cardinality(s2.begun) /\ \A k \in DOMAIN order : order[k] \in s2.begun
    BY DEF Orders
  <2>2. ASSUME NEW k \in DOMAIN order
        PROVE  /\ Unchecked(Plain("stop", order[k])) \in Sending
               /\ Unchecked(Plain("stop", order[k])).event.type = "stop"
    <3>1. order[k] \in Int
      <4> HIDE DEF s2
      <4> QED BY <1>1, <2>1, IndexInt DEF Answer
    <3>2. Plain("stop", order[k]) \in Event /\ Plain("stop", order[k]).type = "stop"
      BY <3>1, EventTypes DEF Types
    <3> QED BY <3>2 DEF Unchecked, Sending
  <2>3. /\ Stops(order) = [k \in 1..Cardinality(s2.begun) |-> Unchecked(Plain("stop", order[k]))]
        /\ \A k \in 1..Cardinality(s2.begun) : Unchecked(Plain("stop", order[k])) \in Sending
    BY <2>1, <2>2 DEF Stops
  <2>4. Stops(order) \in Seq(Sending)
    <3> HIDE DEF s2
    <3> QED BY <1>1, <2>3, IsASeq
  <2>5. Quiet(Range(Stops(order)))
    BY <2>2 DEF Quiet, Range, Stops
  <2> QED BY <2>4, <2>5
<1>5. /\ parts \in Seq(Sending) /\ Repeats(Range(parts), srv.begun, s2)
      /\ \A s \in Range(parts) : s.must
  <2> HIDE DEF s2
  <2> QED BY <1>1, PartsRepeated
<1>6. \/ e.type = "tokens" /\ r = Reads(ac, meta, "more")
      \/ r = Reads(built, meta \o parts, "more")
      \/ \E content \in GeminiResponses(s2), order \in Orders(s2.begun) :
             r = Reads(Full(ac, s2, content), meta \o parts \o Stops(order) \o LastUsage, "respond")
  <2>1. GeminiReads(ac, e, s2, n) = IF e.type = "tokens" THEN { Reads(ac, meta, "more") }
                                    ELSE IF ~e.last THEN { Reads(built, meta \o parts, "more") }
                                    ELSE LastChunks(ac, s2, n)
    BY ChunkRead
  <2>2. r \in GeminiReads(ac, e, s2, n)
    OBVIOUS
  <2> HIDE DEF meta, parts, built
  <2>3. \/ e.type = "tokens" /\ r = Reads(ac, meta, "more")
        \/ r = Reads(built, meta \o parts, "more") \/ r \in LastChunks(ac, s2, n)
    BY <2>1, <2>2
  <2> USE DEF meta, parts
  <2> HIDE DEF s2
  <2>4. ASSUME r \in LastChunks(ac, s2, n)
        PROVE  \E content \in GeminiResponses(s2), order \in Orders(s2.begun) :
                   r = Reads(Full(ac, s2, content),
                             meta \o parts \o Stops(order) \o LastUsage, "respond")
    BY <2>4 DEF LastChunks
  <2> QED BY <2>3, <2>4
<1>7. /\ built = [known |-> s2.begun, text |-> ac.text, content |-> ac.content]
      /\ \A content : Full(ac, s2, content)
                          = [known |-> s2.begun, text |-> ac.text, content |-> content]
  <2>1. ac = [known |-> ac.known, text |-> ac.text, content |-> ac.content]
    BY DEF Gathered
  <2>2. built = [known |-> s2.begun, text |-> ac.text, content |-> ac.content]
    BY <2>1 DEF Counted
  <2> QED BY <2>2 DEF Full
<1> HIDE DEF s2, meta, built, parts
<1>8. ASSUME e.type = "tokens", r = Reads(ac, meta, "more") PROVE Made(r, e, srv, s2, ac)
  <2>1. r.sends = meta /\ r.acc = ac /\ r.then = "more"
    BY <1>8 DEF Reads
  <2>2. Careful(meta)
    BY <1>2 DEF Careful, Quiet, Range
  <2>3. ac = [known |-> s2.begun, text |-> ac.text, content |-> ac.content]
    BY <1>1, <1>8 DEF Gathered
  <2> QED BY <1>2, <1>8, <2>1, <2>2, <2>3 DEF Made
<1>9. meta \o parts \in Seq(Sending) /\ Range(meta \o parts) = Range(parts) \cup Range(meta)
  BY <1>2, <1>5, ConcatProperties, RangeConcatenation
<1>10. ASSUME r = Reads(built, meta \o parts, "more") PROVE Made(r, e, srv, s2, ac)
  <2>1. r.sends = meta \o parts /\ r.acc = built /\ r.then = "more"
    BY <1>10 DEF Reads
  <2>2. Careful(meta \o parts)
    BY <1>2, <1>5, <1>9, QuietIsCareful
  <2>3. Repeats(Range(meta \o parts), srv.begun, s2)
    BY <1>2, <1>5, <1>9, RepeatsAmongQuiet
  <2>4. built.content = ac.content
    BY <1>7
  <2>5. built = [known |-> s2.begun, text |-> ac.text, content |-> built.content]
    BY <1>7, <2>4
  <2> QED BY <1>9, <2>1, <2>2, <2>3, <2>4, <2>5 DEF Made
<1>11. ASSUME NEW content \in GeminiResponses(s2), NEW order \in Orders(s2.begun),
              r = Reads(Full(ac, s2, content),
                        meta \o parts \o Stops(order) \o LastUsage, "respond")
       PROVE  Made(r, e, srv, s2, ac)
  <2> DEFINE ends == Stops(order)
             two  == meta \o parts
             most == two \o ends
             all  == most \o LastUsage
             full == Full(ac, s2, content)
             Q    == Range(meta) \cup Range(ends) \cup Range(LastUsage)
  <2>1. r.sends = all /\ r.acc = full /\ r.then = "respond"
    BY <1>11 DEF Reads
  <2>2. ends \in Seq(Sending) /\ Quiet(Range(ends))
    BY <1>4
  <2>3. full = [known |-> s2.begun, text |-> ac.text, content |-> content]
    BY <1>7
  <2>10. two \in Seq(Sending) /\ Range(two) = Range(parts) \cup Range(meta)
    BY <1>9
  <2> HIDE DEF ends, full, two
  <2>4. most \in Seq(Sending) /\ Range(most) = Range(two) \cup Range(ends)
    BY <2>2, <2>10, ConcatProperties, RangeConcatenation
  <2> HIDE DEF most
  <2>5. all \in Seq(Sending) /\ Range(all) = Range(most) \cup Range(LastUsage)
    BY <1>3, <2>4, ConcatProperties, RangeConcatenation
  <2>6. Range(all) = Range(parts) \cup Q
    BY <2>4, <2>5, <2>10
  <2>7. Quiet(Q)
    BY <1>2, <1>3, <2>2 DEF Quiet
  <2> HIDE DEF all, Q
  <2>8. Careful(all)
    BY <1>5, <2>6, <2>7, QuietIsCareful
  <2>9. Repeats(Range(all), srv.begun, s2)
    BY <1>5, <2>6, <2>7, RepeatsAmongQuiet
  <2> QED BY <2>1, <2>3, <2>5, <2>8, <2>9 DEF Made
<1>12. Made(r, e, srv, s2, ac)
  BY <1>6, <1>8, <1>10, <1>11
<1> QED BY <1>12 DEF s2

\* The parts of the response, one for each block begun.
LEMMA ResponseParts ==
    ASSUME NEW s2 \in Answer, s2.begun = 0..Cardinality(s2.begun) - 1,
           Cardinality(s2.begun) \in Nat, NEW content \in GeminiResponses(s2)
    PROVE  /\ content \in Seq(APart) /\ {part.index : part \in Range(content)} = s2.begun
           /\ \A part \in Range(content) :
                  /\ part.index \in s2.begun /\ part.text = s2.said[part.index]
                  /\ part.id = part.index \/ part.id \in s2.begun \cap Tools
<1> DEFINE c == Cardinality(s2.begun)
<1>1. PICK ids \in [s2.begun -> s2.begun] :
          /\ \A i \in s2.begun : ids[i] \in GeminiIds(s2, i)
          /\ content = [k \in 1..c |-> Part(k - 1, ids[k - 1], s2.said[k - 1])]
  BY DEF GeminiResponses
<1>2. s2.begun = 0..c - 1 /\ c \in Nat
  OBVIOUS
<1> HIDE DEF c
<1>3. /\ \A k \in 1..c : k - 1 \in s2.begun
      /\ \A i \in s2.begun : i + 1 \in 1..c /\ (i + 1) - 1 = i
  BY <1>2
<1> DEFINE part(i) == Part(i, ids[i], s2.said[i])
<1>4. ASSUME NEW i \in s2.begun
      PROVE  /\ part(i) \in APart /\ part(i).index = i /\ part(i).text = s2.said[i]
             /\ part(i).id = i \/ part(i).id \in s2.begun \cap Tools
  <2>1. /\ i \in Index /\ i \in Int /\ ids[i] \in s2.begun /\ ids[i] \in Int
        /\ s2.said[i] \in Seq(Nat)
    BY <1>1, IndexInt DEF Answer
  <2>2. ids[i] = i \/ ids[i] \in s2.begun \cap Tools
    BY <1>1 DEF GeminiIds
  <2> QED BY <2>1, <2>2 DEF Part, APart
<1>5. DOMAIN content = 1..c /\ \A k \in 1..c : content[k] = part(k - 1)
  BY <1>1
<1>6. content = [k \in 1..c |-> content[k]]
  BY <1>1
<1> HIDE DEF part
<1>7. content \in Seq(APart)
  <2>1. \A k \in 1..c : content[k] \in APart
    BY <1>3, <1>4, <1>5
  <2>2. [k \in 1..c |-> content[k]] \in Seq(APart)
    BY <1>2, <2>1, IsASeq
  <2> QED BY <1>6, <2>2
<1>8. \A x \in Range(content) : \E i \in s2.begun : x = part(i)
  BY <1>3, <1>5 DEF Range
<1>9. \A i \in s2.begun : part(i) \in Range(content)
  BY <1>3, <1>5 DEF Range
<1>10. {x.index : x \in Range(content)} = s2.begun
  <2>1. ASSUME NEW x \in Range(content) PROVE x.index \in s2.begun
    BY <1>4, <1>8
  <2>2. ASSUME NEW i \in s2.begun PROVE i \in {x.index : x \in Range(content)}
    <3>1. part(i) \in Range(content) /\ part(i).index = i
      BY <1>4, <1>9
    <3> QED BY <3>1
  <2> QED BY <2>1, <2>2
<1>11. ASSUME NEW x \in Range(content)
       PROVE  /\ x.index \in s2.begun /\ x.text = s2.said[x.index]
              /\ x.id = x.index \/ x.id \in s2.begun \cap Tools
  BY <1>4, <1>8
<1> QED BY <1>7, <1>10, <1>11

\* What Gemini's goroutine gathers and sends has the right types.
LEMMA GeminiSound ==
    ASSUME NEW srv \in Answer, NEW ac \in Gathered, Ordered(srv, ac), NEW n \in Nat,
           NEW e \in GeminiSends(srv), NEW r \in GeminiReads(ac, e, After(srv, e, n), n)
    PROVE  After(srv, e, n) \in Answer /\ Sound(r) /\ Ordered(After(srv, e, n), r.acc)
<1> DEFINE s2 == After(srv, e, n)
<1>1. /\ s2 \in Answer /\ s2.begun = 0..Cardinality(s2.begun) - 1 /\ Cardinality(s2.begun) \in Nat
  <2>1. srv.begun = 0..Cardinality(srv.begun) - 1
    BY DEF Ordered
  <2> QED BY <2>1, PartsCounted
<1>2. Made(r, e, srv, s2, ac)
  BY GeminiMakes
<1> HIDE DEF s2
<1>3. \A content \in GeminiResponses(s2) : content \in Seq(APart)
  BY <1>1, ResponseParts
<1>4. r.acc \in Gathered
  <2>1. r.acc = [known |-> s2.begun, text |-> ac.text, content |-> r.acc.content]
    BY <1>2 DEF Made
  <2>2. r.acc.content \in Seq(APart)
    BY <1>2, <1>3 DEF Made, Gathered
  <2>3. s2.begun \in SUBSET Index /\ ac.text \in [Index -> Seq(Nat)]
    BY <1>1 DEF Gathered, Answer
  <2> QED BY <2>1, <2>2, <2>3 DEF Gathered
<1>5. Ordered(s2, r.acc)
  BY <1>1, <1>2 DEF Ordered, Made
<1> QED BY <1>1, <1>2, <1>4, <1>5 DEF Sound, Made, s2

\* What Gemini's goroutine sends is what it makes the response of.
LEMMA GeminiTells ==
    ASSUME NEW srv \in Answer, NEW ac \in Gathered, Ordered(srv, ac), NEW n \in Nat,
           NEW e \in GeminiSends(srv), NEW r \in GeminiReads(ac, e, After(srv, e, n), n),
           NEW len \in Nat, NEW events, IsStream(events, len), PartsTold(events, srv)
    PROVE  LET more == Then(events, len, r.sends) IN
           /\ r.then = "more" => PartsTold(more, After(srv, e, n))
           /\ r.then = "respond" => Shows(more, r.acc.content, "gemini")
<1> DEFINE s2   == After(srv, e, n)
           more == Then(events, len, r.sends)
<1>1. /\ s2 \in Answer /\ s2.begun = 0..Cardinality(s2.begun) - 1 /\ Cardinality(s2.begun) \in Nat
      /\ srv.begun \subseteq s2.begun
      /\ e.type = "tokens" => s2 = srv
  <2>1. srv.begun = 0..Cardinality(srv.begun) - 1
    BY DEF Ordered
  <2> QED BY <2>1, PartsCounted
<1>2. Made(r, e, srv, s2, ac)
  BY GeminiMakes
<1>3. r.sends \in Seq(Sending)
  BY <1>2 DEF Made
<1> HIDE DEF s2
<1>4. PartsTold(more, s2)
  <2>1. CASE e.type = "tokens" /\ Quiet(Range(r.sends))
    <3>1. PartsTold(more, srv)
      BY <1>3, <2>1, QuietKeeps
    <3>2. s2 = srv
      BY <1>1, <2>1
    <3> HIDE DEF more
    <3> QED BY <3>1, <3>2
  <2>2. CASE Repeats(Range(r.sends), srv.begun, s2)
    <3>1. srv.begun \subseteq s2.begun
      BY <1>1
    <3> QED BY <1>3, <2>2, <3>1, RepeatsTell
  <2> QED BY <1>2, <2>1, <2>2 DEF Made
<1> HIDE DEF more
<1>5. ASSUME r.then = "respond" PROVE Shows(more, r.acc.content, "gemini")
  <2>1. r.acc.content \in GeminiResponses(s2)
    BY <1>2, <1>5 DEF Made
  <2>2. /\ {part.index : part \in Range(r.acc.content)} = s2.begun
        /\ \A part \in Range(r.acc.content) :
               /\ part.index \in s2.begun /\ part.text = s2.said[part.index]
               /\ part.id = part.index \/ part.id \in s2.begun \cap Tools
    BY <1>1, <2>1, ResponseParts
  <2>3. Started(more) = s2.begun /\ \A i \in s2.begun : SaidLast(more, i, s2.said[i])
    BY <1>4 DEF PartsTold
  <2>4. ASSUME NEW part \in Range(r.acc.content)
        PROVE  /\ SaidLast(more, part.index, part.text)
               /\ part.id = part.index \/ part.id \in Started(more) \cap Tools
    BY <2>2, <2>3
  <2> QED BY <2>2, <2>3, <2>4 DEF Shows
<1> QED BY <1>4, <1>5 DEF more, s2

-----------------------------------------------------------------------------
(***************************************************************************)
(* The events on their way: those the reader was given, those in the       *)
(* channel, and those about to be sent.                                    *)
(***************************************************************************)
OnTheWay(s, c, p) ==
    [k \in 1..Len(s) + Len(c) + Len(p) |->
        IF k <= Len(s) THEN s[k]
        ELSE IF k <= Len(s) + Len(c) THEN c[k - Len(s)]
        ELSE p[k - Len(s) - Len(c)].event]

\* An event that is put into the channel stays on its way.
LEMMA SentStays ==
    ASSUME NEW s \in Seq(Event), NEW c \in Seq(Event), NEW p \in Seq(Sending), p # << >>
    PROVE  OnTheWay(s, Append(c, Head(p).event), Tail(p)) = OnTheWay(s, c, p)
<1> DEFINE d == Append(c, Head(p).event)
           q == Tail(p)
<1>1. /\ Len(s) \in Nat /\ Len(c) \in Nat /\ Len(p) \in Nat /\ Len(p) # 0
      /\ Head(p) \in Sending /\ Head(p) = p[1]
      /\ Len(q) = Len(p) - 1 /\ \A k \in 1..Len(p) - 1 : q[k] = p[k + 1]
  BY LenProperties, EmptySeq, HeadTailProperties
<1>2. Head(p).event \in Event
  BY <1>1 DEF Sending
<1>3. Len(d) = Len(c) + 1 /\ d[Len(c) + 1] = p[1].event /\ \A k \in 1..Len(c) : d[k] = c[k]
  BY <1>1, <1>2, AppendProperties
<1> HIDE DEF d, q
<1>4. ASSUME NEW a \in Nat, NEW b \in Nat, NEW l \in Nat, l # 0
      PROVE  /\ a + (b + 1) + (l - 1) = a + b + l
             /\ \A k \in 1..a + b + l :
                    \/ k <= a
                    \/ ~(k <= a) /\ k <= a + b /\ k <= a + (b + 1) /\ k - a \in 1..b
                    \/ ~(k <= a) /\ ~(k <= a + b) /\ k <= a + (b + 1)
                         /\ k - a = b + 1 /\ k - a - b = 1
                    \/ ~(k <= a) /\ ~(k <= a + b) /\ ~(k <= a + (b + 1))
                         /\ k - a - (b + 1) \in 1..l - 1
                         /\ k - a - b = (k - a - (b + 1)) + 1
  BY <1>4
<1>7. PICK x \in Nat, y \in Nat, z \in Nat : x = Len(s) /\ y = Len(c) /\ z = Len(p) /\ z # 0
  BY <1>1
<1>8. \A k \in 1..x + y + z :
          \/ k <= x
          \/ /\ ~(k <= x) /\ k <= x + y /\ k <= x + (y + 1) /\ k - x \in 1..y
          \/ /\ ~(k <= x) /\ ~(k <= x + y) /\ k <= x + (y + 1)
             /\ k - x = y + 1 /\ k - x - y = 1
          \/ /\ ~(k <= x) /\ ~(k <= x + y) /\ ~(k <= x + (y + 1))
             /\ k - x - (y + 1) \in 1..z - 1
             /\ k - x - y = (k - x - (y + 1)) + 1
  BY <1>7
<1>6. \A k \in 1..Len(s) + Len(c) + Len(p) :
          \/ k <= Len(s)
          \/ /\ ~(k <= Len(s)) /\ k <= Len(s) + Len(c) /\ k <= Len(s) + (Len(c) + 1)
             /\ k - Len(s) \in 1..Len(c)
          \/ /\ ~(k <= Len(s)) /\ ~(k <= Len(s) + Len(c)) /\ k <= Len(s) + (Len(c) + 1)
             /\ k - Len(s) = Len(c) + 1 /\ k - Len(s) - Len(c) = 1
          \/ /\ ~(k <= Len(s)) /\ ~(k <= Len(s) + Len(c)) /\ ~(k <= Len(s) + (Len(c) + 1))
             /\ k - Len(s) - (Len(c) + 1) \in 1..Len(p) - 1
             /\ k - Len(s) - Len(c) = (k - Len(s) - (Len(c) + 1)) + 1
  BY <1>7, <1>8
<1>5. OnTheWay(s, d, q) = OnTheWay(s, c, p)
  <2>1. Len(s) + Len(d) + Len(q) = Len(s) + Len(c) + Len(p)
    BY <1>1, <1>3, <1>4
  <2>2. ASSUME NEW k \in 1..Len(s) + Len(c) + Len(p)
        PROVE  OnTheWay(s, d, q)[k] = OnTheWay(s, c, p)[k]
    <3>3. Len(d) = Len(c) + 1 /\ d[Len(c) + 1] = p[1].event
      BY <1>3
    <3>4. /\ k - Len(s) \in 1..Len(c) => d[k - Len(s)] = c[k - Len(s)]
          /\ k - Len(s) - (Len(c) + 1) \in 1..Len(p) - 1
                => q[k - Len(s) - (Len(c) + 1)] = p[(k - Len(s) - (Len(c) + 1)) + 1]
      BY <1>1, <1>3
    <3>1. \/ k <= Len(s)
          \/ /\ ~(k <= Len(s)) /\ k <= Len(s) + Len(c) /\ k <= Len(s) + Len(d)
             /\ d[k - Len(s)] = c[k - Len(s)]
          \/ /\ ~(k <= Len(s)) /\ ~(k <= Len(s) + Len(c)) /\ k <= Len(s) + Len(d)
             /\ d[k - Len(s)] = p[k - Len(s) - Len(c)].event
          \/ /\ ~(k <= Len(s)) /\ ~(k <= Len(s) + Len(c)) /\ ~(k <= Len(s) + Len(d))
             /\ q[k - Len(s) - Len(d)] = p[k - Len(s) - Len(c)]
      BY <1>6, <3>3, <3>4
    <3> QED BY <2>1, <3>1 DEF OnTheWay
  <2> QED BY <2>1, <2>2 DEF OnTheWay
<1> QED BY <1>5 DEF d, q

\* An event the turn is given is one it was on its way to.
LEMMA GivenStays ==
    ASSUME NEW s \in Seq(Event), NEW c \in Seq(Event), NEW p \in Seq(Sending), c # << >>
    PROVE  OnTheWay(Append(s, Head(c)), Tail(c), p) = OnTheWay(s, c, p)
<1> DEFINE t == Append(s, Head(c))
           d == Tail(c)
<1>1. /\ Len(s) \in Nat /\ Len(c) \in Nat /\ Len(p) \in Nat /\ Len(c) # 0
      /\ Head(c) \in Event /\ Head(c) = c[1]
      /\ Len(d) = Len(c) - 1 /\ \A k \in 1..Len(c) - 1 : d[k] = c[k + 1]
  BY LenProperties, EmptySeq, HeadTailProperties
<1>2. Len(t) = Len(s) + 1 /\ t[Len(s) + 1] = c[1] /\ \A k \in 1..Len(s) : t[k] = s[k]
  BY <1>1, AppendProperties
<1> HIDE DEF t, d
<1>3. ASSUME NEW a \in Nat, NEW b \in Nat, NEW l \in Nat, b # 0
      PROVE  /\ (a + 1) + (b - 1) + l = a + b + l
             /\ (a + 1) + (b - 1) = a + b
  BY <1>3
<1> DEFINE Place(a, b, k) ==
        \/ k <= a /\ k <= a + 1 /\ k \in 1..a
        \/ ~(k <= a) /\ k <= a + b /\ k <= a + 1 /\ k = a + 1 /\ k - a = 1
        \/ ~(k <= a) /\ ~(k <= a + 1) /\ k <= a + b
              /\ k - (a + 1) \in 1..b - 1 /\ k - a = (k - (a + 1)) + 1
        \/ ~(k <= a) /\ ~(k <= a + 1) /\ ~(k <= a + b)
              /\ k - (a + 1) - (b - 1) = k - a - b
<1>5. ASSUME NEW a \in Nat, NEW b \in Nat, NEW l \in Nat, b # 0, NEW k \in 1..a + b + l
      PROVE  Place(a, b, k)
  BY <1>5
<1> HIDE DEF Place
<1>4. OnTheWay(t, d, p) = OnTheWay(s, c, p)
  <2>1. /\ Len(t) + Len(d) + Len(p) = Len(s) + Len(c) + Len(p)
        /\ Len(t) + Len(d) = Len(s) + Len(c)
    BY <1>1, <1>2, <1>3
  <2>2. ASSUME NEW k \in 1..Len(s) + Len(c) + Len(p)
        PROVE  OnTheWay(t, d, p)[k] = OnTheWay(s, c, p)[k]
    <3>2. Place(Len(s), Len(c), k)
      BY <1>1, <1>5
    <3>3. Len(t) = Len(s) + 1 /\ Len(d) = Len(c) - 1 /\ t[Len(s) + 1] = c[1]
      BY <1>1, <1>2
    <3>4. /\ k \in 1..Len(s) => t[k] = s[k]
          /\ k - (Len(s) + 1) \in 1..Len(c) - 1
                => d[k - (Len(s) + 1)] = c[(k - (Len(s) + 1)) + 1]
      BY <1>1, <1>2
    <3>1. \/ k <= Len(s) /\ k <= Len(t) /\ t[k] = s[k]
          \/ ~(k <= Len(s)) /\ k <= Len(s) + Len(c) /\ k <= Len(t) /\ t[k] = c[k - Len(s)]
          \/ /\ ~(k <= Len(s)) /\ ~(k <= Len(t)) /\ k <= Len(s) + Len(c)
             /\ d[k - Len(t)] = c[k - Len(s)]
          \/ /\ ~(k <= Len(s)) /\ ~(k <= Len(t)) /\ ~(k <= Len(s) + Len(c))
             /\ k - Len(t) - Len(d) = k - Len(s) - Len(c)
      BY <3>2, <3>3, <3>4 DEF Place
    <3> QED BY <2>1, <3>1 DEF OnTheWay
  <2> QED BY <2>1, <2>2 DEF OnTheWay
<1> QED BY <1>4 DEF t, d

\* An event whose sending is given up is on its way no more, the others are.
LEMMA GivenUpGoes ==
    ASSUME NEW s \in Seq(Event), NEW c \in Seq(Event), NEW p \in Seq(Sending), p # << >>
    PROVE  LET n == Len(s) + Len(c) + Len(p)
               l == Len(s) + Len(c) + 1
           IN  /\ n \in Nat /\ l \in 1..n /\ OnTheWay(s, c, p)[l] = Head(p).event
               /\ Without(OnTheWay(s, c, Tail(p)), OnTheWay(s, c, p), n, l)
<1> DEFINE q == Tail(p)
           a == Len(s) + Len(c)
           less == OnTheWay(s, c, q)
           events == OnTheWay(s, c, p)
<1>1. /\ Len(s) \in Nat /\ Len(c) \in Nat /\ a \in Nat /\ Len(p) \in Nat /\ Len(p) # 0
      /\ Len(s) <= a
      /\ Head(p) = p[1] /\ Len(q) = Len(p) - 1 /\ \A k \in 1..Len(p) - 1 : q[k] = p[k + 1]
  BY LenProperties, EmptySeq, HeadTailProperties
<1> HIDE DEF q, a
<1>2. ASSUME NEW b \in Nat, NEW x \in Nat, NEW z \in Nat, z # 0, x <= b
      PROVE  /\ b + z \in Nat /\ b + 1 \in 1..b + z /\ b + (z - 1) = (b + z) - 1
             /\ ~(b + 1 <= x) /\ ~(b + 1 <= b)
             /\ \A k \in 1..(b + z) - 1 :
                    /\ k \in 1..b + z /\ k + 1 \in 1..b + z
                    /\ k < b + 1 => k <= b
                    /\ ~(k < b + 1) => /\ ~(k <= b) /\ ~(k + 1 <= b) /\ ~(k <= x) /\ ~(k + 1 <= x)
                                       /\ k - b \in 1..z - 1
                                       /\ k + 1 - b = (k - b) + 1
  BY <1>2
<1>3. ASSUME NEW x \in Nat, NEW y \in Nat
      PROVE  /\ (x + y) + 1 - x - y = 1
             /\ \A k \in Nat : k - x - y = k - (x + y) /\ k + 1 - x - y = k + 1 - (x + y)
  OBVIOUS
<1>4. DOMAIN events = 1..a + Len(p) /\ DOMAIN less = 1..(a + Len(p)) - 1
  BY <1>1, <1>2 DEF OnTheWay, a
<1>5. events[a + 1] = p[1].event
  <2>1. /\ a + 1 \in 1..a + Len(p) /\ ~(a + 1 <= Len(s)) /\ ~(a + 1 <= a)
        /\ a + 1 - Len(s) - Len(c) = 1
    BY <1>1, <1>2, <1>3 DEF a
  <2> QED BY <2>1 DEF OnTheWay, a
<1>6. ASSUME NEW k \in 1..(a + Len(p)) - 1
      PROVE  less[k] = IF k < a + 1 THEN events[k] ELSE events[k + 1]
  <2>1. /\ k \in 1..a + Len(p) /\ k + 1 \in 1..a + Len(p)
        /\ k < a + 1 => k <= a
        /\ ~(k < a + 1) => /\ ~(k <= a) /\ ~(k + 1 <= a) /\ ~(k <= Len(s)) /\ ~(k + 1 <= Len(s))
                           /\ k - a \in 1..Len(p) - 1 /\ k + 1 - a = (k - a) + 1
    BY <1>1, <1>2
  <2>2. k - Len(s) - Len(c) = k - a /\ k + 1 - Len(s) - Len(c) = k + 1 - a
    BY <1>1, <1>3 DEF a
  <2>3. k \in 1..a + Len(q) /\ a + Len(q) = (a + Len(p)) - 1
    BY <1>1, <1>2
  <2>4. CASE k < a + 1
    BY <2>1, <2>3, <2>4 DEF OnTheWay, a
  <2>5. CASE ~(k < a + 1)
    <3>1. less[k] = q[k - Len(s) - Len(c)].event
      BY <2>1, <2>3, <2>5 DEF OnTheWay, a
    <3>2. events[k + 1] = p[k + 1 - Len(s) - Len(c)].event
      BY <2>1, <2>5 DEF OnTheWay, a
    <3>3. q[k - a] = p[k + 1 - a]
      BY <1>1, <2>1, <2>5
    <3> QED BY <2>2, <2>5, <3>1, <3>2, <3>3
  <2> QED BY <2>4, <2>5
<1> HIDE DEF less, events
<1>7. Without(less, events, a + Len(p), a + 1)
  <2>1. DOMAIN events = 1..a + Len(p) /\ DOMAIN less = 1..(a + Len(p)) - 1
    BY <1>4
  <2>2. \A k \in 1..(a + Len(p)) - 1 : less[k] = IF k < a + 1 THEN events[k] ELSE events[k + 1]
    BY <1>6
  <2> QED BY <2>1, <2>2 DEF Without
<1>8. a + Len(p) \in Nat /\ a + 1 \in 1..a + Len(p)
  BY <1>1, <1>2
<1> QED BY <1>1, <1>5, <1>7, <1>8 DEF less, events, q, a

\* With nothing to send, the sends made of an event of the server come next.
LEMMA SendsComeNext ==
    ASSUME NEW s \in Seq(Event), NEW c \in Seq(Event), NEW sends \in Seq(Sending)
    PROVE  LET n == Len(s) + Len(c)
               events == OnTheWay(s, c, << >>)
           IN  /\ n \in Nat /\ IsStream(events, n)
               /\ OnTheWay(s, c, sends) = Then(events, n, sends)
<1> DEFINE n == Len(s) + Len(c)
           events == OnTheWay(s, c, << >>)
<1>1. /\ Len(s) \in Nat /\ Len(c) \in Nat /\ n \in Nat /\ Len(s) <= n /\ Len(sends) \in Nat
      /\ Len(<< >>) = 0 /\ n + 0 = n
  BY LenProperties
<1>2. /\ events = [k \in 1..n |-> IF k <= Len(s) THEN s[k] ELSE c[k - Len(s)]]
  <2>1. events = [k \in 1..n |->
                    IF k <= Len(s) THEN s[k] ELSE IF k <= n THEN c[k - Len(s)]
                                                  ELSE << >>[k - Len(s) - Len(c)].event]
    BY <1>1 DEF OnTheWay
  <2> HIDE DEF events, n
  <2>2. \A k \in 1..n : k <= n
    BY <1>1
  <2> QED BY <2>1, <2>2
<1>3. IsStream(events, n)
  <2> HIDE DEF events, n
  <2> QED BY <1>2 DEF IsStream
<1>4. OnTheWay(s, c, sends) = Then(events, n, sends)
  <2> HIDE DEF events
  <2>1. /\ DOMAIN OnTheWay(s, c, sends) = 1..n + Len(sends)
        /\ DOMAIN Then(events, n, sends) = 1..n + Len(sends)
    BY DEF OnTheWay, Then
  <2>2. ASSUME NEW k \in 1..n + Len(sends)
        PROVE  OnTheWay(s, c, sends)[k] = Then(events, n, sends)[k]
    <3>1. k <= Len(s) => k <= n
      BY <1>1
    <3>2. k <= n => k \in 1..n
      BY <1>1
    <3>3. k - Len(s) - Len(c) = k - n
      BY <1>1
    <3>4. CASE k <= n
      BY <1>2, <3>2, <3>4 DEF OnTheWay, Then
    <3>5. CASE ~(k <= n)
      BY <3>1, <3>3, <3>5 DEF OnTheWay, Then
    <3> QED BY <3>4, <3>5
  <2>3. /\ OnTheWay(s, c, sends) = [k \in 1..n + Len(sends) |-> OnTheWay(s, c, sends)[k]]
        /\ Then(events, n, sends) = [k \in 1..n + Len(sends) |-> Then(events, n, sends)[k]]
    BY DEF OnTheWay, Then
  <2> HIDE DEF n
  <2> QED BY <2>2, <2>3
<1> QED BY <1>1, <1>3, <1>4

\* At the end the reader was given everything.
LEMMA AllGiven ==
    ASSUME NEW s \in Seq(Event)
    PROVE  OnTheWay(s, << >>, << >>) = s
<1>1. Len(s) \in Nat /\ Len(<< >>) = 0 /\ Len(s) + 0 + 0 = Len(s) /\ s = [k \in 1..Len(s) |-> s[k]]
  BY LenProperties
<1>2. \A k \in 1..Len(s) : k <= Len(s)
  BY <1>1
<1> QED BY <1>1, <1>2 DEF OnTheWay

-----------------------------------------------------------------------------
(***************************************************************************)
(* An answer that is put into the stream at once.                          *)
(***************************************************************************)
\* Places of the three events of a part.
LEMMA ThreeForEach ==
    ASSUME NEW n \in Nat
    PROVE  /\ 3 * n \in Nat
           /\ \A k \in 1..3 * n : (k - 1) \div 3 \in 0..n - 1
           /\ \A j \in 0..n - 1 :
                  /\ 3 * j + 1 \in 1..3 * n /\ 3 * j + 2 \in 1..3 * n
                  /\ (3 * j + 1) % 3 = 1 /\ ((3 * j + 1) - 1) \div 3 = j
                  /\ (3 * j + 2) % 3 = 2 /\ ((3 * j + 2) - 1) \div 3 = j
           /\ \A k \in 1..3 * n : \A j \in 0..n - 1 :
                  k % 3 = 2 /\ (k - 1) \div 3 = j => k = 3 * j + 2
OBVIOUS

\* The channel and the response after such an answer of n parts.
Whole(n)   == << Plain("meta", NoBlock) >> \o WholeParts(n) \o << Plain("usage", NoBlock) >>
Content(n) == [i \in 1..n |-> Part(i - 1, i - 1, <<i>>)]

\* Each part is started, said and stopped in its turn.
LEMMA WholeEvents ==
    ASSUME NEW n \in Nat
    PROVE  /\ WholeParts(n) \in Seq(Event) /\ Len(WholeParts(n)) = 3 * n
           /\ \A k \in 1..3 * n :
                  /\ WholeParts(n)[k].type = IF k % 3 = 1 THEN "start"
                                             ELSE IF k % 3 = 2 THEN "delta" ELSE "stop"
                  /\ WholeParts(n)[k].index = (k - 1) \div 3
                  /\ k % 3 = 2 => WholeParts(n)[k].text = << (k - 1) \div 3 + 1 >>
<1> DEFINE W == WholeParts(n)
           at(k) == (k - 1) \div 3
           event(k) == CASE k % 3 = 1 -> Plain("start", at(k))
                         [] k % 3 = 2 -> StreamEvent("delta", at(k), << at(k) + 1 >>)
                         [] OTHER     -> Plain("stop", at(k))
<1>1. W = [k \in 1..3 * n |-> event(k)]
  BY DEF WholeParts
<1>2. 3 * n \in Nat /\ \A k \in 1..3 * n : at(k) \in Nat /\ at(k) \in Int /\ at(k) + 1 \in Nat
  <2>1. 3 * n \in Nat /\ \A k \in 1..3 * n : at(k) \in 0..n - 1
    BY ThreeForEach
  <2>2. \A j \in 0..n - 1 : j \in Nat /\ j \in Int /\ j + 1 \in Nat
    OBVIOUS
  <2> HIDE DEF at
  <2> QED BY <2>1, <2>2
<1> HIDE DEF at
<1>3. \A k \in 1..3 * n :
          \/ k % 3 = 1 /\ event(k) = Plain("start", at(k))
          \/ k % 3 = 2 /\ event(k) = StreamEvent("delta", at(k), << at(k) + 1 >>)
          \/ k % 3 # 1 /\ k % 3 # 2 /\ event(k) = Plain("stop", at(k))
  <2>1. 1 # 2
    OBVIOUS
  <2>2. ASSUME NEW k \in 1..3 * n
        PROVE  \/ k % 3 = 1 /\ event(k) = Plain("start", at(k))
               \/ k % 3 = 2 /\ event(k) = StreamEvent("delta", at(k), << at(k) + 1 >>)
               \/ k % 3 # 1 /\ k % 3 # 2 /\ event(k) = Plain("stop", at(k))
    BY <2>1
  <2> QED BY <2>2
<1> HIDE DEF event
<1>4. ASSUME NEW k \in 1..3 * n
      PROVE  /\ event(k) \in Event
             /\ event(k).type = IF k % 3 = 1 THEN "start"
                                ELSE IF k % 3 = 2 THEN "delta" ELSE "stop"
             /\ event(k).index = at(k)
             /\ k % 3 = 2 => event(k).text = << at(k) + 1 >>
  <2>1. << at(k) + 1 >> \in Seq(Nat) /\ at(k) \in Int
    BY <1>2
  <2>2. /\ Plain("start", at(k)) \in Event /\ Plain("stop", at(k)) \in Event
        /\ StreamEvent("delta", at(k), << at(k) + 1 >>) \in Event
    BY <2>1, EventTypes DEF Types
  <2>3. 1 # 2
    OBVIOUS
  <2> QED BY <1>3, <2>2, <2>3 DEF Plain, StreamEvent
<1>5. W = [k \in 1..3 * n |-> W[k]] /\ \A k \in 1..3 * n : W[k] = event(k)
  BY <1>1
<1> HIDE DEF W
<1>6. W \in Seq(Event) /\ Len(W) = 3 * n
  <2>1. \A k \in 1..3 * n : W[k] \in Event
    BY <1>4, <1>5
  <2>2. [k \in 1..3 * n |-> W[k]] \in Seq(Event)
    BY <1>2, <2>1, IsASeq
  <2>3. Len([k \in 1..3 * n |-> W[k]]) = 3 * n
    BY <1>2
  <2> QED BY <1>5, <2>2, <2>3
<1>7. \A k \in 1..3 * n :
          /\ W[k].type = IF k % 3 = 1 THEN "start" ELSE IF k % 3 = 2 THEN "delta" ELSE "stop"
          /\ W[k].index = at(k)
          /\ k % 3 = 2 => W[k].text = << at(k) + 1 >>
  BY <1>4, <1>5
<1> QED BY <1>6, <1>7 DEF W, at

\* The text of a part in one delta.
LEMMA SpelledAtOnce ==
    ASSUME NEW events, NEW i, NEW k \in Nat, NEW x, Deltas(events, i) = {k},
           events[k].text = << x >>
    PROVE  Spelled(events, i, << x >>)
<1>1. {j \in {k} : j <= k} = {k} /\ Cardinality({k}) = 1 /\ Len(<< x >>) = 1 /\ << x >>[1] = x
  BY FS_Singleton
<1> QED BY <1>1 DEF Spelled

\* The answer that is put into the stream is the one that is returned.
LEMMA WholeTells ==
    ASSUME NEW n \in Nat
    PROVE  /\ Whole(n) \in Seq(Event) /\ Content(n) \in Seq(APart)
           /\ Shows(Whole(n), Content(n), "whole")
<1> DEFINE W == WholeParts(n)
           meta == << Plain("meta", NoBlock) >>
           usage == << Plain("usage", NoBlock) >>
           two == meta \o W
           all == two \o usage
<1>1. /\ meta \in Seq(Event) /\ Len(meta) = 1 /\ meta[1].type = "meta"
      /\ usage \in Seq(Event) /\ Len(usage) = 1 /\ usage[1].type = "usage"
  <2>1. /\ Plain("meta", NoBlock) \in Event /\ Plain("meta", NoBlock).type = "meta"
        /\ Plain("usage", NoBlock) \in Event /\ Plain("usage", NoBlock).type = "usage"
    BY EventTypes, IndexInt DEF Types
  <2> QED BY <2>1
<1>2. /\ W \in Seq(Event) /\ Len(W) = 3 * n
      /\ \A k \in 1..3 * n :
             /\ W[k].type = IF k % 3 = 1 THEN "start" ELSE IF k % 3 = 2 THEN "delta" ELSE "stop"
             /\ W[k].index = (k - 1) \div 3
             /\ k % 3 = 2 => W[k].text = << (k - 1) \div 3 + 1 >>
  BY WholeEvents
<1>3. Whole(n) = all
  BY DEF Whole
<1> HIDE DEF W, meta, usage
<1>4. /\ two \in Seq(Event) /\ Len(two) = Len(meta) + Len(W)
      /\ \A k \in 1..Len(meta) + Len(W) :
             two[k] = IF k <= Len(meta) THEN meta[k] ELSE W[k - Len(meta)]
  <2>1. meta \in Seq(Event) /\ W \in Seq(Event)
    BY <1>1, <1>2
  <2> QED BY <2>1, ConcatProperties, Zenon
<1> HIDE DEF two
<1>5. /\ all \in Seq(Event) /\ Len(all) = Len(two) + Len(usage)
      /\ \A k \in 1..Len(two) + Len(usage) :
             all[k] = IF k <= Len(two) THEN two[k] ELSE usage[k - Len(two)]
  <2>1. two \in Seq(Event) /\ usage \in Seq(Event)
    BY <1>1, <1>4
  <2> QED BY <2>1, ConcatProperties, Zenon
<1>6. DOMAIN all = 1..Len(all)
  BY <1>5, LenProperties
<1> HIDE DEF all
<1>7. /\ DOMAIN all = 1..3 * n + 2 /\ 3 * n \in Nat
      /\ all[1].type = "meta" /\ all[3 * n + 2].type = "usage"
      /\ \A k \in 1..3 * n : all[k + 1] = W[k]
  <2>1. 3 * n \in Nat /\ (1 + 3 * n) + 1 = 3 * n + 2
    BY ThreeForEach
  <2>2. Len(two) = 1 + 3 * n /\ Len(all) = 3 * n + 2
    BY <1>1, <1>2, <1>4, <1>5, <2>1
  <2>3. \A k \in 1..1 + 3 * n : two[k] = IF k <= 1 THEN meta[k] ELSE W[k - 1]
    BY <1>1, <1>2, <1>4
  <2>4. \A k \in 1..3 * n + 2 : all[k] = IF k <= 1 + 3 * n THEN two[k] ELSE usage[k - (1 + 3 * n)]
    BY <1>1, <1>5, <2>1, <2>2
  <2>5. PICK m \in Nat : m = 3 * n
    BY <2>1
  <2>6. /\ 1 \in 1..m + 2 /\ 1 <= 1 + m /\ 1 \in 1..1 + m /\ 1 <= 1
        /\ m + 2 \in 1..m + 2 /\ ~(m + 2 <= 1 + m) /\ m + 2 - (1 + m) = 1
        /\ \A k \in 1..m : k + 1 \in 1..m + 2 /\ k + 1 <= 1 + m /\ k + 1 \in 1..1 + m
                              /\ ~(k + 1 <= 1) /\ (k + 1) - 1 = k
    OBVIOUS
  <2>7. all[1] = meta[1] /\ all[3 * n + 2] = usage[1]
    BY <2>3, <2>4, <2>5, <2>6
  <2>8. \A k \in 1..3 * n : all[k + 1] = W[k]
    BY <2>3, <2>4, <2>5, <2>6
  <2> QED BY <1>1, <1>6, <2>1, <2>2, <2>7, <2>8
<1>8. PICK m \in Nat : m = 3 * n
  BY <1>7
<1>9. /\ \A k \in 1..m + 2 : k = 1 \/ k = m + 2 \/ (k - 1 \in 1..m /\ k = (k - 1) + 1)
      /\ \A k \in 1..m : k + 1 \in 1..m + 2 /\ (k + 1) - 1 = k
  OBVIOUS
<1>10. /\ \A k \in 1..m : (k - 1) \div 3 \in 0..n - 1
       /\ \A j \in 0..n - 1 :
              /\ 3 * j + 1 \in 1..m /\ 3 * j + 2 \in 1..m
              /\ (3 * j + 1) % 3 = 1 /\ ((3 * j + 1) - 1) \div 3 = j
              /\ (3 * j + 2) % 3 = 2 /\ ((3 * j + 2) - 1) \div 3 = j
       /\ \A k \in 1..m : \A j \in 0..n - 1 : k % 3 = 2 /\ (k - 1) \div 3 = j => k = 3 * j + 2
  BY <1>8, ThreeForEach
<1>11. ASSUME NEW k \in DOMAIN all, all[k].type \in {"start", "delta"}
       PROVE  k - 1 \in 1..m /\ k = (k - 1) + 1 /\ all[k] = W[k - 1]
  <2>1. k # 1 /\ k # m + 2
    BY <1>7, <1>8, <1>11
  <2>2. k - 1 \in 1..m /\ k = (k - 1) + 1
    BY <1>7, <1>8, <1>9, <2>1
  <2> QED BY <1>7, <1>8, <2>2
<1>12. Started(all) = 0..n - 1
  <2>1. ASSUME NEW k \in DOMAIN all, all[k].type = "start" PROVE all[k].index \in 0..n - 1
    <3>1. k - 1 \in 1..m /\ all[k] = W[k - 1]
      BY <1>11, <2>1
    <3>2. all[k].index = ((k - 1) - 1) \div 3
      BY <1>2, <1>8, <3>1
    <3> QED BY <1>10, <3>1, <3>2
  <2>2. ASSUME NEW j \in 0..n - 1 PROVE j \in Started(all)
    <3> DEFINE k == 3 * j + 1
    <3>1. k \in 1..m /\ k % 3 = 1 /\ (k - 1) \div 3 = j
      BY <1>10
    <3> HIDE DEF k
    <3>2. W[k].type = "start" /\ W[k].index = j
      BY <1>2, <1>8, <3>1
    <3>3. k + 1 \in DOMAIN all /\ all[k + 1] = W[k]
      BY <1>7, <1>8, <1>9, <3>1
    <3> QED BY <3>2, <3>3 DEF Started
  <2>3. \A j \in Started(all) : j \in 0..n - 1
    BY <2>1 DEF Started
  <2> QED BY <2>2, <2>3
<1>13. ASSUME NEW j \in 0..n - 1 PROVE Spelled(all, j, << j + 1 >>)
  <2> DEFINE k == 3 * j + 2
  <2>1. k \in 1..m /\ k % 3 = 2 /\ (k - 1) \div 3 = j
    BY <1>10
  <2>2. \A l \in 1..m : l % 3 = 2 /\ (l - 1) \div 3 = j => l = k
    BY <1>10
  <2> HIDE DEF k
  <2>3. W[k].type = "delta" /\ W[k].index = j /\ W[k].text = << j + 1 >>
    <3>1. 1 # 2
      OBVIOUS
    <3> QED BY <1>2, <1>8, <2>1, <3>1
  <2>4. k + 1 \in DOMAIN all /\ all[k + 1] = W[k] /\ k + 1 \in Nat
    BY <1>7, <1>8, <1>9, <2>1
  <2>5. ASSUME NEW l \in DOMAIN all, all[l].type = "delta", all[l].index = j PROVE l = k + 1
    <3>1. l - 1 \in 1..m /\ l = (l - 1) + 1 /\ all[l] = W[l - 1]
      BY <1>11, <2>5
    <3>2. (l - 1) % 3 = 2 /\ ((l - 1) - 1) \div 3 = j
      BY <1>2, <1>8, <2>5, <3>1
    <3>3. l - 1 = k
      BY <2>2, <3>1, <3>2
    <3> QED BY <3>1, <3>3
  <2>6. Deltas(all, j) = {k + 1}
    BY <2>3, <2>4, <2>5 DEF Deltas
  <2> QED BY <2>3, <2>4, <2>6, SpelledAtOnce
<1>14. /\ Content(n) \in Seq(APart)
       /\ \A part \in Range(Content(n)) :
              part.index \in 0..n - 1 /\ part.id = part.index /\ part.text = << part.index + 1 >>
       /\ \A j \in 0..n - 1 : \E part \in Range(Content(n)) : part.index = j
  <2>1. \A i \in 1..n : /\ i - 1 \in 0..n - 1 /\ i - 1 \in Int /\ i \in Nat /\ (i - 1) + 1 = i
    OBVIOUS
  <2>2. \A j \in 0..n - 1 : j + 1 \in 1..n /\ (j + 1) - 1 = j
    OBVIOUS
  <2>3. ASSUME NEW i \in 1..n
        PROVE  /\ Content(n)[i] \in APart /\ Content(n)[i].index = i - 1
               /\ Content(n)[i].id = i - 1 /\ Content(n)[i].text = << i >>
    <3>1. Content(n)[i] = Part(i - 1, i - 1, << i >>)
      BY DEF Content
    <3>2. << i >> \in Seq(Nat)
      BY <2>1
    <3> QED BY <2>1, <3>1, <3>2 DEF Part, APart
  <2>4. Content(n) = [i \in 1..n |-> Content(n)[i]] /\ DOMAIN Content(n) = 1..n
    BY DEF Content
  <2>5. [i \in 1..n |-> Content(n)[i]] \in Seq(APart)
    BY <2>3, IsASeq
  <2>6. ASSUME NEW part \in Range(Content(n))
        PROVE  part.index \in 0..n - 1 /\ part.id = part.index /\ part.text = << part.index + 1 >>
    <3>1. PICK i \in 1..n : part = Content(n)[i]
      BY <2>4 DEF Range
    <3>2. part.index = i - 1 /\ part.id = i - 1 /\ part.text = << i >>
      BY <2>3, <3>1
    <3> QED BY <2>1, <3>2
  <2>7. ASSUME NEW j \in 0..n - 1 PROVE \E part \in Range(Content(n)) : part.index = j
    <3>1. j + 1 \in 1..n /\ (j + 1) - 1 = j
      BY <2>2
    <3>2. Content(n)[j + 1].index = j /\ Content(n)[j + 1] \in Range(Content(n))
      BY <2>3, <2>4, <3>1 DEF Range
    <3> QED BY <3>2
  <2> QED BY <2>4, <2>5, <2>6, <2>7
<1>15. Shows(all, Content(n), "whole")
  <2>1. {part.index : part \in Range(Content(n))} = Started(all)
    BY <1>12, <1>14
  <2>2. ASSUME NEW part \in Range(Content(n))
        PROVE  Spelled(all, part.index, part.text) /\ part.id = part.index
    BY <1>13, <1>14
  <2> QED BY <2>1, <2>2 DEF Shows
<1> QED BY <1>3, <1>5, <1>14, <1>15

-----------------------------------------------------------------------------
(***************************************************************************)
(* What the reader of the stream was given is what the turn returns.       *)
(***************************************************************************)
\* What is in the variables while the turn runs.
Typed ==
    /\ provider \in {"anthropic", "openai", "gemini", "whole"}
    /\ given \in Seq(Event) /\ ch \in Seq(Event) /\ pending \in Seq(Sending) /\ Careful(pending)
    /\ received \in Nat /\ server \in Answer /\ acc \in Gathered
    /\ provider = "gemini" => Ordered(server, acc)
    /\ err \in {"none", "retryable", "fatal", "abort"}

\* The events on their way say what the goroutine has gathered so far.
Events == OnTheWay(given, ch, pending)

Told == IF provider = "gemini" THEN PartsTold(Events, server)
        ELSE BlocksTold(provider, Events, server, acc)

\* The events on their way show the response, and so do those the turn was given.
Complete == Shows(Events, acc.content, provider)
GivenAll == Shows(given, acc.content, provider)

\* Nothing has happened before the stream is open; while the turn reads, the
\* events on their way, those it was given included, say what was gathered, and
\* when the answer is complete they say all of it.
InStep ==
    /\ reader \in {"opening", "backoff"} =>
          /\ given = << >> /\ ch = << >> /\ pending = << >>
          /\ server = NoAnswer /\ acc = EmptyAcc
    /\ reader \in {"opening", "backoff", "reading"} => outcome = "none"
    /\ resp => closed
    /\ provider = "whole" => producer \in {"none", "ended"} /\ pending = << >>
    /\ producer = "none" => reader \in {"opening", "backoff", "ended"}
    /\ reader = "reading" /\ producer = "more" => Told
    /\ reader = "reading" /\ (producer = "respond" \/ resp) => Complete
    /\ outcome = "response" => closed /\ GivenAll

\* An event of the server is told as it is gathered.
LEMMA ReceiveTells ==
    ASSUME Typed, Receive
    PROVE  /\ Typed' /\ producer' \in {"more", "respond", "fail"}
           /\ Told => /\ producer' = "more" => Told'
                      /\ producer' = "respond" => Complete'
<1> DEFINE n == received'
           len == Len(given) + Len(ch)
<1>1. /\ given \in Seq(Event) /\ ch \in Seq(Event)
      /\ received \in Nat /\ server \in Answer /\ acc \in Gathered
      /\ provider = "gemini" => Ordered(server, acc)
      /\ err \in {"none", "retryable", "fatal", "abort"}
  BY DEF Typed
<1>2. /\ received' = received + 1 /\ pending = << >>
      /\ provider' = provider /\ given' = given /\ ch' = ch /\ err' = err
  BY DEF Receive, turnVars, streamVars
<1>3. n \in Nat
  BY <1>1, <1>2
<1>4. PICK e \in ServerSends :
          /\ server' = After(server, e, n)
          /\ \E reads \in MakesOf(e, server', n) :
                 acc' = reads.acc /\ pending' = reads.sends /\ producer' = reads.then
  BY DEF Receive
<1>5. PICK r \in MakesOf(e, server', n) :
          acc' = r.acc /\ pending' = r.sends /\ producer' = r.then
  BY <1>4
<1>6. /\ len \in Nat /\ IsStream(Events, len)
      /\ \A sends \in Seq(Sending) : OnTheWay(given, ch, sends) = Then(Events, len, sends)
  <2>1. << >> \in Seq(Sending)
    BY EmptySeq
  <2>2. Events = OnTheWay(given, ch, << >>)
    BY <1>2 DEF Events
  <2> QED BY <1>1, <2>1, <2>2, SendsComeNext
<1>7. r.sends \in Seq(Sending) => Events' = Then(Events, len, r.sends)
  <2>1. Events' = OnTheWay(given, ch, r.sends)
    BY <1>2, <1>5 DEF Events
  <2> QED BY <1>6, <2>1
<1>8. ASSUME After(server, e, n) \in Answer, Sound(r),
             provider = "gemini" => Ordered(server', r.acc)
      PROVE  Typed' /\ producer' \in {"more", "respond", "fail"}
  <2>1. server' \in Answer /\ acc' \in Gathered /\ pending' \in Seq(Sending) /\ Careful(pending')
    BY <1>4, <1>5, <1>8 DEF Sound
  <2>2. provider' \in {"anthropic", "openai", "gemini", "whole"}
    BY <1>2 DEF Typed
  <2>3. provider' = "gemini" => Ordered(server', acc')
    BY <1>2, <1>5, <1>8
  <2>4. producer' \in {"more", "respond", "fail"}
    BY <1>5, <1>8 DEF Sound
  <2> QED BY <1>1, <1>2, <1>3, <2>1, <2>2, <2>3, <2>4 DEF Typed
<1>9. CASE provider = "anthropic"
  <2>1. e \in AnthropicSends(server) /\ r \in AnthropicReads(acc, e, n)
    BY <1>5, <1>9 DEF ServerSends, MakesOf
  <2>2. After(server, e, n) \in Answer /\ Sound(r)
    BY <1>1, <1>3, <2>1, AnthropicSound
  <2>3. Events' = Then(Events, len, r.sends)
    BY <1>7, <2>2 DEF Sound
  <2> HIDE DEF len, n
  <2>4. ASSUME Told
        PROVE  /\ r.then = "more" => BlocksTold("anthropic", Then(Events, len, r.sends),
                                                 After(server, e, n), r.acc)
               /\ r.then = "respond" =>
                      Shows(Then(Events, len, r.sends), r.acc.content, "anthropic")
    <3>1. BlocksTold("anthropic", Events, server, acc)
      BY <1>9, <2>4 DEF Told
    <3> QED BY <1>1, <1>3, <1>6, <2>1, <3>1, AnthropicTells
  <2>5. Typed' /\ producer' \in {"more", "respond", "fail"}
    BY <1>8, <1>9, <2>2
  <2> QED BY <1>2, <1>4, <1>5, <1>9, <2>3, <2>4, <2>5 DEF Told, Complete
<1>10. CASE provider = "openai"
  <2>1. e \in OpenAISends(server) /\ r \in OpenAIReads(acc, e, After(server, e, n), n)
    BY <1>4, <1>5, <1>10 DEF ServerSends, MakesOf
  <2>2. After(server, e, n) \in Answer /\ Sound(r)
    BY <1>1, <1>3, <2>1, OpenAISound
  <2>3. Events' = Then(Events, len, r.sends)
    BY <1>7, <2>2 DEF Sound
  <2> HIDE DEF len, n
  <2>4. ASSUME Told
        PROVE  /\ r.then = "more" =>
                      BlocksTold("openai", Then(Events, len, r.sends), After(server, e, n), r.acc)
               /\ r.then = "respond" => Shows(Then(Events, len, r.sends), r.acc.content, "openai")
    <3>1. BlocksTold("openai", Events, server, acc)
      BY <1>10, <2>4 DEF Told
    <3> QED BY <1>1, <1>3, <1>6, <2>1, <3>1, OpenAITells
  <2>5. Typed' /\ producer' \in {"more", "respond", "fail"}
    BY <1>8, <1>10, <2>2
  <2> QED BY <1>2, <1>4, <1>5, <1>10, <2>3, <2>4, <2>5 DEF Told, Complete
<1>11. CASE provider = "gemini"
  <2>1. e \in GeminiSends(server) /\ r \in GeminiReads(acc, e, After(server, e, n), n)
    BY <1>4, <1>5, <1>11 DEF ServerSends, MakesOf
  <2>2. Ordered(server, acc)
    BY <1>1, <1>11
  <2>3. After(server, e, n) \in Answer /\ Sound(r) /\ Ordered(After(server, e, n), r.acc)
    BY <1>1, <1>3, <2>1, <2>2, GeminiSound
  <2>4. Events' = Then(Events, len, r.sends)
    BY <1>7, <2>3 DEF Sound
  <2> HIDE DEF len, n
  <2>5. ASSUME Told
        PROVE  /\ r.then = "more" => PartsTold(Then(Events, len, r.sends), After(server, e, n))
               /\ r.then = "respond" => Shows(Then(Events, len, r.sends), r.acc.content, "gemini")
    <3>1. PartsTold(Events, server)
      BY <1>11, <2>5 DEF Told
    <3> QED BY <1>1, <1>3, <1>6, <2>1, <2>2, <3>1, GeminiTells
  <2>6. Typed' /\ producer' \in {"more", "respond", "fail"}
    BY <1>4, <1>8, <2>3
  <2> QED BY <1>2, <1>4, <1>5, <1>11, <2>4, <2>5, <2>6 DEF Told, Complete
<1> QED BY <1>4, <1>9, <1>10, <1>11 DEF ServerSends, Typed

\* Before anything was said, nothing is told, and that is all there is.
LEMMA NothingTold ==
    ASSUME provider \in {"anthropic", "openai", "gemini"},
           given = << >>, ch = << >>, pending = << >>,
           server = NoAnswer, acc = EmptyAcc
    PROVE  Told
<1>1. Events = << >> /\ DOMAIN Events = {}
  <2>1. Events = << >>
    BY EmptySeq, AllGiven DEF Events
  <2>2. Len(<< >>) = 0 /\ << >> \in Seq(Nat)
    BY EmptySeq
  <2>3. DOMAIN << >> = {}
    BY <2>2, LenProperties
  <2> QED BY <2>1, <2>3
<1>2. /\ Started(Events) = {} /\ \A i : Spelled(Events, i, << >>)
  BY <1>1, NothingGiven
<1>3. /\ server.begun = {} /\ server.stopped = {} /\ server.parted = {}
      /\ \A i \in Index : server.said[i] = << >>
      /\ acc.known = {} /\ acc.content = << >>
  BY DEF NoAnswer, EmptyAcc
<1>4. Range(acc.content) = {}
  <2>1. DOMAIN << >> = {}
    BY <1>1
  <2> QED BY <1>3, <2>1 DEF Range
<1>5. PartsTold(Events, server)
  BY <1>2, <1>3 DEF PartsTold
<1>6. BlocksTold(provider, Events, server, acc)
  BY <1>2, <1>3, <1>4 DEF BlocksTold
<1> QED BY <1>5, <1>6 DEF Told

\* What says nothing may be lost.
LEMMA LossTells ==
    ASSUME Typed, pending # << >>, ~Head(pending).must,
           pending' = Tail(pending), given' = given, ch' = ch, server' = server, acc' = acc,
           provider' = provider
    PROVE  (Told => Told') /\ (Complete => Complete')
<1>1. given \in Seq(Event) /\ ch \in Seq(Event) /\ pending \in Seq(Sending) /\ Careful(pending)
  BY DEF Typed
<1>2. Head(pending).event.type \notin {"start", "delta"}
  <2>1. Head(pending) = pending[1] /\ 1 \in DOMAIN pending
    BY <1>1, LenProperties, EmptySeq
  <2> QED BY <1>1, <2>1 DEF Careful
<1> DEFINE n == Len(given) + Len(ch) + Len(pending)
           l == Len(given) + Len(ch) + 1
<1>3. /\ n \in Nat /\ l \in 1..n /\ Events[l] = Head(pending).event
      /\ Without(Events', Events, n, l)
  <2>1. Events' = OnTheWay(given, ch, Tail(pending))
    BY DEF Events
  <2> QED BY <1>1, <2>1, GivenUpGoes DEF Events
<1> HIDE DEF n, l
<1>4. /\ Started(Events') = Started(Events)
      /\ \A i, text : Spelled(Events, i, text) => Spelled(Events', i, text)
      /\ \A i, text : SaidLast(Events, i, text) => SaidLast(Events', i, text)
  BY <1>2, <1>3, OneLess
<1>5. Told => Told'
  <2>1. PartsTold(Events, server) => PartsTold(Events', server)
    BY <1>4 DEF PartsTold
  <2>2. BlocksTold(provider, Events, server, acc) => BlocksTold(provider, Events', server, acc)
    BY <1>4 DEF BlocksTold
  <2> QED BY <2>1, <2>2 DEF Told
<1>6. Complete => Complete'
  BY <1>4 DEF Complete, Shows
<1> QED BY <1>5, <1>6

\* What stays on its way stays told.
LEMMA StaysTold ==
    ASSUME Events' = Events, provider' = provider, server' = server, acc' = acc
    PROVE  (Told => Told') /\ (Complete => Complete')
BY DEF Told, Complete

\* The rest of the sends is as careful as all of them.
LEMMA TailIsCareful ==
    ASSUME NEW sends \in Seq(Sending), sends # << >>, Careful(sends)
    PROVE  Careful(Tail(sends))
<1> DEFINE rest == Tail(sends)
<1>1. /\ rest \in Seq(Sending) /\ Len(rest) = Len(sends) - 1 /\ Len(sends) \in Nat
      /\ \A k \in 1..Len(rest) : rest[k] = sends[k + 1]
  BY HeadTailProperties, LenProperties
<1>2. DOMAIN sends = 1..Len(sends) /\ DOMAIN rest = 1..Len(rest)
  BY <1>1, LenProperties
<1> HIDE DEF rest
<1>3. \A k \in DOMAIN rest : k + 1 \in DOMAIN sends /\ rest[k] = sends[k + 1]
  BY <1>1, <1>2
<1>4. Careful(rest)
  BY <1>3 DEF Careful
<1> QED BY <1>4 DEF rest

\* A turn begins with nothing said.
LEMMA TypedAtFirst == Init => Typed
<1> SUFFICES ASSUME Init PROVE Typed
  OBVIOUS
<1>1. /\ provider \in {"anthropic", "openai", "gemini", "whole"}
      /\ given = << >> /\ ch = << >> /\ pending = << >> /\ received = 0 /\ err = "none"
      /\ server = NoAnswer /\ acc = EmptyAcc
  BY StreamAssumption DEF Init
<1>2. << >> \in Seq(Event) /\ << >> \in Seq(Sending) /\ << >> \in Seq(Nat) /\ << >> \in Seq(APart)
  BY EmptySeq
<1>3. Careful(pending)
  <2>1. DOMAIN << >> = {}
    OBVIOUS
  <2> QED BY <1>1, <2>1 DEF Careful
<1>4. NoAnswer \in Answer /\ EmptyAcc \in Gathered
  BY <1>2 DEF NoAnswer, EmptyAcc, Answer, Gathered
<1>5. Ordered(server, acc)
  <2>1. Cardinality({}) = 0 /\ 0..0 - 1 = {}
    BY FS_EmptySet
  <2> QED BY <1>1, <2>1 DEF Ordered, NoAnswer, EmptyAcc
<1> QED BY <1>1, <1>2, <1>3, <1>4, <1>5 DEF Typed

\* And nothing is told.
LEMMA InStepAtFirst == Init => InStep
BY DEF Init, InStep

\* An answer put into the stream at once is told at once.
LEMMA WholeOpens ==
    ASSUME Typed, InStep, NEW n \in 0..Cardinality(Index), OpenedWhole(n)
    PROVE  Typed' /\ Complete'
<1>1. /\ reader = "opening" /\ provider = "whole" /\ provider' = provider
      /\ acc' = [acc EXCEPT !.content = Content(n)] /\ ch' = Whole(n)
      /\ given' = given /\ pending' = pending /\ received' = received /\ server' = server
      /\ err' = "none"
  BY DEF OpenedWhole, Finish, Content, Whole
<1>2. n \in Nat
  BY IndexAssumption, FS_CardinalityType
<1>3. Whole(n) \in Seq(Event) /\ Content(n) \in Seq(APart) /\ Shows(Whole(n), Content(n), "whole")
  BY <1>2, WholeTells
<1>4. given = << >> /\ pending = << >>
  BY <1>1 DEF InStep
<1>5. acc' \in Gathered /\ acc'.content = Content(n)
  BY <1>1, <1>3 DEF Typed, Gathered
<1>6. Typed'
  BY <1>1, <1>3, <1>5 DEF Typed
<1>7. Events' = Whole(n)
  <2>1. << >> \in Seq(Event) /\ Len(<< >>) = 0 /\ Whole(n) \in Seq(Event)
    BY <1>3, EmptySeq
  <2>2. OnTheWay(<< >>, Whole(n), << >>) = Whole(n)
    <3>1. Len(Whole(n)) \in Nat /\ Whole(n) = [k \in 1..Len(Whole(n)) |-> Whole(n)[k]]
      BY <2>1, LenProperties
    <3> DEFINE m == Len(Whole(n))
    <3>2. 0 + m + 0 = m /\ 0 + m = m /\ \A k \in 1..m : ~(k <= 0) /\ k <= m /\ k - 0 = k
      BY <3>1
    <3> QED BY <2>1, <3>1, <3>2 DEF OnTheWay
  <2> QED BY <1>1, <1>4, <2>2 DEF Events
<1>8. Complete'
  BY <1>1, <1>3, <1>5, <1>7 DEF Complete
<1> QED BY <1>6, <1>8

\* Every step leaves the variables in their range.
LEMMA TypedStays ==
    ASSUME Typed, InStep, [Next]_vars
    PROVE  Typed'
<1> USE DEF turnVars, readVars, streamVars
<1>1. CASE Receive
  BY <1>1, ReceiveTells
<1>2. ASSUME NEW n \in 0..Cardinality(Index), OpenedWhole(n) PROVE Typed'
  BY <1>2, WholeOpens
<1>3. CASE Sent
  <2>1. /\ pending # << >> /\ ch' = Append(ch, Head(pending).event) /\ pending' = Tail(pending)
        /\ UNCHANGED << provider, given, received, server, acc, err >>
    BY <1>3 DEF Sent
  <2>2. /\ ch \in Seq(Event) /\ pending \in Seq(Sending) /\ Careful(pending)
    BY DEF Typed
  <2>3. Head(pending).event \in Event /\ Tail(pending) \in Seq(Sending)
    <3>1. Head(pending) \in Sending /\ Tail(pending) \in Seq(Sending)
      BY <2>1, <2>2, HeadTailProperties
    <3> QED BY <3>1 DEF Sending
  <2>4. Append(ch, Head(pending).event) \in Seq(Event)
    BY <2>2, <2>3, AppendProperties
  <2>5. Careful(Tail(pending))
    BY <2>1, <2>2, TailIsCareful
  <2> QED BY <2>1, <2>3, <2>4, <2>5 DEF Typed
<1>4. CASE SendGivesUp
  <2>1. /\ pending # << >> /\ pending' = Tail(pending)
        /\ UNCHANGED << provider, given, ch, received, server, acc, err >>
    BY <1>4 DEF SendGivesUp
  <2>2. pending \in Seq(Sending) /\ Careful(pending)
    BY DEF Typed
  <2>3. Tail(pending) \in Seq(Sending) /\ Careful(Tail(pending))
    BY <2>1, <2>2, HeadTailProperties, TailIsCareful
  <2> QED BY <2>1, <2>3 DEF Typed
<1>5. CASE NextGives
  <2>1. /\ ch # << >> /\ ch' = Tail(ch) /\ given' = Append(given, Head(ch))
        /\ UNCHANGED << provider, pending, received, server, acc, err >>
    BY <1>5 DEF NextGives
  <2>2. ch \in Seq(Event) /\ given \in Seq(Event)
    BY DEF Typed
  <2>3. Head(ch) \in Event /\ Tail(ch) \in Seq(Event)
    BY <2>1, <2>2, HeadTailProperties
  <2>4. Append(given, Head(ch)) \in Seq(Event)
    BY <2>2, <2>3, AppendProperties
  <2> QED BY <2>1, <2>3, <2>4 DEF Typed
<1>6. CASE CloseDrains
  <2>1. /\ ch # << >> /\ ch' = Tail(ch)
        /\ UNCHANGED << provider, given, pending, received, server, acc, err >>
    BY <1>6 DEF CloseDrains
  <2>2. Tail(ch) \in Seq(Event)
    BY <2>1, HeadTailProperties DEF Typed
  <2> QED BY <2>1, <2>2 DEF Typed
<1>7. CASE UNCHANGED << provider, given, ch, pending, received, server, acc, err >>
  BY <1>7 DEF Typed
<1>8. ASSUME UNCHANGED << provider, given, ch, pending, received, server, acc >>,
             err' \in {"none", "retryable", "fatal", "abort"}
      PROVE  Typed'
  BY <1>8 DEF Typed
<1>9. ASSUME NEW how \in {"eof", "broken"}, BodyEnds(how) PROVE Typed'
  BY <1>8, <1>9 DEF BodyEnds, Finish
<1>10. CASE FinishResponded \/ FinishFailed
  BY <1>8, <1>10 DEF FinishResponded, FinishFailed, Finish
<1>11. err \in {"none", "retryable", "fatal", "abort"}
  BY DEF Typed
<1>12. CASE BackoffEnds
  BY <1>8, <1>11, <1>12 DEF BackoffEnds, GiveUp, Finish
<1>13. ASSUME NEW cause \in Causes, OpeningFails(cause) PROVE Typed'
  BY <1>8, <1>11, <1>13 DEF OpeningFails, GiveUp, Finish, Kind
<1>14. CASE Cancel \/ Opened \/ NextIsLast \/ StopEarly \/ CloseCancels \/ CloseReturns
  BY <1>7, <1>14 DEF Cancel, Opened, NextIsLast, StopEarly, CloseCancels, CloseReturns
<1>15. CASE UNCHANGED vars
  BY <1>7, <1>15 DEF vars
<1> QED BY <1>1, <1>2, <1>3, <1>4, <1>5, <1>6, <1>9, <1>10, <1>12, <1>13, <1>14, <1>15
           DEF Next, Produce, Read, Turn, Open

\* A step of an open stream keeps it told.
LEMMA InStepStays ==
    ASSUME Typed, FinishedLast, InStep, [Next]_vars
    PROVE  InStep'
<1> USE DEF turnVars, readVars, streamVars
\* Only the reader, and what the turn returns, change.
<1>1. ASSUME UNCHANGED << provider, producer, given, ch, pending, server, acc, closed, resp >>,
             reader' \in {"opening", "backoff"} => reader \in {"opening", "backoff"},
             producer = "none" => reader' \in {"opening", "backoff", "ended"},
             reader' = "reading" => reader = "reading",
             reader' \in {"opening", "backoff", "reading"} => outcome' = "none",
             outcome' = "response" => closed /\ GivenAll
      PROVE  InStep'
  <2>1. Events' = Events
    BY <1>1 DEF Events
  <2>2. (Told => Told') /\ (Complete => Complete')
    BY <1>1, <2>1, StaysTold
  <2>3. GivenAll => GivenAll'
    BY <1>1 DEF GivenAll
  <2> QED BY <1>1, <2>2, <2>3 DEF InStep
<1>2. CASE Cancel
  BY <1>1, <1>2 DEF Cancel, InStep
<1>3. CASE Receive
  <2>1. /\ producer = "more" /\ reader' = reader /\ provider' = provider /\ outcome' = outcome
        /\ closed' = closed /\ resp' = resp
    BY <1>3 DEF Receive
  <2>2. provider # "whole" /\ reader \notin {"opening", "backoff"} /\ ~closed
    BY <2>1 DEF InStep, FinishedLast
  <2>3. producer' \in {"more", "respond", "fail"}
    BY <1>3, ReceiveTells
  <2>4. Told => (producer' = "more" => Told') /\ (producer' = "respond" => Complete')
    BY <1>3, ReceiveTells
  <2> QED BY <2>1, <2>2, <2>3, <2>4 DEF InStep
<1>4. ASSUME NEW how \in {"eof", "broken"}, BodyEnds(how) PROVE InStep'
  <2>1. /\ producer = "more" /\ producer' = "ended" /\ ~resp' /\ closed'
        /\ UNCHANGED << provider, reader, outcome >>
    BY <1>4 DEF BodyEnds, Finish
  <2>2. reader \notin {"opening", "backoff"} /\ ~closed
    BY <2>1 DEF InStep, FinishedLast
  <2> QED BY <2>1, <2>2 DEF InStep
<1>5. CASE Sent
  <2>1. /\ pending # << >> /\ ch' = Append(ch, Head(pending).event) /\ pending' = Tail(pending)
        /\ UNCHANGED << provider, reader, outcome, given, producer, server, acc, closed, resp >>
    BY <1>5 DEF Sent
  <2>2. reader \notin {"opening", "backoff"} /\ ~closed
    BY <2>1 DEF InStep, FinishedLast
  <2>3. Events' = Events
    <3>1. Events' = OnTheWay(given, Append(ch, Head(pending).event), Tail(pending))
      BY <2>1 DEF Events
    <3> QED BY <2>1, <3>1, SentStays DEF Events, Typed
  <2>4. (Told => Told') /\ (Complete => Complete')
    BY <2>1, <2>3, StaysTold
  <2> QED BY <2>1, <2>2, <2>4 DEF InStep
<1>6. CASE SendGivesUp
  <2>1. /\ pending # << >> /\ pending' = Tail(pending)
        /\ UNCHANGED << provider, reader, outcome, given, ch, server, acc, closed, resp >>
        /\ producer' = IF Head(pending).must THEN "left" ELSE producer
    BY <1>6 DEF SendGivesUp
  <2>2. reader \notin {"opening", "backoff"} /\ ~closed
    BY <2>1 DEF InStep, FinishedLast
  <2>3. CASE Head(pending).must
    BY <2>1, <2>2, <2>3 DEF InStep
  <2>4. CASE ~Head(pending).must
    <3>1. (Told => Told') /\ (Complete => Complete')
      BY <2>1, <2>4, LossTells
    <3> QED BY <2>1, <2>2, <2>4, <3>1 DEF InStep
  <2> QED BY <2>3, <2>4
<1>8. CASE FinishResponded
  <2>1. /\ producer = "respond" /\ producer' = "ended" /\ closed'
        /\ UNCHANGED << provider, reader, outcome, given, ch, pending, server, acc >>
    BY <1>8 DEF FinishResponded, Finish
  <2>2. reader \notin {"opening", "backoff"} /\ ~closed
    BY <2>1 DEF InStep, FinishedLast
  <2>3. Events' = Events
    BY <2>1 DEF Events
  <2>4. Complete => Complete'
    BY <2>1, <2>3, StaysTold
  <2> QED BY <2>1, <2>2, <2>4 DEF InStep
<1>9. CASE FinishFailed
  <2>1. /\ producer = "fail" /\ producer' = "ended" /\ closed' /\ ~resp'
        /\ UNCHANGED << provider, reader, outcome >>
    BY <1>9 DEF FinishFailed, Finish
  <2>2. reader \notin {"opening", "backoff"} /\ ~closed
    BY <2>1 DEF InStep, FinishedLast
  <2> QED BY <2>1, <2>2 DEF InStep
<1>10. CASE Opened
  <2>1. /\ reader = "opening" /\ provider # "whole" /\ reader' = "reading" /\ producer' = "more"
        /\ UNCHANGED << provider, outcome, given, ch, pending, server, acc, closed, resp >>
    BY <1>10 DEF Opened
  <2>2. /\ given = << >> /\ ch = << >> /\ pending = << >> /\ server = NoAnswer /\ acc = EmptyAcc
        /\ outcome = "none" /\ ~closed
    BY <2>1 DEF InStep, FinishedLast
  <2>3. Told
    BY <2>1, <2>2, NothingTold DEF Typed
  <2>4. Events' = Events
    BY <2>1 DEF Events
  <2>5. Told'
    BY <2>1, <2>3, <2>4, StaysTold
  <2> QED BY <2>1, <2>2, <2>5 DEF InStep
<1>11. ASSUME NEW n \in 0..Cardinality(Index), OpenedWhole(n) PROVE InStep'
  <2>1. /\ reader = "opening" /\ reader' = "reading" /\ outcome' = outcome
        /\ producer' = "ended" /\ closed' /\ pending = << >> /\ pending' = pending
    BY <1>11 DEF OpenedWhole, Finish, InStep
  <2>2. Complete'
    BY <1>11, WholeOpens
  <2> QED BY <2>1, <2>2 DEF InStep
<1>12. ASSUME NEW kind \in {"retryable", "fatal", "abort"}, GiveUp(kind),
              reader \in {"opening", "backoff"},
              UNCHANGED << provider, given, pending, server, acc >>
       PROVE  InStep'
  <2>1. outcome = "none" /\ ~closed /\ ~resp
    BY <1>12 DEF InStep, FinishedLast
  <2>2. CASE provider = "whole"
    BY <1>12, <2>1, <2>2 DEF GiveUp, Finish, InStep
  <2>3. CASE provider # "whole"
    <3>1. /\ reader' = "ended" /\ outcome' = kind
          /\ UNCHANGED << producer, ch, closed, resp >>
      BY <1>12, <2>3 DEF GiveUp
    <3> QED BY <1>1, <1>12, <3>1
  <2> QED BY <2>2, <2>3
<1>13. CASE BackoffEnds
  <2>1. CASE reader' = "opening" /\ UNCHANGED << outcome, producer, streamVars >>
    BY <1>1, <1>13, <2>1 DEF BackoffEnds, InStep
  <2>2. CASE GiveUp("abort")
    BY <1>12, <1>13, <2>2 DEF BackoffEnds
  <2> QED BY <1>13, <2>1, <2>2 DEF BackoffEnds
<1>14. ASSUME NEW cause \in Causes, OpeningFails(cause) PROVE InStep'
  <2>1. CASE GiveUp(Kind(cause))
    BY <1>12, <1>14, <2>1 DEF OpeningFails, Kind
  <2>2. CASE reader' = "backoff" /\ UNCHANGED << outcome, producer, streamVars >>
    BY <1>1, <1>14, <2>2 DEF OpeningFails, InStep
  <2> QED BY <1>14, <2>1, <2>2 DEF OpeningFails
<1>15. CASE NextGives
  <2>1. /\ reader = "reading" /\ ch # << >> /\ ch' = Tail(ch) /\ given' = Append(given, Head(ch))
        /\ UNCHANGED << provider, producer, pending, server, acc, closed, resp >>
    BY <1>15 DEF NextGives
  <2>2. \/ reader' = "closing" /\ outcome' = "fatal"
        \/ reader' = "reading" /\ outcome' = "none"
    BY <1>15 DEF NextGives, InStep
  <2>3. Events' = Events
    <3>1. Events' = OnTheWay(Append(given, Head(ch)), Tail(ch), pending)
      BY <2>1 DEF Events
    <3> QED BY <2>1, <3>1, GivenStays DEF Events, Typed
  <2>4. (Told => Told') /\ (Complete => Complete')
    BY <2>1, <2>3, StaysTold
  <2> QED BY <2>1, <2>2, <2>4 DEF InStep
<1>16. CASE NextIsLast
  <2>1. /\ reader = "reading" /\ ch = << >> /\ closed /\ reader' = "closing"
        /\ outcome' = IF err # "none" THEN err ELSE IF resp THEN "response" ELSE "fatal"
        /\ UNCHANGED << provider, producer, given, ch, pending, server, acc, closed, resp >>
    BY <1>16 DEF NextIsLast
  <2>2. producer = "ended" /\ pending = << >>
    BY <2>1 DEF FinishedLast
  <2>3. ASSUME resp PROVE GivenAll
    <3>1. Complete
      BY <2>1, <2>3 DEF InStep
    <3>2. Events = given
      BY <2>1, <2>2, AllGiven DEF Events, Typed
    <3> QED BY <3>1, <3>2 DEF Complete, GivenAll
  <2>4. outcome' = "response" => resp
    BY <2>1 DEF Typed
  <2> QED BY <1>1, <2>1, <2>2, <2>3, <2>4
<1>17. CASE StopEarly \/ CloseCancels \/ CloseReturns
  <2>1. /\ reader \in {"reading", "closing", "draining"}
        /\ reader' \in {"closing", "draining", "ended"}
        /\ outcome' \in {outcome, "abort"}
        /\ UNCHANGED << provider, producer, given, ch, pending, server, acc, closed, resp >>
    BY <1>17 DEF StopEarly, CloseCancels, CloseReturns
  <2>2. producer # "none"
    BY <2>1 DEF InStep
  <2>3. outcome' = "response" => closed /\ GivenAll
    BY <2>1 DEF InStep
  <2> QED BY <1>1, <2>1, <2>2, <2>3
<1>18. CASE CloseDrains
  <2>1. /\ reader = "draining"
        /\ UNCHANGED << provider, reader, producer, outcome, given, pending, server, acc >>
        /\ UNCHANGED << closed, resp >>
    BY <1>18 DEF CloseDrains
  <2>2. GivenAll => GivenAll'
    BY <2>1 DEF GivenAll
  <2> QED BY <2>1, <2>2 DEF InStep
<1>19. CASE UNCHANGED vars
  BY <1>1, <1>19 DEF vars, InStep
<1> QED BY <1>2, <1>3, <1>4, <1>5, <1>6, <1>8, <1>9, <1>10, <1>11, <1>13, <1>14, <1>15, <1>16,
           <1>17, <1>18, <1>19 DEF Next, Produce, Read, Turn, Open

\* While the goroutine of the provider, the turn that reads and a cancellation
\* run side by side, what Next gave the reader of the stream is the response it
\* then finds: no event is lost between Send, the channel and Next
\* (internal/llm/stream.go) without the turn's failing, and each provider's
\* readStream tells what it puts into the response.
THEOREM ReaderGotTheAnswer == Spec => []StreamedIsReturned
<1>1. Init => Typed /\ InStep
  BY TypedAtFirst, InStepAtFirst
<1>2. Typed /\ InStep /\ FinishedLast /\ [Next]_vars => Typed' /\ InStep'
  BY TypedStays, InStepStays
<1>3. InStep => StreamedIsReturned
  BY DEF InStep, GivenAll, StreamedIsReturned
<1> QED BY <1>1, <1>2, <1>3, GoroutineFinishesLast, PTL DEF Spec
=============================================================================
