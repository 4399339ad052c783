---------------------------- MODULE AgentProofs ------------------------------
(***************************************************************************)
(* Theorems about a session of the agent, for every model, every bound and *)
(* any steering, follow-ups and cancellation from outside; about the       *)
(* requests it sends; about the loop detector it uses: the window of the   *)
(* last calls that the detector keeps gives the verdict that all calls of  *)
(* the session would give; and about any number of subagents, callers and  *)
(* names.                                                                  *)
(***************************************************************************)
EXTENDS Requests, SubagentManager, SequenceTheorems, FiniteSetTheorems, TLAPS

-----------------------------------------------------------------------------
(***************************************************************************)
(* The window.                                                             *)
(***************************************************************************)

\* The window is a sequence of at most n signatures, the last ones.
LEMMA WindowIsSuffix ==
    ASSUME NEW S, NEW heard \in Seq(S), NEW n \in Nat
    PROVE  /\ Window(heard, n) \in Seq(S)
           /\ Len(Window(heard, n)) = IF Len(heard) > n THEN n ELSE Len(heard)
           /\ \A i \in 1..Len(Window(heard, n)) :
                  Window(heard, n)[i] = heard[Len(heard) - Len(Window(heard, n)) + i]
<1> DEFINE m    == IF Len(heard) > n THEN n ELSE Len(heard)
           from == IF Len(heard) > n THEN Len(heard) - n + 1 ELSE 1
           w    == SubSeq(heard, from, Len(heard))
<1>1. /\ Len(heard) \in Nat /\ m \in Nat /\ from \in Int
      /\ from = Len(heard) - m + 1 /\ from >= 1
  BY LenProperties
<1>2. \A i \in from..Len(heard) : heard[i] \in S
  BY <1>1, ElementOfSeq
<1> HIDE DEF from, m
<1>3. /\ w \in Seq(S)
      /\ Len(w) = IF from <= Len(heard) THEN Len(heard) - from + 1 ELSE 0
      /\ \A i \in 1..(Len(heard) - from + 1) : w[i] = heard[from + i - 1]
  BY <1>1, <1>2, SubSeqProperties
<1>4. Len(w) = m
  BY <1>1, <1>3
<1>5. \A i \in 1..m : w[i] = heard[Len(heard) - m + i]
  <2> SUFFICES ASSUME NEW i \in 1..m PROVE w[i] = heard[Len(heard) - m + i]
    OBVIOUS
  <2>1. i \in 1..(Len(heard) - from + 1) /\ from + i - 1 = Len(heard) - m + i
    BY <1>1
  <2> QED BY <1>3, <2>1
<1>6. w = Window(heard, n)
  BY DEF Window, from
<1>7. m = IF Len(heard) > n THEN n ELSE Len(heard)
  BY DEF m
<1> HIDE DEF w
<1> QED
  BY <1>3, <1>4, <1>5, <1>6, <1>7

\* Seen from the end, the window is the calls.
LEMMA WindowFromTheEnd ==
    ASSUME NEW S, NEW heard \in Seq(S), NEW n \in Nat
    PROVE  \A k \in 1..Len(Window(heard, n)) : Back(Window(heard, n), k) = Back(heard, k)
<1> DEFINE w == Window(heard, n)
<1>1. /\ Len(heard) \in Nat /\ Len(w) \in Nat /\ Len(w) <= Len(heard)
      /\ \A i \in 1..Len(w) : w[i] = heard[Len(heard) - Len(w) + i]
  BY WindowIsSuffix, LenProperties
<1> HIDE DEF w
<1>2. ASSUME NEW k \in 1..Len(w) PROVE w[Len(w) - k + 1] = heard[Len(heard) - k + 1]
  <2>1. Len(w) - k + 1 \in 1..Len(w)
    BY <1>1
  <2>2. Len(heard) - Len(w) + (Len(w) - k + 1) = Len(heard) - k + 1
    BY <1>1
  <2> QED BY <1>1, <2>1, <2>2
<1> QED
  BY <1>2 DEF Back, w

-----------------------------------------------------------------------------
(***************************************************************************)
(* The state of the detector.                                              *)
(***************************************************************************)

\* The detector that has recorded calls holds their window, also after the
\* next call: trimming at every call loses nothing that trimming at the end
\* would keep.
THEOREM DetectorHoldsWindow ==
    ASSUME NEW S, NEW heard \in Seq(S), NEW sig \in S, NEW n \in Nat \ {0}
    PROVE  Recorded(Window(heard, n), sig, n) = Window(Append(heard, sig), n)
<1> DEFINE w    == Window(heard, n)
           all  == Append(heard, sig)
           some == Append(w, sig)
           left == Window(some, n)
           right == Window(all, n)
<1>1. /\ w \in Seq(S)
      /\ Len(w) = IF Len(heard) > n THEN n ELSE Len(heard)
      /\ \A i \in 1..Len(w) : w[i] = heard[Len(heard) - Len(w) + i]
  BY WindowIsSuffix
<1>2. /\ all \in Seq(S) /\ Len(all) = Len(heard) + 1
      /\ \A i \in 1..Len(heard) : all[i] = heard[i]
      /\ all[Len(heard) + 1] = sig
  BY AppendProperties
<1>3. Len(heard) \in Nat /\ Len(w) \in Nat
  BY <1>1, LenProperties
<1> HIDE DEF w
<1>4. /\ some \in Seq(S) /\ Len(some) = Len(w) + 1
      /\ \A i \in 1..Len(w) : some[i] = w[i]
      /\ some[Len(w) + 1] = sig
  BY <1>1, AppendProperties
<1>5. \A i \in 1..Len(some) : some[i] = all[Len(all) - Len(some) + i]
  <2> SUFFICES ASSUME NEW i \in 1..Len(some)
               PROVE  some[i] = all[Len(all) - Len(some) + i]
    OBVIOUS
  <2> HIDE DEF some, all
  <2>1. CASE i = Len(w) + 1
    BY <2>1, <1>2, <1>3, <1>4
  <2>2. CASE i # Len(w) + 1
    <3>1. i \in 1..Len(w) /\ Len(heard) - Len(w) + i \in 1..Len(heard)
      BY <2>2, <1>1, <1>3, <1>4
    <3>2. Len(all) - Len(some) + i = Len(heard) - Len(w) + i
      BY <1>2, <1>3, <1>4
    <3> QED BY <3>1, <3>2, <1>1, <1>2, <1>4
  <2> QED BY <2>1, <2>2
<1> HIDE DEF some, all
<1>6. /\ left \in Seq(S)
      /\ Len(left) = IF Len(some) > n THEN n ELSE Len(some)
      /\ \A i \in 1..Len(left) : left[i] = some[Len(some) - Len(left) + i]
  BY <1>4, WindowIsSuffix
<1>7. /\ right \in Seq(S)
      /\ Len(right) = IF Len(all) > n THEN n ELSE Len(all)
      /\ \A i \in 1..Len(right) : right[i] = all[Len(all) - Len(right) + i]
  BY <1>2, WindowIsSuffix
<1> HIDE DEF left, right
<1>8. Len(left) = Len(right) /\ Len(left) <= Len(some) /\ Len(left) \in Nat
  BY <1>1, <1>2, <1>3, <1>4, <1>6, <1>7
<1>9. ASSUME NEW i \in 1..Len(left) PROVE left[i] = right[i]
  <2>1. /\ Len(some) - Len(left) + i \in 1..Len(some)
        /\ Len(all) - Len(some) + (Len(some) - Len(left) + i) = Len(all) - Len(right) + i
    BY <1>2, <1>3, <1>4, <1>8
  <2> QED BY <2>1, <1>5, <1>6, <1>7, <1>8
<1>10. left = right
  BY <1>6, <1>7, <1>8, <1>9, SeqEqual
<1> QED
  BY <1>10 DEF Recorded, left, right, some, all, w

-----------------------------------------------------------------------------
(***************************************************************************)
(* The verdict.                                                            *)
(***************************************************************************)

\* The three cases of detect() are the loops of period one, two and three;
\* that it excludes equal signatures from the last two loses none.
LEMMA DetectsLoops ==
    ASSUME NEW S, NEW heard \in Seq(S)
    PROVE  Detect(heard) <=> Looping(heard)
<1> DEFINE B(k) == Back(heard, k)
           L    == Len(heard)
<1>0. L \in Nat
  BY LenProperties
<1>1. Repeats(heard, 1, 3) <=> L >= 3 /\ B(1) = B(2) /\ B(2) = B(3)
  <2>1. 1..(1 * (3 - 1)) = {1, 2}
    OBVIOUS
  <2> QED BY <2>1 DEF Repeats
<1>2. Repeats(heard, 2, 2) <=> L >= 4 /\ B(1) = B(3) /\ B(2) = B(4)
  <2>1. 1..(2 * (2 - 1)) = {1, 2}
    OBVIOUS
  <2> QED BY <2>1 DEF Repeats
<1>3. Repeats(heard, 3, 2) <=> L >= 6 /\ B(1) = B(4) /\ B(2) = B(5) /\ B(3) = B(6)
  <2>1. 1..(3 * (2 - 1)) = {1, 2, 3}
    OBVIOUS
  <2> QED BY <2>1 DEF Repeats
<1> HIDE DEF B
<1>4. Looping(heard) <=>
        \/ L >= 3 /\ B(1) = B(2) /\ B(2) = B(3)
        \/ L >= 4 /\ B(1) = B(3) /\ B(2) = B(4)
        \/ L >= 6 /\ B(1) = B(4) /\ B(2) = B(5) /\ B(3) = B(6)
  BY <1>1, <1>2, <1>3 DEF Looping
<1>5. Detect(heard) <=>
        \/ L >= 3 /\ B(1) = B(2) /\ B(2) = B(3)
        \/ L >= 4 /\ B(1) = B(3) /\ B(2) = B(4) /\ B(1) # B(2)
        \/ /\ L >= 6 /\ B(1) = B(4) /\ B(2) = B(5) /\ B(3) = B(6)
           /\ ~(B(1) = B(2) /\ B(2) = B(3))
  BY DEF Detect, Period1, Period2, Period3, B
<1> HIDE DEF L
<1> QED BY <1>0, <1>4, <1>5

\* A window of six signatures or more decides what all of them would.
LEMMA WindowSuffices ==
    ASSUME NEW S, NEW heard \in Seq(S), NEW n \in Nat, n >= 6
    PROVE  Detect(Window(heard, n)) <=> Detect(heard)
<1> DEFINE w == Window(heard, n)
<1>1. /\ Len(heard) \in Nat /\ Len(w) \in Nat
      /\ Len(w) = IF Len(heard) > n THEN n ELSE Len(heard)
  BY WindowIsSuffix, LenProperties
<1>2. \A k \in 1..Len(w) : Back(w, k) = Back(heard, k)
  BY WindowFromTheEnd
<1> HIDE DEF w
<1>3. /\ Len(w) >= 3 <=> Len(heard) >= 3
      /\ Len(w) >= 4 <=> Len(heard) >= 4
      /\ Len(w) >= 6 <=> Len(heard) >= 6
  BY <1>1
<1>4. Len(w) >= 3 => Back(w, 1) = Back(heard, 1) /\ Back(w, 2) = Back(heard, 2)
                       /\ Back(w, 3) = Back(heard, 3)
  BY <1>1, <1>2
<1>5. Len(w) >= 4 => Back(w, 4) = Back(heard, 4)
  BY <1>1, <1>2
<1>6. Len(w) >= 6 => Back(w, 5) = Back(heard, 5) /\ Back(w, 6) = Back(heard, 6)
  BY <1>1, <1>2
<1>7. (Len(w) >= 6 => Len(w) >= 4) /\ (Len(w) >= 4 => Len(w) >= 3)
  BY <1>1
<1> QED BY <1>3, <1>4, <1>5, <1>6, <1>7 DEF Detect, Period1, Period2, Period3, w

\* Record reports exactly the calls that end a loop among all calls of the
\* session, for every window that holds the longest pattern it looks for.
THEOREM RecordReportsLoops ==
    ASSUME NEW S, NEW heard \in Seq(S), NEW sig \in S, NEW n \in Nat, n >= 6
    PROVE  Record(Window(heard, n), sig, n) <=> Looping(Append(heard, sig))
<1>1. Append(heard, sig) \in Seq(S) /\ n # 0
  BY AppendProperties
<1>2. Record(Window(heard, n), sig, n) <=> Detect(Window(Append(heard, sig), n))
  BY <1>1, DetectorHoldsWindow DEF Record
<1> QED
  BY <1>1, <1>2, WindowSuffices, DetectsLoops

-----------------------------------------------------------------------------
(***************************************************************************)
(* Types.                                                                  *)
(***************************************************************************)
Msg == [role : {"user", "assistant", "tool", "steering"}, of : Nat, n : Nat]

Steering == {m \in Msg : m.role = "steering"}
User     == {m \in Msg : m.role = "user"}

\* How many steering messages the session can have said to itself so far: one
\* for each response and one for each tool call, but for those still to come
\* in this round.
Budget == rounds * (MaxCalls + 1)

Ahead ==
    IF pc = "calling" THEN MaxCalls + 1
    ELSE IF pc = "turn" THEN Len(calls)
    ELSE IF pc = "tool" THEN Len(calls) - 1 ELSE 0

Typed ==
    /\ pc \in {"top", "calling", "turn", "tool", "inject", "ended", "blocked"}
    /\ rounds \in 0..MaxRounds
    /\ failures \in 0..FailureMax /\ (pc # "ended" => failures < FailureMax)
    /\ messages \in Seq(Msg)
    /\ steering \in Seq(Steering)
    /\ followup \in Seq(User)
    /\ calls \in Seq(Signature) /\ Len(calls) <= MaxCalls
    /\ pc = "tool" => calls # <<>>
    /\ signatures \in Seq(Signature) /\ Len(signatures) <= LoopWindow
    /\ done \in BOOLEAN /\ streaming \in BOOLEAN
    /\ ending \in {"none", "natural", "aborted", "error"}
    /\ lastError \in {"none", "retryable", "fatal", "abort"}
    /\ steered \in Nat /\ external \in 0..MaxInputs /\ followed \in 0..MaxInputs
    /\ steered <= external + Budget - Ahead

\* A response is a sequence of at most MaxCalls calls.
LEMMA ResponseIsSeq ==
    ASSUME NEW asked
    PROVE  asked \in Responses <=> asked \in Seq(Signature) /\ Len(asked) <= MaxCalls
<1>1. MaxCalls \in Nat
  BY SessionAssumption
<1>2. ASSUME asked \in Responses PROVE asked \in Seq(Signature) /\ Len(asked) <= MaxCalls
  <2>1. PICK n \in 0..MaxCalls : asked \in [1..n -> Signature]
    BY <1>2 DEF Responses
  <2>2. asked \in Seq(Signature) /\ n \in Nat
    BY <1>1, <2>1, SeqDef
  <2>3. Len(asked) = n
    BY <2>1, <2>2, LenProperties
  <2> QED BY <2>1, <2>2, <2>3
<1>3. ASSUME asked \in Seq(Signature), Len(asked) <= MaxCalls PROVE asked \in Responses
  <2>1. Len(asked) \in 0..MaxCalls /\ asked \in [1..Len(asked) -> Signature]
    BY <1>1, <1>3, LenProperties
  <2> QED BY <2>1 DEF Responses
<1> QED BY <1>2, <1>3

\* Something is said to the session, or by it: queued at the end.
LEMMA Queued ==
    ASSUME NEW S, NEW queue \in Seq(S), NEW m \in S
    PROVE  Append(queue, m) \in Seq(S) /\ Len(Append(queue, m)) = Len(queue) + 1
BY AppendProperties

\* The count of the results of this round is a number.
LEMMA AnsweredIsNat ==
    ASSUME Typed
    PROVE  Answered + 1 \in Nat
<1> DEFINE results == {i \in DOMAIN messages : messages[i].role = "tool"
                                               /\ messages[i].of = rounds}
<1>1. Len(messages) \in Nat /\ results \subseteq 1..Len(messages)
  BY LenProperties DEF Typed
<1>2. IsFiniteSet(1..Len(messages))
  BY <1>1, FS_Interval
<1>3. Cardinality(results) \in Nat
  BY <1>1, <1>2, FS_Subset, FS_CardinalityType
<1> QED BY <1>3 DEF Answered

LEMMA TypedStep == Typed /\ [Next]_vars => Typed'
<1> SUFFICES ASSUME Typed, [Next]_vars PROVE Typed'
  OBVIOUS
<1>0. /\ MaxRounds \in Nat \ {0} /\ LoopWindow \in Nat \ {0}
      /\ MaxCalls \in Nat /\ MaxInputs \in Nat /\ FailureMax = 3
  BY SessionAssumption DEF FailureMax
<1>1. /\ \A n \in Nat : Message("steering", 0, n) \in Steering /\ Message("user", 0, n) \in User
      /\ \A n \in Nat, of \in Nat : /\ Message("assistant", of, n) \in Msg
                                    /\ Message("tool", of, n) \in Msg
  BY DEF Message, Msg, Steering, User
<1>2. /\ Len(calls) \in Nat /\ Len(calls) <= MaxCalls /\ rounds \in Nat
      /\ steered \in Nat /\ external \in Nat
      /\ steered <= external + Budget - Ahead
  BY <1>0, LenProperties DEF Typed
<1>3. /\ steered + 1 \in Nat /\ steering \in Seq(Steering)
      /\ Append(steering, Message("steering", 0, steered + 1)) \in Seq(Steering)
  BY <1>1, <1>2, Queued DEF Typed
<1>4. /\ Budget \in Int /\ Ahead \in Int
      /\ UNCHANGED rounds => Budget' = Budget
      /\ UNCHANGED <<pc, calls>> => Ahead' = Ahead
  BY <1>0, <1>2 DEF Budget, Ahead
<1>5. CASE Steer
  <2>1. /\ UNCHANGED <<run, done, streaming, followup, followed>>
        /\ steered' = steered + 1 /\ external' = external + 1 /\ external < MaxInputs
        /\ steering' \in Seq(Steering)
    BY <1>3, <1>5 DEF Steer
  <2>2. Budget' = Budget /\ Ahead' = Ahead
    BY <1>4, <2>1 DEF run
  <2>3. steered' <= external' + Budget' - Ahead' /\ external' \in 0..MaxInputs
    BY <1>0, <1>2, <1>4, <2>1, <2>2
  <2> QED BY <1>3, <2>1, <2>3 DEF Typed, run
<1>6. CASE FollowUp
  <2>1. followed' \in 0..MaxInputs /\ Message("user", 0, followed') \in User
    BY <1>0, <1>1, <1>6 DEF FollowUp, Typed
  <2>2. followup' \in Seq(User)
    BY <1>6, <2>1, Queued DEF FollowUp, Typed
  <2>3. Budget' = Budget /\ Ahead' = Ahead
    BY <1>4, <1>6 DEF FollowUp, run
  <2> QED BY <1>6, <2>1, <2>2, <2>3 DEF FollowUp, run, Typed
<1>7. CASE Cancel
  BY <1>4, <1>7 DEF Cancel, run, queues, Typed
<1>8. CASE Abort
  <2>1. pc = "top" /\ pc' = "ended" /\ Budget' = Budget /\ Ahead' = Ahead
    BY <1>4, <1>8 DEF Abort, End, Ahead
  <2> QED BY <1>8, <2>1 DEF Abort, End, queues, Typed
<1>9. CASE CallModel
  <2>1. Budget' = Budget + (MaxCalls + 1)
    BY <1>0, <1>2, <1>9 DEF CallModel, Budget
  <2>2. Ahead = 0 /\ Ahead' = MaxCalls + 1
    BY <1>9 DEF CallModel, Ahead
  <2>3. Budget' - Ahead' = Budget - Ahead
    BY <1>0, <1>4, <2>1, <2>2
  <2>4. steered' <= external' + Budget' - Ahead'
    BY <1>0, <1>2, <1>4, <1>9, <2>1, <2>2 DEF CallModel, queues
  <2>5. rounds' \in 0..MaxRounds
    BY <1>0, <1>2, <1>9 DEF CallModel
  <2> QED BY <1>9, <2>4, <2>5 DEF CallModel, queues, Typed
<1>10. ASSUME NEW kind \in {"retryable", "fatal", "abort"}, ModelFails(kind) PROVE Typed'
  <2>1. Budget' = Budget /\ Ahead = MaxCalls + 1 /\ Ahead' = 0
    BY <1>4, <1>10 DEF ModelFails, End, Ahead
  <2>2. /\ failures' \in 0..FailureMax /\ pc' \in {"top", "ended"}
        /\ pc' # "ended" => failures' < FailureMax
    BY <1>0, <1>10 DEF ModelFails, End, Typed
  <2>3. ending' \in {"none", "natural", "aborted", "error"}
    BY <1>10 DEF ModelFails, End, Typed
  <2>4. /\ UNCHANGED <<queues, rounds, messages, calls, signatures, done, streaming>>
        /\ lastError' = kind
    BY <1>10 DEF ModelFails
  <2>5. steered' <= external' + Budget' - Ahead'
    BY <1>0, <1>2, <1>4, <2>1, <2>4 DEF queues
  <2> QED BY <2>2, <2>3, <2>4, <2>5 DEF queues, Typed
<1>17. CASE StreamBlocks
  <2>1. Budget' = Budget /\ Ahead = MaxCalls + 1 /\ Ahead' = 0
    BY <1>4, <1>17 DEF StreamBlocks, Ahead
  <2>2. steered' <= external' + Budget' - Ahead'
    BY <1>0, <1>2, <1>4, <1>17, <2>1 DEF StreamBlocks, queues
  <2> QED BY <1>17, <2>2 DEF StreamBlocks, queues, Typed
<1>11. ASSUME NEW asked \in Responses, NEW full \in BOOLEAN, ModelAnswers(asked, full) PROVE Typed'
  <2>1. asked \in Seq(Signature) /\ Len(asked) \in Nat /\ Len(asked) <= MaxCalls
    BY ResponseIsSeq, LenProperties
  <2>2. messages' \in Seq(Msg)
    <3>1. Message("assistant", rounds, Len(asked)) \in Msg
      BY <1>1, <1>2, <2>1
    <3> QED BY <1>11, <3>1, Queued DEF ModelAnswers, Typed
  <2>3. Budget' = Budget /\ Ahead = MaxCalls + 1 /\ Ahead' = Len(asked)
    BY <1>4, <1>11 DEF ModelAnswers, Ahead
  <2>4. /\ steering' \in Seq(Steering)
        /\ steered' \in {steered, steered + 1} /\ external' = external
    BY <1>3, <1>11 DEF ModelAnswers
  <2>5. steered' <= external' + Budget' - Ahead'
    BY <1>0, <1>2, <1>4, <2>1, <2>3, <2>4
  <2>6. /\ failures' = 0 /\ calls' = asked /\ pc' = "turn" /\ steered' \in Nat
        /\ UNCHANGED <<rounds, followup, external, followed, signatures,
                       done, streaming, ending, lastError>>
    BY <1>2, <1>3, <1>11, <2>4 DEF ModelAnswers
  <2> QED BY <1>0, <2>1, <2>2, <2>4, <2>5, <2>6 DEF Typed
<1>12. CASE ExitOrFollowUp
  <2>1. /\ messages' \in Seq(Msg)
        /\ followup' \in Seq(User)
    <3>1. CASE followup = <<>>
      BY <1>12, <3>1 DEF ExitOrFollowUp, Typed
    <3>2. CASE followup # <<>>
      <4>1. Head(followup) \in Msg /\ Tail(followup) \in Seq(User)
        BY <3>2, HeadTailProperties DEF Typed, User
      <4> QED BY <1>12, <3>2, <4>1, Queued DEF ExitOrFollowUp, Typed
    <3> QED BY <3>1, <3>2
  <2>2. Len(calls) = 0 /\ pc' \in {"top", "ended"} /\ pc = "turn"
    BY <1>12, EmptySeq DEF ExitOrFollowUp, End
  <2>3. Budget' = Budget /\ Ahead' = Ahead
    BY <1>4, <1>12, <2>2 DEF ExitOrFollowUp, Ahead
  <2>4. ending' \in {"none", "natural", "aborted", "error"}
    BY <1>12 DEF ExitOrFollowUp, End, Typed
  <2> QED BY <1>12, <2>1, <2>2, <2>3, <2>4 DEF ExitOrFollowUp, Typed
<1>13. CASE StartTool
  <2>1. Head(calls) \in Signature
    BY <1>13, HeadTailProperties DEF StartTool, Typed
  <2>2. Append(signatures, Head(calls)) \in Seq(Signature) /\ LoopWindow \in Nat
    BY <1>0, <2>1, AppendProperties DEF Typed
  <2>3. signatures' \in Seq(Signature) /\ Len(signatures') <= LoopWindow
    <3> DEFINE all == Append(signatures, Head(calls))
    <3>1. all \in Seq(Signature) /\ signatures' = Window(all, LoopWindow)
      BY <1>13, <2>2 DEF StartTool, Recorded
    <3> HIDE DEF all
    <3>2. Len(all) \in Nat
      BY <3>1, LenProperties
    <3>3. /\ Window(all, LoopWindow) \in Seq(Signature)
          /\ Len(Window(all, LoopWindow)) = IF Len(all) > LoopWindow THEN LoopWindow ELSE Len(all)
      BY <2>2, <3>1, WindowIsSuffix
    <3> QED BY <1>0, <3>1, <3>2, <3>3
  <2>4. /\ steering' \in Seq(Steering)
        /\ steered' \in {steered, steered + 1} /\ external' = external
    <3>1. \/ steered' = steered + 1
             /\ steering' = Append(steering, Message("steering", 0, steered + 1))
          \/ UNCHANGED <<steered, steering>>
      BY <1>13 DEF StartTool
    <3> QED BY <1>3, <1>13, <3>1 DEF StartTool
  <2>5. Budget' = Budget /\ Ahead = Len(calls) /\ Ahead' = Len(calls) - 1
    BY <1>4, <1>13 DEF StartTool, Ahead
  <2>6. steered' <= external' + Budget' - Ahead' /\ steered' \in Nat
    BY <1>2, <1>4, <2>4, <2>5
  <2>7. /\ pc' = "tool" /\ pc = "turn" /\ calls # <<>>
        /\ UNCHANGED <<followup, external, followed, rounds, failures, messages, calls,
                       done, streaming, ending, lastError>>
    BY <1>13 DEF StartTool
  <2> QED BY <2>3, <2>4, <2>6, <2>7 DEF Typed
<1>14. CASE FinishTool
  <2>1. Answered + 1 \in Nat
    BY AnsweredIsNat
  <2>2. messages' \in Seq(Msg)
    <3>1. Message("tool", rounds, Answered + 1) \in Msg
      BY <1>1, <1>2, <2>1
    <3> QED BY <1>14, <3>1, Queued DEF FinishTool, Typed
  <2>3. calls' \in Seq(Signature) /\ Len(calls') = Len(calls) - 1
    BY <1>14, HeadTailProperties DEF FinishTool, Typed
  <2>4. pc = "tool" /\ pc' \in {"turn", "inject"} /\ (pc' = "inject" => Len(calls') = 0)
    BY <1>14, <2>3, EmptySeq DEF FinishTool
  <2>5. Budget' = Budget /\ Ahead' = Ahead
    BY <1>2, <1>4, <1>14, <2>3, <2>4 DEF FinishTool, Ahead
  <2> QED BY <1>0, <1>2, <1>14, <2>2, <2>3, <2>4, <2>5 DEF FinishTool, queues, Typed
<1>16. CASE InjectSteering
  <2>1. steering \in Seq(Msg) /\ <<>> \in Seq(Steering)
    BY <1>3, SeqMonotonic, EmptySeq DEF Steering
  <2>2. messages' \in Seq(Msg)
    BY <1>16, <2>1, ConcatProperties DEF InjectSteering, Typed
  <2>3. Budget' = Budget /\ Ahead' = Ahead
    BY <1>4, <1>16 DEF InjectSteering, Ahead
  <2> QED BY <1>16, <2>1, <2>2, <2>3 DEF InjectSteering, Typed
<1>15. CASE UNCHANGED vars
  BY <1>4, <1>15 DEF vars, queues, run, Typed
<1> QED BY <1>5, <1>6, <1>7, <1>8, <1>9, <1>10, <1>11, <1>12, <1>13, <1>14, <1>15, <1>16, <1>17
           DEF Next, RunStep

LEMMA InitTyped == Init => Typed
<1> SUFFICES ASSUME Init PROVE Typed
  OBVIOUS
<1>1. /\ MaxRounds \in Nat \ {0} /\ LoopWindow \in Nat \ {0}
      /\ MaxCalls \in Nat /\ MaxInputs \in Nat /\ FailureMax = 3
  BY SessionAssumption DEF FailureMax
<1>2. /\ <<>> \in Seq(Steering) /\ <<>> \in Seq(User) /\ <<>> \in Seq(Signature)
      /\ Len(<<>>) = 0
  BY EmptySeq
<1>3. messages \in Seq(Msg)
  <2>1. Message("user", 0, 0) \in Msg /\ <<>> \in Seq(Msg)
    BY EmptySeq DEF Message, Msg
  <2>2. messages = Append(<<>>, Message("user", 0, 0))
    BY DEF Init
  <2> QED BY <2>1, <2>2, AppendProperties
<1>4. Budget = 0 /\ Ahead = 0
  BY <1>1 DEF Init, Budget, Ahead
<1>5. /\ steering \in Seq(Steering) /\ followup \in Seq(User)
      /\ calls \in Seq(Signature) /\ Len(calls) <= MaxCalls
      /\ signatures \in Seq(Signature) /\ Len(signatures) <= LoopWindow
  BY <1>1, <1>2 DEF Init
<1>6. /\ pc = "top" /\ ending = "none" /\ lastError = "none" /\ done = FALSE
      /\ streaming \in BOOLEAN
      /\ rounds = 0 /\ failures = 0 /\ steered = 0 /\ external = 0 /\ followed = 0
  BY DEF Init
<1>7. /\ rounds \in 0..MaxRounds /\ failures \in 0..FailureMax /\ failures < FailureMax
      /\ external \in 0..MaxInputs /\ followed \in 0..MaxInputs
      /\ steered \in Nat /\ steered <= external + Budget - Ahead
  BY <1>1, <1>4, <1>6
<1> QED BY <1>3, <1>5, <1>6, <1>7 DEF Typed

LEMMA SessionTyped == Spec => []Typed
BY InitTyped, TypedStep, PTL DEF Spec

\* The limit of rounds and the circuit breaker hold, the detector keeps no more
\* than its window, and the session warns itself no more often than there are
\* responses and tool calls (session.go, Run).
THEOREM SessionBounded == Spec => []TypeOK
<1>1. Typed => TypeOK
  <2> SUFFICES ASSUME Typed PROVE TypeOK
    OBVIOUS
  <2>1. MaxRounds \in Nat \ {0} /\ MaxCalls \in Nat /\ MaxInputs \in Nat
    BY SessionAssumption
  <2>2. /\ Len(messages) \in Nat /\ DOMAIN messages = 1..Len(messages)
        /\ \A i \in DOMAIN messages : messages[i] \in Msg
    BY LenProperties, ElementOfSeq DEF Typed
  <2>3. \A i \in DOMAIN messages :
            messages[i].role \in {"user", "assistant", "tool", "steering"}
    BY <2>2 DEF Msg
  <2>4. calls \in Responses
    BY ResponseIsSeq DEF Typed
  <2>5. steered \in Count
    <3>1. Budget \in Nat /\ Budget <= MaxRounds * (MaxCalls + 1)
      <4>1. rounds \in Nat /\ MaxRounds \in Nat /\ MaxCalls + 1 \in Nat /\ rounds <= MaxRounds
        BY <2>1 DEF Typed
      <4>2. \A k, l, n \in Nat : k <= l => k * n \in Nat /\ k * n <= l * n
        BY SMTT(30)
      <4> QED BY <4>1, <4>2 DEF Budget
    <3>2. Ahead \in Int /\ Ahead >= 0
      BY <2>1, EmptySeq, LenProperties DEF Typed, Ahead
    <3>3. steered \in Nat /\ external \in 0..MaxInputs /\ steered <= external + Budget - Ahead
      BY DEF Typed
    <3>4. MaxRounds * (MaxCalls + 1) \in Nat
      BY <2>1
    <3> QED BY <2>1, <3>1, <3>2, <3>3, <3>4 DEF Count
  <2> QED BY <2>3, <2>4, <2>5 DEF Typed, TypeOK
<1> QED BY <1>1, SessionTyped, PTL

-----------------------------------------------------------------------------
(***************************************************************************)
(* Tool calls and their results.                                           *)
(***************************************************************************)
\* The calls of the i-th message have their results behind it.
Complete(i) ==
    /\ i + messages[i].n <= Len(messages)
    /\ \A k \in 1..messages[i].n : messages[i + k] = Message("tool", messages[i].of, k)

\* The result in the i-th message has its call before it.
Backed(i) ==
    /\ messages[i].n < i
    /\ LET asking == messages[i - messages[i].n] IN
       /\ asking.role = "assistant" /\ asking.of = messages[i].of
       /\ messages[i].n <= asking.n

OfTurn(i) == messages[i].role \in {"assistant", "tool"}

\* The a-th message is the response of this round; the results of the calls
\* that were executed are behind it, and nothing else is.
Answering(a) ==
    /\ messages[a].role = "assistant" /\ messages[a].of = rounds
    /\ Len(messages) + Len(calls) = a + messages[a].n
    /\ \A k \in 1..(Len(messages) - a) : messages[a + k] = Message("tool", rounds, k)
    /\ \A i \in 1..(a - 1) : OfTurn(i) => messages[i].of < rounds
    /\ pc = "turn" /\ calls = <<>> => messages[a].n = 0

CallsInOrder ==
    /\ \A i \in DOMAIN messages :
        /\ OfTurn(i) => messages[i].of <= rounds
        /\ OfTurn(i) /\ pc = "calling" => messages[i].of < rounds
        /\ messages[i].role = "tool" => Backed(i)
    /\ pc \in {"turn", "tool"} =>
        \E a \in DOMAIN messages :
            /\ Answering(a)
            /\ \A i \in DOMAIN messages \ {a} : messages[i].role = "assistant" => Complete(i)
    /\ pc \notin {"turn", "tool"} =>
        \A i \in DOMAIN messages : messages[i].role = "assistant" => Complete(i)

\* More messages behind them change neither.
LEMMA MoreMessages ==
    ASSUME Typed, Typed', Len(messages) <= Len(messages'),
           \A i \in 1..Len(messages) : messages'[i] = messages[i],
           NEW i \in DOMAIN messages
    PROVE  /\ i \in DOMAIN messages'
           /\ OfTurn(i)' = OfTurn(i)
           /\ Complete(i) => Complete(i)'
           /\ Backed(i) => Backed(i)'
<1>1. /\ Len(messages) \in Nat /\ DOMAIN messages = 1..Len(messages) /\ messages[i] \in Msg
      /\ Len(messages') \in Nat /\ DOMAIN messages' = 1..Len(messages')
  BY LenProperties, ElementOfSeq DEF Typed
<1>2. messages'[i] = messages[i] /\ messages[i].n \in Nat /\ i \in DOMAIN messages' /\ i \in Nat
  BY <1>1 DEF Msg
<1>3. ASSUME Complete(i) PROVE Complete(i)'
  <2>1. i + messages[i].n <= Len(messages')
    BY <1>1, <1>2, <1>3 DEF Complete
  <2>2. ASSUME NEW k \in 1..messages[i].n
        PROVE  messages'[i + k] = Message("tool", messages[i].of, k)
    <3>1. i + k \in 1..Len(messages)
      BY <1>1, <1>2, <1>3 DEF Complete
    <3> QED BY <1>3, <3>1 DEF Complete
  <2> QED BY <1>2, <2>1, <2>2 DEF Complete, Message
<1>4. ASSUME Backed(i) PROVE Backed(i)'
  <2>1. i - messages[i].n \in 1..Len(messages)
    BY <1>1, <1>2, <1>4 DEF Backed
  <2> QED BY <1>2, <1>4, <2>1 DEF Backed
<1> QED BY <1>2, <1>3, <1>4 DEF OfTurn

\* When every call has its result, messages of other roles can follow.
LEMMA OthersBehind ==
    ASSUME Typed, Typed', Len(messages) <= Len(messages'), rounds' = rounds,
           pc' \notin {"calling", "turn", "tool"},
           \A i \in 1..Len(messages) : messages'[i] = messages[i],
           \A i \in 1..Len(messages') \ DOMAIN messages :
               messages'[i].role \in {"user", "steering"},
           \A i \in DOMAIN messages : /\ OfTurn(i) => messages[i].of <= rounds
                                      /\ messages[i].role = "tool" => Backed(i)
                                      /\ messages[i].role = "assistant" => Complete(i)
    PROVE  CallsInOrder'
<1>1. DOMAIN messages = 1..Len(messages) /\ DOMAIN messages' = 1..Len(messages')
  BY LenProperties DEF Typed
<1>2. ASSUME NEW i \in DOMAIN messages'
      PROVE  /\ OfTurn(i)' => messages'[i].of <= rounds'
             /\ messages'[i].role = "tool" => Backed(i)'
             /\ messages'[i].role = "assistant" => Complete(i)'
  <2>1. CASE i \in DOMAIN messages
    <3>1. /\ OfTurn(i)' = OfTurn(i) /\ messages'[i] = messages[i]
          /\ Complete(i) => Complete(i)'
          /\ Backed(i) => Backed(i)'
      BY <1>1, <2>1, MoreMessages
    <3> QED BY <2>1, <3>1
  <2>2. CASE i \notin DOMAIN messages
    BY <1>1, <2>2 DEF OfTurn
  <2> QED BY <2>1, <2>2
<1> QED BY <1>2 DEF CallsInOrder

LEMMA CallsStep == Typed /\ Typed' /\ CallsInOrder /\ [Next]_vars => CallsInOrder'
<1> SUFFICES ASSUME Typed, Typed', CallsInOrder, [Next]_vars PROVE CallsInOrder'
  OBVIOUS
<1>1. /\ Len(messages) \in Nat /\ DOMAIN messages = 1..Len(messages)
      /\ \A i \in DOMAIN messages : messages[i] \in Msg /\ messages[i].of \in Nat
                                    /\ messages[i].n \in Nat
      /\ Len(messages') \in Nat /\ DOMAIN messages' = 1..Len(messages')
      /\ rounds \in Nat /\ Len(calls) \in Nat /\ Len(calls') \in Nat
  <2>1. /\ messages \in Seq(Msg) /\ calls \in Seq(Signature) /\ rounds \in 0..MaxRounds
        /\ messages' \in Seq(Msg) /\ calls' \in Seq(Signature)
    BY DEF Typed
  <2>2. /\ Len(messages) \in Nat /\ DOMAIN messages = 1..Len(messages)
        /\ Len(messages') \in Nat /\ DOMAIN messages' = 1..Len(messages')
        /\ Len(calls) \in Nat /\ Len(calls') \in Nat
    BY <2>1, LenProperties
  <2>3. \A i \in DOMAIN messages : messages[i] \in Msg
    BY <2>1, <2>2, ElementOfSeq
  <2>4. \A m \in Msg : m.of \in Nat /\ m.n \in Nat
    BY DEF Msg
  <2>5. rounds \in Nat
    BY <2>1, SessionAssumption
  <2> QED BY <2>2, <2>3, <2>4, <2>5
\* The conversation, the calls and the round stay as they are.
<1>2. ASSUME UNCHANGED <<messages, calls, rounds, pc>> PROVE CallsInOrder'
  BY <1>2 DEF CallsInOrder, Answering, Complete, Backed, OfTurn
<1>3. CASE Steer \/ FollowUp \/ Cancel \/ UNCHANGED vars
  BY <1>2, <1>3 DEF Steer, FollowUp, Cancel, run, vars
<1>4. CASE Abort \/ (\E kind \in {"retryable", "fatal", "abort"} : ModelFails(kind))
           \/ StreamBlocks
  <2>1. /\ UNCHANGED <<messages, calls, rounds>> /\ pc \in {"top", "calling"}
        /\ pc' \in {"top", "ended", "blocked"}
    BY <1>4 DEF Abort, ModelFails, StreamBlocks, End
  <2> QED BY <2>1 DEF CallsInOrder, Complete, Backed, OfTurn
<1>5. CASE CallModel
  <2>1. /\ UNCHANGED <<messages, calls>> /\ pc = "top" /\ pc' = "calling" /\ rounds' = rounds + 1
    BY <1>5 DEF CallModel
  <2>2. ASSUME NEW i \in DOMAIN messages, OfTurn(i) PROVE messages[i].of < rounds'
    BY <1>1, <2>1, <2>2 DEF CallsInOrder
  <2>3. ASSUME NEW i \in DOMAIN messages, OfTurn(i) PROVE messages[i].of <= rounds'
    BY <1>1, <2>1, <2>3 DEF CallsInOrder
  <2> QED BY <2>1, <2>2, <2>3 DEF CallsInOrder, Complete, Backed, OfTurn
<1>6. CASE StartTool
  <2>1. UNCHANGED <<messages, calls, rounds>> /\ pc = "turn" /\ pc' = "tool"
    BY <1>6 DEF StartTool
  <2> QED BY <2>1 DEF CallsInOrder, Answering, Complete, Backed, OfTurn
<1>7. ASSUME NEW asked \in Responses, NEW full \in BOOLEAN, ModelAnswers(asked, full)
      PROVE  CallsInOrder'
  <2>1. PICK a \in Nat : a = Len(messages) + 1
    BY <1>1
  <2>2. PICK m : m = Message("assistant", rounds, Len(asked))
    OBVIOUS
  <2>3. asked \in Seq(Signature) /\ Len(asked) \in Nat
    BY ResponseIsSeq, LenProperties
  <2>4. /\ m \in Msg /\ m.role = "assistant" /\ m.of = rounds /\ m.n = Len(asked)
    BY <1>1, <2>2, <2>3 DEF Message, Msg
  <2>5. /\ pc = "calling" /\ pc' = "turn" /\ rounds' = rounds /\ calls' = asked
        /\ messages' = Append(messages, m)
    BY <1>7, <2>2 DEF ModelAnswers
  <2>6. /\ Len(messages') = a /\ messages'[a] = m
        /\ \A i \in 1..Len(messages) : messages'[i] = messages[i]
    <3>1. messages \in Seq(Msg)
      BY DEF Typed
    <3> QED BY <2>1, <2>4, <2>5, <3>1, AppendProperties
  <2>7. \A i \in DOMAIN messages :
            /\ OfTurn(i)' = OfTurn(i) /\ messages'[i] = messages[i]
            /\ Complete(i) => Complete(i)'
            /\ Backed(i) => Backed(i)'
    BY <1>1, <2>1, <2>6, MoreMessages
  <2>8. \A i \in DOMAIN messages : /\ OfTurn(i) => messages[i].of < rounds
                                   /\ messages[i].role = "tool" => Backed(i)
                                   /\ messages[i].role = "assistant" => Complete(i)
    BY <2>5 DEF CallsInOrder
  <2>9. \A i \in DOMAIN messages' : i # a => i \in DOMAIN messages /\ i < a
    <3>1. DOMAIN messages' = 1..a /\ DOMAIN messages = 1..(a - 1)
      <4>1. Len(messages) = a - 1 /\ Len(messages') = a
        BY <1>1, <2>1, <2>6
      <4>2. DOMAIN messages = 1..Len(messages) /\ DOMAIN messages' = 1..Len(messages')
        BY <1>1
      <4> QED BY ONLY <4>1, <4>2
    <3>2. ASSUME NEW i \in 1..a, i # a PROVE i \in 1..(a - 1) /\ i < a
      BY <2>1, <3>2
    <3> QED BY <3>1, <3>2
  <2>10. Answering(a)'
    <3>1. Len(messages') + Len(calls') = a + messages'[a].n
      BY <2>4, <2>5, <2>6
    <3>2. \A k \in 1..(Len(messages') - a) : messages'[a + k] = Message("tool", rounds', k)
      BY <2>1, <2>6
    <3>3. ASSUME NEW i \in 1..(a - 1), OfTurn(i)' PROVE messages'[i].of < rounds'
      <4>1. i \in DOMAIN messages
        BY <1>1, <2>1
      <4> QED BY <2>5, <2>7, <2>8, <3>3, <4>1
    <3>4. calls' = <<>> => messages'[a].n = 0
      BY <2>4, <2>5, <2>6, EmptySeq
    <3> QED BY <2>4, <2>5, <2>6, <3>1, <3>2, <3>3, <3>4 DEF Answering
  <2>11. \A i \in DOMAIN messages' \ {a} : messages'[i].role = "assistant" => Complete(i)'
    BY <2>7, <2>8, <2>9
  <2>12. ASSUME NEW i \in DOMAIN messages'
         PROVE  /\ OfTurn(i)' => messages'[i].of <= rounds'
                /\ messages'[i].role = "tool" => Backed(i)'
    <3>1. CASE i = a
      BY <1>1, <2>4, <2>5, <2>6, <3>1
    <3>2. CASE i \in DOMAIN messages
      BY <1>1, <2>5, <2>7, <2>8, <3>2
    <3> QED BY <2>9, <3>1, <3>2
  <2>13. a \in DOMAIN messages'
    BY <1>1, <2>1, <2>6
  <2> QED BY <2>5, <2>10, <2>11, <2>12, <2>13 DEF CallsInOrder
<1>8. CASE ExitOrFollowUp
  <2>1. PICK a \in DOMAIN messages :
            /\ Answering(a)
            /\ \A i \in DOMAIN messages \ {a} : messages[i].role = "assistant" => Complete(i)
    BY <1>8 DEF ExitOrFollowUp, CallsInOrder
  <2>2. Complete(a)
    <3>1. messages[a].n = 0
      BY <1>8, <2>1 DEF Answering, ExitOrFollowUp
    <3>2. a \in Nat /\ a <= Len(messages)
      BY <1>1
    <3> QED BY <3>1, <3>2 DEF Complete
  <2>3. \A i \in DOMAIN messages : /\ OfTurn(i) => messages[i].of <= rounds
                                   /\ messages[i].role = "tool" => Backed(i)
                                   /\ messages[i].role = "assistant" => Complete(i)
    BY <2>1, <2>2 DEF CallsInOrder
  <2>4. pc' \in {"top", "ended"} /\ rounds' = rounds
    BY <1>8 DEF ExitOrFollowUp, End
  <2>5. CASE followup = <<>>
    <3>1. messages' = messages
      BY <1>8, <2>5 DEF ExitOrFollowUp
    <3> QED BY <2>3, <2>4, <3>1 DEF CallsInOrder, OfTurn, Backed, Complete
  <2>6. CASE followup # <<>>
    <3>0. followup \in Seq(User)
      BY DEF Typed
    <3>4. Head(followup) \in User
      BY <2>6, <3>0, HeadTailProperties
    <3>1. Head(followup) \in Msg /\ Head(followup).role = "user"
      BY <3>4 DEF User
    <3>2. messages' = Append(messages, Head(followup)) /\ messages \in Seq(Msg)
      BY <1>8, <2>6 DEF ExitOrFollowUp, Typed
    <3>3. /\ Len(messages') = Len(messages) + 1
          /\ messages'[Len(messages) + 1].role = "user"
          /\ \A i \in 1..Len(messages) : messages'[i] = messages[i]
      BY <3>1, <3>2, AppendProperties
    <3>5. \A i \in 1..Len(messages') \ DOMAIN messages : messages'[i].role = "user"
      BY <1>1, <3>3
    <3> QED BY <1>1, <2>3, <2>4, <3>3, <3>5, OthersBehind
  <2> QED BY <2>5, <2>6
<1>9. CASE FinishTool
  <2>1. PICK a \in DOMAIN messages :
            /\ Answering(a)
            /\ \A i \in DOMAIN messages \ {a} : messages[i].role = "assistant" => Complete(i)
    BY <1>9 DEF FinishTool, CallsInOrder
  <2>2. PICK len \in Nat : len = Len(messages)
    BY <1>1
  <2>3. /\ a \in Nat /\ a >= 1 /\ a <= len /\ messages[a].n \in Nat
        /\ messages[a].role = "assistant" /\ messages[a].of = rounds
        /\ len + Len(calls) = a + messages[a].n
        /\ \A k \in 1..(len - a) : messages[a + k] = Message("tool", rounds, k)
        /\ \A i \in 1..(a - 1) : OfTurn(i) => messages[i].of < rounds
    BY <1>1, <2>1, <2>2 DEF Answering
  <2>4. /\ pc = "tool" /\ rounds' = rounds /\ calls' = Tail(calls)
        /\ pc' = IF calls' = <<>> THEN "inject" ELSE "turn"
        /\ messages' = Append(messages, Message("tool", rounds, Answered + 1))
    BY <1>9 DEF FinishTool
  <2>5. Len(calls') = Len(calls) - 1 /\ (calls' = <<>> => Len(calls') = 0)
    <3>1. calls \in Seq(Signature) /\ calls # <<>>
      BY <2>4 DEF Typed
    <3> QED BY <2>4, <3>1, HeadTailProperties, EmptySeq
  <2>6. Answered = len - a
    <3> DEFINE results == {i \in DOMAIN messages : messages[i].role = "tool"
                                                  /\ messages[i].of = rounds}
    <3>1. ASSUME NEW i \in results PROVE i \in (a + 1)..len
      <4>1. i \in 1..len /\ messages[i].role = "tool" /\ messages[i].of = rounds
        BY <1>1, <2>2, <3>1
      <4>2. i # a
        BY <2>3, <4>1
      <4>3. ~(i < a)
        <5> SUFFICES ASSUME i < a PROVE FALSE
          OBVIOUS
        <5>1. i \in 1..(a - 1) /\ OfTurn(i)
          BY <2>3, <4>1 DEF OfTurn
        <5>2. messages[i].of < rounds
          BY <2>3, <5>1
        <5>3. rounds \in Nat
          BY <1>1
        <5> QED BY <4>1, <5>2, <5>3
      <4> QED BY <2>3, <4>1, <4>2, <4>3
    <3>2. ASSUME NEW i \in (a + 1)..len PROVE i \in results
      <4>1. i - a \in 1..(len - a) /\ a + (i - a) = i /\ i \in 1..len
        BY <2>3, <3>2
      <4>2. messages[i] = Message("tool", rounds, i - a)
        BY <2>3, <4>1
      <4> QED BY <1>1, <2>2, <4>1, <4>2 DEF Message
    <3>3. results = (a + 1)..len
      BY <3>1, <3>2
    <3>4. Cardinality((a + 1)..len) = len - a
      <4>1. Cardinality((a + 1)..len) = IF a + 1 > len THEN 0 ELSE len - (a + 1) + 1
        <5>1. a + 1 \in Int /\ len \in Int
          BY <2>2, <2>3
        <5> QED BY <5>1, FS_Interval
      <4> QED BY <2>2, <2>3, <4>1
    <3> QED BY <3>3, <3>4 DEF Answered
  <2>7. PICK m : m = Message("tool", rounds, len - a + 1)
    OBVIOUS
  <2>8. /\ m \in Msg /\ m.role = "tool" /\ m.of = rounds /\ m.n = len - a + 1
    BY <1>1, <2>2, <2>3, <2>7 DEF Message, Msg
  <2>9. /\ Len(messages') = len + 1 /\ messages'[len + 1] = m
        /\ \A i \in 1..len : messages'[i] = messages[i]
    <3>1. messages \in Seq(Msg)
      BY DEF Typed
    <3>2. messages' = Append(messages, m)
      BY <2>4, <2>6, <2>7
    <3> QED BY <2>2, <2>8, <3>1, <3>2, AppendProperties
  <2>10. \A i \in DOMAIN messages :
            /\ OfTurn(i)' = OfTurn(i) /\ messages'[i] = messages[i]
            /\ Complete(i) => Complete(i)'
            /\ Backed(i) => Backed(i)'
    BY <1>1, <2>2, <2>9, MoreMessages
  <2>11. DOMAIN messages' = 1..(len + 1) /\ DOMAIN messages = 1..len
    BY <1>1, <2>2, <2>9
  <2>12. \A k \in 1..(len + 1 - a) : messages'[a + k] = Message("tool", rounds', k)
    <3> SUFFICES ASSUME NEW k \in 1..(len + 1 - a)
                 PROVE  messages'[a + k] = Message("tool", rounds', k)
      OBVIOUS
    <3>1. CASE k = len + 1 - a
      <4>1. a + k = len + 1 /\ k = len - a + 1
        BY <2>2, <2>3, <3>1
      <4> QED BY <2>4, <2>7, <2>9, <4>1
    <3>2. CASE k # len + 1 - a
      <4>1. k \in 1..(len - a) /\ a + k \in 1..len
        BY <2>3, <3>2
      <4> QED BY <2>3, <2>4, <2>9, <4>1
    <3> QED BY <3>1, <3>2
  <2>13. Answering(a)'
    <3>1. Len(messages') + Len(calls') = a + messages'[a].n
      BY <1>1, <2>3, <2>5, <2>9, <2>10, <2>11
    <3>2. ASSUME NEW i \in 1..(a - 1), OfTurn(i)' PROVE messages'[i].of < rounds'
      <4>1. i \in DOMAIN messages
        BY <2>3, <2>11
      <4> QED BY <2>3, <2>4, <2>10, <3>2, <4>1
    <3>3. ~(pc' = "turn" /\ calls' = <<>>)
      BY <2>4
    <3>4. messages'[a].role = "assistant" /\ messages'[a].of = rounds'
      BY <2>3, <2>4, <2>10
    <3>5. \A k \in 1..(Len(messages') - a) : messages'[a + k] = Message("tool", rounds', k)
      <4>1. Len(messages') = len + 1
        BY <2>9
      <4>2. Len(messages') - a = len + 1 - a
        BY <2>3, <4>1
      <4> QED BY <2>12, <4>2
    <3> QED BY <3>1, <3>2, <3>3, <3>4, <3>5 DEF Answering
  <2>14. Backed(len + 1)'
    <3>1. len + 1 - (len - a + 1) = a
      BY <2>3
    <3>2. len - a + 1 <= messages[a].n /\ len - a + 1 < len + 1
      BY <1>1, <2>3, <2>5
    <3> QED BY <2>3, <2>8, <2>9, <2>10, <3>1, <3>2 DEF Backed
  <2>15. \A i \in DOMAIN messages' \ {a} : messages'[i].role = "assistant" => Complete(i)'
    <3> SUFFICES ASSUME NEW i \in DOMAIN messages', i # a, messages'[i].role = "assistant"
                 PROVE  Complete(i)'
      OBVIOUS
    <3>1. i # len + 1
      BY <2>8, <2>9
    <3>2. i \in DOMAIN messages
      BY <2>11, <3>1
    <3> QED BY <2>1, <2>10, <3>2
  <2>16. ASSUME NEW i \in DOMAIN messages'
         PROVE  /\ OfTurn(i)' => messages'[i].of <= rounds'
                /\ messages'[i].role = "tool" => Backed(i)'
    <3>1. CASE i = len + 1
      BY <1>1, <2>4, <2>8, <2>9, <2>14, <3>1
    <3>2. CASE i \in DOMAIN messages
      <4>1. /\ OfTurn(i) => messages[i].of <= rounds
            /\ messages[i].role = "tool" => Backed(i)
        BY <3>2 DEF CallsInOrder
      <4> QED BY <2>4, <2>10, <3>2, <4>1
    <3>3. i = len + 1 \/ i \in DOMAIN messages
      BY <2>11
    <3> QED BY <3>1, <3>2, <3>3
  <2>17. pc' = "inject" => Complete(a)'
    <3> SUFFICES ASSUME pc' = "inject" PROVE Complete(a)'
      OBVIOUS
    <3>1. len + 1 = a + messages[a].n
      <4>1. Len(calls) = 1
        BY <1>1, <2>4, <2>5
      <4> QED BY <2>3, <4>1
    <3>2. messages'[a] = messages[a] /\ Len(messages') = a + messages'[a].n
      BY <2>9, <2>10, <3>1
    <3>3. \A k \in 1..messages'[a].n : messages'[a + k] = Message("tool", messages'[a].of, k)
      <4>1. messages'[a].n = len + 1 - a /\ messages'[a].of = rounds'
        BY SMTT(30), <2>3, <2>4, <3>1, <3>2
      <4> QED BY <2>12, <4>1
    <3>4. Len(messages') \in Nat
      BY <1>1
    <3> QED BY <3>2, <3>3, <3>4 DEF Complete
  <2>18. a \in DOMAIN messages' /\ pc' \in {"inject", "turn"}
    BY <2>3, <2>4, <2>11
  <2> QED BY <2>13, <2>15, <2>16, <2>17, <2>18 DEF CallsInOrder
<1>10. CASE InjectSteering
  <2>1. \A i \in DOMAIN messages : /\ OfTurn(i) => messages[i].of <= rounds
                                   /\ messages[i].role = "tool" => Backed(i)
                                   /\ messages[i].role = "assistant" => Complete(i)
    BY <1>10 DEF InjectSteering, CallsInOrder
  <2>2. messages \in Seq(Msg) /\ steering \in Seq(Steering) /\ messages' = messages \o steering
    BY <1>10 DEF Typed, InjectSteering
  <2>3. steering \in Seq(Msg) /\ Len(steering) \in Nat
    BY <2>2, SeqMonotonic, LenProperties DEF Steering
  <2>4. /\ Len(messages') = Len(messages) + Len(steering)
        /\ \A i \in 1..(Len(messages) + Len(steering)) :
               messages'[i] = IF i <= Len(messages) THEN messages[i]
                              ELSE steering[i - Len(messages)]
    BY <2>2, <2>3, ConcatProperties
  <2>5. \A j \in 1..Len(steering) : steering[j].role = "steering"
    BY <2>2, ElementOfSeq DEF Steering
  <2>6. \A i \in 1..Len(messages) : messages'[i] = messages[i]
    BY <1>1, <2>3, <2>4
  <2>7. ASSUME NEW i \in 1..Len(messages') \ DOMAIN messages PROVE messages'[i].role = "steering"
    <3>1. i - Len(messages) \in 1..Len(steering) /\ ~(i <= Len(messages))
      BY <1>1, <2>3, <2>4
    <3> QED BY <1>1, <2>3, <2>4, <2>5, <3>1
  <2>8. pc' = "top" /\ rounds' = rounds /\ Len(messages) <= Len(messages')
    BY <1>1, <1>10, <2>3, <2>4 DEF InjectSteering
  <2> QED BY <2>1, <2>6, <2>7, <2>8, OthersBehind
<1> QED BY <1>3, <1>4, <1>5, <1>6, <1>7, <1>8, <1>9, <1>10 DEF Next, RunStep

LEMMA InitCalls == Init => CallsInOrder
<1> SUFFICES ASSUME Init PROVE CallsInOrder
  OBVIOUS
<1>1. messages = <<Message("user", 0, 0)>> /\ pc = "top"
  BY DEF Init
<1>2. DOMAIN messages = {1} /\ messages[1].role = "user"
  BY <1>1 DEF Message
<1> QED BY <1>1, <1>2 DEF CallsInOrder, OfTurn

LEMMA SessionInOrder == Spec => [](Typed /\ CallsInOrder)
<1>1. Init => Typed /\ CallsInOrder
  BY InitTyped, InitCalls
<1>2. Typed /\ CallsInOrder /\ [Next]_vars => Typed' /\ CallsInOrder'
  BY TypedStep, CallsStep
<1> QED BY <1>1, <1>2, PTL DEF Spec

\* Every request the model gets has, directly behind each assistant message,
\* the results of its tool calls in their order, and no other results: what is
\* said to the session while its tools run waits until they are done
\* (session.go, Run).
THEOREM RequestsAreWellFormed == Spec => []ToolCallsAnswered
<1>1. Typed /\ CallsInOrder => ToolCallsAnswered
  BY DEF CallsInOrder, Complete, Backed, ToolCallsAnswered
<1> QED BY <1>1, SessionInOrder, PTL

\* Run returns without an error only behind an answer that asks for no tool,
\* and with no follow-up waiting (session.go, Run).
THEOREM NothingLeftToDo == Spec => NaturalExit
<1> DEFINE Exit == ending' = "natural" /\ ending = "none" =>
                      /\ messages[Len(messages)].role = "assistant"
                      /\ messages[Len(messages)].n = 0
                      /\ followup = <<>>
<1>1. Typed /\ CallsInOrder /\ [Next]_vars => [Exit]_vars
  <2> SUFFICES ASSUME Typed, CallsInOrder, [Next]_vars, ending' = "natural", ending = "none"
               PROVE  /\ messages[Len(messages)].role = "assistant"
                      /\ messages[Len(messages)].n = 0
                      /\ followup = <<>>
    BY DEF Exit
  <2>1. ExitOrFollowUp /\ followup = <<>>
    BY DEF Next, RunStep, Steer, FollowUp, Cancel, Abort, CallModel, ModelFails,
           StreamBlocks, ModelAnswers, ExitOrFollowUp, StartTool, FinishTool,
           InjectSteering, End, run, vars
  <2>2. /\ Len(messages) \in Nat /\ DOMAIN messages = 1..Len(messages)
        /\ \A i \in DOMAIN messages : messages[i].n \in Nat
    <3>1. /\ Len(messages) \in Nat /\ DOMAIN messages = 1..Len(messages)
          /\ \A i \in DOMAIN messages : messages[i] \in Msg
      BY LenProperties, ElementOfSeq DEF Typed
    <3> QED BY <3>1 DEF Msg
  <2>3. pc = "turn" /\ calls = <<>> /\ Len(calls) = 0
    BY <2>1, EmptySeq DEF ExitOrFollowUp
  <2>4. PICK a \in DOMAIN messages : Answering(a)
    BY <2>3 DEF CallsInOrder
  <2>5. messages[a].role = "assistant" /\ messages[a].n = 0
    BY <2>3, <2>4 DEF Answering
  <2>6. a = Len(messages)
    BY <2>2, <2>3, <2>4, <2>5 DEF Answering
  <2> QED BY <2>1, <2>5, <2>6
<1> QED BY <1>1, SessionInOrder, PTL DEF Spec, NaturalExit
-----------------------------------------------------------------------------
(***************************************************************************)
(* What is said to the session.  A queue moves to the conversation without *)
(* changing the two put together; anything else the session says is of     *)
(* another role.                                                           *)
(***************************************************************************)
\* Messages of other roles, put between the conversation and a queue, change
\* nothing about those of the role.
LEMMA OthersBetween ==
    ASSUME NEW role, NEW numbers, NEW said \in Seq(Msg), NEW queue \in Seq(Msg),
           NEW more \in Seq(Msg), \A i \in DOMAIN more : more[i].role # role,
           Kept(said \o queue, role, numbers)
    PROVE  Kept((said \o more) \o queue, role, numbers)
<1> DEFINE old == said \o queue
           grown == said \o more
           new == grown \o queue
           At(i) == IF i <= Len(said) THEN i ELSE i + Len(more)
<1>1. /\ Len(said) \in Nat /\ Len(queue) \in Nat /\ Len(more) \in Nat
      /\ DOMAIN more = 1..Len(more)
  BY LenProperties
<1>2. /\ grown \in Seq(Msg) /\ Len(grown) = Len(said) + Len(more)
      /\ \A i \in 1..(Len(said) + Len(more)) :
             grown[i] = IF i <= Len(said) THEN said[i] ELSE more[i - Len(said)]
  BY ConcatProperties
<1>3. /\ old \in Seq(Msg) /\ Len(old) = Len(said) + Len(queue)
      /\ \A i \in 1..(Len(said) + Len(queue)) :
             old[i] = IF i <= Len(said) THEN said[i] ELSE queue[i - Len(said)]
  BY ConcatProperties
<1> HIDE DEF grown
<1>4. /\ new \in Seq(Msg) /\ Len(new) = Len(grown) + Len(queue)
      /\ \A i \in 1..(Len(grown) + Len(queue)) :
             new[i] = IF i <= Len(grown) THEN grown[i] ELSE queue[i - Len(grown)]
  BY <1>2, ConcatProperties
<1>5. /\ DOMAIN old = 1..(Len(said) + Len(queue))
      /\ DOMAIN new = 1..(Len(said) + Len(more) + Len(queue))
  BY <1>1, <1>2, <1>3, <1>4, LenProperties
<1>6. Kept(old, role, numbers)
  OBVIOUS
<1> HIDE DEF old, new
<1>7. \A i \in DOMAIN old : At(i) \in DOMAIN new /\ new[At(i)] = old[i]
  <2> SUFFICES ASSUME NEW i \in DOMAIN old PROVE At(i) \in DOMAIN new /\ new[At(i)] = old[i]
    OBVIOUS
  <2>1. CASE i <= Len(said)
    <3>1. /\ i \in 1..(Len(said) + Len(queue)) /\ i \in 1..(Len(said) + Len(more))
          /\ i \in 1..(Len(grown) + Len(queue)) /\ i <= Len(grown)
      BY <1>1, <1>2, <1>5, <2>1
    <3> QED BY <1>1, <1>2, <1>3, <1>4, <1>5, <2>1, <3>1
  <2>2. CASE ~(i <= Len(said))
    <3>1. /\ i + Len(more) \in 1..(Len(grown) + Len(queue)) /\ ~(i + Len(more) <= Len(grown))
          /\ (i + Len(more)) - Len(grown) = i - Len(said)
      BY <1>1, <1>2, <1>5, <2>2
    <3>2. new[i + Len(more)] = queue[i - Len(said)]
      BY <1>4, <3>1
    <3> QED BY <1>1, <1>2, <1>3, <1>5, <2>2, <3>1, <3>2
  <2> QED BY <2>1, <2>2
<1>8. \A j \in DOMAIN new : new[j].role = role => \E i \in DOMAIN old : j = At(i)
  <2> SUFFICES ASSUME NEW j \in DOMAIN new, new[j].role = role
               PROVE  \E i \in DOMAIN old : j = At(i)
    OBVIOUS
  <2>1. CASE j <= Len(said)
    BY <1>1, <1>5, <2>1
  <2>2. CASE j > Len(said) /\ j <= Len(said) + Len(more)
    <3>1. new[j] = more[j - Len(said)] /\ j - Len(said) \in DOMAIN more
      BY <1>1, <1>2, <1>4, <1>5, <2>2
    <3> QED BY <3>1
  <2>3. CASE j > Len(said) + Len(more)
    <3>1. j - Len(more) \in DOMAIN old /\ At(j - Len(more)) = j
      BY <1>1, <1>5, <2>3
    <3> QED BY <3>1
  <2> QED BY <1>1, <1>5, <2>1, <2>2, <2>3
<1>9. \A i, k \in DOMAIN old : At(i) < At(k) => i < k
  BY <1>1, <1>5
<1> HIDE DEF At
<1>10. /\ \A n \in numbers : \E i \in DOMAIN old :
              old[i].role = role /\ old[i] = Message(role, 0, n)
       /\ \A i \in DOMAIN old : old[i].role = role => old[i].of = 0 /\ old[i].n \in numbers
       /\ \A i, j \in DOMAIN old :
              old[i].role = role /\ old[j].role = role /\ i < j => old[i].n < old[j].n
  BY <1>6 DEF Kept
<1>11. Kept(new, role, numbers)
  <2>1. ASSUME NEW n \in numbers
        PROVE  \E j \in DOMAIN new : new[j].role = role /\ new[j] = Message(role, 0, n)
    BY <1>7, <1>10
  <2>2. ASSUME NEW j \in DOMAIN new, new[j].role = role
        PROVE  new[j].of = 0 /\ new[j].n \in numbers
    BY <1>7, <1>8, <1>10, <2>2
  <2>3. ASSUME NEW j \in DOMAIN new, NEW l \in DOMAIN new,
               new[j].role = role, new[l].role = role, j < l
        PROVE  new[j].n < new[l].n
    <3>1. PICK i \in DOMAIN old, k \in DOMAIN old : j = At(i) /\ l = At(k)
      BY <1>8, <2>3
    <3> QED BY <1>7, <1>9, <1>10, <2>3, <3>1
  <2> QED BY <2>1, <2>2, <2>3 DEF Kept
<1> QED BY <1>11 DEF new, grown

LEMMA OtherBetween ==
    ASSUME NEW role, NEW numbers, NEW said \in Seq(Msg), NEW queue \in Seq(Msg), NEW m \in Msg,
           m.role # role, Kept(said \o queue, role, numbers)
    PROVE  Kept(Append(said, m) \o queue, role, numbers)
<1>1. Append(said, m) = said \o <<m>>
  BY AppendIsConcat
<1>2. <<m>> \in Seq(Msg) /\ \A i \in DOMAIN <<m>> : <<m>>[i].role # role
  OBVIOUS
<1> QED BY <1>1, <1>2, OthersBetween

\* The next message of the role, behind all others.
LEMMA SaidNext ==
    ASSUME NEW role \in {"user", "steering"}, NEW first \in Nat, NEW last \in Nat,
           first \in {0, 1}, NEW said \in Seq(Msg), Kept(said, role, first..last)
    PROVE  Kept(Append(said, Message(role, 0, last + 1)), role, first..(last + 1))
<1> DEFINE m == Message(role, 0, last + 1)
           new == Append(said, m)
<1>1. m \in Msg /\ m.role = role /\ m.of = 0 /\ m.n = last + 1
  BY DEF Message, Msg
<1>2. /\ new \in Seq(Msg) /\ Len(new) = Len(said) + 1 /\ Len(said) \in Nat
      /\ \A i \in 1..Len(said) : new[i] = said[i]
      /\ new[Len(said) + 1] = m
  BY <1>1, AppendProperties, LenProperties
<1>3. DOMAIN said = 1..Len(said) /\ DOMAIN new = 1..(Len(said) + 1)
  BY <1>2, LenProperties
<1> HIDE DEF new
<1>4. /\ \A n \in first..last : \E i \in DOMAIN said :
             said[i].role = role /\ said[i] = Message(role, 0, n)
      /\ \A i \in DOMAIN said :
             said[i].role = role => said[i].of = 0 /\ said[i].n \in first..last
      /\ \A i, j \in DOMAIN said :
             said[i].role = role /\ said[j].role = role /\ i < j => said[i].n < said[j].n
  BY DEF Kept
<1> HIDE DEF m
<1>5. \A i \in DOMAIN new :
          \/ i \in DOMAIN said /\ new[i] = said[i]
          \/ i = Len(said) + 1 /\ new[i] = m
  <2> SUFFICES ASSUME NEW i \in DOMAIN new
               PROVE  \/ i \in DOMAIN said /\ new[i] = said[i]
                      \/ i = Len(said) + 1 /\ new[i] = m
    OBVIOUS
  <2>1. i \in 1..Len(said) \/ i = Len(said) + 1
    BY <1>2, <1>3
  <2> QED BY <1>2, <1>3, <2>1
<1>6. ASSUME NEW n \in first..(last + 1)
      PROVE  \E i \in DOMAIN new : new[i].role = role /\ new[i] = Message(role, 0, n)
  <2>1. CASE n = last + 1
    <3>1. Len(said) + 1 \in DOMAIN new
      BY <1>2, <1>3
    <3>2. m = Message(role, 0, n)
      BY <2>1 DEF m
    <3> QED BY <1>1, <1>2, <3>1, <3>2
  <2>2. CASE n \in first..last
    <3>1. PICK i \in DOMAIN said : said[i].role = role /\ said[i] = Message(role, 0, n)
      BY <1>4, <2>2
    <3>2. i \in DOMAIN new /\ new[i] = said[i]
      BY <1>2, <1>3
    <3> QED BY <3>1, <3>2
  <2> QED BY <2>1, <2>2
<1>7. ASSUME NEW i \in DOMAIN new, new[i].role = role
      PROVE  new[i].of = 0 /\ new[i].n \in first..(last + 1)
  <2>1. CASE i = Len(said) + 1 /\ new[i] = m
    BY <1>1, <2>1
  <2>2. CASE i \in DOMAIN said /\ new[i] = said[i]
    BY <1>4, <1>7, <2>2
  <2> QED BY <1>5, <2>1, <2>2
<1>8. ASSUME NEW i \in DOMAIN new, NEW j \in DOMAIN new,
             new[i].role = role, new[j].role = role, i < j
      PROVE  new[i].n < new[j].n
  <2>1. i \in DOMAIN said /\ new[i] = said[i]
    BY <1>2, <1>3, <1>5, <1>8
  <2>2. CASE j = Len(said) + 1 /\ new[j] = m
    <3>1. said[i].n \in first..last
      BY <1>4, <1>8, <2>1
    <3> QED BY <1>1, <2>1, <2>2, <3>1
  <2>3. CASE j \in DOMAIN said /\ new[j] = said[j]
    BY <1>4, <1>8, <2>1, <2>3
  <2> QED BY <1>5, <2>2, <2>3
<1>9. Kept(new, role, first..(last + 1))
  BY <1>6, <1>7, <1>8 DEF Kept
<1> QED BY <1>9 DEF new, m

\* Taking the first of a queue, or all of it, leaves the two together as they were.
LEMMA QueueMoves ==
    ASSUME NEW said \in Seq(Msg), NEW queue \in Seq(Msg)
    PROVE  /\ (said \o queue) \o <<>> = said \o queue
           /\ queue # <<>> => Append(said, Head(queue)) \o Tail(queue) = said \o queue
           /\ \A m \in Msg : said \o Append(queue, m) = Append(said \o queue, m)
<1>1. said \o queue \in Seq(Msg)
  BY ConcatProperties
<1>2. \A m \in Msg : <<m>> \in Seq(Msg)
  OBVIOUS
<1>3. ASSUME queue # <<>> PROVE Append(said, Head(queue)) \o Tail(queue) = said \o queue
  <2>1. Head(queue) \in Msg /\ Tail(queue) \in Seq(Msg) /\ Len(queue) \in Nat \ {0}
    BY <1>3, HeadTailProperties, EmptySeq
  <2>2. queue = <<Head(queue)>> \o Tail(queue)
    <3>1. SubSeq(queue, 1, Len(queue)) = <<queue[1]>> \o SubSeq(queue, 1 + 1, Len(queue))
      BY <2>1, SubSeqRecursiveFirst
    <3>2. SubSeq(queue, 1, Len(queue)) = queue
      BY SubSeqFull
    <3>3. Tail(queue) = SubSeq(queue, 2, Len(queue))
      BY <1>3, TailIsSubSeq
    <3>4. Head(queue) = queue[1] /\ 1 + 1 = 2
      BY <1>3
    <3> QED BY <3>1, <3>2, <3>3, <3>4
  <2>3. Append(said, Head(queue)) = said \o <<Head(queue)>>
    BY <2>1, AppendIsConcat
  <2>4. (said \o <<Head(queue)>>) \o Tail(queue) = said \o (<<Head(queue)>> \o Tail(queue))
    BY <1>2, <2>1, ConcatAssociative
  <2> QED BY <2>2, <2>3, <2>4
<1>4. ASSUME NEW m \in Msg PROVE said \o Append(queue, m) = Append(said \o queue, m)
  <2>1. Append(queue, m) = queue \o <<m>> /\ Append(said \o queue, m) = (said \o queue) \o <<m>>
    BY <1>1, AppendIsConcat
  <2>2. (said \o queue) \o <<m>> = said \o (queue \o <<m>>)
    BY <1>2, ConcatAssociative
  <2> QED BY <2>1, <2>2
<1> QED BY <1>1, <1>3, <1>4, ConcatEmptySeq

LEMMA KeptStep == Typed /\ Typed' /\ InputsKept /\ [Next]_vars => InputsKept'
<1> SUFFICES ASSUME Typed, Typed', InputsKept, [Next]_vars PROVE InputsKept'
  OBVIOUS
<1>1. /\ messages \in Seq(Msg) /\ steering \in Seq(Msg) /\ followup \in Seq(Msg)
      /\ messages' \in Seq(Msg)
      /\ steered \in Nat /\ followed \in Nat
  <2>1. Steering \subseteq Msg /\ User \subseteq Msg /\ MaxInputs \in Nat
    BY SessionAssumption DEF Steering, User
  <2> QED BY SMTT(30), <2>1, SeqMonotonic DEF Typed
<1>2. /\ \A i \in DOMAIN steering' : steering'[i].role = "steering"
      /\ \A i \in DOMAIN followup' : followup'[i].role = "user"
  <2>1. steering' \in Seq(Steering) /\ followup' \in Seq(User)
    BY DEF Typed
  <2>2. /\ DOMAIN steering' = 1..Len(steering') /\ DOMAIN followup' = 1..Len(followup')
        /\ \A i \in DOMAIN steering' : steering'[i] \in Steering
        /\ \A i \in DOMAIN followup' : followup'[i] \in User
    BY <2>1, LenProperties, ElementOfSeq
  <2> QED BY <2>2 DEF Steering, User
<1>3. /\ Kept(messages \o steering, "steering", 1..steered)
      /\ Kept(messages \o followup, "user", 0..followed)
  BY DEF InputsKept
<1> SUFFICES /\ Kept(messages' \o steering', "steering", 1..steered')
             /\ Kept(messages' \o followup', "user", 0..followed')
  BY <1>2 DEF InputsKept
<1>4. \A n \in Nat : Message("steering", 0, n) \in Msg /\ Message("user", 0, n) \in Msg
  BY DEF Message, Msg
<1>5. /\ messages \o steering \in Seq(Msg) /\ messages \o followup \in Seq(Msg)
  BY <1>1, ConcatProperties
<1>6. ASSUME messages' = messages, steered' = steered + 1,
             steering' = Append(steering, Message("steering", 0, steered'))
      PROVE  Kept(messages' \o steering', "steering", 1..steered')
  <2>1. messages' \o steering' = Append(messages \o steering, Message("steering", 0, steered + 1))
    BY <1>1, <1>4, <1>6, QueueMoves
  <2>2. Kept(Append(messages \o steering, Message("steering", 0, steered + 1)),
             "steering", 1..(steered + 1))
    BY <1>1, <1>3, <1>5, SaidNext
  <2> QED BY <1>6, <2>1, <2>2
<1>7. ASSUME NEW m \in Msg, m.role \in {"assistant", "tool"}, messages' = Append(messages, m)
      PROVE  /\ Kept(messages' \o steering, "steering", 1..steered)
             /\ Kept(messages' \o followup, "user", 0..followed)
  BY <1>1, <1>3, <1>7, OtherBetween
<1>8. CASE Steer
  BY <1>3, <1>6, <1>8 DEF Steer, run
<1>9. CASE FollowUp
  <2>1. /\ messages' = messages /\ followed' = followed + 1
        /\ followup' = Append(followup, Message("user", 0, followed + 1))
        /\ UNCHANGED <<steering, steered>>
    BY <1>9 DEF FollowUp, run
  <2>2. messages' \o followup' = Append(messages \o followup, Message("user", 0, followed + 1))
    BY <1>1, <1>4, <2>1, QueueMoves
  <2>3. Kept(Append(messages \o followup, Message("user", 0, followed + 1)),
             "user", 0..(followed + 1))
    BY <1>1, <1>3, <1>5, SaidNext
  <2> QED BY <1>3, <2>1, <2>2, <2>3
<1>10. CASE Cancel \/ Abort \/ CallModel
            \/ \E kind \in {"retryable", "fatal", "abort"} : ModelFails(kind)
            \/ StreamBlocks
  <2>1. UNCHANGED <<messages, steering, followup, steered, followed>>
    BY <1>10 DEF Cancel, Abort, CallModel, ModelFails, StreamBlocks, queues, run
  <2> QED BY <1>3, <2>1
<1>11. ASSUME NEW asked \in Responses, NEW full \in BOOLEAN, ModelAnswers(asked, full)
       PROVE  /\ Kept(messages' \o steering', "steering", 1..steered')
              /\ Kept(messages' \o followup', "user", 0..followed')
  <2> DEFINE m == Message("assistant", rounds, Len(asked))
  <2>1. m \in Msg /\ m.role = "assistant"
    <3>1. Len(asked) \in Nat /\ rounds \in Nat
      BY SessionAssumption, ResponseIsSeq, LenProperties DEF Typed
    <3> QED BY <3>1 DEF Message, Msg
  <2>2. /\ messages' = Append(messages, m) /\ UNCHANGED <<followup, followed>>
        /\ \/ UNCHANGED <<steered, steering>>
           \/ /\ steered' = steered + 1
              /\ steering' = Append(steering, Message("steering", 0, steered + 1))
    BY <1>11 DEF ModelAnswers
  <2> HIDE DEF m
  <2>3. /\ Kept(messages' \o steering, "steering", 1..steered)
        /\ Kept(messages' \o followup, "user", 0..followed)
    BY <1>7, <2>1, <2>2
  <2>4. CASE UNCHANGED <<steered, steering>>
    BY <2>2, <2>3, <2>4
  <2>5. CASE steered' = steered + 1
             /\ steering' = Append(steering, Message("steering", 0, steered + 1))
    <3>1. messages' \o steering \in Seq(Msg)
      BY <1>1, ConcatProperties
    <3>2. messages' \o steering'
            = Append(messages' \o steering, Message("steering", 0, steered + 1))
      BY <1>1, <1>4, <2>5, QueueMoves
    <3>3. Kept(Append(messages' \o steering, Message("steering", 0, steered + 1)),
               "steering", 1..(steered + 1))
      BY <1>1, <2>3, <3>1, SaidNext
    <3> QED BY <2>2, <2>3, <2>5, <3>2, <3>3
  <2> QED BY <2>2, <2>4, <2>5
<1>12. CASE ExitOrFollowUp
  <2>1. CASE followup = <<>>
    <3>1. UNCHANGED <<messages, steering, followup, steered, followed>>
      BY <1>12, <2>1 DEF ExitOrFollowUp
    <3> QED BY <1>3, <3>1
  <2>2. CASE followup # <<>>
    <3>1. /\ messages' = Append(messages, Head(followup)) /\ followup' = Tail(followup)
          /\ UNCHANGED <<steering, steered, followed>>
      BY <1>12, <2>2 DEF ExitOrFollowUp
    <3>2. messages' \o followup' = messages \o followup
      BY <1>1, <2>2, <3>1, QueueMoves
    <3>3. Head(followup) \in Msg /\ Head(followup).role = "user"
      <4>1. Head(followup) \in User
        BY <2>2, HeadTailProperties DEF Typed
      <4> QED BY <4>1 DEF User
    <3>4. Kept(Append(messages, Head(followup)) \o steering, "steering", 1..steered)
      BY <1>1, <1>3, <3>3, OtherBetween
    <3> QED BY <1>3, <3>1, <3>2, <3>4
  <2> QED BY <2>1, <2>2
<1>13. CASE StartTool
  <2>1. /\ UNCHANGED <<messages, followup, followed>>
        /\ \/ UNCHANGED <<steered, steering>>
           \/ /\ steered' = steered + 1
              /\ steering' = Append(steering, Message("steering", 0, steered + 1))
    BY <1>13 DEF StartTool
  <2> QED BY <1>3, <1>6, <2>1
<1>14. CASE FinishTool
  <2> DEFINE m == Message("tool", rounds, Answered + 1)
  <2>1. m \in Msg /\ m.role = "tool"
    BY AnsweredIsNat, SessionAssumption DEF Message, Msg, Typed
  <2>2. messages' = Append(messages, m) /\ UNCHANGED <<steering, followup, steered, followed>>
    BY <1>14 DEF FinishTool, queues
  <2> HIDE DEF m
  <2> QED BY <1>7, <2>1, <2>2
<1>15. CASE InjectSteering
  <2>1. messages' = messages \o steering /\ steering' = <<>>
        /\ UNCHANGED <<followup, steered, followed>>
    BY <1>15 DEF InjectSteering
  <2>2. messages' \o steering' = messages \o steering
    BY <1>1, <2>1, QueueMoves
  <2>3. \A i \in DOMAIN steering : steering[i].role # "user"
    BY DEF InputsKept
  <2>4. Kept((messages \o steering) \o followup, "user", 0..followed)
    BY <1>1, <1>3, <2>3, OthersBetween
  <2> QED BY <1>3, <2>1, <2>2, <2>4
<1>16. CASE UNCHANGED vars
  <2>1. UNCHANGED <<messages, steering, followup, steered, followed>>
    BY <1>16 DEF vars, queues, run
  <2> QED BY <1>3, <2>1
<1> QED BY <1>8, <1>9, <1>10, <1>11, <1>12, <1>13, <1>14, <1>15, <1>16 DEF Next, RunStep

\* Nothing said to the session from outside, or by it to itself, is lost, said
\* twice or out of order, whenever it is said (session.go, Steer, FollowUp,
\* injectSteering and Run).
THEOREM EverythingSaidIsKept == Spec => []InputsKept
<1>1. Init => InputsKept
  <2> SUFFICES ASSUME Init PROVE InputsKept
    OBVIOUS
  <2> DEFINE first == Message("user", 0, 0)
  <2>1. /\ messages = <<first>> /\ steering = <<>> /\ followup = <<>>
        /\ steered = 0 /\ followed = 0
    BY DEF Init
  <2>2. messages \in Seq(Msg)
    BY InitTyped DEF Typed
  <2>3. messages \o <<>> = messages
    BY <2>2, ConcatEmptySeq
  <2>4. DOMAIN messages = {1} /\ messages[1] = first
    BY <2>1
  <2>5. first.role = "user" /\ first.of = 0 /\ first.n = 0
    BY DEF Message
  <2>6. Kept(messages, "steering", 1..0) /\ Kept(messages, "user", 0..0)
    BY <2>4, <2>5 DEF Kept
  <2> QED BY <2>1, <2>3, <2>6 DEF InputsKept
<1>2. Spec => []Typed
  BY SessionTyped
<1> QED BY <1>1, <1>2, KeptStep, PTL DEF Spec

-----------------------------------------------------------------------------
(***************************************************************************)
(* What of the conversation is sent.  The prompt is picked out of the      *)
(* request, and a message of the wire stands for the one of the            *)
(* conversation it came from: the two have the same content, and places    *)
(* keep their order.  No two messages say the same, since a round has one  *)
(* answer and a call one result.                                           *)
(***************************************************************************)
\* The k-th element is that of the at[k]-th place; places come in their order,
\* and every one does.
Picks(picked, seq, places, m, at) ==
    /\ m \in Nat /\ at \in [1..m -> places] /\ DOMAIN picked = 1..m
    /\ \A k \in 1..m : picked[k] = seq[at[k]]
    /\ \A k, l \in 1..m : k < l => at[k] < at[l]
    /\ \A i \in places : \E k \in 1..m : at[k] = i

\* What is picked is picked in order, and all of it.
LEMMA PickedInOrder ==
    ASSUME NEW n \in Nat, NEW seq, NEW places \in SUBSET (1..n)
    PROVE  \E m, at : Picks(Picked(seq, places), seq, places, m, at)
<1> DEFINE m       == Cardinality(places)
           UpTo(i) == {j \in places : j <= i}
           rank    == [i \in places |-> Cardinality(UpTo(i))]
           at      == [k \in 1..m |-> CHOOSE i \in places : Cardinality(UpTo(i)) = k]
<1>1. IsFiniteSet(places) /\ m \in Nat /\ places \subseteq Int
  <2>1. IsFiniteSet(1..n)
    BY FS_Interval
  <2>2. IsFiniteSet(places)
    BY <2>1, FS_Subset
  <2>3. places \subseteq Int
    OBVIOUS
  <2> QED BY <2>2, <2>3, FS_CardinalityType
<1>2. ASSUME NEW i \in places
      PROVE  /\ UpTo(i) \in SUBSET places /\ i \in UpTo(i) /\ IsFiniteSet(UpTo(i))
             /\ rank[i] \in 1..m
  <2>1. UpTo(i) \in SUBSET places /\ i \in UpTo(i)
    BY <1>1
  <2> HIDE DEF UpTo
  <2>2. IsFiniteSet(UpTo(i)) /\ Cardinality(UpTo(i)) <= m /\ Cardinality(UpTo(i)) \in Nat
    BY <1>1, <2>1, FS_Subset, FS_CardinalityType
  <2>3. Cardinality(UpTo(i)) # 0
    BY <2>1, <2>2, FS_EmptySet
  <2>4. rank[i] = Cardinality(UpTo(i))
    OBVIOUS
  <2> HIDE DEF m, rank
  <2> QED BY <1>1, <2>1, <2>2, <2>3, <2>4
<1>3. ASSUME NEW i \in places, NEW j \in places, i < j
      PROVE  rank[i] < rank[j]
  <2>1. UpTo(i) \in SUBSET UpTo(j) /\ j \notin UpTo(i) /\ j \in UpTo(j)
    <3>1. i \in Int /\ j \in Int
      BY <1>1
    <3>2. \A k \in places : k \in Int /\ (k <= i => k <= j)
      BY <1>1, <1>3, <3>1
    <3>3. ~(j <= i) /\ j <= j
      BY <1>3, <3>1
    <3> QED BY <3>2, <3>3
  <2> HIDE DEF UpTo
  <2>2. UpTo(i) # UpTo(j)
    BY <2>1
  <2>3. IsFiniteSet(UpTo(j))
    BY <1>2
  <2>4. Cardinality(UpTo(i)) <= Cardinality(UpTo(j)) /\ Cardinality(UpTo(j)) # Cardinality(UpTo(i))
    BY <2>1, <2>2, <2>3, FS_Subset
  <2>5. rank[i] = Cardinality(UpTo(i)) /\ rank[j] = Cardinality(UpTo(j))
    OBVIOUS
  <2>6. rank[i] \in 1..m /\ rank[j] \in 1..m
    BY <1>2
  <2> HIDE DEF rank, m
  <2> QED BY <1>1, <2>4, <2>5, <2>6
<1> HIDE DEF UpTo
<1>4. rank \in Injection(places, 1..m)
  <2>1. rank \in [places -> 1..m]
    BY <1>2
  <2>2. ASSUME NEW i \in places, NEW j \in places, rank[i] = rank[j] PROVE i = j
    <3>1. rank[i] \in 1..m /\ rank[j] \in 1..m
      BY <1>2
    <3>2. ~(i < j) /\ ~(j < i)
      <4> HIDE DEF rank, m
      <4> QED BY <1>1, <1>3, <2>2, <3>1
    <3> QED BY <1>1, <3>2
  <2> HIDE DEF rank, m
  <2> QED BY <2>1, <2>2 DEF Injection, IsInjective
<1>5. rank \in Surjection(places, 1..m)
  <2>1. IsFiniteSet(1..m) /\ Cardinality(1..m) = m
    BY <1>1, FS_Interval
  <2> HIDE DEF rank
  <2> QED BY <1>4, <2>1, FS_Injection
<1>6. ASSUME NEW k \in 1..m PROVE at[k] \in places /\ rank[at[k]] = k
  <2>1. PICK i \in places : rank[i] = k
    BY <1>5 DEF Surjection
  <2>2. Cardinality(UpTo(i)) = k
    BY <2>1
  <2>3. at[k] \in places /\ Cardinality(UpTo(at[k])) = k
    BY <2>2
  <2> QED BY <2>3
<1>7. /\ DOMAIN Picked(seq, places) = 1..m
      /\ \A k \in 1..m : Picked(seq, places)[k] = seq[at[k]]
  BY DEF Picked, UpTo
<1>8. at \in [1..m -> places]
  BY <1>6
<1>9. ASSUME NEW k \in 1..m, NEW l \in 1..m, k < l PROVE at[k] < at[l]
  <2>1. at[k] \in places /\ rank[at[k]] = k /\ at[l] \in places /\ rank[at[l]] = l
    BY <1>6
  <2> HIDE DEF at, rank
  <2>2. k \in Int /\ l \in Int /\ k # l /\ ~(l < k)
    BY <1>1, <1>9
  <2>3. at[k] # at[l] /\ ~(at[l] < at[k])
    BY <1>3, <2>1, <2>2
  <2>4. at[k] \in Int /\ at[l] \in Int
    BY <1>1, <2>1
  <2> QED BY <2>3, <2>4
<1>10. ASSUME NEW i \in places PROVE \E k \in 1..m : at[k] = i
  <2>1. rank[i] \in 1..m
    BY <1>2
  <2>2. at[rank[i]] \in places /\ rank[at[rank[i]]] = rank[i]
    BY <1>6, <2>1
  <2> HIDE DEF at, rank
  <2>3. at[rank[i]] = i
    BY <1>4, <2>2 DEF Injection, IsInjective
  <2> QED BY <2>1, <2>3
<1> HIDE DEF at, m
<1> QED BY <1>1, <1>7, <1>8, <1>9, <1>10 DEF Picks

\* What a message says is said once in its content, a result has a content of
\* its own, and no content is the text that stands for nothing.
LEMMA ContentSays ==
    ASSUME NEW m \in Msg
    PROVE  LET content == LLMMessage(m).content
           IN  /\ \E len \in Nat : DOMAIN content = 1..len /\ (len = 0 <=> content = <<>>)
               /\ ToSet(content) = Parts(m)
               /\ \A k, l \in DOMAIN content : content[k] = content[l] => k = l
               /\ EmptyText \notin ToSet(content)
               /\ m.role = "tool" => content = << Block("result", m) >>
               /\ \A k \in DOMAIN content : content[k].kind = "result" <=> m.role = "tool"
               /\ LLMMessage(m).role = IF m.role \in {"assistant", "tool"} THEN m.role ELSE "user"
<1> DEFINE content == LLMMessage(m).content
           text    == TextOf(m)
           asked   == CallsOf(m)
           X       == {Block("text", m)}
                      \cup {Block("call", Message("tool", m.of, k)) : k \in 1..m.n}
           Call(k) == Block("call", Message("tool", m.of, k))
<1>1. /\ m.n \in Nat /\ m.role \in {"user", "assistant", "tool", "steering"}
      /\ m.role # "none"
  BY DEF Msg
<1>0. /\ Block("text", m).kind = "text" /\ Block("text", m) # EmptyText
      /\ Block("result", m).kind = "result" /\ Block("result", m) # EmptyText
      /\ \A k : Call(k).kind = "call" /\ Call(k).of.n = k /\ Call(k) # EmptyText
  <2>1. m # Message("none", 0, 0)
    BY <1>1 DEF Message
  <2> QED BY <2>1 DEF EmptyText, Block, Message
<1>2. CASE m.role = "assistant"
  <2>1. content = text \o asked /\ LLMMessage(m).role = "assistant"
    BY <1>2 DEF LLMMessage, Said
  <2>2. /\ text \in Seq(X) /\ Len(text) \in {0, 1}
        /\ Len(text) = 1 => text = << Block("text", m) >> /\ text[1] = Block("text", m)
        /\ Len(text) = 0 => text = <<>>
    <3>1. text = <<>> \/ text = << Block("text", m) >>
      BY DEF TextOf
    <3> HIDE DEF text
    <3>2. Block("text", m) \in X
      OBVIOUS
    <3> HIDE DEF X
    <3>3. CASE text = <<>>
      BY <3>3
    <3>4. CASE text = << Block("text", m) >>
      BY <3>2, <3>4
    <3> QED BY <3>1, <3>3, <3>4
  <2>3. asked \in Seq(X) /\ Len(asked) = m.n
        /\ \A k \in 1..m.n : asked[k] = Block("call", Message("tool", m.of, k))
    <3>1. asked \in [1..m.n -> X]
      BY DEF CallsOf
    <3>2. asked \in Seq(X)
      BY <1>1, <3>1, IsASeq
    <3>3. Len(asked) \in Nat /\ DOMAIN asked = 1..Len(asked)
      BY <3>2, LenProperties
    <3>4. Len(asked) = m.n
      <4> HIDE DEF asked
      <4> QED BY <1>1, <3>1, <3>3
    <3> QED BY <3>2, <3>4 DEF CallsOf
  <2> HIDE DEF text, asked, X
  <2>4. /\ text \o asked \in Seq(X) /\ Len(text \o asked) = Len(text) + m.n
        /\ \A k \in 1..Len(text) + m.n :
              (text \o asked)[k] = IF k <= Len(text) THEN text[k] ELSE asked[k - Len(text)]
    BY <2>2, <2>3, ConcatProperties
  <2> HIDE DEF content
  <2>5. /\ DOMAIN content = 1..Len(text) + m.n /\ Len(text) + m.n \in Nat
        /\ Len(text) + m.n = 0 <=> content = <<>>
        /\ \A k \in DOMAIN content :
              content[k] = IF k <= Len(text) THEN Block("text", m)
                           ELSE Block("call", Message("tool", m.of, k - Len(text)))
    <3>1. content \in Seq(X) /\ Len(content) = Len(text) + m.n
      BY <2>1, <2>4
    <3>2. DOMAIN content = 1..Len(text) + m.n /\ Len(text) + m.n \in Nat
      BY <1>1, <2>2, <3>1, LenProperties
    <3>3. Len(text) + m.n = 0 <=> content = <<>>
      BY <3>1, EmptySeq
    <3>4. ASSUME NEW k \in DOMAIN content
          PROVE  content[k] = IF k <= Len(text) THEN Block("text", m)
                              ELSE Block("call", Message("tool", m.of, k - Len(text)))
      <4>1. content[k] = IF k <= Len(text) THEN text[k] ELSE asked[k - Len(text)]
        BY <2>1, <2>4, <3>2
      <4>2. CASE k <= Len(text)
        <5>1. k \in Nat /\ k >= 1
          BY <3>2
        <5>2. k = 1 /\ Len(text) = 1
          BY <2>2, <4>2, <5>1
        <5> QED BY <2>2, <4>1, <4>2, <5>2
      <4>3. CASE ~(k <= Len(text))
        <5>1. k - Len(text) \in 1..m.n
          BY <1>1, <2>2, <3>2, <4>3
        <5> QED BY <2>3, <4>1, <4>3, <5>1
      <4> QED BY <4>2, <4>3
    <3> QED BY <3>2, <3>3, <3>4
  <2> HIDE DEF Call
  <2>6. \A j \in Nat : \A t \in {0, 1} : j >= 1 /\ j <= t => j = 1
    OBVIOUS
  <2>7. ASSUME NEW k \in DOMAIN content
         PROVE  /\ k \in Nat /\ k >= 1
                /\ k <= Len(text) => k = 1 /\ content[k] = Block("text", m)
                /\ ~(k <= Len(text)) => content[k] = Call(k - Len(text))
    <3>1. k \in Nat /\ k >= 1
      BY <2>5
    <3>2. ASSUME k <= Len(text) PROVE k = 1
      BY <2>2, <2>6, <3>1, <3>2
    <3> QED BY <2>5, <3>1, <3>2 DEF Call
  <2>8. Parts(m) = ToSet(text) \cup {Block("call", Message("tool", m.of, k)) : k \in 1..m.n}
    BY <1>2 DEF Parts, text
  <2>9. ToSet(text) = IF Len(text) = 1 THEN {Block("text", m)} ELSE {}
    BY <2>2 DEF ToSet
  <2>10. ToSet(content) = Parts(m)
    <3>1. ASSUME NEW k \in DOMAIN content PROVE content[k] \in Parts(m)
      <4>1. CASE k <= Len(text)
        BY <2>2, <2>5, <2>8, <2>9, <4>1
      <4>2. CASE ~(k <= Len(text))
        <5>1. k - Len(text) \in 1..m.n
          BY <1>1, <2>2, <2>5, <4>2
        <5> QED BY <2>5, <2>8, <4>2, <5>1
      <4> QED BY <4>1, <4>2
    <3>2. ASSUME NEW b \in Parts(m) PROVE \E k \in DOMAIN content : content[k] = b
      <4>1. CASE Len(text) = 1 /\ b = Block("text", m)
        <5>1. 1 \in DOMAIN content /\ 1 <= Len(text)
          BY <1>1, <2>5, <4>1
        <5> QED BY <2>5, <4>1, <5>1
      <4>2. CASE ~(Len(text) = 1 /\ b = Block("text", m))
        <5>1. PICK k \in 1..m.n : b = Block("call", Message("tool", m.of, k))
          BY <2>8, <2>9, <4>2
        <5>2. k + Len(text) \in 1..Len(text) + m.n /\ ~(k + Len(text) <= Len(text))
              /\ (k + Len(text)) - Len(text) = k
          BY <1>1, <2>2, <5>1
        <5> QED BY <2>5, <5>1, <5>2
      <4> QED BY <4>1, <4>2
    <3> QED BY <3>1, <3>2 DEF ToSet
  <2>11. ASSUME NEW k \in DOMAIN content, NEW l \in DOMAIN content, content[k] = content[l]
        PROVE  k = l
    <3>1. (k <= Len(text)) <=> (l <= Len(text))
      <4>1. content[k].kind = "text" <=> k <= Len(text)
        BY <1>0, <2>7
      <4>2. content[l].kind = "text" <=> l <= Len(text)
        BY <1>0, <2>7
      <4> QED BY <2>11, <4>1, <4>2
    <3>2. CASE k <= Len(text)
      BY <2>7, <3>1, <3>2
    <3>3. CASE ~(k <= Len(text))
      <4>1. content[k] = Call(k - Len(text)) /\ content[l] = Call(l - Len(text))
        BY <2>7, <3>1, <3>3
      <4>2. k - Len(text) = l - Len(text)
        <5>1. Call(k - Len(text)).of.n = k - Len(text) /\ Call(l - Len(text)).of.n = l - Len(text)
          BY <1>0
        <5> QED BY <2>11, <4>1, <5>1
      <4>3. k \in Int /\ l \in Int /\ Len(text) \in Int
        BY <2>2, <2>7
      <4> QED BY <4>2, <4>3
    <3> QED BY <3>2, <3>3
  <2>12. \A k \in DOMAIN content : content[k] # EmptyText /\ content[k].kind # "result"
    BY <1>0, <2>7
  <2> QED BY <1>2, <2>1, <2>5, <2>10, <2>11, <2>12 DEF content, ToSet
<1>3. CASE m.role # "assistant"
  <2>1. PICK b : b = IF m.role = "tool" THEN Block("result", m) ELSE Block("text", m)
    OBVIOUS
  <2>2. /\ content = << b >>
        /\ LLMMessage(m).role = IF m.role = "tool" THEN "tool" ELSE "user"
        /\ Parts(m) = {b}
    BY <1>1, <1>3, <2>1 DEF LLMMessage, Said, TextOf, Parts
  <2>3. b # EmptyText /\ (b.kind = "result" <=> m.role = "tool")
    <3>1. m # Message("none", 0, 0)
      BY <1>1 DEF Message
    <3> QED BY <2>1, <3>1 DEF EmptyText, Block
  <2> HIDE DEF content
  <2>4. DOMAIN content = 1..1 /\ content[1] = b /\ content # <<>> /\ ToSet(content) = {b}
    BY <2>2 DEF ToSet
  <2> QED BY <1>3, <2>1, <2>2, <2>3, <2>4 DEF content
<1> QED BY <1>2, <1>3

\* What two messages say is different, but for those that answer in one round.
LEMMA PartsApart ==
    ASSUME NEW m \in Msg, NEW o \in Msg, NEW b, b \in Parts(m), b \in Parts(o)
    PROVE  m = o \/ (m.role = "assistant" /\ o.role = "assistant" /\ m.of = o.of)
<1>1. ASSUME NEW x \in Msg, b \in Parts(x)
      PROVE  \/ b = Block("text", x) /\ b.kind = "text"
             \/ b = Block("result", x) /\ b.kind = "result"
             \/ b.kind = "call" /\ x.role = "assistant" /\ b.of.of = x.of
  <2>1. CASE x.role = "assistant"
    <3>1. \/ b \in ToSet(TextOf(x))
          \/ \E k \in 1..x.n : b = Block("call", Message("tool", x.of, k))
      BY <1>1, <2>1 DEF Parts
    <3>2. CASE b \in ToSet(TextOf(x))
      BY <3>2 DEF ToSet, TextOf, Block
    <3>3. CASE \E k \in 1..x.n : b = Block("call", Message("tool", x.of, k))
      BY <2>1, <3>3 DEF Block, Message
    <3> QED BY <3>1, <3>2, <3>3
  <2>2. CASE x.role # "assistant"
    BY <1>1, <2>2 DEF Parts, Block
  <2> QED BY <2>1, <2>2
<1> QED BY <1>1 DEF Block

\* Each round has one answer.
RoundsApart ==
    \A i, j \in DOMAIN messages :
        messages[i].role = "assistant" /\ messages[j].role = "assistant"
            /\ messages[i].of = messages[j].of => i = j

\* Only an answer adds one, in a round that none was in.
LEMMA RoundsApartStep ==
    ASSUME Typed, Typed', CallsInOrder, RoundsApart, [Next]_vars
    PROVE  RoundsApart'
<1>1. /\ messages \in Seq(Msg) /\ Len(messages) \in Nat /\ DOMAIN messages = 1..Len(messages)
      /\ \A i \in DOMAIN messages : messages[i] \in Msg
  BY LenProperties, ElementOfSeq DEF Typed
<1>2. ASSUME NEW more \in Seq(Msg), messages' = messages \o more,
             \A i \in DOMAIN more : more[i].role # "assistant"
      PROVE  RoundsApart'
  <2>1. /\ Len(more) \in Nat /\ DOMAIN more = 1..Len(more)
        /\ messages' \in Seq(Msg) /\ Len(messages') = Len(messages) + Len(more)
        /\ \A i \in 1..Len(messages) + Len(more) :
              messages'[i] = IF i <= Len(messages) THEN messages[i] ELSE more[i - Len(messages)]
    BY <1>1, <1>2, ConcatProperties, LenProperties
  <2>2. DOMAIN messages' = 1..Len(messages) + Len(more)
    BY <2>1, LenProperties
  <2>3. ASSUME NEW i \in DOMAIN messages', messages'[i].role = "assistant"
        PROVE  i \in DOMAIN messages /\ messages'[i] = messages[i]
    <3>1. i \in 1..Len(messages) + Len(more)
      BY <2>2
    <3>2. CASE i <= Len(messages)
      BY <1>1, <2>1, <3>1, <3>2
    <3>3. CASE ~(i <= Len(messages))
      <4>1. i - Len(messages) \in 1..Len(more)
        BY <1>1, <2>1, <3>1, <3>3
      <4> QED BY <1>2, <2>1, <2>3, <3>1, <3>3, <4>1
    <3> QED BY <3>2, <3>3
  <2> QED BY <2>3 DEF RoundsApart
<1>3. ASSUME messages' = messages PROVE RoundsApart'
  BY <1>3 DEF RoundsApart
<1>4. ASSUME NEW m \in Msg, messages' = Append(messages, m), m.role # "assistant"
      PROVE  RoundsApart'
  <2>1. << m >> \in Seq(Msg) /\ \A i \in DOMAIN << m >> : << m >>[i].role # "assistant"
    BY <1>4
  <2>2. messages' = messages \o << m >>
    BY <1>1, <1>4, AppendIsConcat
  <2> QED BY <1>2, <2>1, <2>2
<1>5. ASSUME NEW asked \in Responses, NEW full \in BOOLEAN, ModelAnswers(asked, full)
      PROVE  RoundsApart'
  <2> DEFINE m == Message("assistant", rounds, Len(asked))
  <2>1. m \in Msg /\ m.of = rounds
    <3>1. Len(asked) \in Nat
      BY ResponseIsSeq, LenProperties
    <3>2. rounds \in Nat
      BY SessionAssumption DEF Typed
    <3> QED BY <3>1, <3>2 DEF Message, Msg
  <2>2. pc = "calling" /\ messages' = Append(messages, m)
    BY <1>5 DEF ModelAnswers
  <2> HIDE DEF m
  <2>3. /\ Len(messages') = Len(messages) + 1 /\ messages' \in Seq(Msg)
        /\ \A i \in 1..Len(messages) : messages'[i] = messages[i]
        /\ messages'[Len(messages) + 1] = m
    BY <1>1, <2>1, <2>2, AppendProperties
  <2>4. DOMAIN messages' = 1..Len(messages) + 1
    BY <2>3, LenProperties
  <2>5. \A i \in DOMAIN messages' : i \in DOMAIN messages \/ i = Len(messages) + 1
    BY <1>1, <2>4
  <2>6. \A i \in DOMAIN messages : messages[i].role = "assistant" => messages[i].of < rounds
    BY <2>2 DEF CallsInOrder, OfTurn
  <2>7. \A i \in DOMAIN messages : messages[i].role = "assistant" => messages[i].of # m.of
    <3>1. rounds \in Int /\ \A x \in Int : ~(x < x)
      BY SessionAssumption DEF Typed
    <3> QED BY <2>1, <2>6, <3>1
  <2> QED BY <1>1, <2>3, <2>5, <2>7 DEF RoundsApart
<1>6. CASE ExitOrFollowUp
  <2>1. CASE followup = <<>>
    BY <1>3, <1>6, <2>1 DEF ExitOrFollowUp
  <2>2. CASE followup # <<>>
    <3>1. followup \in Seq(User)
      BY DEF Typed
    <3>2. Head(followup) \in User
      BY <2>2, <3>1, HeadTailProperties
    <3>3. Head(followup) \in Msg /\ Head(followup).role # "assistant"
      BY <3>2 DEF User
    <3> QED BY <1>4, <1>6, <2>2, <3>3 DEF ExitOrFollowUp
  <2> QED BY <2>1, <2>2
<1>7. CASE FinishTool
  <2>1. PICK m : m = Message("tool", rounds, Answered + 1)
    OBVIOUS
  <2>2. m \in Msg /\ m.role # "assistant"
    <3>1. rounds \in Nat
      BY SessionAssumption DEF Typed
    <3> QED BY <2>1, <3>1, AnsweredIsNat DEF Message, Msg
  <2> QED BY <1>4, <1>7, <2>1, <2>2 DEF FinishTool
<1>8. CASE InjectSteering
  <2>1. steering \in Seq(Steering)
    BY DEF Typed
  <2>2. steering \in Seq(Msg)
    BY <2>1, SeqMonotonic DEF Steering
  <2>3. \A i \in DOMAIN steering : steering[i].role # "assistant"
    <3>1. DOMAIN steering = 1..Len(steering)
      BY <2>1, LenProperties
    <3>2. \A i \in DOMAIN steering : steering[i] \in Steering
      BY <2>1, <3>1, ElementOfSeq
    <3> QED BY <3>2 DEF Steering
  <2> QED BY <1>2, <1>8, <2>2, <2>3 DEF InjectSteering
<1>9. CASE Steer \/ FollowUp \/ Cancel \/ Abort \/ CallModel \/ StartTool \/ UNCHANGED vars
           \/ \E kind \in {"retryable", "fatal", "abort"} : ModelFails(kind)
           \/ StreamBlocks
  BY <1>3, <1>9 DEF Steer, FollowUp, Cancel, Abort, CallModel, StartTool, ModelFails,
                    StreamBlocks, run, vars
<1> QED BY <1>5, <1>6, <1>7, <1>8, <1>9 DEF Next, RunStep

\* The i-th message of the wire stands for the at[i]-th of the conversation;
\* they are in its order, and every one that says something is among them.
StandsFor(wire, at) ==
    /\ \E n \in Nat : DOMAIN wire = 1..n
    /\ at \in [DOMAIN wire -> DOMAIN messages]
    /\ \A i, j \in DOMAIN wire : i < j => at[i] < at[j]
    /\ \A m \in DOMAIN messages :
           LLMMessage(messages[m]).content # <<>> => \E i \in DOMAIN wire : at[i] = m
    /\ \A i \in DOMAIN wire :
           LET said == LLMMessage(messages[at[i]]) IN
           /\ wire[i].content = IF said.content = <<>> THEN << EmptyText >> ELSE said.content
           /\ said.role # "assistant" => wire[i].role = "user"

\* The conversation as the adapters get it.
Conveys(said, n, at) ==
    /\ n \in Nat /\ at \in [1..n -> DOMAIN messages] /\ DOMAIN said = 1..n
    /\ \A i, j \in 1..n : i < j => at[i] < at[j]
    /\ \A m \in DOMAIN messages : \E i \in 1..n : at[i] = m
    /\ \A i \in 1..n : said[i] = LLMMessage(messages[at[i]])

\* The system prompt is left out of the conversation, and nothing else.
LEMMA ConversationStands ==
    ASSUME Typed
    PROVE  LET said == Conversation(BuildRequest) IN
           \E n, at : Conveys(said, n, at)
<1> DEFINE N    == Len(messages)
           sent == [i \in DOMAIN messages |-> LLMMessage(messages[i])]
           X    == {Prompt} \cup {LLMMessage(messages[i]) : i \in DOMAIN messages}
           kept == {i \in DOMAIN BuildRequest : BuildRequest[i].role # "system"}
<1>1. /\ N \in Nat /\ DOMAIN messages = 1..N
      /\ \A i \in DOMAIN messages : messages[i] \in Msg
  BY LenProperties, ElementOfSeq DEF Typed
<1>2. sent \in Seq(X) /\ Len(sent) = N
  <2>1. sent \in [1..N -> X]
    BY <1>1
  <2> HIDE DEF sent, X
  <2>2. sent \in Seq(X)
    BY <1>1, <2>1, IsASeq
  <2>3. Len(sent) \in Nat /\ DOMAIN sent = 1..Len(sent)
    BY <2>2, LenProperties
  <2> HIDE DEF N
  <2> QED BY <1>1, <2>1, <2>2, <2>3
<1>3. /\ << Prompt >> \in Seq(X) /\ Len(<< Prompt >>) = 1 /\ << Prompt >>[1] = Prompt
  <2>1. Prompt \in X
    OBVIOUS
  <2> HIDE DEF X
  <2> QED BY <2>1
<1>4. /\ DOMAIN BuildRequest = 1..1 + N
      /\ \A i \in 1..1 + N :
            BuildRequest[i] = IF i <= 1 THEN Prompt ELSE LLMMessage(messages[i - 1])
  <2>1. BuildRequest = << Prompt >> \o sent
    BY DEF BuildRequest
  <2>2. \A i \in 1..N : sent[i] = LLMMessage(messages[i])
    BY <1>1
  <2> HIDE DEF sent, X
  <2>3. /\ << Prompt >> \o sent \in Seq(X) /\ Len(<< Prompt >> \o sent) = 1 + N
        /\ \A i \in 1..1 + N : (<< Prompt >> \o sent)[i] =
              IF i <= 1 THEN << Prompt >>[i] ELSE sent[i - 1]
    <3> HIDE DEF N
    <3> QED BY <1>2, <1>3, ConcatProperties
  <2>4. DOMAIN (<< Prompt >> \o sent) = 1..1 + N
    BY <2>3, LenProperties
  <2>5. ASSUME NEW i \in 1..1 + N
        PROVE  BuildRequest[i] = IF i <= 1 THEN Prompt ELSE LLMMessage(messages[i - 1])
    <3>1. CASE i <= 1
      <4>1. i = 1
        BY <1>1, <3>1
      <4> QED BY <1>3, <2>1, <2>3, <3>1, <4>1
    <3>2. CASE ~(i <= 1)
      <4>1. i - 1 \in 1..N
        BY <1>1, <3>2
      <4> QED BY <2>1, <2>2, <2>3, <3>2, <4>1
    <3> QED BY <3>1, <3>2
  <2> QED BY <2>1, <2>4, <2>5
<1>5. kept = 2..1 + N
  <2>1. Prompt.role = "system"
    BY DEF Prompt, Said
  <2>2. \A i \in 1..N : LLMMessage(messages[i]).role # "system"
    BY <1>1, ContentSays
  <2>3. ASSUME NEW i \in 1..1 + N PROVE BuildRequest[i].role # "system" <=> i \in 2..1 + N
    <3>1. CASE i = 1
      BY <1>4, <2>1, <3>1
    <3>2. CASE i # 1
      <4>1. i - 1 \in 1..N /\ ~(i <= 1) /\ i \in 2..1 + N
        BY <1>1, <3>2
      <4> QED BY <1>4, <2>2, <4>1
    <3> QED BY <3>1, <3>2
  <2>4. 2..1 + N \subseteq 1..1 + N
    BY <1>1
  <2> QED BY <1>4, <2>3, <2>4
<1> DEFINE said == Conversation(BuildRequest)
<1>6. said = Picked(BuildRequest, kept)
  BY DEF Conversation
<1> HIDE DEF kept, said, sent, X, N
<1>7. kept \in SUBSET (1..1 + N) /\ 1 + N \in Nat
  BY <1>1, <1>5
<1>8. PICK n, pick : Picks(said, BuildRequest, kept, n, pick)
  BY <1>6, <1>7, PickedInOrder
<1>9. /\ n \in Nat /\ pick \in [1..n -> kept] /\ DOMAIN said = 1..n
      /\ \A k \in 1..n : said[k] = BuildRequest[pick[k]]
      /\ \A k, l \in 1..n : k < l => pick[k] < pick[l]
      /\ \A i \in kept : \E k \in 1..n : pick[k] = i
  BY <1>8 DEF Picks
<1> DEFINE at == [k \in 1..n |-> pick[k] - 1]
<1>10. \A k \in 1..n :
           pick[k] \in Nat /\ ~(pick[k] <= 1) /\ pick[k] \in 1..1 + N /\ pick[k] - 1 \in 1..N
  <2>1. \A i \in 2..1 + N : i \in Nat /\ ~(i <= 1) /\ i \in 1..1 + N /\ i - 1 \in 1..N
    BY <1>1
  <2> QED BY <1>5, <1>9, <2>1
<1>11. at \in [1..n -> DOMAIN messages]
  BY <1>1, <1>10
<1>12. ASSUME NEW i \in 1..n, NEW j \in 1..n, i < j PROVE at[i] < at[j]
  <2>1. pick[i] < pick[j] /\ pick[i] \in Nat /\ pick[j] \in Nat
    BY <1>9, <1>10, <1>12
  <2>2. at[i] = pick[i] - 1 /\ at[j] = pick[j] - 1
    OBVIOUS
  <2> HIDE DEF at
  <2> QED BY <2>1, <2>2
<1>13. ASSUME NEW m \in DOMAIN messages PROVE \E i \in 1..n : at[i] = m
  <2>1. m + 1 \in kept /\ (m + 1) - 1 = m
    BY <1>1, <1>5
  <2>2. PICK i \in 1..n : pick[i] = m + 1
    BY <1>9, <2>1
  <2> QED BY <2>1, <2>2
<1>14. ASSUME NEW i \in 1..n PROVE said[i] = LLMMessage(messages[at[i]])
  <2>1. said[i] = BuildRequest[pick[i]] /\ at[i] = pick[i] - 1
    BY <1>9
  <2> HIDE DEF at
  <2> QED BY <1>4, <1>10, <2>1
<1> HIDE DEF at
<1>15. Conveys(said, n, at)
  BY <1>9, <1>11, <1>12, <1>13, <1>14 DEF Conveys
<1> QED BY <1>15 DEF said

\* Anthropic is sent every message, Gemini every one that says something.
LEMMA WireStands ==
    ASSUME Typed, NEW adapter \in {"anthropic", "gemini"}
    PROVE  \E at : StandsFor(Wire(adapter), at)
<1> DEFINE said == Conversation(BuildRequest)
           wire == Wire(adapter)
<1>1. PICK n, at : Conveys(said, n, at)
  BY ConversationStands
<1> HIDE DEF said
<1>2. /\ n \in Nat /\ at \in [1..n -> DOMAIN messages] /\ DOMAIN said = 1..n
      /\ \A i, j \in 1..n : i < j => at[i] < at[j]
      /\ \A m \in DOMAIN messages : \E i \in 1..n : at[i] = m
      /\ \A i \in 1..n : said[i] = LLMMessage(messages[at[i]])
  BY <1>1 DEF Conveys
<1>3. CASE adapter = "anthropic"
  <2>1. wire = [i \in DOMAIN said |-> AnthropicMessage(said[i])]
    BY <1>3 DEF Wire, said
  <2> HIDE DEF wire
  <2>2. DOMAIN wire = 1..n /\ \A i \in 1..n : wire[i] = AnthropicMessage(said[i])
    BY <1>2, <2>1
  <2>3. ASSUME NEW i \in 1..n
        PROVE  LET m == LLMMessage(messages[at[i]]) IN
               /\ wire[i].content = IF m.content = <<>> THEN << EmptyText >> ELSE m.content
               /\ m.role # "assistant" => wire[i].role = "user"
    BY <1>2, <2>2 DEF AnthropicMessage, Said
  <2>4. StandsFor(wire, at)
    BY <1>2, <2>2, <2>3 DEF StandsFor
  <2> QED BY <2>4 DEF wire
<1>4. CASE adapter = "gemini"
  <2> DEFINE kept == {i \in DOMAIN said : said[i].content # <<>>}
             sent == Picked(said, kept)
  <2>1. wire = [i \in DOMAIN sent |-> GeminiContent(sent[i])]
    BY <1>4 DEF Wire, said, GeminiContents
  <2>2. kept \in SUBSET (1..n)
    BY <1>2
  <2> HIDE DEF kept, wire
  <2>3. PICK k, pick : Picks(sent, said, kept, k, pick)
    BY <1>2, <2>2, PickedInOrder
  <2> HIDE DEF sent
  <2>4. /\ k \in Nat /\ pick \in [1..k -> kept] /\ DOMAIN sent = 1..k
        /\ \A i \in 1..k : sent[i] = said[pick[i]]
        /\ \A i, j \in 1..k : i < j => pick[i] < pick[j]
        /\ \A i \in kept : \E j \in 1..k : pick[j] = i
    BY <2>3 DEF Picks
  <2> DEFINE to == [i \in 1..k |-> at[pick[i]]]
  <2>5. DOMAIN wire = 1..k /\ \A i \in 1..k : wire[i] = GeminiContent(said[pick[i]])
    BY <2>1, <2>4
  <2>6. \A i \in 1..k : pick[i] \in 1..n /\ to[i] \in DOMAIN messages
    BY <1>2, <2>2, <2>4
  <2>7. to \in [DOMAIN wire -> DOMAIN messages]
    BY <2>5, <2>6
  <2>8. ASSUME NEW i \in DOMAIN wire, NEW j \in DOMAIN wire, i < j PROVE to[i] < to[j]
    <3>1. i \in 1..k /\ j \in 1..k
      BY <2>5
    <3>2. pick[i] < pick[j] /\ pick[i] \in 1..n /\ pick[j] \in 1..n
      BY <2>4, <2>6, <2>8, <3>1
    <3>3. to[i] = at[pick[i]] /\ to[j] = at[pick[j]]
      BY <3>1
    <3> HIDE DEF to
    <3> QED BY <1>2, <3>2, <3>3
  <2>9. ASSUME NEW m \in DOMAIN messages, LLMMessage(messages[m]).content # <<>>
        PROVE  \E i \in DOMAIN wire : to[i] = m
    <3>1. PICK i \in 1..n : at[i] = m
      BY <1>2
    <3>2. i \in kept
      BY <1>2, <2>9, <3>1 DEF kept
    <3>3. PICK j \in 1..k : pick[j] = i
      BY <2>4, <3>2
    <3> QED BY <2>5, <3>1, <3>3
  <2>10. ASSUME NEW i \in DOMAIN wire
         PROVE  LET m == LLMMessage(messages[to[i]]) IN
                /\ wire[i].content = IF m.content = <<>> THEN << EmptyText >> ELSE m.content
                /\ m.role # "assistant" => wire[i].role = "user"
    <3>1. i \in 1..k /\ pick[i] \in kept
      BY <2>4, <2>5
    <3>2. said[pick[i]].content # <<>>
      BY <3>1 DEF kept
    <3>3. said[pick[i]] = LLMMessage(messages[to[i]])
      BY <1>2, <2>6, <3>1
    <3>4. wire[i] = GeminiContent(LLMMessage(messages[to[i]]))
      BY <2>5, <3>1, <3>3
    <3> HIDE DEF to
    <3> QED BY <3>2, <3>3, <3>4 DEF GeminiContent, Said
  <2> HIDE DEF to
  <2>11. \E l \in Nat : DOMAIN wire = 1..l
    BY <2>4, <2>5
  <2>12. StandsFor(wire, to)
    BY <2>7, <2>8, <2>9, <2>10, <2>11 DEF StandsFor
  <2> QED BY <2>12 DEF wire
<1> QED BY <1>3, <1>4

\* Of adapters that send what they are given: every part of the conversation is
\* in the request to the model once and in order, and the results are behind
\* the calls (session.go, buildRequest; anthropic.go and gemini.go,
\* buildRequest).
THEOREM ConversationIsSent ==
    ASSUME Adapters \subseteq {"anthropic", "gemini"}
    PROVE  Spec => []HistoryReachesModel
<1>1. Typed /\ CallsInOrder /\ RoundsApart /\ InputsKept => HistoryReachesModel
  <2> SUFFICES ASSUME Typed, CallsInOrder, RoundsApart, InputsKept, pc = "calling",
                      NEW adapter \in Adapters
               PROVE  LET wire  == Wire(adapter)
                          parts == [i \in DOMAIN messages |-> Parts(messages[i])]
                          Is(i, kind) == \E k \in DOMAIN wire[i].content :
                                            wire[i].content[k].kind = kind
                          Asks(i, m)  == Block("call", m) \in ToSet(wire[i].content)
                      IN  /\ BlocksOf(wire) = UNION Range(parts)
                          /\ \A i, j \in DOMAIN wire :
                             \A k \in DOMAIN wire[i].content, l \in DOMAIN wire[j].content :
                                 LET b == wire[i].content[k]
                                     c == wire[j].content[l]
                                 IN  EmptyText \notin {b, c} =>
                                       /\ b = c => i = j /\ k = l
                                       /\ i <= j => \E x, y \in DOMAIN parts :
                                                       x <= y /\ b \in parts[x] /\ c \in parts[y]
                          /\ \A i \in DOMAIN wire : Is(i, "result") =>
                                 /\ wire[i].role = "user"
                                 /\ \E j \in 1..i - 1 :
                                        /\ Asks(j, wire[i].content[1].of)
                                        /\ \A k \in j + 1..i : Is(k, "result")
    BY DEF HistoryReachesModel
  <2> DEFINE wire  == Wire(adapter)
             parts == [i \in DOMAIN messages |-> Parts(messages[i])]
             Is(i, kind) == \E k \in DOMAIN wire[i].content : wire[i].content[k].kind = kind
             Asks(i, m)  == Block("call", m) \in ToSet(wire[i].content)
             Of(i) == LLMMessage(messages[i]).content
  <2>1. PICK at : StandsFor(wire, at)
    BY WireStands, Zenon
  <2> HIDE DEF wire
  <2>2. PICK n \in Nat : DOMAIN wire = 1..n
    BY <2>1 DEF StandsFor
  <2>3. /\ Len(messages) \in Nat /\ DOMAIN messages = 1..Len(messages)
        /\ \A i \in DOMAIN messages : messages[i] \in Msg /\ messages[i].n \in Nat
    <3>1. /\ Len(messages) \in Nat /\ DOMAIN messages = 1..Len(messages)
          /\ \A i \in DOMAIN messages : messages[i] \in Msg
      BY LenProperties, ElementOfSeq DEF Typed
    <3> QED BY <3>1 DEF Msg
  <2>4. ASSUME NEW i \in DOMAIN messages, NEW j \in DOMAIN messages, messages[i] = messages[j]
        PROVE  i = j
    <3>1. messages[i] \in Msg /\ messages[i].role \in {"user", "assistant", "tool", "steering"}
      BY <2>3 DEF Msg
    <3>2. CASE messages[i].role = "assistant"
      BY <2>4, <3>2 DEF RoundsApart
    <3>3. CASE messages[i].role = "tool"
      <4>1. PICK d : d = messages[i].n
        OBVIOUS
      <4>2. Backed(i) /\ Backed(j)
        BY <2>4, <3>3 DEF CallsInOrder
      <4>3. /\ d \in Nat /\ i - d \in DOMAIN messages /\ j - d \in DOMAIN messages
            /\ messages[i - d].role = "assistant" /\ messages[j - d].role = "assistant"
            /\ messages[i - d].of = messages[j - d].of
        BY <2>3, <2>4, <4>1, <4>2 DEF Backed
      <4>4. i - d = j - d
        BY <4>3 DEF RoundsApart
      <4> QED BY <2>3, <4>3, <4>4
    <3>4. CASE messages[i].role \in {"user", "steering"}
      <4>1. PICK queue, numbers :
                queue \in Seq(Msg) /\ Kept(messages \o queue, messages[i].role, numbers)
        <5>1. steering \in Seq(Msg) /\ followup \in Seq(Msg)
          BY SeqMonotonic DEF Typed, Steering, User
        <5> QED BY <3>4, <5>1 DEF InputsKept
      <4>2. /\ messages \o queue \in Seq(Msg) /\ Len(messages \o queue) = Len(messages) + Len(queue)
            /\ \A k \in 1..Len(messages) + Len(queue) : (messages \o queue)[k] =
                  IF k <= Len(messages) THEN messages[k] ELSE queue[k - Len(messages)]
            /\ Len(queue) \in Nat
        BY <4>1, ConcatProperties, LenProperties DEF Typed
      <4>3. /\ DOMAIN (messages \o queue) = 1..Len(messages) + Len(queue)
        BY <4>2, LenProperties
      <4>4. /\ i \in DOMAIN (messages \o queue) /\ j \in DOMAIN (messages \o queue)
            /\ (messages \o queue)[i] = messages[i] /\ (messages \o queue)[j] = messages[j]
        BY <2>3, <4>2, <4>3
      <4>5. ~(i < j) /\ ~(j < i)
        <5>1. messages[i].n \in Int /\ messages[j].n = messages[i].n
          BY <2>3, <2>4
        <5>2. \A x \in Int : ~(x < x)
          OBVIOUS
        <5> QED BY <2>4, <4>1, <4>4, <5>1, <5>2 DEF Kept
      <4>6. i \in Int /\ j \in Int
        BY <2>3
      <4> QED BY <4>5, <4>6
    <3> QED BY <3>1, <3>2, <3>3, <3>4
  <2>5. ASSUME NEW i \in DOMAIN wire
        PROVE  /\ at[i] \in DOMAIN messages /\ messages[at[i]] \in Msg
               /\ wire[i].content = IF Of(at[i]) = <<>> THEN << EmptyText >> ELSE Of(at[i])
               /\ messages[at[i]].role # "assistant" => wire[i].role = "user"
    <3>1. /\ at[i] \in DOMAIN messages
          /\ wire[i].content = IF Of(at[i]) = <<>> THEN << EmptyText >> ELSE Of(at[i])
          /\ LLMMessage(messages[at[i]]).role # "assistant" => wire[i].role = "user"
      BY <2>1 DEF StandsFor
    <3>2. messages[at[i]] \in Msg
      BY <2>3, <3>1
    <3>3. messages[at[i]].role # "assistant" => LLMMessage(messages[at[i]]).role # "assistant"
      BY <3>2, ContentSays
    <3> QED BY <3>1, <3>2, <3>3
  <2>6. ASSUME NEW i \in DOMAIN wire, NEW k \in DOMAIN wire[i].content,
               wire[i].content[k] # EmptyText
        PROVE  /\ wire[i].content = Of(at[i]) /\ k \in DOMAIN Of(at[i])
               /\ wire[i].content[k] \in Parts(messages[at[i]])
    <3>1. Of(at[i]) # <<>>
      BY <2>5, <2>6
    <3>2. wire[i].content = Of(at[i])
      BY <2>5, <3>1
    <3>3. ToSet(Of(at[i])) = Parts(messages[at[i]])
      BY <2>5, ContentSays
    <3> HIDE DEF Of
    <3> QED BY <3>2, <3>3 DEF ToSet
  <2>7. ASSUME NEW m \in DOMAIN messages, NEW b \in Parts(messages[m])
        PROVE  /\ b # EmptyText
               /\ \E i \in DOMAIN wire :
                     at[i] = m /\ wire[i].content = Of(m) /\ b \in ToSet(wire[i].content)
    <3>1. messages[m] \in Msg
      BY <2>3
    <3>2. ToSet(Of(m)) = Parts(messages[m]) /\ EmptyText \notin ToSet(Of(m))
      BY <3>1, ContentSays
    <3> HIDE DEF Of
    <3>3. Of(m) # <<>>
      BY <3>2 DEF ToSet
    <3>4. PICK i \in DOMAIN wire : at[i] = m
      BY <2>1, <3>3 DEF StandsFor, Of
    <3>5. wire[i].content = Of(m)
      BY <2>5, <3>3, <3>4
    <3> QED BY <3>2, <3>4, <3>5
  <2>8. BlocksOf(wire) = UNION Range(parts)
    <3>1. ASSUME NEW b \in BlocksOf(wire) PROVE b \in UNION Range(parts)
      <4>1. PICK i \in DOMAIN wire : b \in ToSet(wire[i].content) /\ b # EmptyText
        BY DEF BlocksOf
      <4>2. PICK k \in DOMAIN wire[i].content : wire[i].content[k] = b
        BY <4>1 DEF ToSet
      <4>3. b \in Parts(messages[at[i]]) /\ at[i] \in DOMAIN messages
        BY <2>5, <2>6, <4>1, <4>2
      <4> QED BY <4>3 DEF Range
    <3>2. ASSUME NEW b \in UNION Range(parts) PROVE b \in BlocksOf(wire)
      <4>1. PICK m \in DOMAIN messages : b \in Parts(messages[m])
        BY DEF Range
      <4>2. b # EmptyText /\ \E i \in DOMAIN wire : b \in ToSet(wire[i].content)
        BY <2>7, <4>1
      <4> QED BY <4>2 DEF BlocksOf
    <3> QED BY <3>1, <3>2
  <2>9. ASSUME NEW i \in DOMAIN wire, NEW j \in DOMAIN wire
        PROVE  i \in Nat /\ j \in Nat /\ (i < j <=> at[i] < at[j]) /\ (at[i] = at[j] <=> i = j)
    <3>1. /\ i < j => at[i] < at[j]
          /\ j < i => at[j] < at[i]
      BY <2>1 DEF StandsFor
    <3>2. i \in Nat /\ j \in Nat
      BY <2>2
    <3>3. at[i] \in Nat /\ at[j] \in Nat
      BY <2>3, <2>5
    <3> QED BY <3>1, <3>2, <3>3
  <2>10. ASSUME NEW i \in DOMAIN wire, NEW j \in DOMAIN wire,
                NEW k \in DOMAIN wire[i].content, NEW l \in DOMAIN wire[j].content,
                EmptyText \notin {wire[i].content[k], wire[j].content[l]}
         PROVE  /\ wire[i].content[k] = wire[j].content[l] => i = j /\ k = l
                /\ i <= j => \E x, y \in DOMAIN parts :
                                /\ x <= y
                                /\ wire[i].content[k] \in parts[x]
                                /\ wire[j].content[l] \in parts[y]
    <3>1. /\ wire[i].content[k] # EmptyText /\ wire[j].content[l] # EmptyText
          /\ at[i] \in DOMAIN messages /\ messages[at[i]] \in Msg
          /\ at[j] \in DOMAIN messages /\ messages[at[j]] \in Msg
      BY <2>5, <2>10
    <3>2. /\ wire[i].content = Of(at[i]) /\ k \in DOMAIN Of(at[i])
          /\ wire[i].content[k] \in Parts(messages[at[i]])
          /\ wire[j].content = Of(at[j]) /\ l \in DOMAIN Of(at[j])
          /\ wire[j].content[l] \in Parts(messages[at[j]])
      BY <2>6, <3>1
    <3>3. ASSUME wire[i].content[k] = wire[j].content[l] PROVE i = j /\ k = l
      <4>1. \/ messages[at[i]] = messages[at[j]]
            \/ /\ messages[at[i]].role = "assistant" /\ messages[at[j]].role = "assistant"
               /\ messages[at[i]].of = messages[at[j]].of
        BY <3>1, <3>2, <3>3, PartsApart
      <4>2. at[i] = at[j]
        BY <2>4, <3>1, <4>1 DEF RoundsApart
      <4>3. i = j
        BY <2>9, <4>2
      <4>4. k = l
        BY <3>1, <3>2, <3>3, <4>3, ContentSays
      <4> QED BY <4>3, <4>4
    <3>4. ASSUME i <= j
          PROVE  \E x, y \in DOMAIN parts :
                     x <= y /\ wire[i].content[k] \in parts[x] /\ wire[j].content[l] \in parts[y]
      <4>1. at[i] <= at[j]
        <5>1. i \in Nat /\ j \in Nat /\ at[i] \in Nat /\ at[j] \in Nat
          BY <2>3, <2>9, <3>1
        <5>2. i = j \/ i < j
          BY <3>4, <5>1
        <5> QED BY <2>9, <5>1, <5>2
      <4>2. at[i] \in DOMAIN parts /\ at[j] \in DOMAIN parts
        BY <3>1
      <4>3. wire[i].content[k] \in parts[at[i]] /\ wire[j].content[l] \in parts[at[j]]
        BY <3>1, <3>2
      <4> HIDE DEF parts
      <4> QED BY <4>1, <4>2, <4>3
    <3> QED BY <3>3, <3>4
  <2>11. ASSUME NEW i \in DOMAIN wire
         PROVE  /\ Is(i, "result") => messages[at[i]].role = "tool"
                /\ messages[at[i]].role = "tool" =>
                      Is(i, "result") /\ wire[i].content[1] = Block("result", messages[at[i]])
    <3>1. messages[at[i]] \in Msg
      BY <2>5
    <3>2. ASSUME Is(i, "result") PROVE messages[at[i]].role = "tool"
      <4>1. PICK k \in DOMAIN wire[i].content : wire[i].content[k].kind = "result"
        BY <3>2
      <4>2. wire[i].content[k] # EmptyText
        BY <4>1 DEF EmptyText, Block
      <4>3. wire[i].content = Of(at[i]) /\ k \in DOMAIN Of(at[i])
        BY <2>6, <4>2
      <4> QED BY <3>1, <4>1, <4>3, ContentSays
    <3>3. ASSUME messages[at[i]].role = "tool"
          PROVE  Is(i, "result") /\ wire[i].content[1] = Block("result", messages[at[i]])
      <4>1. Of(at[i]) = << Block("result", messages[at[i]]) >>
        BY <3>1, <3>3, ContentSays
      <4>2. wire[i].content = << Block("result", messages[at[i]]) >>
        BY <2>5, <4>1
      <4>3. Block("result", messages[at[i]]).kind = "result"
        BY DEF Block
      <4>4. 1 \in DOMAIN wire[i].content /\ wire[i].content[1] = Block("result", messages[at[i]])
        BY <4>2
      <4> QED BY <4>3, <4>4
    <3> QED BY <3>2, <3>3
  <2>12. ASSUME NEW i \in DOMAIN wire, Is(i, "result")
         PROVE  /\ wire[i].role = "user"
                /\ \E j \in 1..i - 1 :
                       /\ Asks(j, wire[i].content[1].of)
                       /\ \A k \in j + 1..i : Is(k, "result")
    <3>1. PICK t \in DOMAIN messages : t = at[i]
      BY <2>5
    <3>2. messages[t].role = "tool" /\ wire[i].content[1] = Block("result", messages[t])
      BY <2>11, <2>12, <3>1
    <3> HIDE DEF Is
    <3>3. wire[i].role = "user"
      BY <2>5, <3>1, <3>2
    <3>4. PICK d \in Nat : d = messages[t].n
      BY <2>3
    <3>5. PICK asked \in DOMAIN messages :
              /\ asked = t - d /\ d >= 1
              /\ messages[asked].role = "assistant" /\ messages[asked].of = messages[t].of
              /\ d <= messages[asked].n
      <4>1. Backed(t)
        BY <3>2 DEF CallsInOrder
      <4>2. /\ t - d \in DOMAIN messages
            /\ messages[t - d].role = "assistant" /\ messages[t - d].of = messages[t].of
            /\ d <= messages[t - d].n
        BY <2>3, <3>4, <4>1 DEF Backed
      <4>3. d # 0
        BY <2>3, <3>2, <4>2
      <4> QED BY <4>2, <4>3
    <3>6. Complete(asked)
      BY <3>5 DEF CallsInOrder
    <3>7. Block("call", messages[t]) \in Parts(messages[asked])
      <4>1. messages[t] = Message("tool", messages[asked].of, d)
        <5>1. messages[t] \in Msg
          BY <2>3
        <5> QED BY <3>2, <3>4, <3>5, <5>1 DEF Msg, Message
      <4>2. d \in 1..messages[asked].n
        BY <2>3, <3>5
      <4> QED BY <3>5, <4>1, <4>2 DEF Parts
    <3>8. PICK j \in DOMAIN wire :
              at[j] = asked /\ Block("call", messages[t]) \in ToSet(wire[j].content)
      BY <2>7, <3>7
    <3>9. i \in Nat /\ j \in Nat /\ j < i /\ j >= 1
      <4>1. asked < t
        BY <2>3, <3>4, <3>5
      <4>2. j < i
        BY <2>9, <3>1, <3>8, <4>1
      <4>3. j \in 1..n /\ i \in 1..n
        BY <2>2
      <4> QED BY <4>2, <4>3
    <3>10. ASSUME NEW k \in j + 1..i PROVE Is(k, "result")
      <4>1. k \in DOMAIN wire /\ j < k /\ (k < i \/ k = i)
        BY <2>2, <3>9
      <4>2. asked < at[k] /\ (at[k] < t \/ at[k] = t)
        BY <2>9, <3>1, <3>8, <4>1
      <4>3. at[k] \in Nat /\ t \in Nat /\ asked \in Nat /\ messages[asked].n \in Nat
        BY <2>3, <2>5, <4>1
      <4>4. PICK e \in 1..messages[asked].n : at[k] = asked + e
        <5>1. at[k] - asked \in 1..messages[asked].n /\ at[k] = asked + (at[k] - asked)
          BY <3>4, <3>5, <4>2, <4>3
        <5> QED BY <5>1
      <4>5. messages[asked + e] = Message("tool", messages[asked].of, e)
        BY <3>6, <4>4 DEF Complete
      <4>6. messages[at[k]].role = "tool"
        BY <4>4, <4>5 DEF Message
      <4> QED BY <2>11, <4>1, <4>6
    <3>11. Asks(j, wire[i].content[1].of)
      BY <3>2, <3>8 DEF Block
    <3>12. j \in 1..i - 1
      BY <3>9
    <3> HIDE DEF Asks
    <3> QED BY <3>3, <3>10, <3>11, <3>12
  <2> HIDE DEF Of
  <2> QED BY <2>8, <2>10, <2>12 DEF wire
<1>2. Init => RoundsApart
  <2> SUFFICES ASSUME Init PROVE RoundsApart
    OBVIOUS
  <2>1. messages = << Message("user", 0, 0) >>
    BY DEF Init
  <2> QED BY <2>1 DEF RoundsApart, Message
<1>3. Typed /\ Typed' /\ CallsInOrder /\ RoundsApart /\ [Next]_vars => RoundsApart'
  BY RoundsApartStep
<1> QED BY <1>1, <1>2, <1>3, SessionInOrder, EverythingSaidIsKept, PTL DEF Spec

-----------------------------------------------------------------------------
(***************************************************************************)
(* Subagents: Wait, Close and the end of a child may come in any order.    *)
(***************************************************************************)
\* The manager's map, its children and its callers keep their types.
LEMMA ManagerTyped == ManagerSpec => []ManagerTypeOK
<1>1. ManagerInit => ManagerTypeOK
  BY SubagentAssumption DEF ManagerInit, ManagerTypeOK
<1>2. ManagerTypeOK /\ [ManagerNext]_agentVars => ManagerTypeOK'
  <2> SUFFICES ASSUME ManagerTypeOK, [ManagerNext]_agentVars PROVE ManagerTypeOK'
    OBVIOUS
  <2> USE SubagentAssumption DEF ManagerTypeOK
  <2>1. ASSUME NEW i \in Id, NEW c \in Child, Spawn(i, c) PROVE ManagerTypeOK'
    BY <2>1 DEF Spawn
  <2>2. ASSUME NEW c \in Child, RunEnds(c) PROVE ManagerTypeOK'
    BY <2>2 DEF RunEnds
  <2>3. ASSUME NEW c \in Child, SendResult(c) PROVE ManagerTypeOK'
    BY <2>3 DEF SendResult
  <2>4. ASSUME NEW c \in Child, CancelAndDrain(c) PROVE ManagerTypeOK'
    BY <2>4 DEF CancelAndDrain
  <2>5. ASSUME NEW p \in Caller, EndWait(p) PROVE ManagerTypeOK'
    BY <2>5 DEF EndWait
  <2>6. ASSUME NEW p \in Caller, NEW i \in Id, BeginWait(p, i) PROVE ManagerTypeOK'
    BY <2>6 DEF BeginWait
  <2>7. ASSUME NEW names \in SUBSET Id, TakeOut(names) PROVE ManagerTypeOK'
    BY <2>7 DEF TakeOut
  <2>8. CASE UNCHANGED agentVars
    BY <2>8 DEF agentVars
  <2> QED BY <2>1, <2>2, <2>3, <2>4, <2>5, <2>6, <2>7, <2>8
          DEF ManagerNext, ChildStep, Close, CloseAll
<1> QED BY <1>1, <1>2, PTL DEF ManagerSpec

-----------------------------------------------------------------------------
(***************************************************************************)
(* No child runs on unseen.                                                *)
(***************************************************************************)
\* Close and CloseAll do not leave a child between the map and the set of the
\* children to cancel (subagent.go, Close and CloseAll): the child they
\* removed is canceled or about to be, and one whose name was not taken stays
\* within reach.
THEOREM NoChildForgotten == ManagerSpec => []NoOrphans
<1>1. ManagerInit => NoOrphans
  BY DEF ManagerInit, NoOrphans
<1>2. ManagerTypeOK /\ NoOrphans /\ [ManagerNext]_agentVars => NoOrphans'
  <2> SUFFICES ASSUME ManagerTypeOK, NoOrphans, [ManagerNext]_agentVars PROVE NoOrphans'
    OBVIOUS
  <2> USE SubagentAssumption DEF ManagerTypeOK, NoOrphans
  <2>1. ASSUME NEW i \in Id, NEW c \in Child, Spawn(i, c) PROVE NoOrphans'
    BY <2>1 DEF Spawn
  <2>2. ASSUME NEW c \in Child, RunEnds(c) PROVE NoOrphans'
    BY <2>2 DEF RunEnds
  <2>3. ASSUME NEW c \in Child, SendResult(c) PROVE NoOrphans'
    BY <2>3 DEF SendResult
  <2>4. ASSUME NEW c \in Child, CancelAndDrain(c) PROVE NoOrphans'
    BY <2>4 DEF CancelAndDrain
  <2>5. ASSUME NEW p \in Caller, EndWait(p) PROVE NoOrphans'
    BY <2>5 DEF EndWait
  <2>6. ASSUME NEW p \in Caller, NEW i \in Id, BeginWait(p, i) PROVE NoOrphans'
    BY <2>6 DEF BeginWait
  <2>7. ASSUME NEW names \in SUBSET Id, TakeOut(names) PROVE NoOrphans'
    BY <2>7 DEF TakeOut
  <2>8. CASE UNCHANGED agentVars
    BY <2>8 DEF agentVars
  <2> QED BY <2>1, <2>2, <2>3, <2>4, <2>5, <2>6, <2>7, <2>8
          DEF ManagerNext, ChildStep, Close, CloseAll
<1> QED BY <1>1, <1>2, ManagerTyped, PTL DEF ManagerSpec

-----------------------------------------------------------------------------
(***************************************************************************)
(* A result is given once.                                                 *)
(***************************************************************************)
\* The result of a child is in its channel or was taken from it, not both,
\* and neither before the child has ended.
ResultMoves ==
    \A c \in Child :
        /\ taken[c] <= 1
        /\ c \in result => taken[c] = 0
        /\ c \in result \/ taken[c] > 0 => state[c] = "ended"

\* Several callers may wait for the same child, and Close drains the channel
\* they read: the result of a child's one run is never returned twice
\* (subagent.go, Wait).
THEOREM OneWaitGetsTheResult == ManagerSpec => []ResultOnce
<1>1. ManagerInit => ResultMoves
  BY DEF ManagerInit, ResultMoves
<1>2. ManagerTypeOK /\ ResultMoves /\ [ManagerNext]_agentVars => ResultMoves'
  <2> SUFFICES ASSUME ManagerTypeOK, ResultMoves, [ManagerNext]_agentVars PROVE ResultMoves'
    OBVIOUS
  <2> USE SubagentAssumption DEF ManagerTypeOK, ResultMoves
  <2>1. ASSUME NEW i \in Id, NEW c \in Child, Spawn(i, c) PROVE ResultMoves'
    BY <2>1 DEF Spawn
  <2>2. ASSUME NEW c \in Child, RunEnds(c) PROVE ResultMoves'
    BY <2>2 DEF RunEnds
  <2>3. ASSUME NEW c \in Child, SendResult(c) PROVE ResultMoves'
    BY <2>3 DEF SendResult
  <2>4. ASSUME NEW c \in Child, CancelAndDrain(c) PROVE ResultMoves'
    BY <2>4 DEF CancelAndDrain
  <2>5. ASSUME NEW p \in Caller, EndWait(p) PROVE ResultMoves'
    BY <2>5 DEF EndWait
  <2>6. ASSUME NEW p \in Caller, NEW i \in Id, BeginWait(p, i) PROVE ResultMoves'
    BY <2>6 DEF BeginWait
  <2>7. ASSUME NEW names \in SUBSET Id, TakeOut(names) PROVE ResultMoves'
    BY <2>7 DEF TakeOut
  <2>8. CASE UNCHANGED agentVars
    BY <2>8 DEF agentVars
  <2> QED BY <2>1, <2>2, <2>3, <2>4, <2>5, <2>6, <2>7, <2>8
          DEF ManagerNext, ChildStep, Close, CloseAll
<1>3. ManagerTypeOK /\ ResultMoves => ResultOnce
  BY DEF ManagerTypeOK, ResultMoves, ResultOnce
<1> QED BY <1>1, <1>2, <1>3, ManagerTyped, PTL DEF ManagerSpec
==============================================================================
