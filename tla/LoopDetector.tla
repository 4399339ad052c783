----------------------------- MODULE LoopDetector ----------------------------
(***************************************************************************)
(* The detector of repeated tool calls (internal/agent/loop/detector.go).  *)
(* A signature stands for the hash of a tool name and its arguments.  The  *)
(* detector keeps the signatures of the last calls; its state is that      *)
(* sequence.                                                               *)
(***************************************************************************)
EXTENDS Integers, Sequences

\* The last n elements of a sequence, or all of it.
Window_OneLess(sigs, n) ==
    SubSeq(sigs, IF Len(sigs) >= n THEN Len(sigs) - n + 2 ELSE 1, Len(sigs))

Window(sigs, n) ==
    SubSeq(sigs, IF Len(sigs) > n THEN Len(sigs) - n + 1 ELSE 1, Len(sigs))

\* The k-th signature from the end.
Back(sigs, k) == sigs[Len(sigs) - k + 1]

Period1(sigs) ==
    /\ Len(sigs) >= 3
    /\ Back(sigs, 1) = Back(sigs, 2) /\ Back(sigs, 2) = Back(sigs, 3)

Period2(sigs) ==
    /\ Len(sigs) >= 4
    /\ Back(sigs, 1) = Back(sigs, 3) /\ Back(sigs, 2) = Back(sigs, 4)
    /\ Back(sigs, 1) # Back(sigs, 2)

\* Three equal signatures are the business of Period1.
Period3(sigs) ==
    /\ Len(sigs) >= 6
    /\ Back(sigs, 1) = Back(sigs, 4) /\ Back(sigs, 2) = Back(sigs, 5)
    /\ Back(sigs, 3) = Back(sigs, 6)
    /\ ~(Back(sigs, 1) = Back(sigs, 2) /\ Back(sigs, 2) = Back(sigs, 3))

Detect(sigs) == Period1(sigs) \/ Period2(sigs) \/ Period3(sigs)

\* The state after a call, and whether Record reports a loop.
Recorded(sigs, sig, window) == Window(Append(sigs, sig), window)
Record(sigs, sig, window)   == Detect(Recorded(sigs, sig, window))

-----------------------------------------------------------------------------
\* What a loop is, said of all calls that were made: the last of them are
\* one pattern of one, two or three calls, made twice, or three times if it
\* is a single call.
Repeats(calls, period, times) ==
    /\ Len(calls) >= period * times
    /\ \A k \in 1..(period * (times - 1)) : Back(calls, k) = Back(calls, k + period)

Looping(calls) ==
    Repeats(calls, 1, 3) \/ Repeats(calls, 2, 2) \/ Repeats(calls, 3, 2)
=============================================================================
