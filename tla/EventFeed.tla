------------------------------ MODULE EventFeed ------------------------------
(***************************************************************************)
(* What a client of the event stream is promised: events in the order they *)
(* were emitted, none twice, and none once the stream is over.  Events may *)
(* be missing.                                                             *)
(***************************************************************************)
EXTENDS Integers, Sequences

CONSTANT Reader

VARIABLES
    emitted,  \* the events 1..emitted exist
    feed,     \* feed[r]: the events reader r was given
    over      \* the readers that were told that the stream is over

feedVars == <<emitted, feed, over>>

Latest(r) == IF feed[r] = <<>> THEN 0 ELSE feed[r][Len(feed[r])]

Init == emitted = 0 /\ feed = [r \in Reader |-> <<>>] /\ over = {}

Emit == emitted' = emitted + 1 /\ UNCHANGED <<feed, over>>

Give(r) ==
    \E e \in (Latest(r) + 1)..emitted :
        /\ r \notin over
        /\ feed' = [feed EXCEPT ![r] = Append(@, e)]
        /\ UNCHANGED <<emitted, over>>

End(r) ==
    /\ r \notin over
    /\ over' = over \cup {r}
    /\ UNCHANGED <<emitted, feed>>

Next == Emit \/ \E r \in Reader : Give(r) \/ End(r)

Spec == Init /\ [][Next]_feedVars
=============================================================================
