----------------------------- MODULE Broadcaster -----------------------------
(***************************************************************************)
(* The fan-out of a run's events to the clients of the HTTP server         *)
(* (internal/server/sse/broadcaster.go).  Every operation holds the mutex  *)
(* and is one action; what is concurrent is the goroutine that waits for   *)
(* the end of each subscription's context and then unregisters it, which   *)
(* races with Close.                                                       *)
(***************************************************************************)
EXTENDS Integers, Sequences

CONSTANTS
    Conn,         \* subscriptions, one for each connection
    MaxHistory,   \* events kept for replay
    SubBufSize    \* capacity of the channel of a subscription

ASSUME BroadcasterAssumption == MaxHistory \in Nat \ {0} /\ SubBufSize \in Nat \ {0}

VARIABLES
    history,
    subs,         \* the registered subscriptions
    chan,         \* chan[s]: the channel of s
    closes,       \* closes[s]: how often the channel of s was closed
    watched,      \* subscriptions with a goroutine that waits for their context
    ctxDone,      \* subscriptions whose context is done
    bClosed,      \* closed
    missed        \* history variable: missed[s], the events that s was not
                  \* given: trimmed before it subscribed, or its channel was full

broadcasterVars == <<history, subs, chan, closes, watched, ctxDone, bClosed, missed>>

BroadcasterInit ==
    /\ history = <<>> /\ subs = {} /\ bClosed = FALSE
    /\ chan = [s \in Conn |-> <<>>]
    /\ closes = [s \in Conn |-> 0]
    /\ watched = {} /\ ctxDone = {}
    /\ missed = [s \in Conn |-> {}]

LastN(events, n) ==
    SubSeq(events, IF Len(events) > n THEN Len(events) - n + 1 ELSE 1, Len(events))

FirstN(events, n) ==
    SubSeq(events, 1, IF Len(events) > n THEN n ELSE Len(events))

Members(events) == {events[i] : i \in DOMAIN events}

Publish_Lifo(evt) ==
    /\ history' = IF bClosed THEN history ELSE LastN(Append(history, evt), MaxHistory)
    /\ chan' = [s \in Conn |-> IF s \in subs /\ Len(chan[s]) < SubBufSize
                               THEN <<evt>> \o chan[s] ELSE chan[s]]
    /\ missed' = [s \in Conn |-> IF s \in subs /\ Len(chan[s]) >= SubBufSize
                                 THEN missed[s] \cup {evt} ELSE missed[s]]
    /\ UNCHANGED <<subs, closes, watched, ctxDone, bClosed>>

\* Close has emptied subs, so a late event goes nowhere.
Publish(evt) ==
    /\ history' = IF bClosed THEN history ELSE LastN(Append(history, evt), MaxHistory)
    /\ chan' = [s \in Conn |-> IF s \in subs /\ Len(chan[s]) < SubBufSize
                               THEN Append(chan[s], evt) ELSE chan[s]]
    /\ missed' = [s \in Conn |-> IF s \in subs /\ Len(chan[s]) >= SubBufSize
                                 THEN missed[s] \cup {evt} ELSE missed[s]]
    /\ UNCHANGED <<subs, closes, watched, ctxDone, bClosed>>

\* The history is replayed as far as the channel has room.  published is
\* every event published so far; the part of it that is not in the history
\* is lost for s.
Subscribe(s, published) ==
    LET replay == FirstN(history, SubBufSize) IN
    /\ chan' = [chan EXCEPT ![s] = replay]
    /\ missed' = [missed EXCEPT ![s] = published \ Members(replay)]
    /\ IF bClosed
       THEN closes' = [closes EXCEPT ![s] = @ + 1] /\ UNCHANGED <<subs, watched>>
       ELSE subs' = subs \cup {s} /\ watched' = watched \cup {s} /\ UNCHANGED closes
    /\ UNCHANGED <<history, ctxDone, bClosed>>

\* The HTTP request of s ends.
EndContext(s) ==
    /\ ctxDone' = ctxDone \cup {s}
    /\ UNCHANGED <<history, subs, chan, closes, watched, bClosed, missed>>

Unregister_Unchecked(s) ==
    /\ s \in watched \cap ctxDone
    /\ watched' = watched \ {s}
    /\ subs' = subs \ {s} /\ closes' = [closes EXCEPT ![s] = @ + 1]
    /\ UNCHANGED <<history, chan, ctxDone, bClosed, missed>>

\* The goroutine of s wakes up; Close may have been faster.
Unregister(s) ==
    /\ s \in watched \cap ctxDone
    /\ watched' = watched \ {s}
    /\ IF s \in subs
       THEN subs' = subs \ {s} /\ closes' = [closes EXCEPT ![s] = @ + 1]
       ELSE UNCHANGED <<subs, closes>>
    /\ UNCHANGED <<history, chan, ctxDone, bClosed, missed>>

CloseBroadcaster_Silent ==
    /\ ~bClosed
    /\ bClosed' = TRUE
    /\ UNCHANGED <<history, subs, chan, closes, watched, ctxDone, missed>>

CloseBroadcaster ==
    /\ ~bClosed
    /\ bClosed' = TRUE
    /\ ctxDone' = ctxDone \cup subs
    /\ closes' = [s \in Conn |-> IF s \in subs THEN closes[s] + 1 ELSE closes[s]]
    /\ subs' = {}
    /\ UNCHANGED <<history, chan, watched, missed>>

BroadcasterTypeOK ==
    /\ history \in Seq(Nat) /\ Len(history) <= MaxHistory
    /\ subs \in SUBSET Conn
    /\ chan \in [Conn -> Seq(Nat)]
    /\ closes \in [Conn -> Nat]
    /\ watched \in SUBSET Conn /\ ctxDone \in SUBSET Conn
    /\ bClosed \in BOOLEAN
    /\ missed \in [Conn -> SUBSET Nat]

\* A channel is closed at most once, and nothing is sent to it afterwards:
\* either would panic.  Close and the end of a request's context may come
\* together.
ChannelsSafe ==
    /\ \A s \in Conn : closes[s] <= 1
    /\ \A s \in subs : closes[s] = 0
=============================================================================
