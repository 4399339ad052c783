------------------------------- MODULE Emitter -------------------------------
(***************************************************************************)
(* The event emitter of a run (internal/attractor/events/events.go): a     *)
(* buffered channel between the engine, which emits, and a goroutine that  *)
(* drains the channel and calls the callbacks, here one callback for each  *)
(* event taken from the channel.                                           *)
(*                                                                         *)
(* An event is the number of the Emit call that made it.  The engine emits *)
(* and closes from one goroutine, so that Close marks the emitter and      *)
(* closes the channel in one step: nothing reads the mark in between.      *)
(***************************************************************************)
EXTENDS Integers, Sequences

CONSTANTS
    BufSize,    \* capacity of the channel
    MaxEvents   \* bound: Emit calls of the run

ASSUME EmitterAssumption == BufSize \in Nat \ {0} /\ MaxEvents \in Nat

VARIABLES
    emitted,      \* Emit calls so far
    queue,        \* ch
    closing,      \* Close: not called ("open"), channel closed, returned
    delivering,   \* the event the drain goroutine holds, or 0
    drained,      \* is the channel done closed?
    dropped       \* history: events that found the channel full

emitterVars == <<emitted, queue, closing, delivering, drained, dropped>>

Event == 1..MaxEvents

EmitterInit ==
    /\ emitted = 0 /\ queue = <<>> /\ dropped = {}
    /\ closing = "open"
    /\ delivering = 0 /\ drained = FALSE

\* Non-blocking: the event is dropped if the channel is full.
Emit ==
    /\ closing = "open" /\ emitted < MaxEvents
    /\ emitted' = emitted + 1
    /\ IF Len(queue) < BufSize
       THEN queue' = Append(queue, emitted') /\ UNCHANGED dropped
       ELSE dropped' = dropped \cup {emitted'} /\ UNCHANGED queue
    /\ UNCHANGED <<closing, delivering, drained>>

CloseEmitter ==
    /\ closing = "open"
    /\ closing' = "closed"
    /\ UNCHANGED <<emitted, queue, delivering, drained, dropped>>

CloseReturns_Early ==
    /\ closing = "closed"
    /\ closing' = "returned"
    /\ UNCHANGED <<emitted, queue, delivering, drained, dropped>>

\* Close waits until the pending events are drained.
CloseReturns ==
    /\ closing = "closed" /\ drained
    /\ closing' = "returned"
    /\ UNCHANGED <<emitted, queue, delivering, drained, dropped>>

Take ==
    /\ delivering = 0 /\ queue # <<>>
    /\ delivering' = Head(queue)
    /\ queue' = Tail(queue)
    /\ UNCHANGED <<emitted, closing, drained, dropped>>

\* The callback returns.
Delivered ==
    /\ delivering # 0
    /\ delivering' = 0
    /\ UNCHANGED <<emitted, queue, closing, drained, dropped>>

\* The range over a closed channel ends once the channel is empty.
DrainEnds ==
    /\ closing # "open" /\ queue = <<>> /\ delivering = 0 /\ ~drained
    /\ drained' = TRUE
    /\ UNCHANGED <<emitted, queue, closing, delivering, dropped>>

EmitterTypeOK ==
    /\ emitted \in 0..MaxEvents
    /\ queue \in Seq(Event)
    /\ closing \in {"open", "closed", "returned"}
    /\ delivering \in 0..MaxEvents
    /\ drained \in BOOLEAN
    /\ dropped \in SUBSET Event
=============================================================================
