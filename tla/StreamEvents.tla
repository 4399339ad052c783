---------------------------- MODULE StreamEvents -----------------------------
(***************************************************************************)
(* What the providers have in common (internal/llm/stream.go): the unified *)
(* events a stream carries, and what a provider makes of one event of its  *)
(* server: a new accumulator, the events to send, and how to go on.        *)
(*                                                                         *)
(* The server's answer is made of content blocks.  What it says in one     *)
(* event is a text of one piece, the number of the event.  Events that are *)
(* ignored (ping, unknown ones) would be steps that change nothing.        *)
(***************************************************************************)
EXTENDS Integers, SequencesExt

CONSTANTS
    Index,   \* numbers of the content blocks the server may send
    Tools    \* those that are tool calls, the others are text

ASSUME IndexAssumption ==
    IsFiniteSet(Index) /\ Index = 0..Cardinality(Index) - 1 /\ Tools \subseteq Index

NoBlock == -1
StreamEvent(type, i, text) == [type |-> type, index |-> i, text |-> text]
Plain(type, i) == StreamEvent(type, i, << >>)

\* A Send whose result is looked at, and one whose result is not.
Checked(event)   == [event |-> event, must |-> TRUE]
Unchecked(event) == [event |-> event, must |-> FALSE]

\* then: "more", "respond" or "fail"
Reads(acc, sends, then) == [acc |-> acc, sends |-> sends, then |-> then]

\* A part of resp.Message.Content, with the identifier of its tool call: the
\* block under which that was announced.
Part(i, id, text) == [index |-> i, id |-> id, text |-> text]

EmptyAcc == [known |-> {}, text |-> [i \in Index |-> << >>], content |-> << >>]

-----------------------------------------------------------------------------
(***************************************************************************)
(* The server, which keeps to its protocol.                                *)
(***************************************************************************)
NoAnswer == [begun |-> {}, stopped |-> {}, parted |-> {},
             said |-> [i \in Index |-> << >>]]

ServerEvent(type, i) == [type |-> type, index |-> i, last |-> FALSE]

OfBlocks(type, S) == {ServerEvent(type, i) : i \in S}
OfAnswer(types)   == {ServerEvent(type, NoBlock) : type \in types}

\* Does the event say something new in its block?
Says(event) == event.type \in {"delta", "extend"}

After(server, event, n) ==
    LET i == event.index IN
    [begun   |-> IF event.type \in {"start", "extend"} THEN server.begun \cup {i} ELSE server.begun,
     stopped |-> IF event.type = "stop" THEN server.stopped \cup {i} ELSE server.stopped,
     parted  |-> IF event.type = "part" THEN server.parted \cup {i} ELSE server.parted,
     said    |-> IF Says(event) THEN [server.said EXCEPT ![i] = Append(@, n)] ELSE server.said]
=============================================================================
