----------------------------- MODULE EventStream -----------------------------
(***************************************************************************)
(* The path of an event from the engine to the clients: Emitter, then      *)
(* Broadcaster, then one handleEvents goroutine for each connection        *)
(* (internal/server/handlers.go), and the goroutine of the run, which      *)
(* closes the emitter at the end of Execute and the broadcaster after it   *)
(* (internal/server/runmgr/manager.go).                                    *)
(*                                                                         *)
(* A client that was disconnected may connect again and send the last id   *)
(* it was given (Last-Event-ID).  What a handler wrote before its client   *)
(* disconnected has arrived; what it writes later has not.                 *)
(***************************************************************************)
EXTENDS Emitter, Broadcaster

CONSTANTS
    Prev,     \* Prev[s]: the connection that s replaces, or None
    None

ASSUME PrevAssumption == Prev \in [Conn -> Conn \cup {None}] /\ None \notin Conn

VARIABLES
    handler,  \* handler[s]: handleEvents of s: "none", "serving", "ended"
    gone,     \* connections whose client has disconnected
    seq,      \* seq[s]
    skip,     \* skip[s]: skipUntil
    sent      \* sent[s]: what the client of s was given, records [id, evt]

serverVars == <<handler, gone, seq, skip, sent>>
vars == <<emitterVars, broadcasterVars, serverVars>>

Init ==
    /\ EmitterInit /\ BroadcasterInit
    /\ handler = [s \in Conn |-> "none"]
    /\ gone = {}
    /\ seq = [s \in Conn |-> 0]
    /\ skip = [s \in Conn |-> 0]
    /\ sent = [s \in Conn |-> <<>>]

-----------------------------------------------------------------------------
(***************************************************************************)
(* The run: Execute emits, closes the emitter and returns; the deferred    *)
(* Close of the broadcaster follows.                                       *)
(***************************************************************************)
Engine ==
    /\ Emit \/ CloseEmitter \/ CloseReturns
    /\ UNCHANGED <<broadcasterVars, serverVars>>

FinishRun ==
    /\ closing = "returned"
    /\ CloseBroadcaster
    /\ UNCHANGED <<emitterVars, serverVars>>

\* The drain goroutine; its callback is Publish.
Drain ==
    \/ Delivered /\ Publish(delivering) /\ UNCHANGED serverVars
    \/ (Take \/ DrainEnds) /\ UNCHANGED <<broadcasterVars, serverVars>>

-----------------------------------------------------------------------------
(***************************************************************************)
(* The clients and their handlers.                                         *)
(***************************************************************************)
LastId(s) == IF sent[s] = <<>> THEN 0 ELSE sent[s][Len(sent[s])].id

\* The emitted events that have reached the broadcaster.
Published == (1..emitted) \ (dropped \cup Members(queue) \cup {delivering})

Connect(s) ==
    /\ handler[s] = "none"
    /\ Prev[s] # None => Prev[s] \in gone
    /\ Subscribe(s, Published)
    /\ handler' = [handler EXCEPT ![s] = "serving"]
    /\ skip' = [skip EXCEPT ![s] = IF Prev[s] = None THEN 0 ELSE LastId(Prev[s])]
    /\ UNCHANGED <<emitterVars, gone, seq, sent>>

Disconnect(s) ==
    /\ handler[s] = "serving" /\ s \notin gone
    /\ gone' = gone \cup {s}
    /\ EndContext(s)
    /\ UNCHANGED <<emitterVars, handler, seq, skip, sent>>

\* The goroutine that Subscribe started.
Watch(s) == Unregister(s) /\ UNCHANGED <<emitterVars, serverVars>>

\* An iteration of the range over sub.C; the client of a lost connection is
\* given nothing.
Serve(s) ==
    /\ handler[s] = "serving" /\ chan[s] # <<>>
    /\ chan' = [chan EXCEPT ![s] = Tail(@)]
    /\ seq' = [seq EXCEPT ![s] = @ + 1]
    /\ sent' = IF seq'[s] > skip[s] /\ s \notin gone
               THEN [sent EXCEPT ![s] = Append(@, [id |-> seq'[s], evt |-> Head(chan[s])])]
               ELSE sent
    /\ UNCHANGED <<emitterVars, history, subs, closes, watched, ctxDone, bClosed, missed,
                   handler, gone, skip>>

\* The channel is closed and empty: the terminal event is written.
ServeEnds(s) ==
    /\ handler[s] = "serving" /\ chan[s] = <<>> /\ closes[s] > 0
    /\ handler' = [handler EXCEPT ![s] = "ended"]
    /\ UNCHANGED <<emitterVars, broadcasterVars, gone, seq, skip, sent>>

Handle(s) == Serve(s) \/ ServeEnds(s)

Next ==
    \/ Engine \/ FinishRun \/ Drain
    \/ \E s \in Conn : Connect(s) \/ Disconnect(s) \/ Watch(s) \/ Handle(s)

Spec == Init /\ [][Next]_vars

\* Execute returns, and every goroutine that can go on does; no client has to
\* connect or disconnect.
FairSpec ==
    /\ Spec
    /\ WF_vars(CloseEmitter /\ UNCHANGED <<broadcasterVars, serverVars>>)
    /\ WF_vars(CloseReturns /\ UNCHANGED <<broadcasterVars, serverVars>>)
    /\ WF_vars(FinishRun) /\ WF_vars(Drain)
    /\ \A s \in Conn : WF_vars(Watch(s)) /\ WF_vars(Handle(s))

-----------------------------------------------------------------------------
(***************************************************************************)
(* Properties.                                                             *)
(***************************************************************************)
Given(s) == {sent[s][i].evt : i \in DOMAIN sent[s]}

\* Every variable stays in its range.
TypeOK ==
    /\ EmitterTypeOK /\ BroadcasterTypeOK
    /\ handler \in [Conn -> {"none", "serving", "ended"}]
    /\ gone \in SUBSET Conn
    /\ seq \in [Conn -> Nat] /\ skip \in [Conn -> Nat]
    /\ sent \in [Conn -> Seq([id : Nat, evt : Nat])]

\* A client that is told that the stream is over was given every event of
\* the run, but for those that found a full buffer or were no longer in the
\* history: closing the emitter, then the broadcaster, loses none that is
\* still under way.
DoneMeansAll ==
    \A s \in Conn :
        handler[s] = "ended" /\ s \notin gone /\ skip[s] = 0 =>
            /\ closing # "open"
            /\ Given(s) = 1..emitted \ (dropped \cup missed[s])

\* A client that has not disconnected is told in the end that the stream is
\* over.
StreamEnds ==
    \A s \in Conn : handler[s] = "serving" ~> handler[s] = "ended" \/ s \in gone

\* Events the broadcaster keeps are replayed to whoever connects.
\* (The code does not keep this: see the README.)
HistoryReplayed ==
    [][\A s \in Conn : handler[s] = "none" /\ handler'[s] = "serving" =>
          chan'[s] = history]_vars

\* A client that connects again is spared only the events up to the one it
\* was given last.
\* (The code does not keep this: see the README.)
SkipsOnlyOld ==
    [][\A s \in Conn : seq[s] < seq'[s] /\ seq'[s] <= skip[s] =>
          \E e \in Given(Prev[s]) : Head(chan[s]) <= e]_vars

-----------------------------------------------------------------------------
Feed == INSTANCE EventFeed WITH
    Reader <- Conn,
    feed   <- [s \in Conn |-> [i \in DOMAIN sent[s] |-> sent[s][i].evt]],
    over   <- {s \in Conn : handler[s] = "ended"}

\* What each connection is given is the feed promised to a client.
FeedsInOrder == Feed!Spec
=============================================================================
