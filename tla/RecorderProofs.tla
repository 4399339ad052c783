---------------------------- MODULE RecorderProofs ----------------------------
(***************************************************************************)
(* Theorems about the recorder of a run, for every run, any number of      *)
(* agents, turns, events and failures, and every size of the channels of   *)
(* the emitters.                                                           *)
(***************************************************************************)
EXTENDS Recorder, SequenceTheorems, TLAPS

-----------------------------------------------------------------------------
(***************************************************************************)
(* Types.                                                                  *)
(***************************************************************************)
Place == Node \cup Nat

Told == [type : DOMAIN TurnType, node : Place]

\* Who appends a turn: the drain goroutine, an agent, or New.
Author == Node \cup {"events", Provenance}

Types == {TurnType[t] : t \in DOMAIN TurnType} \cup {AgentTurn[e] : e \in DOMAIN AgentTurn}
             \cup {"input", Provenance}

Turn == [type : Types, node : Place, by : Author, n : Nat]

States == {"connect", "start", "enter", "stage", "children", "saved", "next", "exit", "final",
           "complete", "failed", "close", "drain", "disconnect", "ended"}

EmitterTyped ==
    /\ emitted \in Nat
    /\ queue \in Seq(1..emitted) /\ delivering \in 0..emitted
    /\ closing \in {"open", "closed", "returned"} /\ drained \in BOOLEAN
    /\ what \in Seq(Told) /\ Len(what) = emitted

EngineTyped ==
    /\ agents \in Runs /\ stage \in DOMAIN agents
    /\ pc \in States
    /\ children \in SUBSET Node
    /\ saved \in [stage : Nat, head : Nat]
    /\ agent \in [Node -> {"idle", "called", "working", "closing", "done"}]
    /\ turns \in [Node -> Nat]

Spoken == [kind : AgentEvents \cup {"session_end"}, n : Nat]

\* Only the agents of the current stage are at work, and only a session that is
\* not done has events on their way.
AgentsTyped ==
    /\ pending \in [Node -> Seq(Spoken)] /\ held \in [Node -> BOOLEAN]
    /\ \A a \in Node :
           /\ agent[a] \in {"called", "working", "closing"} => pc = "stage" /\ a \in agents[stage]
           /\ pending[a] # <<>> => agent[a] \in {"working", "closing"}
           /\ held[a] => pending[a] # <<>>

RecorderTyped ==
    /\ client \in {"none", "open", "closed"}
    /\ context \in Seq(Turn) /\ head \in Nat

Typed == EmitterTyped /\ EngineTyped /\ AgentsTyped /\ RecorderTyped

-----------------------------------------------------------------------------
(***************************************************************************)
(* The invariants.                                                         *)
(***************************************************************************)
\* The channel holds events in the order of the Emit calls, and those the
\* context holds were delivered before.
EventsInOrder ==
    /\ \A i, j \in DOMAIN queue : i < j => queue[i] < queue[j]
    /\ \A i \in DOMAIN queue : delivering < queue[i]
    /\ \A k \in DOMAIN context : context[k].by = "events" =>
           /\ context[k].n <= emitted
           /\ delivering # 0 => context[k].n < delivering
           /\ \A i \in DOMAIN queue : context[k].n < queue[i]

\* What is on its way from an agent is in its order.
PendingInOrder ==
    \A a \in Node : \A i \in DOMAIN pending[a] :
        /\ pending[a][i].n <= turns[a]
        /\ \A j \in DOMAIN pending[a] : i < j => pending[a][i].n < pending[a][j].n

\* The turns of an agent in the context are turns it has had, and before those
\* that are on their way; only the first turn tells where the run comes from.
AgentsInOrder ==
    \A k \in DOMAIN context :
        /\ context[k].by \in Node =>
               /\ context[k].n <= turns[context[k].by]
               /\ \A i \in DOMAIN pending[context[k].by] :
                      context[k].n < pending[context[k].by][i].n
        /\ context[k].by = Provenance => k = 1

ToldInOrder == TurnsInOrder /\ EventsInOrder /\ AgentsInOrder /\ PendingInOrder

\* The agents of a stage are done when its handler has returned, and those of
\* a stage behind which a checkpoint was written stay so.
StageDone(s) == \A a \in agents[s] : agent[a] = "done"

Behind == {"children", "saved", "next", "exit", "final", "complete"}

StagesInOrder ==
    /\ \A s \in DOMAIN agents : s < stage => StageDone(s)
    /\ pc \in Behind => StageDone(stage)
    /\ \A s \in DOMAIN agents : s < saved.stage => StageDone(s)
    /\ saved.stage <= stage + 1
    /\ pc \in {"connect", "start", "enter"} => saved.stage <= stage

Acknowledged ==
    /\ head <= Len(context)
    /\ \A k \in acked : k \in DOMAIN context /\ k <= head

Covered == Acknowledged /\ StagesInOrder /\ CheckpointCoversStages

\* Where an event is until the connection is closed.
Recorded(n) == \E k \in DOMAIN context : context[k].by = "events" /\ context[k].n = n

Accounted ==
    \A n \in 1..emitted :
        \/ n \in dropped \cup refused
        \/ \E i \in DOMAIN queue : queue[i] = n
        \/ n = delivering
        \/ Recorded(n)

ClosedLast ==
    /\ client = "none" <=> pc = "connect"
    /\ client = "closed" <=> pc = "ended"
    /\ pc = "connect" => emitted = 0
    /\ drained => queue = <<>> /\ delivering = 0 /\ closing # "open"
    /\ pc = "disconnect" => drained
    /\ pc = "ended" => drained \/ emitted = 0

-----------------------------------------------------------------------------
(***************************************************************************)
(* Lemmas about the operators.                                             *)
(***************************************************************************)
\* The stages of a run have agents of their own.
LEMMA RunTypes ==
    ASSUME NEW r \in Runs
    PROVE  /\ Len(r) \in Nat \ {0} /\ DOMAIN r = 1..Len(r)
           /\ \A s \in DOMAIN r : r[s] \in SUBSET Node
           /\ \A s, t \in DOMAIN r : s # t => r[s] \cap r[t] = {}
<1>1. /\ r \in Seq(SUBSET Node) /\ r # <<>>
      /\ \A s, t \in DOMAIN r : s # t => r[s] \cap r[t] = {}
  BY RecorderAssumption
<1> QED BY <1>1, LenProperties, EmptySeq, ElementOfSeq

\* What an emitted event leaves of the emitter.
LEMMA EmitTyped ==
    ASSUME EmitterTyped, NEW type \in DOMAIN TurnType, NEW node \in Place, EmitEvent(type, node)
    PROVE  EmitterTyped'
<1>1. emitted \in Nat /\ emitted' = emitted + 1 /\ delivering' \in 0..emitted'
  BY DEF EmitterTyped, EmitEvent, Emit
<1>2. queue' \in Seq(1..emitted')
  <2>1. 1..emitted \subseteq 1..emitted' /\ emitted' \in 1..emitted'
    BY <1>1
  <2>2. queue \in Seq(1..emitted')
    BY <2>1, SeqMonotonic DEF EmitterTyped
  <2>3. Append(queue, emitted') \in Seq(1..emitted')
    BY <2>1, <2>2, AppendProperties
  <2>4. queue' = queue \/ queue' = Append(queue, emitted')
    BY DEF EmitEvent, Emit
  <2> QED BY <2>2, <2>3, <2>4
<1>3. what' \in Seq(Told) /\ Len(what') = emitted'
  <2>1. [type |-> type, node |-> node] \in Told
    BY DEF Told
  <2>2. what \in Seq(Told) /\ Len(what) = emitted
    BY DEF EmitterTyped
  <2> QED BY <1>1, <2>1, <2>2, AppendProperties DEF EmitEvent
<1> QED BY <1>1, <1>2, <1>3 DEF EmitterTyped, EmitEvent, Emit

\* A turn is appended, or it is not, whatever the server answers.
LEMMA TurnAppended ==
    ASSUME RecorderTyped, NEW turn \in Turn, AppendTurn(turn)
    PROVE  /\ RecorderTyped' /\ client' = client
           /\ \/ UNCHANGED context
              \/ /\ DOMAIN context' = 1..(Len(context) + 1) /\ Len(context') = Len(context) + 1
                 /\ context'[Len(context) + 1] = turn
                 /\ \A k \in DOMAIN context : context'[k] = context[k]
           /\ \/ UNCHANGED <<head, acked>>
              \/ /\ Len(context') = Len(context) + 1
                 /\ head' = Len(context') /\ acked' = acked \cup {head'}
<1>1. context \in Seq(Turn) /\ head \in Nat /\ Len(context) \in Nat /\ DOMAIN context = 1..Len(context)
  BY LenProperties DEF RecorderTyped
<1> DEFINE longer == Append(context, turn)
<1>2. /\ longer \in Seq(Turn) /\ Len(longer) = Len(context) + 1
      /\ \A k \in 1..Len(context) : longer[k] = context[k]
      /\ longer[Len(context) + 1] = turn
  BY <1>1, AppendProperties
<1>3. DOMAIN longer = 1..(Len(context) + 1)
  BY <1>2, LenProperties
<1>4. context' = context \/ context' = longer
  BY DEF AppendTurn
<1>5. \/ UNCHANGED <<head, acked>>
      \/ /\ context' = longer /\ head' = Len(context') /\ acked' = acked \cup {head'}
  BY DEF AppendTurn
<1>6. client' = client
  BY DEF AppendTurn
<1> HIDE DEF longer
<1> QED BY <1>1, <1>2, <1>3, <1>4, <1>5, <1>6 DEF RecorderTyped

\* The turns that are appended.
LEMMA TurnTypes ==
    ASSUME Typed
    PROVE  /\ delivering # 0 => PipelineTurn(delivering) \in Turn
           /\ \A a \in Node, n \in Nat :
                  /\ [StageTurn(a, "input", n) EXCEPT !.node = Run] \in Turn
                  /\ \A e \in DOMAIN AgentTurn : StageTurn(a, AgentTurn[e], n) \in Turn
<1>1. ASSUME delivering # 0 PROVE PipelineTurn(delivering) \in Turn
  <2>1. /\ what \in Seq(Told) /\ Len(what) = emitted /\ emitted \in Nat /\ delivering \in 0..emitted
    BY DEF Typed, EmitterTyped
  <2>2. delivering \in 1..Len(what)
    BY <1>1, <2>1
  <2>3. what[delivering] \in Told
    BY <2>1, <2>2, ElementOfSeq
  <2>4. /\ TurnType[what[delivering].type] \in Types /\ what[delivering].node \in Place
        /\ "events" \in Author /\ delivering \in Nat
    BY <2>1, <2>2, <2>3 DEF Told, Types, Author
  <2> QED BY <2>4 DEF PipelineTurn, Turn
<1>2. ASSUME NEW a \in Node, NEW n \in Nat, NEW type \in Types, NEW node \in Place
      PROVE  [StageTurn(a, type, n) EXCEPT !.node = node] \in Turn /\ StageTurn(a, type, n) \in Turn
  <2>1. a \in Place /\ a \in Author
    BY DEF Place, Author
  <2> QED BY <2>1 DEF StageTurn, Turn
<1>3. "input" \in Types /\ Run \in Place /\ \A e \in DOMAIN AgentTurn : AgentTurn[e] \in Types
  BY DEF Types, Place, Run
<1> HIDE DEF Types, Place
<1> QED BY <1>1, <1>2, <1>3

-----------------------------------------------------------------------------
(***************************************************************************)
(* The steps.                                                              *)
(***************************************************************************)
\* What a step does to the emitter, the context and the turns of the agents.
Quiet ==
    /\ UNCHANGED <<context, head, acked, refused, turns, pending, what>>
    /\ UNCHANGED emitterVars \/ CloseEmitter \/ CloseReturns \/ DrainEnds

Emitting ==
    /\ \E type \in DOMAIN TurnType, node \in Place : EmitEvent(type, node)
    /\ UNCHANGED <<recVars, turns, pending>>

Taking == Take /\ UNCHANGED <<recVars, turns, pending, what>>

Acting(a) == AgentActs(a) \/ AgentEnds(a)

Speaking(a) == RecordInput(a) \/ OnAgentEvent(a)

LEMMA KindsOfSteps ==
    ASSUME Typed, [Next]_vars
    PROVE  \/ Quiet \/ Emitting \/ Connect \/ Taking \/ OnEvent
           \/ \E a \in Node : Acting(a) \/ Speaking(a)
<1>1. DOMAIN TurnType = {"pipeline_started", "pipeline_completed", "pipeline_failed", "stage_started",
                        "stage_completed", "stage_failed", "stage_retrying", "checkpoint_saved",
                        "parallel_started", "parallel_branch_started",
                        "parallel_branch_completed", "parallel_completed", "interview_started",
                        "interview_completed", "interview_timeout"}
  BY DEF TurnType
<1>2. stage \in Place /\ Run \in Place /\ \A c \in children : c \in Place
  <2>1. stage \in Nat
    BY RunTypes DEF Typed, EngineTyped
  <2> QED BY <2>1 DEF Typed, EngineTyped, Place, Run
<1> HIDE DEF TurnType
<1>3. CASE StartPipeline \/ CompletePipeline \/ FailPipeline \/ EnterStage \/ LeaveStage \/ CheckpointSaved
  <2>1. UNCHANGED <<recVars, turns, pending>>
    BY <1>3 DEF StartPipeline, CompletePipeline, FailPipeline, EnterStage, LeaveStage, CheckpointSaved,
                agentVars
  <2>2. \E type \in DOMAIN TurnType, node \in Place : EmitEvent(type, node)
    BY <1>1, <1>2, <1>3 DEF StartPipeline, CompletePipeline, FailPipeline, EnterStage, LeaveStage,
                            CheckpointSaved
  <2> QED BY <2>1, <2>2 DEF Emitting
<1>4. CASE ChildCompleted
  <2>1. UNCHANGED <<recVars, turns, pending>>
    BY <1>4 DEF ChildCompleted, agentVars
  <2>2. \E type \in DOMAIN TurnType, node \in Place : EmitEvent(type, node)
    BY <1>1, <1>2, <1>4 DEF ChildCompleted
  <2> QED BY <2>1, <2>2 DEF Emitting
<1>5. CASE Checkpoint \/ Advance \/ CloseEvents \/ CloseRecorder
  BY <1>5 DEF Checkpoint, Advance, CloseEvents, CloseRecorder, Quiet, recVars, agentVars
<1>6. CASE \E a \in Node : AgentReturns(a) \/ TakeAgentEvent(a)
  BY <1>6 DEF AgentReturns, TakeAgentEvent, Quiet, engineVars, recVars
<1>7. CASE (Take \/ DrainEnds) /\ UNCHANGED <<engineVars, agentVars, recVars>>
  BY <1>7 DEF Taking, Quiet, recVars, agentVars, engineVars
<1>8. CASE UNCHANGED vars
  BY <1>8 DEF vars, Quiet, recVars, agentVars, engineVars
<1> QED BY <1>3, <1>4, <1>5, <1>6, <1>7, <1>8 
           DEF Next, Engine, Drain, Agent, DrainAgent, Acting, Speaking

LEMMA InitTyped == Init => Typed
<1> SUFFICES ASSUME Init PROVE Typed
  OBVIOUS
<1>1. EmitterTyped
  <2>1. <<>> \in Seq(1..0) /\ <<>> \in Seq(Told) /\ Len(<<>>) = 0
    BY EmptySeq
  <2>2. /\ emitted = 0 /\ queue = <<>> /\ what = <<>> /\ closing = "open"
        /\ delivering = 0 /\ drained = FALSE
    BY DEF Init, EmitterInit
  <2>3. queue \in Seq(1..emitted) /\ delivering \in 0..emitted
    BY <2>1, <2>2
  <2> QED BY <2>1, <2>2, <2>3 DEF EmitterTyped
<1>2. EngineTyped
  <2>1. agents \in Runs /\ 1 \in DOMAIN agents
    BY RunTypes DEF Init
  <2> QED BY <2>1 DEF Init, EngineTyped, States
<1>3. RecorderTyped
  BY EmptySeq DEF Init, RecorderTyped
<1>4. AgentsTyped
  <2>1. <<>> \in Seq(Spoken)
    BY EmptySeq
  <2> QED BY <2>1 DEF Init, AgentsTyped
<1> QED BY <1>1, <1>2, <1>3, <1>4 DEF Typed

LEMMA EmitterStep == Typed /\ [Next]_vars => EmitterTyped'
<1> SUFFICES ASSUME Typed, [Next]_vars PROVE EmitterTyped'
  OBVIOUS
<1>0. EmitterTyped
  BY DEF Typed
<1>1. CASE Emitting
  BY <1>0, <1>1, EmitTyped DEF Emitting
<1>2. CASE UNCHANGED <<emitterVars, what>>
  BY <1>0, <1>2 DEF EmitterTyped, emitterVars
<1>3. CASE Taking
  <2>1. queue \in Seq(1..emitted) /\ queue # <<>> /\ emitted \in Nat /\ emitted' = emitted
    BY <1>0, <1>3 DEF EmitterTyped, Taking, Take
  <2>2. Head(queue) \in 1..emitted /\ Tail(queue) \in Seq(1..emitted)
    BY <2>1, HeadTailProperties
  <2> QED BY <1>0, <1>3, <2>1, <2>2 DEF EmitterTyped, Taking, Take
<1>4. CASE Quiet
  BY <1>0, <1>2, <1>4 DEF EmitterTyped, CloseEmitter, CloseReturns, DrainEnds, Quiet
<1>5. CASE OnEvent
  BY <1>0, <1>5 DEF EmitterTyped, OnEvent, Delivered, engineVars
<1>6. CASE Connect \/ \E a \in Node : Acting(a) \/ Speaking(a)
  BY <1>2, <1>6 DEF Connect, Acting, Speaking, RecordInput, AgentActs, AgentEnds, OnAgentEvent,
                    engineVars
<1> QED BY <1>1, <1>3, <1>4, <1>5, <1>6, KindsOfSteps

\* Only the engine changes its state; the stage is one of the run's.
LEMMA EngineStep == Typed /\ [Next]_vars => EngineTyped'
<1> SUFFICES ASSUME Typed, [Next]_vars PROVE EngineTyped'
  OBVIOUS
<1>0. /\ EngineTyped /\ head \in Nat /\ agents' = agents
      /\ DOMAIN agents = 1..Len(agents) /\ Len(agents) \in Nat
      /\ \A s \in DOMAIN agents : agents[s] \in SUBSET Node
  <2>1. EngineTyped /\ head \in Nat
    BY DEF Typed, RecorderTyped
  <2>2. agents' = agents
    BY DEF Next, Engine, Drain, Agent, Connect, StartPipeline, EnterStage, LeaveStage, ChildCompleted,
           Checkpoint, CheckpointSaved, Advance, CompletePipeline, FailPipeline, CloseEvents,
           CloseRecorder, DrainAgent, RecordInput, AgentActs, AgentEnds, AgentReturns, TakeAgentEvent,
           OnAgentEvent, OnEvent,
           engineVars, vars
  <2> QED BY <2>1, <2>2, RunTypes DEF EngineTyped
<1>1. CASE UNCHANGED <<engineVars, agentVars>>
  BY <1>0, <1>1 DEF EngineTyped, engineVars, agentVars
<1>2. CASE Connect \/ StartPipeline \/ CompletePipeline \/ FailPipeline \/ CheckpointSaved
              \/ CloseEvents \/ CloseRecorder
  BY <1>0, <1>2 DEF EngineTyped, States, Connect, StartPipeline, CompletePipeline, FailPipeline,
                    CheckpointSaved, CloseEvents, CloseRecorder, agentVars
<1>3. CASE EnterStage
  BY <1>0, <1>3 DEF EngineTyped, States, EnterStage
<1>4. CASE LeaveStage
  <2>1. agents[stage] \in SUBSET Node
    BY <1>0 DEF EngineTyped
  <2> QED BY <1>0, <1>4, <2>1 DEF EngineTyped, States, LeaveStage, agentVars
<1>5. CASE ChildCompleted
  BY <1>0, <1>5 DEF EngineTyped, States, ChildCompleted, agentVars
<1>6. CASE Checkpoint
  <2>1. stage + 1 \in Nat
    BY <1>0 DEF EngineTyped
  <2> QED BY <1>0, <1>6, <2>1 DEF EngineTyped, States, Checkpoint, agentVars
<1>7. CASE Advance
  <2>1. stage' \in DOMAIN agents
    BY <1>0, <1>7 DEF EngineTyped, Advance
  <2> QED BY <1>0, <1>7, <2>1 DEF EngineTyped, States, Advance, agentVars
<1>8. CASE \E a \in Node : Agent(a) \/ DrainAgent(a)
  <2>1. PICK a \in Node : Agent(a) \/ DrainAgent(a)
    BY <1>8
  <2> USE DEF Agent, DrainAgent, RecordInput, AgentActs, AgentEnds, AgentReturns, TakeAgentEvent,
              OnAgentEvent, EmitAgentEvent
  <2>2. UNCHANGED engineVars
    BY <2>1
  <2>3. agent' \in [Node -> {"idle", "called", "working", "closing", "done"}]
    BY <1>0, <2>1 DEF EngineTyped
  <2>4. turns' = turns \/ turns' = [turns EXCEPT ![a] = @ + 1]
    BY <2>1
  <2>5. turns' \in [Node -> Nat]
    BY <1>0, <2>4 DEF EngineTyped
  <2> QED BY <1>0, <2>2, <2>3, <2>5 DEF EngineTyped, engineVars
<1> QED BY <1>1, <1>2, <1>3, <1>4, <1>5, <1>6, <1>7, <1>8
           DEF Next, Engine, Drain, OnEvent, vars

\* What a session emits: the event goes behind those on their way, or is dropped.
LEMMA AgentEmits ==
    ASSUME Typed, NEW a \in Node, Acting(a)
    PROVE  /\ UNCHANGED <<emitterVars, engineVars, recVars, held>>
           /\ agent[a] = "working" /\ agent'[a] \in {"working", "closing"}
           /\ \A b \in Node : b # a => agent'[b] = agent[b]
           /\ turns' = [turns EXCEPT ![a] = @ + 1]
           /\ \/ pending' = pending
              \/ \E e \in Spoken : /\ e.n = turns[a] + 1
                                  /\ pending' = [pending EXCEPT ![a] = Append(@, e)]
<1>1. PICK kind \in AgentEvents \cup {"session_end"} : EmitAgentEvent(a, kind)
  BY DEF Acting, AgentActs, AgentEnds
<1>2. turns[a] \in Nat /\ turns' = [turns EXCEPT ![a] = @ + 1] /\ turns'[a] = turns[a] + 1
  BY <1>1 DEF EmitAgentEvent, Typed, EngineTyped
<1> DEFINE e == [kind |-> kind, n |-> turns'[a]]
<1>3. e \in Spoken /\ e.n = turns[a] + 1
  BY <1>2 DEF Spoken
<1>4. pending' = pending \/ pending' = [pending EXCEPT ![a] = Append(@, e)]
  BY <1>1 DEF EmitAgentEvent
<1> HIDE DEF e
<1>5. /\ UNCHANGED <<emitterVars, engineVars, recVars, held>>
      /\ agent[a] = "working" /\ agent'[a] \in {"working", "closing"}
      /\ \A b \in Node : b # a => agent'[b] = agent[b]
  BY DEF Acting, AgentActs, AgentEnds, Typed, EngineTyped
<1> QED BY <1>2, <1>3, <1>4, <1>5

\* What is appended for an agent: its input, or the first event on its way.
LEMMA AgentSpeaks ==
    ASSUME Typed, NEW a \in Node, Speaking(a)
    PROVE  /\ UNCHANGED <<emitterVars, engineVars>> /\ agent[a] \in {"called", "working", "closing"}
           /\ \A b \in Node : agent[b] = "done" => agent'[b] = "done"
           /\ \E n \in Nat :
                 /\ \/ /\ pending[a] = <<>> /\ UNCHANGED pending
                       /\ turns' = [turns EXCEPT ![a] = @ + 1] /\ n = turns[a] + 1
                    \/ /\ pending[a] # <<>> /\ pending' = [pending EXCEPT ![a] = Tail(@)]
                       /\ UNCHANGED turns /\ n = Head(pending[a]).n
                 /\ \/ UNCHANGED recVars
                    \/ \E turn \in Turn : turn.by = a /\ turn.n = n /\ AppendTurn(turn)
<1>1. CASE RecordInput(a)
  <2>0. /\ turns' = [turns EXCEPT ![a] = @ + 1] /\ agent[a] = "called" /\ pending' = pending
        /\ agent' = [agent EXCEPT ![a] = "working"]
    BY <1>1 DEF RecordInput
  <2>1. /\ turns' = [turns EXCEPT ![a] = @ + 1] /\ turns'[a] = turns[a] + 1 /\ turns'[a] \in Nat
        /\ pending[a] = <<>> /\ pending' = pending /\ agent[a] = "called"
        /\ \A b \in Node : agent[b] = "done" => agent'[b] = "done"
    <3>1. turns \in [Node -> Nat] /\ turns[a] + 1 \in Nat
      BY DEF Typed, EngineTyped
    <3>2. pending[a] # <<>> => agent[a] \in {"working", "closing"}
      BY DEF Typed, AgentsTyped
    <3>3. \A b \in Node : agent[b] = "done" => agent'[b] = "done"
      BY <2>0 DEF Typed, EngineTyped
    <3> QED BY <2>0, <3>1, <3>2, <3>3
  <2> DEFINE turn == [StageTurn(a, "input", turns'[a]) EXCEPT !.node = Run]
  <2>2. turn \in Turn /\ turn.by = a /\ turn.n = turns[a] + 1
    BY <2>1, TurnTypes DEF StageTurn
  <2>3. AppendTurn(turn) /\ UNCHANGED <<emitterVars, engineVars>>
    BY <1>1 DEF RecordInput
  <2> HIDE DEF turn
  <2> QED BY <2>1, <2>2, <2>3
<1>2. CASE OnAgentEvent(a)
  <2>1. /\ pending[a] # <<>> /\ pending[a] \in Seq(Spoken)
        /\ pending' = [pending EXCEPT ![a] = Tail(@)]
        /\ UNCHANGED <<emitterVars, engineVars, agent, turns>>
        /\ agent[a] \in {"called", "working", "closing"}
    BY <1>2 DEF OnAgentEvent, Typed, AgentsTyped
  <2>2. PICK e \in Spoken : e = Head(pending[a])
    BY <2>1, HeadTailProperties
  <2>3. e.n \in Nat
    BY DEF Spoken
  <2>4. IF e.kind \in DOMAIN AgentTurn THEN AppendTurn(StageTurn(a, AgentTurn[e.kind], e.n))
                                       ELSE UNCHANGED recVars
    BY <1>2, <2>2 DEF OnAgentEvent
  <2>5. CASE e.kind \in DOMAIN AgentTurn
    <3>1. StageTurn(a, AgentTurn[e.kind], e.n) \in Turn
      BY <2>3, <2>5, TurnTypes
    <3>2. /\ StageTurn(a, AgentTurn[e.kind], e.n).by = a
          /\ StageTurn(a, AgentTurn[e.kind], e.n).n = e.n
      BY DEF StageTurn
    <3> HIDE DEF AgentTurn
    <3> QED BY <2>1, <2>2, <2>3, <2>4, <2>5, <3>1, <3>2
  <2>6. CASE e.kind \notin DOMAIN AgentTurn
    BY <2>1, <2>2, <2>3, <2>4, <2>6
  <2> QED BY <2>5, <2>6
<1> QED BY <1>1, <1>2 DEF Speaking

\* The agents of a stage are at work from its entry to its end, and a session
\* does not end before its events are delivered.
LEMMA AgentsStep == Typed /\ [Next]_vars => AgentsTyped'
<1> SUFFICES ASSUME Typed, [Next]_vars PROVE AgentsTyped'
  OBVIOUS
<1>0. EngineTyped /\ AgentsTyped
  BY DEF Typed
<1>1. CASE UNCHANGED <<pc, stage, agents, agentVars>>
  BY <1>0, <1>1 DEF AgentsTyped, agentVars
<1>2. ASSUME UNCHANGED agentVars, pc # "stage" PROVE AgentsTyped'
  BY <1>0, <1>2 DEF AgentsTyped, agentVars
<1>3. CASE Connect \/ StartPipeline \/ CompletePipeline \/ FailPipeline \/ CheckpointSaved
              \/ ChildCompleted \/ Checkpoint \/ Advance \/ CloseEvents \/ CloseRecorder
  <2>1. UNCHANGED agentVars /\ pc # "stage"
    BY <1>3 DEF Connect, StartPipeline, CompletePipeline, FailPipeline, CheckpointSaved,
                ChildCompleted, Checkpoint, Advance, CloseEvents, CloseRecorder
  <2> QED BY <1>2, <2>1
<1>4. CASE LeaveStage
  <2>1. UNCHANGED agentVars /\ \A a \in agents[stage] : agent[a] = "done"
    BY <1>4 DEF LeaveStage
  <2>2. \A a \in Node : agent[a] \notin {"called", "working", "closing"}
    BY <1>0, <2>1 DEF AgentsTyped
  <2> QED BY <1>0, <2>1, <2>2 DEF AgentsTyped, agentVars
<1>5. CASE EnterStage
  <2>1. /\ pc = "enter" /\ pc' = "stage" /\ UNCHANGED <<agents, stage, pending, held>>
        /\ agent' = [a \in Node |-> IF a \in agents[stage] THEN "called" ELSE agent[a]]
    BY <1>5 DEF EnterStage
  <2>2. \A a \in Node : /\ agent[a] \notin {"called", "working", "closing"}
                        /\ pending[a] = <<>> /\ ~held[a]
    BY <1>0, <2>1 DEF AgentsTyped
  <2> QED BY <1>0, <2>1, <2>2 DEF AgentsTyped
<1>6. ASSUME NEW a \in Node, Acting(a) PROVE AgentsTyped'
  <2>1. /\ UNCHANGED <<pc, stage, agents, held>>
        /\ agent[a] = "working" /\ agent'[a] \in {"working", "closing"}
        /\ \A b \in Node : b # a => agent'[b] = agent[b]
        /\ \/ pending' = pending
           \/ \E e \in Spoken : pending' = [pending EXCEPT ![a] = Append(@, e)]
    BY <1>6, AgentEmits DEF engineVars
  <2>2. CASE pending' = pending
    BY <1>0, <2>1, <2>2 DEF AgentsTyped
  <2>3. ASSUME NEW e \in Spoken, pending' = [pending EXCEPT ![a] = Append(@, e)]
        PROVE  AgentsTyped'
    <3>1. pending[a] \in Seq(Spoken)
      BY <1>0 DEF AgentsTyped
    <3>2. /\ Append(pending[a], e) \in Seq(Spoken)
          /\ Len(Append(pending[a], e)) = Len(pending[a]) + 1
          /\ Len(pending[a]) \in Nat
      BY <3>1, AppendProperties, LenProperties
    <3>3. Append(pending[a], e) # <<>>
      BY <3>2, EmptySeq
    <3>4. /\ pending' \in [Node -> Seq(Spoken)] /\ pending'[a] # <<>>
          /\ \A b \in Node : b # a => pending'[b] = pending[b]
      BY <1>0, <2>3, <3>2, <3>3 DEF AgentsTyped
    <3> QED BY <1>0, <2>1, <3>4 DEF AgentsTyped
  <2> QED BY <2>1, <2>2, <2>3
<1>7. ASSUME NEW a \in Node, RecordInput(a) \/ AgentReturns(a) PROVE AgentsTyped'
  BY <1>0, <1>7 DEF AgentsTyped, EngineTyped, RecordInput, AgentReturns, engineVars
<1>8. ASSUME NEW a \in Node, TakeAgentEvent(a) PROVE AgentsTyped'
  BY <1>0, <1>8 DEF AgentsTyped, TakeAgentEvent, engineVars
<1>9. ASSUME NEW a \in Node, OnAgentEvent(a) PROVE AgentsTyped'
  <2>1. /\ pending[a] # <<>> /\ pending[a] \in Seq(Spoken)
        /\ pending' = [pending EXCEPT ![a] = Tail(@)] /\ held' = [held EXCEPT ![a] = FALSE]
        /\ UNCHANGED <<pc, stage, agents, agent>>
    BY <1>0, <1>9 DEF OnAgentEvent, AgentsTyped, engineVars
  <2>2. Tail(pending[a]) \in Seq(Spoken)
    BY <2>1, HeadTailProperties
  <2> QED BY <1>0, <2>1, <2>2 DEF AgentsTyped
<1>10. CASE Drain \/ UNCHANGED vars
  BY <1>1, <1>10 DEF Drain, OnEvent, vars, engineVars, agentVars
<1> QED BY <1>3, <1>4, <1>5, <1>6, <1>7, <1>8, <1>9, <1>10
           DEF Next, Engine, Agent, DrainAgent, Acting

\* The turn that records an event.
LEMMA EventSpeaks ==
    ASSUME Typed, OnEvent
    PROVE  /\ delivering \in 1..emitted /\ delivering' = 0
           /\ UNCHANGED <<emitted, queue, dropped, closing, drained, agentVars, engineVars>>
           /\ PipelineTurn(delivering) \in Turn /\ AppendTurn(PipelineTurn(delivering))
           /\ PipelineTurn(delivering).by = "events" /\ PipelineTurn(delivering).n = delivering
BY TurnTypes DEF OnEvent, Delivered, Typed, EmitterTyped, PipelineTurn

\* The turn New appends.
LEMMA Connected ==
    ASSUME Connect
    PROVE  /\ UNCHANGED <<emitterVars, stage, saved, agents, agentVars, refused>>
           /\ \/ UNCHANGED <<context, head, acked>>
              \/ /\ context' \in Seq(Turn) /\ head' = Len(context') /\ acked' = DOMAIN context'
                 /\ DOMAIN context' = 1..Len(context') /\ Len(context') \in {0, 1}
                 /\ \A k \in DOMAIN context' : k = 1 /\ context'[k].by = Provenance
<1> DEFINE first == [type |-> Provenance, node |-> Run, by |-> Provenance, n |-> 0]
<1>1. first \in Turn /\ first.by = Provenance
  BY DEF Turn, Types, Place, Author, Run
<1> HIDE DEF first
<1>2. /\ <<first>> \in Seq(Turn) /\ Len(<<first>>) = 1 /\ <<first>>[1] = first
      /\ <<>> \in Seq(Turn) /\ Len(<<>>) = 0
  BY <1>1, EmptySeq
<1>3. DOMAIN <<first>> = 1..1
  BY <1>2, LenProperties
<1>4. \/ UNCHANGED <<context, head, acked>>
      \/ /\ context' = <<first>> \/ context' = <<>>
         /\ head' = Len(context') /\ acked' = DOMAIN context'
  BY DEF Connect, first
<1>5. UNCHANGED <<emitterVars, stage, saved, agents, agentVars, refused>>
  BY DEF Connect
<1>6. CASE context' = <<first>>
  BY <1>1, <1>2, <1>3, <1>4, <1>5, <1>6
<1>7. CASE context' = <<>>
  BY <1>2, <1>4, <1>5, <1>7
<1> QED BY <1>4, <1>5, <1>6, <1>7

LEMMA RecorderStep == Typed /\ [Next]_vars => RecorderTyped'
<1> SUFFICES ASSUME Typed, [Next]_vars PROVE RecorderTyped'
  OBVIOUS
<1>0. RecorderTyped
  BY DEF Typed
<1>1. client' \in {"none", "open", "closed"}
  BY <1>0 DEF RecorderTyped, Next, Engine, Drain, Agent, Connect, StartPipeline, EnterStage, LeaveStage,
              ChildCompleted, Checkpoint, CheckpointSaved, Advance, CompletePipeline, FailPipeline,
              CloseEvents, CloseRecorder, DrainAgent, RecordInput, AgentActs, AgentEnds, AgentReturns,
              TakeAgentEvent, OnAgentEvent, OnEvent, AppendTurn, recVars, vars
<1>2. CASE Quiet \/ Emitting \/ Taking
  BY <1>0, <1>1, <1>2 DEF RecorderTyped, Quiet, Emitting, Taking, recVars
<1>3. CASE Connect
  <2>1. CASE UNCHANGED <<context, head, acked>>
    BY <1>0, <1>1, <2>1 DEF RecorderTyped
  <2>2. CASE context' \in Seq(Turn) /\ head' = Len(context')
    BY <1>1, <2>2, LenProperties DEF RecorderTyped
  <2> QED BY <1>3, <2>1, <2>2, Connected
<1>4. CASE OnEvent
  BY <1>0, <1>4, EventSpeaks, TurnAppended
<1>5. CASE \E a \in Node : Speaking(a)
  BY <1>0, <1>1, <1>5, AgentSpeaks, TurnAppended DEF RecorderTyped, recVars
<1>6. CASE \E a \in Node : Acting(a)
  BY <1>0, <1>6, AgentEmits DEF RecorderTyped, recVars
<1> QED BY <1>2, <1>3, <1>4, <1>5, <1>6, KindsOfSteps

LEMMA TypedStep == Typed /\ [Next]_vars => Typed'
BY EmitterStep, EngineStep, AgentsStep, RecorderStep DEF Typed

LEMMA RecorderTypes == Spec => []Typed
BY InitTyped, TypedStep, PTL DEF Spec

-----------------------------------------------------------------------------
(***************************************************************************)
(* The order of the turns.                                                 *)
(***************************************************************************)
\* A turn behind all others: of its author it is the latest.
LEMMA TurnBehind ==
    ASSUME Typed, TurnsInOrder, NEW turn \in Turn,
           DOMAIN context' = 1..(Len(context) + 1),
           context'[Len(context) + 1] = turn,
           \A k \in DOMAIN context : context'[k] = context[k],
           \A k \in DOMAIN context : context[k].by = turn.by => context[k].n < turn.n
    PROVE  TurnsInOrder'
<1>1. Len(context) \in Nat /\ DOMAIN context = 1..Len(context)
  BY LenProperties DEF Typed, RecorderTyped
<1>2. ASSUME NEW m \in DOMAIN context', NEW k \in 1..(m - 1), context'[k].by = context'[m].by
      PROVE  context'[k].n < context'[m].n
  <2>1. k \in DOMAIN context /\ context'[k] = context[k]
    BY <1>1, <1>2
  <2>2. CASE m = Len(context) + 1
    BY <1>2, <2>1, <2>2
  <2>3. CASE m \in DOMAIN context
    BY <1>2, <2>1, <2>3 DEF TurnsInOrder
  <2> QED BY <1>1, <2>2, <2>3
<1> QED BY <1>2 DEF TurnsInOrder

LEMMA InitToldInOrder == Init => ToldInOrder
<1> SUFFICES ASSUME Init PROVE ToldInOrder
  OBVIOUS
<1>1. DOMAIN context = {} /\ DOMAIN queue = {} /\ \A a \in Node : DOMAIN pending[a] = {}
  BY DEF Init, EmitterInit
<1> QED BY <1>1 DEF ToldInOrder, TurnsInOrder, EventsInOrder, AgentsInOrder, PendingInOrder

LEMMA ToldStep == Typed /\ Typed' /\ ToldInOrder /\ [Next]_vars => ToldInOrder'
<1> SUFFICES ASSUME Typed, Typed', ToldInOrder, [Next]_vars PROVE ToldInOrder'
  OBVIOUS
<1>0. /\ TurnsInOrder /\ EventsInOrder /\ AgentsInOrder /\ PendingInOrder
      /\ RecorderTyped /\ EmitterTyped /\ EngineTyped /\ AgentsTyped
  BY DEF ToldInOrder, Typed
<1>1. /\ context \in Seq(Turn) /\ Len(context) \in Nat /\ DOMAIN context = 1..Len(context)
      /\ \A k \in DOMAIN context : context[k] \in Turn /\ context[k].n \in Nat
      /\ emitted \in Nat /\ delivering \in 0..emitted /\ turns \in [Node -> Nat]
      /\ queue \in Seq(1..emitted) /\ Len(queue) \in Nat /\ DOMAIN queue = 1..Len(queue)
      /\ \A i \in DOMAIN queue : queue[i] \in 1..emitted
  <2>1. /\ context \in Seq(Turn) /\ queue \in Seq(1..emitted)
        /\ emitted \in Nat /\ delivering \in 0..emitted /\ turns \in [Node -> Nat]
    BY <1>0 DEF RecorderTyped, EmitterTyped, EngineTyped
  <2>2. /\ Len(context) \in Nat /\ DOMAIN context = 1..Len(context)
        /\ Len(queue) \in Nat /\ DOMAIN queue = 1..Len(queue)
    BY <2>1, LenProperties
  <2>3. /\ \A k \in DOMAIN context : context[k] \in Turn
        /\ \A i \in DOMAIN queue : queue[i] \in 1..emitted
    BY <2>1, <2>2, ElementOfSeq
  <2>4. \A k \in DOMAIN context : context[k].n \in Nat
    BY <2>3 DEF Turn
  <2> QED BY <2>1, <2>2, <2>3, <2>4
\* Nothing is said.
<1>2. ASSUME UNCHANGED <<emitted, queue, delivering, context, turns, pending>>
      PROVE  ToldInOrder'
  BY <1>0, <1>2 DEF ToldInOrder, TurnsInOrder, EventsInOrder, AgentsInOrder, PendingInOrder
<1>3. CASE Quiet
  BY <1>2, <1>3 DEF Quiet, emitterVars, CloseEmitter, CloseReturns, DrainEnds
<1>4. CASE Emitting
  <2>1. /\ UNCHANGED <<context, turns, pending, delivering>> /\ emitted' = emitted + 1
        /\ queue' = queue \/ queue' = Append(queue, emitted + 1)
    BY <1>4 DEF Emitting, EmitEvent, Emit, recVars
  <2>2. TurnsInOrder' /\ AgentsInOrder' /\ PendingInOrder'
    BY <1>0, <2>1 DEF TurnsInOrder, AgentsInOrder, PendingInOrder
  <2>3. CASE queue' = queue
    BY <1>0, <1>1, <2>1, <2>2, <2>3 DEF ToldInOrder, EventsInOrder
  <2>4. CASE queue' = Append(queue, emitted + 1)
    <3>1. queue \in Seq(Nat) /\ emitted + 1 \in Nat
      BY <1>1, SeqMonotonic
    <3>2. /\ Len(queue') = Len(queue) + 1 /\ queue'[Len(queue) + 1] = emitted + 1
          /\ \A i \in 1..Len(queue) : queue'[i] = queue[i]
          /\ queue' \in Seq(Nat)
      BY <2>4, <3>1, AppendProperties
    <3>3. DOMAIN queue' = 1..(Len(queue) + 1)
      BY <3>2, LenProperties
    <3>4. ASSUME NEW i \in DOMAIN queue'
          PROVE  \/ i \in DOMAIN queue /\ queue'[i] = queue[i] /\ queue[i] <= emitted
                 \/ i = Len(queue) + 1 /\ queue'[i] = emitted + 1
      BY <1>1, <3>2, <3>3
    <3>5. ASSUME NEW i \in DOMAIN queue', NEW j \in DOMAIN queue', i < j
          PROVE  queue'[i] < queue'[j]
      <4>1. i \in DOMAIN queue /\ queue'[i] = queue[i] /\ queue[i] \in 1..emitted
        BY <1>1, <3>3, <3>4, <3>5
      <4> QED BY <1>0, <1>1, <3>4, <3>5, <4>1 DEF EventsInOrder
    <3>6. ASSUME NEW i \in DOMAIN queue' PROVE delivering < queue'[i]
      BY <1>0, <1>1, <3>4 DEF EventsInOrder
    <3>7. ASSUME NEW k \in DOMAIN context, context[k].by = "events"
          PROVE  /\ context[k].n <= emitted'
                 /\ delivering # 0 => context[k].n < delivering
                 /\ \A i \in DOMAIN queue' : context[k].n < queue'[i]
      <4>1. /\ context[k].n <= emitted
            /\ delivering # 0 => context[k].n < delivering
            /\ \A i \in DOMAIN queue : context[k].n < queue[i]
        BY <1>0, <3>7 DEF EventsInOrder
      <4>2. context[k].n \in Nat /\ emitted \in Nat /\ emitted' = emitted + 1
        BY <1>1, <2>1
      <4>3. ASSUME NEW i \in DOMAIN queue' PROVE context[k].n < queue'[i]
        BY <3>4, <4>1, <4>2
      <4> QED BY <4>1, <4>2, <4>3
    <3>8. EventsInOrder'
      BY <2>1, <3>5, <3>6, <3>7 DEF EventsInOrder
    <3> QED BY <2>2, <3>8 DEF ToldInOrder
  <2> QED BY <2>1, <2>3, <2>4
<1>5. CASE Connect
  <2>1. CASE UNCHANGED <<context, head, acked>>
    BY <1>2, <1>5, <2>1, Connected DEF emitterVars, agentVars
  <2>2. CASE \A k \in DOMAIN context' : k = 1 /\ context'[k].by = Provenance
    <3>1. Provenance \notin Node /\ Provenance # "events"
      BY RecorderAssumption DEF Provenance
    <3>2. UNCHANGED <<emitted, queue, delivering, turns, pending>>
      BY <1>5, Connected DEF emitterVars, agentVars
    <3>3. TurnsInOrder'
      <4> SUFFICES ASSUME NEW m \in DOMAIN context', NEW k \in 1..(m - 1) PROVE FALSE
        BY DEF TurnsInOrder
      <4> QED BY <2>2
    <3>4. EventsInOrder' /\ AgentsInOrder' /\ PendingInOrder'
      BY <1>0, <2>2, <3>1, <3>2 DEF EventsInOrder, AgentsInOrder, PendingInOrder
    <3> QED BY <3>3, <3>4 DEF ToldInOrder
  <2> QED BY <1>5, <2>1, <2>2, Connected
<1>6. CASE Taking
  <2>1. /\ UNCHANGED <<context, turns, pending, emitted>> /\ delivering = 0 /\ queue # <<>>
        /\ delivering' = Head(queue) /\ queue' = Tail(queue)
    BY <1>6 DEF Taking, Take, recVars
  <2>2. /\ Len(queue') = Len(queue) - 1 /\ queue' \in Seq(1..emitted)
        /\ \A i \in 1..Len(queue') : queue'[i] = queue[i + 1]
    BY <1>1, <2>1, HeadTailProperties
  <2>3. DOMAIN queue' = 1..(Len(queue) - 1) /\ Len(queue) # 0
    BY <1>1, <2>1, <2>2, LenProperties, EmptySeq
  <2>4. 1 \in DOMAIN queue /\ delivering' = queue[1]
    BY <1>1, <2>1, <2>3
  <2>5. ASSUME NEW i \in DOMAIN queue'
        PROVE  i \in Nat /\ i + 1 \in DOMAIN queue /\ queue'[i] = queue[i + 1] /\ 1 < i + 1
    BY SMTT(30), <1>1, <2>2, <2>3
  <2>6. ASSUME NEW i \in DOMAIN queue', NEW j \in DOMAIN queue', i < j PROVE queue'[i] < queue'[j]
    <3>1. i + 1 < j + 1
      BY <2>5, <2>6
    <3> QED BY <1>0, <2>5, <3>1 DEF EventsInOrder
  <2>7. ASSUME NEW i \in DOMAIN queue' PROVE delivering' < queue'[i]
    BY <1>0, <2>4, <2>5 DEF EventsInOrder
  <2>8. ASSUME NEW k \in DOMAIN context', context'[k].by = "events"
        PROVE  /\ context'[k].n <= emitted'
               /\ context'[k].n < delivering'
               /\ \A i \in DOMAIN queue' : context'[k].n < queue'[i]
    BY <1>0, <2>1, <2>4, <2>5, <2>8 DEF EventsInOrder
  <2>9. EventsInOrder'
    BY <2>6, <2>7, <2>8 DEF EventsInOrder
  <2> QED BY <1>0, <2>1, <2>9 DEF ToldInOrder, TurnsInOrder, AgentsInOrder, PendingInOrder
<1>7. CASE OnEvent
  <2>1. PICK turn \in Turn : /\ turn.by = "events" /\ turn.n = delivering /\ AppendTurn(turn)
                             /\ delivering \in 1..emitted /\ delivering' = 0
                             /\ UNCHANGED <<emitted, queue, turns, pending>>
    BY <1>7, EventSpeaks DEF agentVars
  <2>2. "events" \notin Node /\ "events" # Provenance
    BY RecorderAssumption DEF Provenance
  <2>3. ASSUME UNCHANGED context PROVE ToldInOrder'
    BY <1>0, <1>1, <2>1, <2>3
       DEF ToldInOrder, TurnsInOrder, EventsInOrder, AgentsInOrder, PendingInOrder
  <2>4. ASSUME DOMAIN context' = 1..(Len(context) + 1), context'[Len(context) + 1] = turn,
               \A k \in DOMAIN context : context'[k] = context[k]
        PROVE  ToldInOrder'
    <3>1. \A k \in DOMAIN context : context[k].by = turn.by => context[k].n < turn.n
      BY <1>0, <2>1 DEF EventsInOrder
    <3>2. TurnsInOrder'
      BY <1>0, <2>4, <3>1, TurnBehind DEF Typed
    <3>3. ASSUME NEW k \in DOMAIN context'
          PROVE  \/ k \in DOMAIN context /\ context'[k] = context[k]
                 \/ context'[k] = turn
      BY <1>1, <2>4
    <3>4. AgentsInOrder'
      BY <1>0, <2>1, <2>2, <3>3 DEF AgentsInOrder
    <3>5. EventsInOrder'
      BY <1>0, <1>1, <2>1, <3>3 DEF EventsInOrder
    <3>6. PendingInOrder'
      BY <1>0, <2>1 DEF PendingInOrder
    <3> QED BY <3>2, <3>4, <3>5, <3>6 DEF ToldInOrder
  <2> QED BY <1>0, <2>1, <2>3, <2>4, TurnAppended
<1>8. /\ \A b \in Node : /\ turns[b] \in Nat /\ pending[b] \in Seq(Spoken)
                         /\ Len(pending[b]) \in Nat /\ DOMAIN pending[b] = 1..Len(pending[b])
                         /\ \A i \in DOMAIN pending[b] : pending[b][i].n \in Nat
      /\ pending \in [Node -> Seq(Spoken)]
      /\ "events" \notin Node /\ Provenance \notin Node
  <2>1. ASSUME NEW b \in Node
        PROVE  /\ pending[b] \in Seq(Spoken)
               /\ Len(pending[b]) \in Nat /\ DOMAIN pending[b] = 1..Len(pending[b])
               /\ \A i \in DOMAIN pending[b] : pending[b][i].n \in Nat
    <3>1. pending[b] \in Seq(Spoken)
      BY <1>0 DEF AgentsTyped
    <3>2. Len(pending[b]) \in Nat /\ DOMAIN pending[b] = 1..Len(pending[b])
      BY <3>1, LenProperties
    <3>3. \A i \in DOMAIN pending[b] : pending[b][i] \in Spoken
      BY <3>1, <3>2, ElementOfSeq
    <3> QED BY <3>1, <3>2, <3>3 DEF Spoken
  <2> QED BY <1>0, <1>1, <2>1, RecorderAssumption DEF AgentsTyped, Provenance
\* A session emits: behind what is on its way.
<1>9. ASSUME NEW a \in Node, Acting(a) PROVE ToldInOrder'
  <2>1. /\ UNCHANGED <<emitted, queue, delivering, context>>
        /\ turns' = [turns EXCEPT ![a] = @ + 1]
        /\ \/ pending' = pending
           \/ \E e \in Spoken : /\ e.n = turns[a] + 1
                               /\ pending' = [pending EXCEPT ![a] = Append(@, e)]
    BY <1>9, AgentEmits DEF emitterVars, recVars
  <2>2. TurnsInOrder' /\ EventsInOrder'
    BY <1>0, <2>1 DEF TurnsInOrder, EventsInOrder
  <2>3. \A b \in Node : turns'[b] \in Nat /\ turns[b] <= turns'[b]
    BY <1>1, <2>1
  <2>4. CASE pending' = pending
    <3>1. PendingInOrder'
      BY <1>8, <1>0, <2>3, <2>4 DEF PendingInOrder
    <3>2. AgentsInOrder'
      BY <1>8, <1>0, <1>1, <2>1, <2>3, <2>4 DEF AgentsInOrder
    <3> QED BY <2>2, <3>1, <3>2 DEF ToldInOrder
  <2>5. ASSUME NEW e \in Spoken, e.n = turns[a] + 1,
               pending' = [pending EXCEPT ![a] = Append(@, e)]
        PROVE  ToldInOrder'
    <3>1. /\ Append(pending[a], e) \in Seq(Spoken)
          /\ Len(Append(pending[a], e)) = Len(pending[a]) + 1
          /\ \A i \in 1..Len(pending[a]) : Append(pending[a], e)[i] = pending[a][i]
          /\ Append(pending[a], e)[Len(pending[a]) + 1] = e
      BY <1>8, AppendProperties
    <3>2. DOMAIN Append(pending[a], e) = 1..(Len(pending[a]) + 1)
      BY <3>1, LenProperties
    <3>3. /\ pending'[a] = Append(pending[a], e) /\ turns'[a] = turns[a] + 1
          /\ \A b \in Node : b # a => pending'[b] = pending[b]
      BY <1>1, <1>8, <2>1, <2>5
    <3>4. ASSUME NEW i \in DOMAIN pending'[a]
          PROVE  \/ i \in DOMAIN pending[a] /\ pending'[a][i] = pending[a][i]
                 \/ i = Len(pending[a]) + 1 /\ pending'[a][i].n = turns[a] + 1
      BY <1>8, <2>5, <3>1, <3>2, <3>3
    <3>5. ASSUME NEW i \in DOMAIN pending'[a]
          PROVE  /\ pending'[a][i].n <= turns'[a]
                 /\ \A l \in DOMAIN pending'[a] : i < l => pending'[a][i].n < pending'[a][l].n
      <4>1. \A l \in DOMAIN pending[a] : pending[a][l].n \in Nat /\ pending[a][l].n <= turns[a]
        BY <1>0, <1>8 DEF PendingInOrder
      <4>2. \A l \in DOMAIN pending[a], m \in DOMAIN pending[a] :
                l < m => pending[a][l].n < pending[a][m].n
        BY <1>0 DEF PendingInOrder
      <4>3. turns[a] \in Nat /\ Len(pending[a]) \in Nat /\ DOMAIN pending[a] = 1..Len(pending[a])
        BY <1>8
      <4>4. pending'[a][i].n <= turns'[a]
        BY <3>3, <3>4, <4>1, <4>3
      <4>5. ASSUME NEW l \in DOMAIN pending'[a], i < l PROVE pending'[a][i].n < pending'[a][l].n
        <5>1. \/ l \in DOMAIN pending[a] /\ pending'[a][l] = pending[a][l]
              \/ l = Len(pending[a]) + 1 /\ pending'[a][l].n = turns[a] + 1
          BY <3>4
        <5>2. i \in DOMAIN pending[a] /\ pending'[a][i] = pending[a][i]
          BY <3>4, <4>3, <4>5, <5>1
        <5> QED BY <4>1, <4>2, <4>3, <4>5, <5>1, <5>2
      <4> QED BY <4>4, <4>5
    <3>6. PendingInOrder'
      <4> SUFFICES ASSUME NEW b \in Node, NEW i \in DOMAIN pending'[b]
                   PROVE  /\ pending'[b][i].n <= turns'[b]
                          /\ \A l \in DOMAIN pending'[b] :
                                 i < l => pending'[b][i].n < pending'[b][l].n
        BY DEF PendingInOrder
      <4>1. CASE b = a
        BY <3>5, <4>1
      <4>2. CASE b # a
        BY <1>0, <1>8, <2>3, <3>3, <4>2 DEF PendingInOrder
      <4> QED BY <4>1, <4>2
    <3>7. AgentsInOrder'
      <4> SUFFICES ASSUME NEW k \in DOMAIN context, context[k].by \in Node
                   PROVE  /\ context[k].n <= turns'[context[k].by]
                          /\ \A i \in DOMAIN pending'[context[k].by] :
                                 context[k].n < pending'[context[k].by][i].n
        BY <1>0, <2>1 DEF AgentsInOrder
      <4>1. PICK b \in Node : b = context[k].by
        OBVIOUS
      <4>2. /\ context[k].n \in Nat /\ context[k].n <= turns[b]
            /\ \A i \in DOMAIN pending[b] : context[k].n < pending[b][i].n
        BY <1>0, <1>1, <4>1 DEF AgentsInOrder
      <4>3. context[k].n <= turns'[b]
        BY <1>8, <2>3, <4>2
      <4>4. ASSUME NEW i \in DOMAIN pending'[b] PROVE context[k].n < pending'[b][i].n
        <5>1. CASE b = a
          BY <1>8, <3>4, <4>2, <5>1
        <5>2. CASE b # a
          BY <3>3, <4>2, <5>2
        <5> QED BY <5>1, <5>2
      <4> QED BY <4>1, <4>3, <4>4
    <3> QED BY <2>2, <3>6, <3>7 DEF ToldInOrder
  <2> QED BY <2>1, <2>4, <2>5
\* An agent's input is recorded, or the first event on its way is.
<1>10. ASSUME NEW a \in Node, Speaking(a) PROVE ToldInOrder'
  <2>1. PICK n \in Nat :
            /\ \/ /\ pending[a] = <<>> /\ UNCHANGED pending
                  /\ turns' = [turns EXCEPT ![a] = @ + 1] /\ n = turns[a] + 1
               \/ /\ pending[a] # <<>> /\ pending' = [pending EXCEPT ![a] = Tail(@)]
                  /\ UNCHANGED turns /\ n = Head(pending[a]).n
            /\ \/ UNCHANGED recVars
               \/ \E turn \in Turn : turn.by = a /\ turn.n = n /\ AppendTurn(turn)
    BY <1>10, AgentSpeaks
  <2>2. UNCHANGED <<emitted, queue, delivering>> /\ a # "events" /\ a # Provenance
    BY <1>8, <1>10, AgentSpeaks DEF emitterVars
\* It is behind what the context has of the agent and before the rest.
  <2>3. /\ \A b \in Node : turns'[b] \in Nat /\ turns[b] <= turns'[b]
        /\ \A b \in Node : b # a => pending'[b] = pending[b]
        /\ n <= turns'[a]
        /\ \A k \in DOMAIN context : context[k].by = a => context[k].n < n
        /\ \A i \in DOMAIN pending'[a] :
               n < pending'[a][i].n /\ \E l \in DOMAIN pending[a] : pending'[a][i] = pending[a][l]
        /\ PendingInOrder'
    <3>1. CASE /\ pending[a] = <<>> /\ UNCHANGED pending
               /\ turns' = [turns EXCEPT ![a] = @ + 1] /\ n = turns[a] + 1
      <4>1. \A b \in Node : turns'[b] \in Nat /\ turns[b] <= turns'[b]
        BY <1>1, <3>1
      <4>2. n <= turns'[a] /\ DOMAIN pending[a] = {}
        BY <1>1, <1>8, <3>1
      <4>3. \A k \in DOMAIN context : context[k].by = a => context[k].n < n
        BY <1>0, <1>1, <1>8, <3>1 DEF AgentsInOrder
      <4>4. PendingInOrder'
        BY <1>0, <1>8, <3>1, <4>1 DEF PendingInOrder
      <4> QED BY <3>1, <4>1, <4>2, <4>3, <4>4
    <3>2. CASE /\ pending[a] # <<>> /\ pending' = [pending EXCEPT ![a] = Tail(@)]
               /\ UNCHANGED turns /\ n = Head(pending[a]).n
      <4>1. /\ Len(Tail(pending[a])) = Len(pending[a]) - 1 /\ Tail(pending[a]) \in Seq(Spoken)
            /\ \A i \in 1..Len(Tail(pending[a])) : Tail(pending[a])[i] = pending[a][i + 1]
        BY <1>8, <3>2, HeadTailProperties
      <4>2. /\ DOMAIN Tail(pending[a]) = 1..(Len(pending[a]) - 1) /\ Len(pending[a]) # 0
            /\ 1 \in DOMAIN pending[a] /\ Head(pending[a]) = pending[a][1]
        BY <1>8, <3>2, <4>1, LenProperties, EmptySeq
      <4>3. pending'[a] = Tail(pending[a]) /\ \A b \in Node : b # a => pending'[b] = pending[b]
        BY <1>8, <3>2
      <4>4. ASSUME NEW i \in DOMAIN pending'[a]
            PROVE  /\ i \in Nat /\ i + 1 \in DOMAIN pending[a] /\ 1 < i + 1
                   /\ pending'[a][i] = pending[a][i + 1]
        BY SMTT(30), <1>8, <4>1, <4>2, <4>3
      <4>5. \A k \in DOMAIN context : context[k].by = a => context[k].n < n
        BY <1>0, <3>2, <4>2 DEF AgentsInOrder
      <4>6. n <= turns'[a] /\ \A i \in DOMAIN pending'[a] : n < pending'[a][i].n
        BY <1>0, <3>2, <4>2, <4>4 DEF PendingInOrder
      <4>7. PendingInOrder'
        <5> SUFFICES ASSUME NEW b \in Node, NEW i \in DOMAIN pending'[b]
                     PROVE  /\ pending'[b][i].n <= turns'[b]
                            /\ \A l \in DOMAIN pending'[b] :
                                   i < l => pending'[b][i].n < pending'[b][l].n
          BY DEF PendingInOrder
        <5>1. CASE b = a
          <6>1. ASSUME NEW l \in DOMAIN pending'[a], i < l
                PROVE  pending'[a][i].n < pending'[a][l].n
            <7>1. i + 1 < l + 1
              BY <4>4, <5>1, <6>1
            <7> QED BY <1>0, <4>4, <5>1, <7>1 DEF PendingInOrder
          <6>2. pending'[a][i].n <= turns'[a]
            BY <1>0, <3>2, <4>4, <5>1 DEF PendingInOrder
          <6> QED BY <5>1, <6>1, <6>2
        <5>2. CASE b # a
          BY <1>0, <3>2, <4>3, <5>2 DEF PendingInOrder
        <5> QED BY <5>1, <5>2
      <4>8. \A i \in DOMAIN pending'[a] : \E l \in DOMAIN pending[a] : pending'[a][i] = pending[a][l]
        BY <4>4
      <4>9. \A b \in Node : turns'[b] \in Nat /\ turns[b] <= turns'[b]
        BY <1>8, <3>2
      <4> QED BY <4>3, <4>5, <4>6, <4>7, <4>8, <4>9
    <3> QED BY <2>1, <3>1, <3>2
\* What the context had is before what is on its way still.
  <2>4. ASSUME NEW k \in DOMAIN context
        PROVE  /\ context[k].by \in Node =>
                      /\ context[k].n <= turns'[context[k].by]
                      /\ \A i \in DOMAIN pending'[context[k].by] :
                             context[k].n < pending'[context[k].by][i].n
               /\ context[k].by = Provenance => k = 1
    <3> SUFFICES ASSUME context[k].by \in Node
                 PROVE  /\ context[k].n <= turns'[context[k].by]
                        /\ \A i \in DOMAIN pending'[context[k].by] :
                               context[k].n < pending'[context[k].by][i].n
      BY <1>0 DEF AgentsInOrder
    <3>1. PICK b \in Node : b = context[k].by
      OBVIOUS
    <3>2. /\ context[k].n \in Nat /\ context[k].n <= turns[b]
          /\ \A i \in DOMAIN pending[b] : context[k].n < pending[b][i].n
      BY <1>0, <1>1, <3>1 DEF AgentsInOrder
    <3>3. context[k].n <= turns'[b]
      BY <1>8, <2>3, <3>2
    <3>4. ASSUME NEW i \in DOMAIN pending'[b] PROVE context[k].n < pending'[b][i].n
      BY <2>3, <3>2
    <3> QED BY <3>1, <3>3, <3>4
  <2>5. ASSUME UNCHANGED context PROVE ToldInOrder'
    <3>1. AgentsInOrder'
      BY <2>4, <2>5 DEF AgentsInOrder
    <3> QED BY <1>0, <2>2, <2>3, <2>5, <3>1 DEF ToldInOrder, TurnsInOrder, EventsInOrder
  <2>6. ASSUME NEW turn \in Turn, turn.by = a, turn.n = n, AppendTurn(turn) PROVE ToldInOrder'
    <3>1. ASSUME DOMAIN context' = 1..(Len(context) + 1), context'[Len(context) + 1] = turn,
                 \A k \in DOMAIN context : context'[k] = context[k]
          PROVE  ToldInOrder'
      <4>1. \A k \in DOMAIN context : context[k].by = turn.by => context[k].n < turn.n
        BY <2>3, <2>6
      <4>2. TurnsInOrder'
        BY <1>0, <3>1, <4>1, TurnBehind
      <4>3. ASSUME NEW k \in DOMAIN context'
            PROVE  \/ k \in DOMAIN context /\ context'[k] = context[k]
                   \/ context'[k] = turn
        BY <1>1, <3>1
      <4>4. AgentsInOrder'
        <5> SUFFICES ASSUME NEW k \in DOMAIN context'
                     PROVE  /\ context'[k].by \in Node =>
                                   /\ context'[k].n <= turns'[context'[k].by]
                                   /\ \A i \in DOMAIN pending'[context'[k].by] :
                                          context'[k].n < pending'[context'[k].by][i].n
                            /\ context'[k].by = Provenance => k = 1
          BY DEF AgentsInOrder
        <5>1. CASE k \in DOMAIN context /\ context'[k] = context[k]
          BY <2>4, <5>1
        <5>2. CASE context'[k] = turn
          BY <2>2, <2>3, <2>6, <5>2
        <5> QED BY <4>3, <5>1, <5>2
      <4>5. EventsInOrder'
        BY <1>0, <2>2, <2>6, <4>3 DEF EventsInOrder
      <4> QED BY <2>3, <4>2, <4>4, <4>5 DEF ToldInOrder
    <3> QED BY <1>0, <2>5, <2>6, <3>1, TurnAppended
  <2> QED BY <2>1, <2>5, <2>6 DEF recVars
<1> QED BY <1>3, <1>4, <1>5, <1>6, <1>7, <1>9, <1>10, KindsOfSteps

\* The drain goroutines of the engine's emitter and of each session's, and the
\* handlers, append to one context; events are dropped where a channel is full,
\* and appends may fail before or after the server did them: the turns of each
\* story are still there in their order, and none twice (cxdbstore/recorder.go,
\* append; agent/event/event.go, Emit and drain).
THEOREM EveryStoryInOrder == Spec => []TurnsInOrder
<1>1. Init => Typed /\ ToldInOrder
  BY InitTyped, InitToldInOrder
<1>2. Typed /\ ToldInOrder /\ [Next]_vars => Typed' /\ ToldInOrder'
  BY TypedStep, ToldStep
<1>3. ToldInOrder => TurnsInOrder
  BY DEF ToldInOrder
<1> QED BY <1>1, <1>2, <1>3, PTL DEF Spec

-----------------------------------------------------------------------------
(***************************************************************************)
(* The checkpoints.                                                        *)
(***************************************************************************)
LEMMA InitCovered == Init => Covered
<1> SUFFICES ASSUME Init PROVE Covered
  OBVIOUS
<1>1. agents \in Runs
  BY DEF Init
<1>2. \A s \in DOMAIN agents : s \in Nat /\ s >= 1
  BY <1>1, RunTypes
<1>3. /\ context = <<>> /\ head = 0 /\ acked = {} /\ pc = "connect" /\ stage = 1
      /\ saved.stage = 0
  BY DEF Init
<1>4. Acknowledged /\ CheckpointCoversStages
  BY <1>3, EmptySeq DEF Acknowledged, CheckpointCoversStages
<1>5. StagesInOrder
  BY <1>2, <1>3 DEF StagesInOrder, Behind
<1> QED BY <1>4, <1>5 DEF Covered

\* The agents of a stage are called when it is entered and not again.
LEMMA StagesStep == Typed /\ Typed' /\ StagesInOrder /\ [Next]_vars => StagesInOrder'
<1> SUFFICES ASSUME Typed, Typed', StagesInOrder, [Next]_vars PROVE StagesInOrder'
  OBVIOUS
<1>0. /\ EngineTyped /\ stage \in DOMAIN agents /\ stage \in Nat /\ saved.stage \in Nat
      /\ saved'.stage \in Nat
      /\ \A s \in DOMAIN agents : s \in Nat /\ agents[s] \in SUBSET Node
      /\ \A s, t \in DOMAIN agents : s # t => agents[s] \cap agents[t] = {}
  <2>1. EngineTyped /\ EngineTyped'
    BY DEF Typed
  <2>2. agents \in Runs /\ stage \in DOMAIN agents /\ saved.stage \in Nat /\ saved'.stage \in Nat
    BY <2>1 DEF EngineTyped
  <2>3. \A s \in DOMAIN agents : s \in Nat
    BY <2>2, RunTypes
  <2> QED BY <2>1, <2>2, <2>3, RunTypes
\* The engine stays where it is, and no agent is called.
<1>1. ASSUME UNCHANGED <<agents, stage, saved>>,
             pc' = pc \/ pc' \in {"start", "ended", "failed", "close", "drain", "disconnect"},
             pc' = "start" => pc \in {"connect", "start"},
             \A a \in Node : agent[a] = "done" => agent'[a] = "done"
      PROVE  StagesInOrder'
  <2>1. \A s \in DOMAIN agents : StageDone(s) => StageDone(s)'
    BY <1>0, <1>1 DEF StageDone
  <2> QED BY <1>0, <1>1, <2>1 DEF StagesInOrder, Behind
<1>2. CASE Connect \/ FailPipeline \/ CompletePipeline \/ CloseEvents \/ CloseRecorder
              \/ Drain \/ UNCHANGED vars
  <2>1. UNCHANGED <<agents, stage, saved, agent>>
    BY <1>2 DEF Connect, FailPipeline, CompletePipeline, CloseEvents, CloseRecorder, Drain, OnEvent,
                engineVars, agentVars, vars
  <2>2. /\ pc' = pc \/ pc' \in {"start", "ended", "failed", "close", "drain", "disconnect"}
        /\ pc' = "start" => pc \in {"connect", "start"}
    BY <1>2 DEF Connect, FailPipeline, CompletePipeline, CloseEvents, CloseRecorder, Drain, OnEvent,
                engineVars, vars
  <2> QED BY <1>1, <2>1, <2>2
<1>3. CASE ChildCompleted
  BY <1>1, <1>3 DEF ChildCompleted, agentVars
<1>4. CASE \E a \in Node : Agent(a) \/ DrainAgent(a)
  <2>1. PICK a \in Node : Agent(a) \/ DrainAgent(a)
    BY <1>4
  <2>2. /\ UNCHANGED <<agents, stage, saved, pc>>
        /\ agent' = agent \/ agent[a] # "done"
        /\ \A b \in Node \ {a} : agent'[b] = agent[b]
    BY <1>0, <2>1 DEF Agent, DrainAgent, RecordInput, AgentActs, AgentEnds, AgentReturns,
                      TakeAgentEvent, OnAgentEvent, engineVars, EngineTyped
  <2>3. \A b \in Node : agent[b] = "done" => agent'[b] = "done"
    BY <2>2
  <2> QED BY <1>1, <2>2, <2>3
\* The steps along a stage: the agents that are done stay so.
<1>5. ASSUME UNCHANGED <<agents, agent>>
      PROVE  \A s \in DOMAIN agents : StageDone(s)' = StageDone(s)
  BY <1>5 DEF StageDone
<1>6. CASE StartPipeline
  <2>1. UNCHANGED <<agents, agent, stage, saved>> /\ pc = "start" /\ pc' = "enter"
    BY <1>6 DEF StartPipeline, agentVars
  <2> QED BY <1>0, <1>5, <2>1 DEF StagesInOrder, Behind
<1>7. CASE EnterStage
  <2>1. /\ UNCHANGED <<agents, stage, saved>> /\ pc = "enter" /\ pc' = "stage"
        /\ agent' = [a \in Node |-> IF a \in agents[stage] THEN "called" ELSE agent[a]]
    BY <1>7 DEF EnterStage
  <2>2. \A s \in DOMAIN agents : s # stage /\ StageDone(s) => StageDone(s)'
    BY <1>0, <2>1 DEF StageDone
  <2>3. saved.stage <= stage
    BY <2>1 DEF StagesInOrder
  <2>4. \A s \in DOMAIN agents : s < stage \/ s < saved.stage => s # stage /\ StageDone(s)
    BY <1>0, <2>3 DEF StagesInOrder
  <2> QED BY <1>0, <2>1, <2>2, <2>3, <2>4 DEF StagesInOrder, Behind
<1>8. CASE LeaveStage
  <2>1. UNCHANGED <<agents, agent, stage, saved>> /\ pc' \in {"children", "failed"} /\ StageDone(stage)
    BY <1>8 DEF LeaveStage, agentVars, StageDone
  <2> QED BY <1>0, <1>5, <2>1 DEF StagesInOrder
<1>9. CASE Checkpoint
  <2>1. /\ UNCHANGED <<agents, agent, stage>> /\ pc \in Behind
        /\ pc' \in {"final", "saved", "complete", "next"}
        /\ saved'.stage = stage + 1 \/ saved' = saved
    BY <1>9 DEF Checkpoint, agentVars, Behind
  <2>2. StageDone(stage)
    BY <2>1 DEF StagesInOrder
  <2>3. \A s \in DOMAIN agents : s < stage + 1 => StageDone(s)
    BY <1>0, <2>2 DEF StagesInOrder
  <2> QED BY <1>0, <1>5, <2>1, <2>2, <2>3 DEF StagesInOrder
<1>10. CASE CheckpointSaved
  <2>1. UNCHANGED <<agents, agent, stage, saved>> /\ pc \in Behind /\ pc' \in {"next", "complete"}
    BY <1>10 DEF CheckpointSaved, agentVars, Behind
  <2> QED BY <1>0, <1>5, <2>1 DEF StagesInOrder
<1>11. CASE Advance
  <2>1. /\ UNCHANGED <<agents, agent, saved>> /\ pc = "next" /\ pc' \in {"enter", "exit"}
        /\ \/ stage' = stage + 1 /\ pc' = "enter"
           \/ stage' = stage /\ pc' = "exit"
    BY <1>11 DEF Advance, agentVars
  <2>2. StageDone(stage) /\ saved.stage <= stage + 1
    BY <2>1 DEF StagesInOrder, Behind
  <2>3. \A s \in DOMAIN agents : s < stage + 1 => StageDone(s)
    BY <1>0, <2>2 DEF StagesInOrder
  <2> QED BY <1>0, <1>5, <2>1, <2>2, <2>3 DEF StagesInOrder, Behind
<1> QED BY <1>2, <1>3, <1>4, <1>6, <1>7, <1>8, <1>9, <1>10, <1>11 DEF Next, Engine

LEMMA AcknowledgedStep == Typed /\ Acknowledged /\ [Next]_vars => Acknowledged'
<1> SUFFICES ASSUME Typed, Acknowledged, [Next]_vars PROVE Acknowledged'
  OBVIOUS
<1>0. /\ RecorderTyped /\ head \in Nat /\ Len(context) \in Nat /\ DOMAIN context = 1..Len(context)
      /\ head <= Len(context)
      /\ \A k \in acked : k \in DOMAIN context /\ k <= head
  BY LenProperties DEF Typed, RecorderTyped, Acknowledged
<1>1. ASSUME UNCHANGED <<context, head, acked>> PROVE Acknowledged'
  BY <1>0, <1>1 DEF Acknowledged
<1>2. ASSUME NEW turn \in Turn, AppendTurn(turn) PROVE Acknowledged'
  <2>1. /\ Len(context') \in Nat /\ Len(context) <= Len(context')
        /\ DOMAIN context' = 1..Len(context')
    BY <1>0, <1>2, TurnAppended, LenProperties
  <2>2. CASE UNCHANGED <<head, acked>>
    BY <1>0, <2>1, <2>2 DEF Acknowledged
  <2>3. CASE /\ Len(context') = Len(context) + 1
             /\ head' = Len(context') /\ acked' = acked \cup {head'}
    BY <1>0, <2>1, <2>3 DEF Acknowledged
  <2> QED BY <1>0, <1>2, <2>2, <2>3, TurnAppended
<1>3. CASE Quiet \/ Emitting \/ Taking
  BY <1>1, <1>3 DEF Quiet, Emitting, Taking, recVars
<1>4. CASE Connect
  <2>1. CASE UNCHANGED <<context, head, acked>>
    BY <1>1, <2>1
  <2>2. CASE /\ head' = Len(context') /\ acked' = DOMAIN context'
             /\ DOMAIN context' = 1..Len(context') /\ Len(context') \in {0, 1}
    BY <2>2 DEF Acknowledged
  <2> QED BY <1>4, <2>1, <2>2, Connected
<1>5. CASE OnEvent
  BY <1>2, <1>5, EventSpeaks
<1>6. CASE \E a \in Node : Speaking(a)
  BY <1>1, <1>2, <1>6, AgentSpeaks DEF recVars
<1>7. CASE \E a \in Node : Acting(a)
  BY <1>1, <1>7, AgentEmits DEF recVars
<1> QED BY <1>3, <1>4, <1>5, <1>6, <1>7, KindsOfSteps

LEMMA CoveredStep == Typed /\ Typed' /\ Covered /\ [Next]_vars => Covered'
<1> SUFFICES ASSUME Typed, Typed', Covered, [Next]_vars PROVE Covered'
  OBVIOUS
<1>1. Acknowledged' /\ StagesInOrder'
  BY AcknowledgedStep, StagesStep DEF Covered
<1> SUFFICES CheckpointCoversStages'
  BY <1>1 DEF Covered
<1>2. /\ Acknowledged /\ StagesInOrder /\ CheckpointCoversStages /\ RecorderTyped
      /\ agents \in Runs /\ "events" \notin Node /\ Provenance \notin Node
      /\ \A s \in DOMAIN agents : agents[s] \in SUBSET Node
      /\ Len(context) \in Nat /\ DOMAIN context = 1..Len(context)
  <2>1. agents \in Runs
    BY DEF Typed, EngineTyped
  <2> QED BY <2>1, RunTypes, RecorderAssumption, LenProperties
          DEF Covered, Typed, RecorderTyped, Provenance
\* Nothing new is acknowledged.
<1>3. ASSUME UNCHANGED <<agents, acked, context>>, saved' = saved \/ saved'.head = head
      PROVE  CheckpointCoversStages'
  <2>1. CASE saved' = saved
    BY <1>2, <1>3, <2>1 DEF CheckpointCoversStages
  <2>2. CASE saved'.head = head
    BY <1>2, <1>3, <2>2 DEF CheckpointCoversStages, Acknowledged
  <2> QED BY <1>3, <2>1, <2>2
\* What is new was not said by an agent of an earlier stage.
<1>4. ASSUME NEW turn \in Turn, AppendTurn(turn), UNCHANGED <<agents, saved>>,
             \A s \in DOMAIN agents : s < saved.stage => turn.by \notin agents[s]
      PROVE  CheckpointCoversStages'
  <2> SUFFICES ASSUME NEW k \in acked', NEW s \in DOMAIN agents, s < saved.stage,
                      context'[k].by \in agents[s]
               PROVE  k <= saved.head
    BY <1>4 DEF CheckpointCoversStages
  <2>1. CASE k \in acked
    <3>1. k \in DOMAIN context
      BY <1>2, <2>1 DEF Acknowledged
    <3>2. context'[k] = context[k]
      BY <1>2, <1>4, <3>1, TurnAppended
    <3> QED BY <1>2, <2>1, <3>2 DEF CheckpointCoversStages
  <2>2. CASE k \notin acked
    <3>1. /\ k = Len(context) + 1 /\ Len(context') = Len(context) + 1
      BY <1>2, <1>4, <2>2, TurnAppended
    <3>2. context' # context
      BY <1>2, <3>1
    <3>3. context'[k] = turn
      BY <1>2, <1>4, <3>1, <3>2, TurnAppended
    <3> QED BY <1>4, <3>3
  <2> QED BY <2>1, <2>2
<1>5. CASE Checkpoint
  BY <1>3, <1>5 DEF Checkpoint
<1>6. CASE Connect
  <2>1. UNCHANGED <<agents, saved>>
    BY <1>6, Connected
  <2>2. CASE UNCHANGED <<context, head, acked>>
    BY <1>3, <2>1, <2>2
  <2>3. CASE acked' = DOMAIN context' /\ \A k \in DOMAIN context' : context'[k].by = Provenance
    BY <1>2, <2>1, <2>3 DEF CheckpointCoversStages
  <2> QED BY <1>6, <2>2, <2>3, Connected
<1>7. CASE OnEvent
  <2>1. UNCHANGED <<agents, saved>>
    BY <1>7, EventSpeaks DEF engineVars
  <2> QED BY <1>2, <1>4, <1>7, <2>1, EventSpeaks
<1>8. ASSUME NEW a \in Node, Speaking(a) PROVE CheckpointCoversStages'
  <2>1. UNCHANGED <<agents, saved>> /\ agent[a] # "done"
    BY <1>8, AgentSpeaks DEF engineVars
  <2>2. \A s \in DOMAIN agents : s < saved.stage => a \notin agents[s]
    BY <1>2, <2>1 DEF StagesInOrder, StageDone
  <2> QED BY <1>3, <1>4, <1>8, <2>1, <2>2, AgentSpeaks DEF recVars
<1>9. CASE StartPipeline \/ EnterStage \/ LeaveStage \/ ChildCompleted \/ CheckpointSaved \/ Advance
              \/ CompletePipeline \/ FailPipeline \/ CloseEvents \/ CloseRecorder \/ UNCHANGED vars
  <2>1. UNCHANGED <<agents, acked, context, saved>>
    BY <1>9 DEF StartPipeline, EnterStage, LeaveStage, ChildCompleted, CheckpointSaved, Advance,
                CompletePipeline, FailPipeline, CloseEvents, CloseRecorder, recVars, engineVars, vars
  <2> QED BY <1>3, <2>1
<1>10. CASE \E a \in Node : Acting(a) \/ AgentReturns(a) \/ TakeAgentEvent(a)
  BY <1>3, <1>10 DEF Acting, AgentActs, AgentEnds, AgentReturns, TakeAgentEvent, recVars, engineVars
<1>11. CASE Drain /\ ~OnEvent
  BY <1>3, <1>11 DEF Drain, recVars, engineVars
<1> QED BY <1>5, <1>6, <1>7, <1>8, <1>9, <1>10, <1>11
           DEF Next, Engine, Agent, DrainAgent, Acting, Speaking

\* Where a run is resumed nothing is missing of the stages it does not run
\* again: the head in the checkpoint is behind every turn of their agents that
\* the server acknowledged (engine.go, saveCheckpoint), because a session closes
\* its emitter, which waits for the drain goroutine, before its handler returns
\* (agent/session.go, Run; agent/event/event.go, Close).
THEOREM CheckpointsAreComplete == Spec => []CheckpointCoversStages
<1>1. Init => Typed /\ Covered
  BY InitTyped, InitCovered
<1>2. Typed /\ Covered /\ [Next]_vars => Typed' /\ Covered'
  BY TypedStep, CoveredStep
<1>3. Covered => CheckpointCoversStages
  BY DEF Covered
<1> QED BY <1>1, <1>2, <1>3, PTL DEF Spec

-----------------------------------------------------------------------------
(***************************************************************************)
(* The end of a run.                                                       *)
(***************************************************************************)
LEMMA InitClosedLast == Init => ClosedLast /\ Accounted
BY DEF Init, EmitterInit, ClosedLast, Accounted

\* The connection outlives the emitter, which outlives its channel.
LEMMA ClosedLastStep == Typed /\ ClosedLast /\ [Next]_vars => ClosedLast'
<1> SUFFICES ASSUME Typed, ClosedLast, [Next]_vars PROVE ClosedLast'
  OBVIOUS
<1>0. /\ emitted \in Nat /\ delivering \in 0..emitted /\ drained \in BOOLEAN
      /\ client \in {"none", "open", "closed"}
      /\ delivering # 0 => emitted # 0
  BY DEF Typed, EmitterTyped, RecorderTyped
\* The engine goes on within a run, and the emitter stays as it is.
<1>1. ASSUME UNCHANGED <<emitterVars, client>>,
             pc \notin {"connect", "disconnect", "ended"}, pc' \notin {"connect", "disconnect", "ended"}
      PROVE  ClosedLast'
  BY <1>1 DEF ClosedLast, emitterVars
<1>2. ASSUME UNCHANGED <<client, closing, drained, queue, delivering, emitted, pc>> PROVE ClosedLast'
  BY <1>2 DEF ClosedLast
<1>3. CASE Connect
  <2>1. /\ pc = "connect" /\ UNCHANGED emitterVars
        /\ \/ pc' = "start" /\ client' = "open"
           \/ pc' = "ended" /\ client' = "closed"
    BY <1>3 DEF Connect
  <2> QED BY <2>1 DEF ClosedLast, emitterVars
<1>4. CASE StartPipeline \/ EnterStage \/ LeaveStage \/ ChildCompleted \/ CheckpointSaved
              \/ CompletePipeline \/ FailPipeline
  <2>1. /\ client' = client /\ closing = "open"
        /\ UNCHANGED <<closing, drained, delivering>>
    BY <1>4 DEF StartPipeline, EnterStage, LeaveStage, ChildCompleted, CheckpointSaved, CompletePipeline,
                FailPipeline, EmitEvent, Emit, recVars
  <2>2. /\ pc \notin {"connect", "disconnect", "ended"}
        /\ pc' \notin {"connect", "disconnect", "ended"}
    BY <1>4 DEF StartPipeline, EnterStage, LeaveStage, ChildCompleted, CheckpointSaved, CompletePipeline,
                FailPipeline
  <2> QED BY <2>1, <2>2 DEF ClosedLast
<1>5. CASE Checkpoint \/ Advance
  <2>1. /\ UNCHANGED <<emitterVars, client>>
        /\ pc \notin {"connect", "disconnect", "ended"}
        /\ pc' \notin {"connect", "disconnect", "ended"}
    BY <1>5 DEF Checkpoint, Advance, recVars
  <2> QED BY <1>1, <2>1
<1>6. CASE CloseEvents
  <2>1. CASE pc = "close" /\ pc' = "drain" /\ CloseEmitter /\ UNCHANGED client
    BY <2>1 DEF ClosedLast, CloseEmitter
  <2>2. CASE pc = "drain" /\ pc' = "disconnect" /\ CloseReturns /\ UNCHANGED client
    BY <2>2 DEF ClosedLast, CloseReturns
  <2> QED BY <1>6, <2>1, <2>2 DEF CloseEvents, recVars
<1>7. CASE CloseRecorder
  <2>1. /\ pc = "disconnect" /\ pc' = "ended" /\ client' = "closed" /\ UNCHANGED emitterVars
    BY <1>7 DEF CloseRecorder
  <2> QED BY <2>1 DEF ClosedLast, emitterVars
<1>8. CASE (Take \/ DrainEnds) /\ UNCHANGED <<engineVars, agentVars, recVars>>
  <2>1. UNCHANGED <<client, pc>>
    BY <1>8 DEF engineVars, recVars
  <2>2. CASE Take
    <3>1. UNCHANGED <<emitted, closing, drained>> /\ queue # <<>>
      BY <2>2 DEF Take
    <3> QED BY <2>1, <3>1 DEF ClosedLast
  <2>3. CASE DrainEnds
    BY <2>1, <2>3 DEF DrainEnds, ClosedLast
  <2> QED BY <1>8, <2>2, <2>3
<1>9. CASE OnEvent
  <2>1. /\ delivering # 0 /\ UNCHANGED <<emitted, queue, closing, drained, pc>>
        /\ client' = client
    BY <1>9, EventSpeaks, TurnAppended DEF engineVars, Typed
  <2> QED BY <2>1 DEF ClosedLast
<1>10. CASE \E a \in Node : Agent(a) \/ DrainAgent(a)
  <2>1. UNCHANGED <<emitterVars, pc>>
    BY <1>10 DEF Agent, DrainAgent, RecordInput, AgentActs, AgentEnds, AgentReturns, TakeAgentEvent,
                 OnAgentEvent, engineVars
  <2>2. client' = client
    BY <1>10, AgentSpeaks, TurnAppended
       DEF Agent, DrainAgent, Speaking, AgentActs, AgentEnds, AgentReturns, TakeAgentEvent, recVars,
           Typed
  <2> QED BY <1>2, <2>1, <2>2 DEF emitterVars
<1>11. CASE UNCHANGED vars
  BY <1>2, <1>11 DEF vars, emitterVars, engineVars, recVars
<1> QED BY <1>3, <1>4, <1>5, <1>6, <1>7, <1>8, <1>9, <1>10, <1>11 DEF Next, Engine, Drain

\* An event emitted goes into the channel, the drain goroutine takes it out and
\* the context gets it, or the channel is full, or the server refuses it.
LEMMA AccountedStep == Typed /\ ClosedLast /\ Accounted /\ [Next]_vars => Accounted'
<1> SUFFICES ASSUME Typed, ClosedLast, Accounted, [Next]_vars PROVE Accounted'
  OBVIOUS
<1>0. /\ RecorderTyped /\ emitted \in Nat /\ delivering \in 0..emitted
      /\ queue \in Seq(1..emitted) /\ Len(queue) \in Nat /\ DOMAIN queue = 1..Len(queue)
  BY LenProperties DEF Typed, EmitterTyped
<1>1. ASSUME UNCHANGED <<emitted, queue, delivering, dropped, refused, context>> PROVE Accounted'
  BY <1>1 DEF Accounted, Recorded
<1>2. CASE Quiet
  BY <1>1, <1>2 DEF Quiet, emitterVars, CloseEmitter, CloseReturns, DrainEnds
<1>3. CASE Emitting
  <2>1. /\ UNCHANGED <<delivering, refused, context>> /\ emitted' = emitted + 1
        /\ \/ queue' = Append(queue, emitted + 1) /\ dropped' = dropped
           \/ queue' = queue /\ dropped' = dropped \cup {emitted + 1}
    BY <1>3 DEF Emitting, EmitEvent, Emit, recVars
  <2> SUFFICES ASSUME NEW n \in 1..emitted'
               PROVE  \/ n \in dropped' \cup refused'
                      \/ \E i \in DOMAIN queue' : queue'[i] = n
                      \/ n = delivering'
                      \/ Recorded(n)'
    BY DEF Accounted
  <2>2. n \in 1..emitted \/ n = emitted + 1
    BY <1>0, <2>1
  <2>3. Recorded(n)' <=> Recorded(n)
    BY <2>1 DEF Recorded
  <2>4. CASE queue' = queue /\ dropped' = dropped \cup {emitted + 1}
    BY <2>1, <2>2, <2>3, <2>4 DEF Accounted
  <2>5. CASE queue' = Append(queue, emitted + 1) /\ dropped' = dropped
    <3>1. queue \in Seq(Nat) /\ emitted + 1 \in Nat
      BY <1>0, SeqMonotonic
    <3>2. /\ queue' \in Seq(Nat) /\ Len(queue') = Len(queue) + 1
          /\ queue'[Len(queue) + 1] = emitted + 1
          /\ \A i \in 1..Len(queue) : queue'[i] = queue[i]
      BY <2>5, <3>1, AppendProperties
    <3>3. DOMAIN queue' = 1..(Len(queue) + 1)
      BY <3>2, LenProperties
    <3>4. CASE n = emitted + 1
      <4>1. Len(queue) + 1 \in DOMAIN queue'
        BY <1>0, <3>3
      <4> QED BY <3>2, <3>4, <4>1
    <3>5. CASE n \in 1..emitted
      <4>1. (\E i \in DOMAIN queue : queue[i] = n) => \E i \in DOMAIN queue' : queue'[i] = n
        BY <1>0, <3>2, <3>3
      <4> QED BY <2>1, <2>3, <2>5, <3>5, <4>1 DEF Accounted
    <3> QED BY <2>2, <3>4, <3>5
  <2> QED BY <2>1, <2>4, <2>5
<1>4. CASE Taking
  <2>1. /\ UNCHANGED <<emitted, dropped, refused, context>> /\ delivering = 0 /\ queue # <<>>
        /\ delivering' = Head(queue) /\ queue' = Tail(queue)
    BY <1>4 DEF Taking, Take, recVars
  <2>2. /\ Len(queue') = Len(queue) - 1 /\ queue' \in Seq(1..emitted)
        /\ \A i \in 1..Len(queue') : queue'[i] = queue[i + 1]
    BY <1>0, <2>1, HeadTailProperties
  <2>3. DOMAIN queue' = 1..(Len(queue) - 1) /\ Head(queue) = queue[1]
    BY <1>0, <2>1, <2>2, LenProperties
  <2>4. ASSUME NEW i \in DOMAIN queue
        PROVE  queue[i] = delivering' \/ \E j \in DOMAIN queue' : queue'[j] = queue[i]
    <3>1. CASE i = 1
      BY <2>1, <2>3, <3>1
    <3>2. CASE i # 1
      <4>1. i - 1 \in DOMAIN queue' /\ (i - 1) + 1 = i /\ i - 1 \in 1..Len(queue')
        BY <1>0, <2>2, <2>3, <3>2
      <4> QED BY <2>2, <4>1
    <3> QED BY <3>1, <3>2
  <2>5. \A n \in 1..emitted : n # delivering
    BY <1>0, <2>1
  <2> QED BY <2>1, <2>4, <2>5 DEF Accounted, Recorded
<1>5. CASE Connect
  <2>1. emitted = 0 /\ emitted' = 0
    BY <1>5, Connected DEF Connect, ClosedLast, emitterVars
  <2> QED BY <2>1 DEF Accounted
<1>6. CASE OnEvent
  <2>1. PICK turn \in Turn : /\ turn.by = "events" /\ turn.n = delivering /\ AppendTurn(turn)
                             /\ delivering \in 1..emitted
                             /\ UNCHANGED <<emitted, queue, dropped>>
    BY <1>6, EventSpeaks
  <2>2. Len(context) \in Nat /\ DOMAIN context = 1..Len(context)
    BY <1>0, LenProperties DEF RecorderTyped
  <2>3. client = "open"
    <3>1. emitted # 0 /\ delivering # 0
      BY <1>0, <2>1
    <3> QED BY <1>0, <3>1 DEF ClosedLast, RecorderTyped
  <2>4. refused \subseteq refused' /\ (context' = context => delivering \in refused')
    <3>1. \/ /\ context' = Append(context, turn) /\ refused' = refused
          \/ refused' = IF context' = context THEN refused \cup {delivering} ELSE refused
      BY <2>1, <2>3 DEF AppendTurn
    <3>2. Append(context, turn) # context
      <4>1. context \in Seq(Turn)
        BY <1>0 DEF RecorderTyped
      <4>2. Len(Append(context, turn)) = Len(context) + 1
        BY <2>1, <4>1, AppendProperties
      <4>3. \A l \in Nat : l + 1 # l
        OBVIOUS
      <4> QED BY <2>2, <4>2, <4>3
    <3> QED BY <3>1, <3>2
  <2>5. \A n \in 1..emitted : Recorded(n) => Recorded(n)'
    BY SMTT(30), <1>0, <2>1, <2>2, TurnAppended DEF Recorded
  <2>6. context' # context => Recorded(turn.n)'
    <3> SUFFICES ASSUME context' # context PROVE Recorded(turn.n)'
      OBVIOUS
    <3>1. /\ DOMAIN context' = 1..(Len(context) + 1)
          /\ context'[Len(context) + 1] = turn
      BY <1>0, <2>1, TurnAppended
    <3>2. Len(context) + 1 \in DOMAIN context'
      BY <2>2, <3>1
    <3> QED BY <2>1, <3>1, <3>2 DEF Recorded
  <2> QED BY <2>1, <2>4, <2>5, <2>6 DEF Accounted
<1>7. ASSUME NEW a \in Node, Speaking(a) PROVE Accounted'
  <2>1. UNCHANGED <<emitted, queue, delivering, dropped>>
    BY <1>7, AgentSpeaks DEF emitterVars
  <2>2. ASSUME NEW turn \in Turn, turn.by = a, AppendTurn(turn) PROVE Accounted'
    <3>1. turn.by # "events"
      BY <2>2, RecorderAssumption
    <3>2. refused' = refused
      BY <2>2, <3>1 DEF AppendTurn
    <3>3. \A n \in 1..emitted : Recorded(n) => Recorded(n)'
      <4>1. DOMAIN context = 1..Len(context) /\ Len(context) \in Nat
        BY <1>0, LenProperties DEF RecorderTyped
      <4> QED BY <1>0, <2>2, <4>1, TurnAppended DEF Recorded
    <3> QED BY <2>1, <3>2, <3>3 DEF Accounted
  <2> QED BY <1>1, <1>7, <2>1, <2>2, AgentSpeaks DEF recVars
<1>8. CASE \E a \in Node : Acting(a)
  BY <1>1, <1>8, AgentEmits DEF emitterVars, recVars
<1> QED BY <1>2, <1>3, <1>4, <1>5, <1>6, <1>7, <1>8, KindsOfSteps

\* The engine closes the connection last: what was emitted has been delivered
\* by then, and is in the context unless the channel was full or the server
\* refused it (engine.go, Execute and finalize).
THEOREM NothingPendingAtClose == Spec => []RecordedBeforeClose
<1>1. Init => Typed /\ ClosedLast /\ Accounted
  BY InitTyped, InitClosedLast
<1>2. Typed /\ ClosedLast /\ Accounted /\ [Next]_vars => Typed' /\ ClosedLast' /\ Accounted'
  BY TypedStep, ClosedLastStep, AccountedStep
<1>3. Typed /\ ClosedLast /\ Accounted => RecordedBeforeClose
  <2> SUFFICES ASSUME Typed, ClosedLast, Accounted, client = "closed", NEW n \in 1..emitted
               PROVE  n \in dropped \cup refused \/ Recorded(n)
    BY DEF RecordedBeforeClose, Recorded
  <2>1. emitted \in Nat /\ emitted # 0
    BY DEF Typed, EmitterTyped
  <2>2. queue = <<>> /\ delivering = 0
    BY <2>1 DEF ClosedLast
  <2>3. n # 0 /\ DOMAIN queue = {}
    BY <2>1, <2>2
  <2> QED BY <2>2, <2>3 DEF Accounted
<1> QED BY <1>1, <1>2, <1>3, PTL DEF Spec
=============================================================================
