------------------------------- MODULE Recorder -------------------------------
(***************************************************************************)
(* The CXDB recorder of a run (internal/attractor/cxdbstore): a log of     *)
(* typed turns, the context, kept by a server.  Three kinds of goroutines  *)
(* append to it: the drain goroutine of the engine's emitter, for the      *)
(* events of the pipeline; the handlers of the stages, for the inputs of   *)
(* their agents (handler/coding_agent.go); and for what an agent does the  *)
(* drain goroutine of the emitter of its session (agent/event/event.go).   *)
(* The engine reads the head of the context for its checkpoints and closes *)
(* the connection at the end (engine.go).                                  *)
(*                                                                         *)
(* Append holds the recorder's mutex during the whole request, so that it  *)
(* is one step.  A turn is identified by its place in the context.         *)
(***************************************************************************)
EXTENDS Emitter, FiniteSets

CONSTANTS
    Runs,        \* runs: for each stage in order the agents it runs, one, or
                 \* one for each branch of a parallel stage; a stage that is
                 \* run again is another stage with agents of its own
    AgentEvents, \* kinds of events an agent has
    AgentBuf,    \* capacity of the channel of an agent's emitter
    MaxTurns,    \* bound: input and events of an agent, but for SessionEnd
    MaxFaults    \* bound: appends, and writes of a checkpoint, that fail

Node == UNION UNION {{r[s] : s \in DOMAIN r} : r \in Runs}

ASSUME RecorderAssumption ==
    /\ \A r \in Runs : /\ r \in Seq(SUBSET Node) /\ r # <<>>
                       /\ \A s, t \in DOMAIN r : s # t => r[s] \cap r[t] = {}
    /\ "events" \notin Node /\ "provenance" \notin Node
    /\ AgentBuf \in Nat \ {0} /\ MaxTurns \in Nat /\ MaxFaults \in Nat

VARIABLES
    agents,    \* the run: one of Runs
    pc,        \* where the engine is
    stage,     \* the stage it is at
    children,  \* branches whose completion is still to be told
    agent,     \* what each agent does: "idle", "called", "working", "closing"
               \* (its emitter), "done"
    turns,     \* inputs and events of each agent so far
    pending,   \* what each agent's emitter has still to deliver
    held,      \* has its drain goroutine taken the first of them out of the
               \* channel?
    what,      \* type and node of each event emitted
    client,    \* the connection: "none", "open", "closed"
    context,   \* at the server: the turns of the context
    head,      \* the recorder's headTurn
    saved,     \* checkpoint: the stage it resumes at, and its CXDBHeadTurn
    faults,    \* failures so far
    acked,     \* history: turns whose append was acknowledged
    refused    \* history: events whose append failed

engineVars == <<agents, pc, stage, children, what, saved>>
agentVars  == <<agent, turns, pending, held>>
recVars    == <<client, context, head, faults, acked, refused>>
vars       == <<emitterVars, engineVars, agentVars, recVars>>

Provenance == "provenance"
Run == 0   \* the node of an event about the whole run

-----------------------------------------------------------------------------
(***************************************************************************)
(* Turns.                                                                  *)
(***************************************************************************)
\* eventToTurn: the type of the turn that records an event of the pipeline.
TurnType ==
    [pipeline_started |-> "pipeline.started", pipeline_completed |-> "pipeline.completed",
     pipeline_failed |-> "pipeline.failed", stage_started |-> "stage.started",
     stage_completed |-> "stage.completed", stage_failed |-> "stage.failed",
     stage_retrying |-> "stage.retrying", checkpoint_saved |-> "checkpoint.saved",
     parallel_started |-> "parallel.started", parallel_branch_started |-> "parallel.branch",
     parallel_branch_completed |-> "parallel.branch",
     parallel_completed |-> "parallel.completed", interview_started |-> "interview.started",
     interview_completed |-> "interview.completed", interview_timeout |-> "interview.timeout"]

\* agentEventToTurn: other events of an agent are not recorded.
AgentTurn == [turn_start |-> "system", llm_response |-> "assistant", tool_end |-> "assistant",
              loop_detected |-> "warning"]

PipelineTurn(n) ==
    [type |-> TurnType[what[n].type], node |-> what[n].node, by |-> "events", n |-> n]
StageTurn(a, type, n) == [type |-> type, node |-> a, by |-> a, n |-> n]

\* append: the server adds the turn and answers, or fails before or after it
\* has done so; a failure is logged.
AppendTurn(turn) ==
    \/ /\ client = "open"
       /\ context' = Append(context, turn)
       /\ head' = Len(context')
       /\ acked' = acked \cup {head'}
       /\ UNCHANGED <<client, faults, refused>>
    \/ /\ client = "closed" \/ faults < MaxFaults
       /\ faults' = IF client = "closed" THEN faults ELSE faults + 1
       /\ \/ UNCHANGED context
          \/ client = "open" /\ context' = Append(context, turn)
       /\ refused' = IF client = "open" /\ context' = context /\ turn.by = "events"
                     THEN refused \cup {turn.n} ELSE refused
       /\ UNCHANGED <<client, head, acked>>

-----------------------------------------------------------------------------
(***************************************************************************)
(* The engine.                                                             *)
(***************************************************************************)
Init ==
    /\ EmitterInit
    /\ agents \in Runs
    /\ pc = "connect" /\ stage = 1 /\ children = {} /\ what = <<>>
    /\ agent = [a \in Node |-> "idle"] /\ turns = [a \in Node |-> 0]
    /\ pending = [a \in Node |-> <<>>] /\ held = [a \in Node |-> FALSE]
    /\ client = "none" /\ context = <<>> /\ head = 0
    /\ saved = [stage |-> 0, head |-> 0]
    /\ faults = 0 /\ acked = {} /\ refused = {}

\* New: if no context can be created the run does not start.  The first turn
\* tells where the run comes from.
Connect ==
    /\ pc = "connect"
    /\ \/ /\ pc' = "start" /\ client' = "open"
          /\ \/ context' = <<[type |-> Provenance, node |-> Run, by |-> Provenance, n |-> 0]>>
                /\ UNCHANGED faults
             \/ faults < MaxFaults /\ faults' = faults + 1 /\ context' = <<>>
          /\ head' = Len(context') /\ acked' = DOMAIN context'
       \/ /\ pc' = "ended" /\ client' = "closed"
          /\ UNCHANGED <<context, head, acked, faults>>
    /\ UNCHANGED <<emitterVars, agents, stage, children, what, saved, agentVars, refused>>

EmitEvent(type, node) ==
    /\ Emit
    /\ what' = Append(what, [type |-> type, node |-> node])

StartPipeline ==
    /\ pc = "start" /\ pc' = "enter"
    /\ EmitEvent("pipeline_started", Run)
    /\ UNCHANGED <<agents, stage, children, saved, agentVars, recVars>>

\* The agents of a stage are called: its handler's, or those of the branches.
EnterStage ==
    /\ pc = "enter" /\ pc' = "stage"
    /\ EmitEvent("stage_started", stage)
    /\ agent' = [a \in Node |-> IF a \in agents[stage] THEN "called" ELSE agent[a]]
    /\ UNCHANGED <<agents, stage, children, saved, turns, pending, held, recVars>>

\* The handler returned.  After an error the run fails; a stage that failed
\* otherwise has an edge for that, and is another stage if it is run again.
LeaveStage ==
    /\ pc = "stage" /\ \A a \in agents[stage] : agent[a] = "done"
    /\ \/ /\ EmitEvent("stage_completed", stage)
          /\ pc' = "children"
          /\ children' = IF Cardinality(agents[stage]) > 1 THEN agents[stage] ELSE {}
       \/ /\ EmitEvent("stage_failed", stage)
          /\ pc' \in {"children", "failed"}
          /\ UNCHANGED children
    /\ UNCHANGED <<agents, stage, saved, agentVars, recVars>>

\* handleParallelComplete: in the order of a Go map.
ChildCompleted ==
    /\ pc = "children"
    /\ \E c \in children :
        /\ children' = children \ {c}
        /\ EmitEvent("stage_completed", c)
    /\ UNCHANGED <<agents, pc, stage, saved, agentVars, recVars>>

\* saveCheckpoint, with the head at this moment, behind each stage and behind
\* the last; the event follows if the file could be written.
Checkpoint ==
    /\ \/ pc = "children" /\ children = {}
       \/ pc = "exit"
    /\ \/ /\ saved' = [stage |-> stage + 1, head |-> head]
          /\ pc' = IF pc = "exit" THEN "final" ELSE "saved"
          /\ UNCHANGED faults
       \/ /\ faults < MaxFaults /\ faults' = faults + 1
          /\ pc' = IF pc = "exit" THEN "complete" ELSE "next"
          /\ UNCHANGED saved
    /\ UNCHANGED <<emitterVars, agents, stage, children, what, agentVars, client, context, head,
                   acked, refused>>

CheckpointSaved ==
    /\ \/ pc = "saved" /\ pc' = "next"
       \/ pc = "final" /\ pc' = "complete"
    /\ EmitEvent("checkpoint_saved", stage)
    /\ UNCHANGED <<agents, stage, children, saved, agentVars, recVars>>

\* On to the next stage, or to the exit.
Advance ==
    /\ pc = "next"
    /\ \/ stage < Len(agents) /\ pc' = "enter" /\ stage' = stage + 1
       \/ stage = Len(agents) /\ pc' = "exit" /\ UNCHANGED stage
    /\ UNCHANGED <<emitterVars, agents, children, what, saved, agentVars, recVars>>

CompletePipeline ==
    /\ pc = "complete" /\ pc' = "close"
    /\ EmitEvent("pipeline_completed", Run)
    /\ UNCHANGED <<agents, stage, children, saved, agentVars, recVars>>

\* The stage failed or the context of the run is done.
FailPipeline ==
    /\ pc \in {"enter", "exit", "failed"} /\ pc' = "close"
    /\ EmitEvent("pipeline_failed", Run)
    /\ UNCHANGED <<agents, stage, children, saved, agentVars, recVars>>

\* The emitter is closed and drained before the connection is closed.
CloseEvents ==
    /\ \/ pc = "close" /\ pc' = "drain" /\ CloseEmitter
       \/ pc = "drain" /\ pc' = "disconnect" /\ CloseReturns
    /\ UNCHANGED <<agents, stage, children, what, saved, agentVars, recVars>>

CloseRecorder ==
    /\ pc = "disconnect" /\ pc' = "ended" /\ client' = "closed"
    /\ UNCHANGED <<emitterVars, agents, stage, children, what, saved, agentVars, context, head,
                   faults, acked, refused>>

Engine ==
    \/ Connect \/ StartPipeline \/ EnterStage \/ LeaveStage \/ ChildCompleted
    \/ Checkpoint \/ CheckpointSaved \/ Advance \/ CompletePipeline \/ FailPipeline
    \/ CloseEvents \/ CloseRecorder

-----------------------------------------------------------------------------
(***************************************************************************)
(* Agents and the drain goroutines.                                        *)
(***************************************************************************)
\* RecordInput, in the handler before the session runs: the turn does not name
\* the node.
RecordInput(a) ==
    /\ agent[a] = "called"
    /\ agent' = [agent EXCEPT ![a] = "working"]
    /\ turns' = [turns EXCEPT ![a] = @ + 1]
    /\ AppendTurn([StageTurn(a, "input", turns'[a]) EXCEPT !.node = Run])
    /\ UNCHANGED <<emitterVars, engineVars, pending, held>>

\* Emit of the session's emitter: the event is dropped if the channel is full.
EmitAgentEvent(a, kind) ==
    LET waiting == Len(pending[a]) - (IF held[a] THEN 1 ELSE 0) IN
    /\ turns' = [turns EXCEPT ![a] = @ + 1]
    /\ pending' = IF waiting < AgentBuf
                  THEN [pending EXCEPT ![a] = Append(@, [kind |-> kind, n |-> turns'[a]])]
                  ELSE pending

\* The session goes on.
AgentActs(a) ==
    /\ agent[a] = "working" /\ turns[a] < MaxTurns
    /\ \E kind \in AgentEvents : EmitAgentEvent(a, kind)
    /\ UNCHANGED <<emitterVars, engineVars, recVars, agent, held>>

\* The session is through: its deferred function emits SessionEnd and closes
\* the channel.
AgentEnds(a) ==
    /\ agent[a] = "working"
    /\ agent' = [agent EXCEPT ![a] = "closing"]
    /\ EmitAgentEvent(a, "session_end")
    /\ UNCHANGED <<emitterVars, engineVars, recVars, held>>

AgentReturns_Undrained(a) ==
    /\ agent[a] = "closing"
    /\ agent' = [agent EXCEPT ![a] = "done"]
    /\ UNCHANGED <<emitterVars, engineVars, recVars, turns, pending, held>>

\* The drain goroutine finds the closed channel empty and ends, and then Close
\* and Run return.
AgentReturns(a) ==
    /\ agent[a] = "closing" /\ pending[a] = <<>>
    /\ agent' = [agent EXCEPT ![a] = "done"]
    /\ UNCHANGED <<emitterVars, engineVars, recVars, turns, pending, held>>

Agent(a) == RecordInput(a) \/ AgentActs(a) \/ AgentEnds(a) \/ AgentReturns(a)

TakeAgentEvent(a) ==
    /\ pending[a] # <<>> /\ ~held[a]
    /\ held' = [held EXCEPT ![a] = TRUE]
    /\ UNCHANGED <<emitterVars, engineVars, recVars, agent, turns, pending>>

\* OnAgentEvent, called back by the drain goroutine of the session's emitter.
OnAgentEvent(a) ==
    /\ held[a]
    /\ LET evt == Head(pending[a]) IN
          IF evt.kind \in DOMAIN AgentTurn
          THEN AppendTurn(StageTurn(a, AgentTurn[evt.kind], evt.n))
          ELSE UNCHANGED recVars
    /\ held' = [held EXCEPT ![a] = FALSE]
    /\ pending' = [pending EXCEPT ![a] = Tail(@)]
    /\ UNCHANGED <<emitterVars, engineVars, agent, turns>>

DrainAgent(a) == TakeAgentEvent(a) \/ OnAgentEvent(a)

OnEvent_Retries ==
    /\ delivering # 0
    /\ AppendTurn(PipelineTurn(delivering))
    /\ IF head' = head THEN UNCHANGED emitterVars ELSE Delivered
    /\ UNCHANGED <<engineVars, agentVars>>

OnEvent ==
    /\ Delivered
    /\ AppendTurn(PipelineTurn(delivering))
    /\ UNCHANGED <<engineVars, agentVars>>

Drain ==
    \/ (Take \/ DrainEnds) /\ UNCHANGED <<engineVars, agentVars, recVars>>
    \/ OnEvent

Next == Engine \/ Drain \/ \E a \in Node : Agent(a) \/ DrainAgent(a)

Spec == Init /\ [][Next]_vars

-----------------------------------------------------------------------------
(***************************************************************************)
(* Properties.                                                             *)
(***************************************************************************)
\* The context tells each story in order and nothing twice, though an append may
\* have happened and be reported as failed, events are dropped, and the
\* goroutines take turns: the events of the pipeline as the engine emitted them,
\* and of each agent its input and then what its session emitted.
TurnsInOrder ==
    \A m \in DOMAIN context : \A k \in 1..(m - 1) :
        context[k].by = context[m].by => context[k].n < context[m].n

\* The head in a checkpoint covers everything that was recorded of the agents
\* of the stages before the one the checkpoint resumes at: no event of theirs
\* is still on its way to the recorder when their handlers return.
CheckpointCoversStages ==
    \A k \in acked :
        (\E s \in DOMAIN agents : s < saved.stage /\ context[k].by \in agents[s])
            => k <= saved.head

\* Once the connection is closed the context holds every event of the pipeline
\* that found room in the emitter's channel and was accepted by the server.
RecordedBeforeClose ==
    client = "closed" =>
        \A n \in 1..emitted :
            n \in dropped \cup refused \/ \E k \in DOMAIN context : context[k].by = "events"
                                                                    /\ context[k].n = n

\* What an agent does is recorded between the start of its stage and the
\* completion of it.
\* (The code does not keep this: see the README.)
AgentTurnsInStage ==
    \A k \in DOMAIN context : \A s \in DOMAIN agents :
        context[k].by \in agents[s] =>
            ~\E m \in DOMAIN context :
                /\ m > k /\ context[m].type = "stage.started" /\ context[m].node = s
=============================================================================
