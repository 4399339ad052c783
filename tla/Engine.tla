------------------------------- MODULE Engine -------------------------------
(***************************************************************************)
(* The pipeline engine (internal/attractor/engine.go): one goroutine that  *)
(* walks the graph, executes the handler of each stage, retries, enforces  *)
(* goal gates and writes a checkpoint (runtime/checkpoint.go) after every  *)
(* decision, so that a run that was interrupted can be resumed by another  *)
(* process.                                                                *)
(*                                                                         *)
(* One action is one iteration of the loop of execute(), cut where the     *)
(* goroutine is blocked: in the handler (pc = "exec") and in the back-off  *)
(* delay (pc = "backoff").  The checkpoint is the only thing written in    *)
(* between that outlives the process, and it is written once, at the end   *)
(* of an iteration, so a crash inside an iteration is a crash before or    *)
(* after it.  What stages write to the context while the handler is at     *)
(* work, because it executes them itself, are actions of their own.        *)
(*                                                                         *)
(* The visit log is kept as the last visit of each stage (latest), which   *)
(* is all that checkGoalGates reads of it.  Of the pipeline context, the   *)
(* model keeps the keys conditions may read (pctx) and the results of the  *)
(* last parallel fan-out (results).  The keys the engine sets for itself   *)
(* are left out: current_node and internal.preamble, which each iteration  *)
(* sets anew before the handler, and internal.retry_count.*, which follow  *)
(* the retry counters.                                                     *)
(*                                                                         *)
(* An operator named X_Fault is X with a fault seeded in it; no other      *)
(* definition uses it.  It serves to show that a property notices.         *)
(***************************************************************************)
EXTENDS PipelineGraph, Outcomes

CONSTANTS
    Outcome,      \* Outcome[n]: what the handler of n may return, a set of
                  \* records [status, label, suggested, updates]
    SaveFaults,   \* may writing a file of the run directory fail?
    LoadFaults,   \* may reading the checkpoint fail?
    MaxRuns       \* bound: processes that work on this run, one after another

VARIABLES
    pc,         \* where the engine is, or how the run ended
    cur,        \* currentID
    canceled,   \* is the context of the run done?
    counters,   \* retryCounters
    completed,  \* the completed set
    latest,     \* the last entry of each stage in visitLog
    pctx,       \* PCtx, restricted to CtxKey
    results,    \* PCtx["parallel.results"]
    stage,      \* history: the stage whose StageStarted event is not yet
                \* followed by StageCompleted, StageFailed or StageRetrying
    disk,       \* checkpoint.json
    manifest,   \* the status in manifest.json
    runs        \* processes started so far

memory  == <<counters, completed, latest, pctx, results>>
durable == <<disk, manifest>>
vars == <<pc, cur, canceled, memory, stage, durable, runs>>

Running == {"loop", "exec", "backoff", "finalize", "closing"}
Stopped == {"down", "completed", "failed", "canceled"}

Unvisited == [status |-> NoStatus, attempt |-> 0]
Visit     == [status : StageStatus \cup {NoStatus}, attempt : Nat]

NoCheckpoint == Unset

\* What a handler writes to the context: Unset for the keys it leaves alone.
Updates   == [CtxKey -> STRING \cup {Unset}]
NoUpdates == [k \in CtxKey |-> Unset]

StageOutcome == [status : StageStatus, label : STRING,
                 suggested : Seq(STRING), updates : Updates]

\* The result of a branch, and what "parallel.results" may hold.
Result    == [status : StageStatus \cup {NoStatus}, updates : Updates, err : BOOLEAN]
FanOuts   == {n \in Node : Attr[n].type = "parallel"}
Loops     == {n \in Node : Attr[n].type = "stack.manager_loop"}
ResultSet == {Unset} \cup UNION {[Successors(n) -> Result] : n \in FanOuts}

Checkpoint ==
    [current : Node \cup {Unset}, counters : [Node -> Nat], completed : SUBSET Node,
     latest : [Node -> Visit], pctx : [CtxKey -> STRING], results : ResultSet]

ASSUME EngineAssumption ==
    /\ \A n \in Node : Outcome[n] \subseteq StageOutcome
    /\ SaveFaults \in BOOLEAN /\ LoadFaults \in BOOLEAN
    /\ MaxRuns \in Nat
    /\ Unset \notin Checkpoint
    /\ CtxKey \cap {"current_node", "internal.preamble", "parallel.results"} = {}

-----------------------------------------------------------------------------
(***************************************************************************)
(* Pure parts of an iteration.                                             *)
(***************************************************************************)
Merge(ctx, updates) ==
    [k \in CtxKey |-> IF updates[k] # Unset THEN updates[k] ELSE ctx[k]]

CheckGoalGates_VisitedPasses(visits) ==
    LET unsatisfied == {i \in DOMAIN NodeOrder :
            /\ Attr[NodeOrder[i]].goalGate
            /\ visits[NodeOrder[i]].status = NoStatus} IN
    IF unsatisfied = {} THEN Unset ELSE NodeOrder[First(unsatisfied)]

\* The first goal gate, by declaration order, whose last visit did not
\* succeed, or Unset.
CheckGoalGates(visits) ==
    LET unsatisfied == {i \in DOMAIN NodeOrder :
            /\ Attr[NodeOrder[i]].goalGate
            /\ ~IsSuccess(visits[NodeOrder[i]].status)} IN
    IF unsatisfied = {} THEN Unset ELSE NodeOrder[First(unsatisfied)]

\* The context after the branches' updates: the results are a Go map, so
\* they are merged in any order; ranks count from the last branch.
MergedContext(ctx, res, rank) ==
    [k \in CtxKey |->
        LET writers == {c \in DOMAIN res : res[c].updates[k] # Unset} IN
        IF writers = {} THEN ctx[k]
        ELSE LET last == CHOOSE c \in writers :
                            \A d \in writers : rank[c] <= rank[d]
             IN  res[last].updates[k]]

Ranks(S) ==
    {rank \in [S -> 1..Cardinality(S)] :
        \A c, d \in S : rank[c] = rank[d] => c = d}

\* What executing child c as a branch may yield when nothing interrupts it.
\* Without a handler it is the empty outcome and an error.
Empty == [status |-> NoStatus, updates |-> NoUpdates, err |-> TRUE]

Branch(c) ==
    IF Attr[c].handled
    THEN {[status |-> o.status, updates |-> o.updates, err |-> FALSE] : o \in Outcome[c]}
    ELSE {Empty}

\* What it yields when the context of the branches is done: nothing, for it was
\* not begun; or its handler reports a failure, or an error.
CutShort == [status |-> "FAIL", updates |-> NoUpdates, err |-> TRUE]
Interrupted(c) ==
    {CutShort} \cup {r \in {[CutShort EXCEPT !.err = FALSE], Empty} :
                        Attr[c].handled /\ (r.err => Attr[c].mayError)}

\* The results a parallel stage n can leave.
FanOutResults(n) ==
    JoinedResults([c \in Successors(n) |-> Branch(c)], [c \in Successors(n) |-> Interrupted(c)],
                  Attr[n].errorPolicy = "fail_fast", canceled)

\* The stages the handler of n executes, itself or through the handlers of others
\* among them: a fan-out its branches, a manager loop its children.
Executed ==
    [n \in Node |->
        LET within[depth \in 0..Len(NodeOrder)] ==
                IF depth = 0 THEN {n}
                ELSE LET above == within[depth - 1] IN
                     above \cup UNION {Successors(m) : m \in above \cap (FanOuts \cup Loops)}
        IN  within[Len(NodeOrder)]]

Plain(status) == [status |-> status, label |-> "", suggested |-> <<>>, updates |-> NoUpdates]

Settled_AlwaysPartial(n, status) == IF status = "RETRY" THEN "PARTIAL_SUCCESS" ELSE status

\* The status a stage goes on with once its retries are exhausted.
Settled(n, status) ==
    IF status # "RETRY" THEN status
    ELSE IF Attr[n].allowPartial THEN "PARTIAL_SUCCESS" ELSE "FAIL"

RetriesLeft_Inclusive(n) == counters[n] <= MaxRetries(n)

RetriesLeft(n) == counters[n] < MaxRetries(n)

\* Will the engine execute n again: an explicit RETRY, or a goal gate that
\* failed?
RetryWanted(n, status) ==
    status = "RETRY" \/ (status = "FAIL" /\ Attr[n].goalGate)

\* A goal gate whose retries are exhausted and that has failed.
GateFailed(n, status) ==
    Attr[n].goalGate /\ Settled(n, status) = "FAIL"

-----------------------------------------------------------------------------
(***************************************************************************)
(* Processes: the engine is started, resumes from the checkpoint, crashes, *)
(* has its context canceled.                                               *)
(***************************************************************************)
NoRetries    == [n \in Node |-> 0]
NoVisits     == [n \in Node |-> Unvisited]
EmptyContext == [k \in CtxKey |-> ""]

FreshMemory ==
    /\ counters = NoRetries /\ completed = {} /\ latest = NoVisits
    /\ pctx = EmptyContext /\ results = Unset

ForgetMemory ==
    /\ counters' = NoRetries /\ completed' = {} /\ latest' = NoVisits
    /\ pctx' = EmptyContext /\ results' = Unset

Init ==
    /\ pc = "down" /\ cur = StartNode
    /\ canceled = FALSE
    /\ FreshMemory
    /\ stage = Unset
    /\ disk = NoCheckpoint
    /\ manifest = "none"
    /\ runs = 0

StartProcess ==
    /\ pc \in Stopped
    /\ runs < MaxRuns
    /\ pc' = "loop"
    /\ canceled' = FALSE
    /\ manifest' = "running"
    /\ runs' = runs + 1
    /\ stage' = Unset
    /\ UNCHANGED disk

\* initialize() without a checkpoint it can read, and execute() up to its loop.
StartFresh ==
    /\ StartProcess
    /\ disk = NoCheckpoint \/ LoadFaults
    /\ cur' = StartNode
    /\ ForgetMemory

Resume_CountersLost ==
    /\ StartProcess
    /\ disk # NoCheckpoint
    /\ cur' = IF disk.current # Unset THEN disk.current ELSE StartNode
    /\ counters' = NoRetries
    /\ completed' = disk.completed /\ latest' = disk.latest
    /\ pctx' = disk.pctx /\ results' = disk.results

\* initialize() with the checkpoint of an earlier process.
Resume ==
    /\ StartProcess
    /\ disk # NoCheckpoint
    /\ cur' = IF disk.current # Unset THEN disk.current ELSE StartNode
    /\ counters' = disk.counters
    /\ completed' = disk.completed
    /\ latest' = disk.latest
    /\ pctx' = disk.pctx
    /\ results' = disk.results

\* The process dies; what it held in memory is gone.
Crash ==
    /\ pc \in Running
    /\ pc' = "down" /\ cur' = StartNode
    /\ canceled' = FALSE
    /\ ForgetMemory
    /\ stage' = Unset
    /\ UNCHANGED <<durable, runs>>

Cancel ==
    /\ pc \in Running /\ ~canceled
    /\ canceled' = TRUE
    /\ UNCHANGED <<pc, cur, memory, stage, durable, runs>>

-----------------------------------------------------------------------------
(***************************************************************************)
(* saveCheckpoint(node): the memory as this iteration leaves it.  An error *)
(* is logged and ignored.                                                  *)
(***************************************************************************)
SaveCheckpoint_StaleResults(node) ==
    disk' = [current |-> node, counters |-> counters', completed |-> completed',
             latest |-> latest', pctx |-> pctx', results |-> results]

SaveCheckpoint(node) ==
    \/ disk' = [current |-> node, counters |-> counters', completed |-> completed',
                latest |-> latest', pctx |-> pctx', results |-> results']
    \/ SaveFaults /\ UNCHANGED disk

Charge_Free(n) == counters' = counters

\* Another attempt of stage n is charged to its retry counter.
Charge(n) == counters' = [counters EXCEPT ![n] = @ + 1]

Fail ==
    /\ pc' = "failed"
    /\ UNCHANGED <<cur, canceled, durable, runs>>

-----------------------------------------------------------------------------
(***************************************************************************)
(* The top of the loop.                                                    *)
(***************************************************************************)
AtLoop == pc = "loop" /\ ~canceled

\* ctx.Done at the top of the loop or during the back-off delay.
StopOnCancel ==
    /\ pc \in {"loop", "backoff"} /\ canceled
    /\ pc' = "canceled"
    /\ UNCHANGED <<cur, canceled, memory, stage, durable, runs>>

BeginStage ==
    /\ AtLoop /\ ~IsExit(cur)
    /\ pc' = "exec"
    /\ stage' = cur
    /\ UNCHANGED <<cur, canceled, memory, durable, runs>>

\* An exit stage with every goal gate satisfied ends the run.
AcceptExit ==
    /\ AtLoop /\ IsExit(cur)
    /\ CheckGoalGates(latest) = Unset
    /\ pc' = "finalize"
    /\ completed' = completed \cup {cur}
    /\ latest' = [latest EXCEPT ![cur] = [status |-> "SUCCESS", attempt |-> 1]]
    /\ UNCHANGED <<cur, canceled, counters, pctx, results, stage, durable, runs>>

\* An unsatisfied gate with retries left sends the run back: to the gate's
\* retry target if it has one, else to the gate itself.
RetryGateAtExit ==
    LET gate   == CheckGoalGates(latest)
        target == ResolveRetryTarget(gate)
    IN
    /\ AtLoop /\ IsExit(cur)
    /\ gate # Unset /\ RetriesLeft(gate)
    /\ Charge(gate)
    /\ UNCHANGED <<completed, latest, pctx, results>>
    /\ SaveCheckpoint(gate)
    /\ cur' = IF target # Unset THEN target ELSE gate
    /\ UNCHANGED <<pc, canceled, stage, manifest, runs>>

FailGateAtExit ==
    LET gate == CheckGoalGates(latest) IN
    /\ AtLoop /\ IsExit(cur)
    /\ gate # Unset /\ ~RetriesLeft(gate)
    /\ Fail
    /\ UNCHANGED <<memory, stage>>

-----------------------------------------------------------------------------
(***************************************************************************)
(* The handler is at work.                                                 *)
(***************************************************************************)

\* ChildEngine: a manager loop merges what each child returns into the context
\* at once, when no checkpoint is written.  In what order, how often and until
\* when it executes them is in ManagerLoop.
ChildMerges ==
    /\ pc = "exec"
    /\ \E m \in Loops \cap Executed[cur] :
          \E c \in Successors(m) : \E out \in Outcome[c] :
             Attr[c].handled /\ pctx' = Merge(pctx, out.updates)
    /\ UNCHANGED <<pc, cur, canceled, counters, completed, latest, results>>
    /\ UNCHANGED <<stage, durable, runs>>

\* A fan-out that another handler executes leaves its results in the context.
InnerFanOutEnds ==
    /\ pc = "exec"
    /\ \E n \in (FanOuts \cap Executed[cur]) \ {cur} :
          Successors(n) # {} /\ results' \in FanOutResults(n)
    /\ UNCHANGED <<pc, cur, canceled, counters, completed, latest, pctx>>
    /\ UNCHANGED <<stage, durable, runs>>

-----------------------------------------------------------------------------
(***************************************************************************)
(* The handler returns.                                                    *)
(***************************************************************************)

\* What the handler of the current stage returns (out) and leaves in
\* "parallel.results" (results').  A parallel stage executes its children
\* and joins them; a fan-in ranks what the last parallel stage left.
HandlerReturns(n, out) ==
    CASE Attr[n].type = "parallel" /\ Successors(n) # {} ->
            \E res \in FanOutResults(n) :
                /\ results' = res
                /\ out = Plain(FanOutStatus(res, Attr[n].join, Attr[n].errorPolicy, Attr[n].k))
      [] Attr[n].type = "parallel.fan_in" ->
            /\ out = Plain(IF results = Unset THEN "SUCCESS" ELSE FanInStatus(results))
            /\ UNCHANGED results
      [] OTHER -> out \in Outcome[n] /\ UNCHANGED results

Returned(n) ==
    Outcome[n] \cup {Plain(status) : status \in {"SUCCESS", "FAIL"}}

\* Merge the updates, set "outcome" and "preferred_label".
Applied(ctx, out) ==
    LET merged == Merge(ctx, out.updates) IN
    [k \in CtxKey |-> IF k = "outcome" THEN out.status
                      ELSE IF k = "preferred_label" /\ out.label # "" THEN out.label
                      ELSE merged[k]]

\* The visit is recorded with the status the handler returned.
Visited(n, out) ==
    [latest EXCEPT ![n] = [status |-> out.status, attempt |-> counters[n] + 1]]

\* No handler is registered for the stage, or the handler reports a Go error.
StageError ==
    /\ pc = "exec"
    /\ ~Attr[cur].handled \/ (Attr[cur].mayError /\ canceled)
    /\ stage' = Unset
    /\ Fail
    /\ UNCHANGED memory

\* RETRY, or FAIL of a goal gate, with retries left.
RetryStage(out) ==
    /\ pc = "exec" /\ Attr[cur].handled
    /\ HandlerReturns(cur, out)
    /\ RetryWanted(cur, out.status) /\ RetriesLeft(cur)
    /\ Charge(cur)
    /\ pctx' = Applied(pctx, out)
    /\ latest' = Visited(cur, out)
    /\ UNCHANGED completed
    /\ SaveCheckpoint(cur)
    /\ pc' = "backoff"
    /\ stage' = Unset
    /\ UNCHANGED <<cur, canceled, manifest, runs>>

\* A goal gate that failed with no retries left ends the run.
FailGate(out) ==
    /\ pc = "exec" /\ Attr[cur].handled
    /\ HandlerReturns(cur, out)
    /\ GateFailed(cur, out.status) /\ ~RetriesLeft(cur)
    /\ pctx' = Applied(pctx, out)
    /\ latest' = Visited(cur, out)
    /\ Fail
    /\ stage' = IF out.status = "FAIL" THEN Unset ELSE stage
    /\ UNCHANGED <<counters, completed>>

BackoffEnds ==
    /\ pc = "backoff"
    /\ pc' = "loop"
    /\ UNCHANGED <<cur, canceled, memory, stage, durable, runs>>

-----------------------------------------------------------------------------
(***************************************************************************)
(* The stage is done: choose where to go.                                  *)
(***************************************************************************)

\* RETRY that is not retried emits no event of its own.
StageDone(out) ==
    /\ pc = "exec" /\ Attr[cur].handled
    /\ HandlerReturns(cur, out)
    /\ ~(RetryWanted(cur, out.status) /\ RetriesLeft(cur))
    /\ ~GateFailed(cur, out.status)
    /\ stage' = IF out.status = "RETRY" THEN stage ELSE Unset
    /\ UNCHANGED <<canceled, counters, manifest, runs>>

GoTo_SavesCurrent(next) ==
    /\ SaveCheckpoint(cur)
    /\ cur' = next
    /\ pc' = "loop"

GoTo(next) ==
    /\ SaveCheckpoint(next)
    /\ cur' = next
    /\ pc' = "loop"

\* handleParallelComplete: the branches count as completed and visited, and
\* their updates are merged, even if the join failed.
BranchesDone(out) ==
    LET res == results' IN
    /\ completed' = completed \cup {cur} \cup DOMAIN res
    /\ latest' = [n \in Node |->
                    IF n \in DOMAIN res
                    THEN [status |-> res[n].status, attempt |-> 1]
                    ELSE Visited(cur, out)[n]]
    /\ \E rank \in Ranks(DOMAIN res) :
            pctx' = MergedContext(Applied(pctx, out), res, rank)

\* A parallel stage completes its branches whenever results are there.
OnlyStageDone(out) ==
    /\ completed' = completed \cup {cur}
    /\ latest' = Visited(cur, out)
    /\ pctx' = Applied(pctx, out)

\* handleManagerLoopComplete: the children count as completed; their visits
\* are not recorded.
ChildrenDone(out) ==
    /\ completed' = completed \cup {cur} \cup Successors(cur)
    /\ latest' = Visited(cur, out)
    /\ pctx' = Applied(pctx, out)

Completes(out) ==
    CASE Attr[cur].type = "parallel" /\ results' # Unset -> BranchesDone(out)
      [] Attr[cur].type = "stack.manager_loop"           -> ChildrenDone(out)
      [] OTHER                                           -> OnlyStageDone(out)

\* Where a fan-out or a manager loop resumes after its children, or Unset.
Jump(n) ==
    CASE Attr[n].type = "parallel" /\ results' # Unset -> FindConvergence(Successors(n))
      [] Attr[n].type = "stack.manager_loop"           -> Continuation(n)
      [] OTHER                                         -> Unset

SelectedEdge(out) ==
    Select(cur, Settled(cur, out.status), out.label, out.suggested, pctx')

JumpAhead(out) ==
    /\ StageDone(out) /\ Completes(out)
    /\ Jump(cur) # Unset
    /\ GoTo(Jump(cur))

FollowEdge(out) ==
    /\ StageDone(out) /\ Completes(out)
    /\ Jump(cur) = Unset /\ SelectedEdge(out) # Unset
    /\ GoTo(Edges[SelectedEdge(out)].to)

\* No outgoing edge: the run ends here, and goal gates are not consulted.
StopAtSink(out) ==
    /\ StageDone(out) /\ Completes(out)
    /\ Jump(cur) = Unset /\ SelectedEdge(out) = Unset
    /\ pc' = "finalize"
    /\ UNCHANGED <<cur, disk>>

-----------------------------------------------------------------------------
(***************************************************************************)
(* finalize(): the last checkpoint names no stage; then the manifest.      *)
(***************************************************************************)
SaveFinal ==
    /\ pc = "finalize"
    /\ pc' = "closing"
    /\ UNCHANGED <<cur, canceled, memory, stage, manifest, runs>>
    /\ SaveCheckpoint(Unset)

WriteManifest ==
    /\ pc = "closing"
    /\ \/ pc' = "completed" /\ manifest' = "completed"
       \/ SaveFaults /\ pc' = "failed" /\ UNCHANGED manifest
    /\ UNCHANGED <<cur, canceled, memory, stage, disk, runs>>

-----------------------------------------------------------------------------
HandlerEnds ==
    \/ StageError
    \/ \E out \in Returned(cur) :
          RetryStage(out) \/ FailGate(out) \/ JumpAhead(out) \/ FollowEdge(out) \/ StopAtSink(out)

\* The engine's own goroutine.
EngineStep ==
    \/ StopOnCancel \/ BeginStage \/ AcceptExit \/ RetryGateAtExit \/ FailGateAtExit
    \/ HandlerEnds \/ BackoffEnds \/ SaveFinal \/ WriteManifest

\* The goroutines of a handler, while the engine waits for it.
HandlerStep == ChildMerges \/ InnerFanOutEnds

Next == EngineStep \/ HandlerStep \/ StartFresh \/ Resume \/ Crash \/ Cancel

Spec == Init /\ [][Next]_vars

\* A handler returns, which is an assumption (a streamed model call that is
\* canceled need not, see LLMStream), and the goroutine is scheduled; nothing
\* forces a cancellation, a crash or a new process.
FairSpec == Spec /\ WF_vars(EngineStep)

-----------------------------------------------------------------------------
(***************************************************************************)
(* Properties.                                                             *)
(***************************************************************************)
Budget(n) == IF MaxRetries(n) > 0 THEN MaxRetries(n) ELSE 0

MemoryTypeOK ==
    /\ counters \in [Node -> Nat]
    /\ completed \in SUBSET Node
    /\ latest \in [Node -> Visit]
    /\ pctx \in [CtxKey -> STRING]
    /\ results \in ResultSet

\* Every variable stays in its range.
TypeOK ==
    /\ pc \in Running \cup Stopped
    /\ cur \in Node
    /\ canceled \in BOOLEAN
    /\ MemoryTypeOK
    /\ stage \in Node \cup {Unset}
    /\ disk \in Checkpoint \cup {NoCheckpoint}
    /\ manifest \in {"none", "running", "completed"}
    /\ runs \in Nat

\* Retries are bounded, whatever crashes and resumes: no stage is charged
\* more retries than max_retries allows and no visit is numbered beyond the
\* last attempt that allows, in memory or in the checkpoint.
WithinBudget(retries, visits) ==
    \A n \in Node : /\ retries[n] <= Budget(n)
                    /\ visits[n].attempt <= Budget(n) + 1

RetryBudget ==
    /\ WithinBudget(counters, latest)
    /\ disk # NoCheckpoint => WithinBudget(disk.counters, disk.latest)

\* A run that completes at an exit stage leaves every goal gate satisfied,
\* also when the visits that satisfied it were made by an earlier process,
\* by a parallel branch, or before a later failed visit.
GatesHold ==
    pc \in {"finalize", "closing", "completed"} /\ IsExit(cur) =>
        \A n \in Gates : IsSuccess(latest[n].status)

\* What a resumed process would have in its memory.
Saved ==
    IF disk # NoCheckpoint THEN disk
    ELSE [counters |-> NoRetries, completed |-> {}, latest |-> NoVisits,
          pctx |-> EmptyContext, results |-> Unset]

\* The value of key k, and the results, are what a stage wrote that the handler
\* the engine waits for executes itself.
WrittenByChild(k) ==
    /\ pc = "exec"
    /\ \E m \in Loops \cap Executed[cur] :
          \E c \in Successors(m) : \E out \in Outcome[c] : pctx[k] = out.updates[k]

LeftByInnerFanOut ==
    /\ pc = "exec"
    /\ \E n \in (FanOuts \cap Executed[cur]) \ {cur} : results \in [Successors(n) -> Result]

\* Whenever the engine waits, for a handler, for a delay or for the next
\* iteration, the checkpoint holds its retry counters, visits and completed
\* stages, and its context too, but for what the children of a manager loop or
\* of an inner fan-out wrote since their handler was called: a crash takes back
\* nothing else (saveCheckpoint, and ChildEngine in executeNode).
CheckpointIsMemory ==
    pc \in {"loop", "exec", "backoff"} =>
        /\ counters = Saved.counters /\ completed = Saved.completed /\ latest = Saved.latest
        /\ \A k \in CtxKey : pctx[k] = Saved.pctx[k] \/ WrittenByChild(k)
        /\ results = Saved.results \/ LeftByInnerFanOut

\* The stage a new process would start with.
ResumePoint ==
    IF disk = NoCheckpoint \/ disk.current = Unset THEN StartNode ELSE disk.current

\* Whenever the engine is working on a stage, that is the stage a crash
\* would resume at.
ResumesInFlight ==
    pc \in {"loop", "exec", "backoff", "finalize"} => ResumePoint = cur

\* What the checkpoint says was done or charged is never taken back by a
\* later checkpoint, of this process or of one that resumes.
DurableProgress ==
    [][disk # NoCheckpoint =>
          /\ disk' # NoCheckpoint
          /\ disk.completed \subseteq disk'.completed
          /\ \A n \in Node : disk.counters[n] <= disk'.counters[n]]_vars

\* The engine moves on from a goal gate it has just executed only with a
\* visit that counts as satisfied at the exit.
\* (With allow_partial on a gate the code does not keep this: see the README.)
GatePassedSatisfied ==
    [][pc = "exec" /\ pc' \in {"loop", "finalize"} /\ cur \in Gates =>
          IsSuccess(latest'[cur].status)]_vars

\* Each StageStarted event is answered by an event that ends the stage
\* before the engine goes on.
\* (The code does not keep this: see the README.)
StageEventsPaired == pc = "loop" => stage = Unset

\* A stage that failed in a canceled run is the one the run resumes with: the
\* interruption is not taken for the result of the stage.
\* (The code does not keep this: see the README.)
InterruptedStageKept ==
    [][canceled /\ pc = "exec" /\ pc' = "loop" /\ latest'[cur].status = "FAIL" =>
          disk' # NoCheckpoint /\ disk'.current = cur]_vars

\* A resumed run begins with a stage that was not completed before.
\* (The code does not keep this: see the README.)
ResumeSkipsCompleted ==
    [][(pc \in Stopped /\ pc' = "loop") => cur' \notin completed']_vars

\* A run completes only with every goal gate satisfied, wherever it ends.
\* (The code does not keep this: see the README.)
CompletionNeedsGates ==
    pc = "completed" => \A n \in Gates : IsSuccess(latest[n].status)

\* A goal gate without a max_retries attribute is not retried.
\* (The code does not keep this: see the README.)
NoImplicitGateRetry ==
    \A n \in Gates : Attr[n].maxRetries = Unset => counters[n] = 0

\* Every process that starts comes to an end: each loop through the graph is
\* paid for from a retry budget (for pipelines whose edges have no cycle, if
\* every handler that is called returns).
Terminates == pc = "loop" ~> pc \in Stopped

-----------------------------------------------------------------------------
(***************************************************************************)
(* What a run promises, whatever its stages compute: PipelineRun.          *)
(***************************************************************************)
Sinks == {n \in Node : OutEdges(n) = {}}

Moves ==
    {<<Edges[i].from, Edges[i].to>> : i \in DOMAIN Edges}
    \cup {<<n, n>> : n \in Node}
    \cup {<<n, FindConvergence(Successors(n))>> : n \in FanOuts}
    \cup {<<n, Continuation(n)>> : n \in Loops}
    \cup ExitNodes \X Gates

Active == pc \in {"loop", "exec", "backoff", "finalize"}

Promise == INSTANCE PipelineRun WITH
    Stages <- Node, Entry <- StartNode, Moves <- Moves, Ends <- ExitNodes \cup Sinks,
    active <- Active,
    at     <- IF Active THEN cur ELSE StartNode,
    saved  <- ResumePoint

\* The engine keeps that promise.
KeepsPromise == Promise!Spec
=============================================================================
