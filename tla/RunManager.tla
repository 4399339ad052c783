----------------------------- MODULE RunManager ------------------------------
(***************************************************************************)
(* The runs of the HTTP server: internal/server/runmgr/manager.go, with    *)
(* Shutdown of internal/server/server.go and the end of the process in     *)
(* cmd/dfgo/main.go, and the questions the runs ask (HTTPInterviewer).     *)
(*                                                                         *)
(* Of Execute, which module Engine is about, a run keeps that it asks its  *)
(* questions and returns, with or without an error, when none is open.     *)
(* Preparing a pipeline has no effect on the shared state, so that Submit  *)
(* begins with the registration of the run.                                *)
(***************************************************************************)
EXTENDS HTTPInterviewer

CONSTANTS
    Run,      \* the submissions that prepare without an error
    Owner     \* Owner[q]: the run that may ask question q

ASSUME OwnerAssumption == Owner \in [Question -> Run]

VARIABLES
    registered,  \* the map runs
    waiting,     \* waiting[r]: the counter of wg
    gopc,        \* gopc[r]: where the goroutine of r is
    status,      \* status[r]: Status; "none" before Submit registers r
    canceled,    \* the runs whose runCtx is done
    closed,      \* the runs whose broadcaster is closed
    server,      \* "serving", "canceling", "waiting", "closing", "exited"
    snapshot,    \* the runs Shutdown found
    passed,      \* those whose wg.Wait has returned
    deadline,    \* is the context of Shutdown done?
    requested,   \* history: runs that a client or Shutdown canceled
    launched     \* history: the runs of the snapshot that were counted in their
                 \* wait group when Shutdown began to wait

runVars == <<registered, waiting, gopc, status, canceled, closed>>
shutVars == <<server, snapshot, passed, deadline, launched>>
vars == <<interviewVars, runVars, shutVars, requested>>

Final == {"completed", "failed", "canceled"}

Init ==
    /\ InterviewInit
    /\ registered = {} /\ canceled = {} /\ closed = {} /\ requested = {}
    /\ waiting = [r \in Run |-> 0]
    /\ gopc = [r \in Run |-> "none"]
    /\ status = [r \in Run |-> "none"]
    /\ server = "serving" /\ snapshot = {} /\ passed = {} /\ launched = {} /\ deadline = FALSE

-----------------------------------------------------------------------------
(***************************************************************************)
(* Submit and the goroutine it starts.  Requests are served until the      *)
(* process ends: closing the HTTP server lets those in flight go on.       *)
(***************************************************************************)
Register(r) ==
    /\ r \notin registered /\ server # "exited"
    /\ registered' = registered \cup {r}
    /\ status' = [status EXCEPT ![r] = "running"]
    /\ UNCHANGED <<interviewVars, waiting, gopc, canceled, closed, shutVars, requested>>

\* wg.Add comes after the run was published in the map.
Launch(r) ==
    /\ r \in registered /\ gopc[r] = "none" /\ server # "exited"
    /\ waiting' = [waiting EXCEPT ![r] = @ + 1]
    /\ gopc' = [gopc EXCEPT ![r] = "executing"]
    /\ UNCHANGED <<interviewVars, registered, status, canceled, closed, shutVars, requested>>

Go(r, from, to) ==
    /\ gopc[r] = from /\ server # "exited"
    /\ gopc' = [gopc EXCEPT ![r] = to]

Open(r) == {q \in Question : Owner[q] = r /\ ask[q] \in {"waiting", "leaving"}}

ExecuteReturns(r) ==
    /\ Open(r) = {}
    /\ \/ Go(r, "executing", "succeeded")
       \/ Go(r, "executing", "erred")
    /\ UNCHANGED <<interviewVars, registered, waiting, status, canceled, closed,
                   shutVars, requested>>

\* Whether an error is a cancellation is decided by the context alone.
SetCompleted(r) ==
    /\ \/ /\ Go(r, "succeeded", "settled")
          /\ status' = [status EXCEPT ![r] = "completed"]
       \/ /\ Go(r, "erred", "settled")
          /\ status' = [status EXCEPT ![r] = IF r \in canceled THEN "canceled" ELSE "failed"]
    /\ UNCHANGED <<interviewVars, registered, waiting, canceled, closed, shutVars, requested>>

ReleaseContext_First(r) ==
    /\ \E pc \in {"erred", "settled"} : Go(r, pc, IF pc = "erred" THEN pc ELSE "released")
    /\ canceled' = canceled \cup {r}
    /\ UNCHANGED <<interviewVars, registered, waiting, status, closed, shutVars, requested>>

\* The deferred calls: cancel, then Close of the broadcaster, then wg.Done.
ReleaseContext(r) ==
    /\ Go(r, "settled", "released")
    /\ canceled' = canceled \cup {r}
    /\ UNCHANGED <<interviewVars, registered, waiting, status, closed, shutVars, requested>>

CloseStream_First(r) ==
    /\ \/ Go(r, "erred", "erred")
       \/ Go(r, "released", "closed")
    /\ closed' = closed \cup {r}
    /\ UNCHANGED <<interviewVars, registered, waiting, status, canceled, shutVars, requested>>

CloseStream(r) ==
    /\ Go(r, "released", "closed")
    /\ closed' = closed \cup {r}
    /\ UNCHANGED <<interviewVars, registered, waiting, status, canceled, shutVars, requested>>

WaitGroupDone(r) ==
    /\ Go(r, "closed", "done")
    /\ waiting' = [waiting EXCEPT ![r] = @ - 1]
    /\ UNCHANGED <<interviewVars, registered, status, canceled, closed, shutVars, requested>>

Goroutine(r) ==
    ExecuteReturns(r) \/ SetCompleted(r) \/ ReleaseContext(r) \/ CloseStream(r) \/ WaitGroupDone(r)

-----------------------------------------------------------------------------
(***************************************************************************)
(* Questions and answers.                                                  *)
(***************************************************************************)
AskQuestion(q) == gopc[Owner[q]] = "executing" /\ server # "exited" /\ Ask(q)

AskEnds_IgnoresCancel(q) ==
    /\ server # "exited"
    /\ TakeAnswer(q) \/ LeaveAsk(q)
    /\ UNCHANGED <<runVars, shutVars, requested>>

AskEnds(q) ==
    /\ server # "exited"
    /\ TakeAnswer(q) \/ AbandonQuestion(q, Owner[q] \in canceled) \/ LeaveAsk(q)
    /\ UNCHANGED <<runVars, shutVars, requested>>

Interview ==
    /\ \/ \E q \in Question : AskQuestion(q)
       \/ server # "exited" /\ \E c \in Client : SubmitAnswer(c)
    /\ UNCHANGED <<runVars, shutVars, requested>>

-----------------------------------------------------------------------------
(***************************************************************************)
(* Cancel and Shutdown.                                                    *)
(***************************************************************************)
CancelRuns(rs) == canceled' = canceled \cup rs /\ requested' = requested \cup rs

Cancel(r) ==
    /\ r \in registered /\ server # "exited"
    /\ CancelRuns({r})
    /\ UNCHANGED <<interviewVars, registered, waiting, gopc, status, closed, shutVars>>

TakeSnapshot ==
    /\ server = "serving"
    /\ server' = "canceling"
    /\ snapshot' = registered
    /\ UNCHANGED <<interviewVars, runVars, passed, deadline, requested, launched>>

DeadlinePasses ==
    /\ server \in {"canceling", "waiting"} /\ ~deadline
    /\ deadline' = TRUE
    /\ UNCHANGED <<interviewVars, runVars, server, snapshot, passed, requested, launched>>

CancelSnapshot ==
    /\ server = "canceling"
    /\ server' = "waiting"
    /\ CancelRuns(snapshot)
    /\ launched' = {r \in snapshot : gopc[r] # "none"}
    /\ UNCHANGED <<interviewVars, registered, waiting, gopc, status, closed>>
    /\ UNCHANGED <<snapshot, passed, deadline>>

\* The wait groups are waited for one after another, in the order of a map.  One
\* that is at zero is passed for good, also if its run is not launched yet.
PassWaitGroup(r) ==
    /\ server = "waiting"
    /\ r \in snapshot \ passed /\ waiting[r] = 0
    /\ passed' = passed \cup {r}
    /\ UNCHANGED <<interviewVars, runVars, server, snapshot, deadline, requested, launched>>

StopWaiting_AfterOne ==
    /\ server = "waiting"
    /\ deadline \/ snapshot = {} \/ passed # {}
    /\ server' = "closing"
    /\ UNCHANGED <<interviewVars, runVars, snapshot, passed, deadline, requested, launched>>

\* Every wait group of the snapshot was passed, or the deadline has.
StopWaiting ==
    /\ server = "waiting"
    /\ deadline \/ passed = snapshot
    /\ server' = "closing"
    /\ UNCHANGED <<interviewVars, runVars, snapshot, passed, deadline, requested, launched>>

\* Shutdown of the HTTP server makes ListenAndServe return, and main with it.
Exit ==
    /\ server = "closing"
    /\ server' = "exited"
    /\ UNCHANGED <<interviewVars, runVars, snapshot, passed, deadline, requested, launched>>

Shutdown == CancelSnapshot \/ (\E r \in Run : PassWaitGroup(r)) \/ StopWaiting \/ Exit

Next ==
    \/ \E r \in Run : Register(r) \/ Launch(r) \/ Goroutine(r) \/ Cancel(r)
    \/ Interview \/ \E q \in Question : AskEnds(q)
    \/ TakeSnapshot \/ DeadlinePasses \/ Shutdown

Spec == Init /\ [][Next]_vars

\* Goroutines that can go on do, Execute returns once its questions are closed
\* (an assumption: a streamed model call that is canceled need not return, see
\* LLMStream, and then Shutdown returns at its deadline only); no client has to
\* answer, to submit or to cancel, and nobody has to shut the server down; no
\* deadline has to pass.
FairSpec ==
    /\ Spec
    /\ \A r \in Run : WF_vars(Launch(r)) /\ WF_vars(Goroutine(r))
    /\ \A q \in Question : WF_vars(AskEnds(q))
    /\ WF_vars(Shutdown)

-----------------------------------------------------------------------------
(***************************************************************************)
(* Properties.                                                             *)
(***************************************************************************)
\* Every variable stays in its range.
TypeOK ==
    /\ InterviewTypeOK
    /\ registered \in SUBSET Run
    /\ waiting \in [Run -> Nat]
    /\ gopc \in [Run -> {"none", "executing", "succeeded", "erred", "settled",
                         "released", "closed", "done"}]
    /\ status \in [Run -> {"none", "running"} \cup Final]
    /\ canceled \in SUBSET Run /\ closed \in SUBSET Run
    /\ server \in {"serving", "canceling", "waiting", "closing", "exited"}
    /\ snapshot \in SUBSET Run /\ deadline \in BOOLEAN
    /\ passed \in SUBSET Run /\ launched \in SUBSET Run
    /\ requested \in SUBSET Run

\* A client whose event stream has ended finds the run in a final state, and
\* without open questions.
DoneIsFinal ==
    \A r \in closed : status[r] \in Final /\ Open(r) = {}

\* A run is reported canceled only if somebody canceled it: the goroutine
\* cancels the context of every run at its end, whatever the result.
CanceledOnRequest ==
    \A r \in Run : status[r] = "canceled" => r \in requested

\* A question that is offered to clients belongs to a run that is executing.
NoOrphanQuestion ==
    \A q \in pending : gopc[Owner[q]] = "executing"

\* Shutdown waits for the goroutines of the runs it found, unless its deadline
\* passes.
\* (The code does not keep this: see the README.)
ShutdownWaits ==
    server \in {"closing", "exited"} /\ ~deadline => \A r \in snapshot : gopc[r] = "done"

\* The same, for the runs whose goroutine was counted when it began to wait:
\* they have ended, whatever was launched behind its back meanwhile (Shutdown
\* waits for one wait group after another, and each is at zero before wg.Add).
LaunchedRunsEnd ==
    server \in {"closing", "exited"} /\ ~deadline => \A r \in launched : gopc[r] = "done"

\* The process ends with no run that nobody told to stop.
\* (The code does not keep this: see the README.)
NoRunLeftBehind ==
    server = "exited" => registered \subseteq canceled

\* Shutdown comes to an end, also before its deadline: the runs it canceled
\* end, even those that wait for an answer nobody gives (if every Execute that
\* is canceled returns).
ShutdownEnds == server = "canceling" ~> server = "exited"
=============================================================================
