------------------------------- MODULE Session -------------------------------
(***************************************************************************)
(* A session of the coding agent (internal/agent/session.go): the loop of  *)
(* Run, which calls the model, executes the tools it asks for and appends  *)
(* everything to the conversation, and the three calls other goroutines    *)
(* may make meanwhile: Steer, FollowUp and the cancellation of the         *)
(* context.                                                                *)
(*                                                                         *)
(* An action ends where the goroutine blocks, in the model or in a tool,   *)
(* or releases the mutex and a call of another goroutine would be seen.    *)
(* Messages are [role, of, n]: the n-th call or result of the of-th round, *)
(* or the n-th message of its role.                                        *)
(***************************************************************************)
EXTENDS LoopDetector, FiniteSets

CONSTANTS
    MaxRounds,    \* Config.MaxRounds
    LoopWindow,   \* Config.LoopDetectionWindow
    Signature,    \* the tool calls the model may ask for
    MaxCalls,     \* bound: tool calls in one response
    MaxInputs     \* bound: steering messages, and follow-ups, from outside

ASSUME SessionAssumption ==
    /\ MaxRounds \in Nat \ {0} /\ LoopWindow \in Nat \ {0}
    /\ MaxCalls \in Nat /\ MaxInputs \in Nat

VARIABLES
    pc,         \* "top", "calling", "turn", "tool", "inject", "ended"; "blocked"
                \* for good in Next of a stream
    rounds,
    failures,   \* consecutiveFailures
    messages,   \* the conversation
    steering,   \* queued steering messages
    followup,   \* queued follow-ups
    calls,      \* the tool calls of this response that are not yet executed
    signatures, \* the state of the loop detector
    done,       \* is the context done?
    streaming,  \* Config.Streaming
    ending,     \* how Run returned: "none", "natural", "aborted", "error"
    lastError,  \* the kind of the last error of the model
    steered,    \* history: steering messages so far
    external,   \* history: those of them from outside
    followed    \* history: follow-ups so far

queues == <<steering, followup, steered, external, followed>>
run    == <<pc, rounds, failures, messages, calls, signatures, ending, lastError>>
vars   == <<queues, run, done, streaming>>

FailureMax == 3

Message(role, of, n) == [role |-> role, of |-> of, n |-> n]

Init ==
    /\ pc = "top" /\ rounds = 0 /\ failures = 0
    /\ messages = <<Message("user", 0, 0)>>
    /\ steering = <<>> /\ followup = <<>> /\ calls = <<>> /\ signatures = <<>>
    /\ done = FALSE /\ streaming \in BOOLEAN /\ ending = "none" /\ lastError = "none"
    /\ steered = 0 /\ external = 0 /\ followed = 0

End(how) == pc' = "ended" /\ ending' = how

-----------------------------------------------------------------------------
(***************************************************************************)
(* Other goroutines; what is queued once Run has returned is never read.  *)
(***************************************************************************)
Steer ==
    /\ external < MaxInputs
    /\ external' = external + 1 /\ steered' = steered + 1
    /\ steering' = Append(steering, Message("steering", 0, steered'))
    /\ UNCHANGED <<run, done, streaming, followup, followed>>

FollowUp ==
    /\ followed < MaxInputs
    /\ followed' = followed + 1
    /\ followup' = Append(followup, Message("user", 0, followed'))
    /\ UNCHANGED <<run, done, streaming, steering, steered, external>>

Cancel == ~done /\ done' = TRUE /\ UNCHANGED <<queues, run, streaming>>

-----------------------------------------------------------------------------
(***************************************************************************)
(* The loop of Run.                                                        *)
(***************************************************************************)
Abort ==
    /\ pc = "top"
    /\ done \/ rounds >= MaxRounds
    /\ End("aborted")
    /\ UNCHANGED <<queues, rounds, failures, messages, calls, signatures, lastError>>
    /\ UNCHANGED <<done, streaming>>

CallModel ==
    /\ pc = "top" /\ ~done /\ rounds < MaxRounds
    /\ rounds' = rounds + 1
    /\ pc' = "calling"
    /\ UNCHANGED <<queues, failures, messages, calls, signatures, ending, lastError>>
    /\ UNCHANGED <<done, streaming>>

ModelFails_Free(kind) ==
    /\ pc = "calling"
    /\ kind = "abort" => done
    /\ rounds' = rounds - 1
    /\ lastError' = kind
    /\ IF kind # "retryable" THEN End("error") ELSE pc' = "top" /\ UNCHANGED ending
    /\ UNCHANGED <<queues, failures, messages, calls, signatures, done, streaming>>

\* The model fails.  Once the context is done the client gives up with an
\* AbortError, which is not retryable, on a call that is not streamed and on one
\* whose stream is not open yet; other errors may be retryable.
ModelFails(kind) ==
    /\ pc = "calling"
    /\ kind = "abort" => done
    /\ failures' = failures + 1
    /\ lastError' = kind
    /\ IF failures' >= FailureMax \/ kind # "retryable"
       THEN End("error")
       ELSE pc' = "top" /\ UNCHANGED ending
    /\ UNCHANGED <<queues, rounds, messages, calls, signatures, done, streaming>>

\* A streamed call whose context is done need not return: its reader may leave
\* without a word, and then Next waits for it forever (run llm_cancel).
StreamBlocks ==
    /\ pc = "calling" /\ streaming /\ done
    /\ pc' = "blocked"
    /\ UNCHANGED <<queues, rounds, failures, messages, calls, signatures>>
    /\ UNCHANGED <<ending, lastError, done, streaming>>

\* The model answers with the tool calls asked; full: the context window is
\* at 80 per cent, and the session steers itself.
ModelAnswers(asked, full) ==
    /\ pc = "calling"
    /\ failures' = 0
    /\ messages' = Append(messages, Message("assistant", rounds, Len(asked)))
    /\ IF full
       THEN /\ steered' = steered + 1
            /\ steering' = Append(steering, Message("steering", 0, steered'))
       ELSE UNCHANGED <<steered, steering>>
    /\ calls' = asked
    /\ pc' = "turn"
    /\ UNCHANGED <<rounds, followup, external, followed, signatures, ending, lastError>>
    /\ UNCHANGED <<done, streaming>>

ExitOrFollowUp_Exits ==
    /\ pc = "turn" /\ calls = <<>>
    /\ End("natural")
    /\ UNCHANGED <<queues, messages, rounds, failures, calls, signatures, lastError>>
    /\ UNCHANGED <<done, streaming>>

\* No tool calls: the next follow-up is taken, or the session ends.
ExitOrFollowUp ==
    /\ pc = "turn" /\ calls = <<>>
    /\ IF followup # <<>>
       THEN /\ messages' = Append(messages, Head(followup))
            /\ followup' = Tail(followup)
            /\ pc' = "top" /\ UNCHANGED ending
       ELSE End("natural") /\ UNCHANGED <<messages, followup>>
    /\ UNCHANGED <<steering, steered, external, followed, rounds, failures, calls,
                   signatures, done, streaming, lastError>>

\* The next tool call goes through the loop detector and is executed.
StartTool ==
    /\ pc = "turn" /\ calls # <<>>
    /\ signatures' = Recorded(signatures, Head(calls), LoopWindow)
    /\ IF Record(signatures, Head(calls), LoopWindow)
       THEN /\ steered' = steered + 1
            /\ steering' = Append(steering, Message("steering", 0, steered'))
       ELSE UNCHANGED <<steered, steering>>
    /\ pc' = "tool"
    /\ UNCHANGED <<followup, external, followed, rounds, failures, messages, calls,
                   done, streaming, ending, lastError>>

\* How many calls of the current round have a result.
Answered ==
    Cardinality({i \in DOMAIN messages : messages[i].role = "tool" /\ messages[i].of = rounds})

FinishTool_Steers ==
    /\ pc = "tool"
    /\ messages' = Append(messages, Message("tool", rounds, Answered + 1)) \o steering
    /\ steering' = <<>>
    /\ calls' = Tail(calls)
    /\ pc' = IF calls' = <<>> THEN "inject" ELSE "turn"
    /\ UNCHANGED <<followup, steered, external, followed, rounds, failures, signatures,
                   done, streaming, ending, lastError>>

\* The result, or the error, of the tool is appended.
FinishTool ==
    /\ pc = "tool"
    /\ messages' = Append(messages, Message("tool", rounds, Answered + 1))
    /\ calls' = Tail(calls)
    /\ pc' = IF calls' = <<>> THEN "inject" ELSE "turn"
    /\ UNCHANGED <<queues, rounds, failures, signatures, done, streaming, ending, lastError>>

InjectSteering_OnlyFirst ==
    /\ pc = "inject"
    /\ messages' = IF steering = <<>> THEN messages ELSE Append(messages, Head(steering))
    /\ steering' = <<>>
    /\ pc' = "top"
    /\ UNCHANGED <<followup, steered, external, followed, rounds, failures, calls, signatures,
                   done, streaming, ending, lastError>>

InjectSteering ==
    /\ pc = "inject"
    /\ messages' = messages \o steering
    /\ steering' = <<>>
    /\ pc' = "top"
    /\ UNCHANGED <<followup, steered, external, followed, rounds, failures, calls, signatures,
                   done, streaming, ending, lastError>>

Responses == UNION {[1..n -> Signature] : n \in 0..MaxCalls}

RunStep ==
    \/ Abort \/ CallModel
    \/ \E kind \in {"retryable", "fatal", "abort"} : ModelFails(kind)
    \/ StreamBlocks
    \/ \E asked \in Responses, full \in BOOLEAN : ModelAnswers(asked, full)
    \/ ExitOrFollowUp \/ StartTool \/ FinishTool \/ InjectSteering

Next == (pc # "ended" /\ (Steer \/ FollowUp)) \/ Cancel \/ RunStep

Spec == Init /\ [][Next]_vars

\* The model and the tools return, but for a streamed call that is canceled.
FairSpec == Spec /\ WF_vars(RunStep)

-----------------------------------------------------------------------------
(***************************************************************************)
(* Properties.                                                             *)
(***************************************************************************)
Count == 0..(MaxInputs + MaxRounds * (MaxCalls + 1))

\* Every variable stays in its range; no round is counted beyond the limit
\* and the failures in a row never pass the circuit breaker.
TypeOK ==
    /\ pc \in {"top", "calling", "turn", "tool", "inject", "ended", "blocked"}
    /\ rounds \in 0..MaxRounds
    /\ failures \in 0..FailureMax
    /\ \A i \in DOMAIN messages :
           messages[i].role \in {"user", "assistant", "tool", "steering"}
    /\ calls \in Responses
    /\ Len(signatures) <= LoopWindow
    /\ done \in BOOLEAN /\ streaming \in BOOLEAN
    /\ ending \in {"none", "natural", "aborted", "error"}
    /\ lastError \in {"none", "retryable", "fatal", "abort"}
    /\ steered \in Count /\ external \in 0..MaxInputs /\ followed \in 0..MaxInputs

\* In every request the model gets, each tool call of an assistant message
\* has its result, in order and directly behind it, and no result is without
\* its call: providers reject anything else.  Steering from inside and
\* outside must not come between them.
ToolCallsAnswered ==
    pc \in {"top", "calling"} =>
        \A i \in DOMAIN messages :
            /\ messages[i].role = "assistant" =>
                 /\ i + messages[i].n <= Len(messages)
                 /\ \A k \in 1..messages[i].n :
                        messages[i + k] = Message("tool", messages[i].of, k)
            /\ messages[i].role = "tool" =>
                 /\ messages[i].n < i
                 /\ LET asking == messages[i - messages[i].n] IN
                    /\ asking.role = "assistant" /\ asking.of = messages[i].of
                    /\ messages[i].n <= asking.n

\* The messages of the role in said are those numbered, each once and in order.
Kept(said, role, numbers) ==
    LET of == {i \in DOMAIN said : said[i].role = role} IN
    /\ \A n \in numbers : \E i \in of : said[i] = Message(role, 0, n)
    /\ \A i \in of : said[i].of = 0 /\ said[i].n \in numbers
    /\ \A i, j \in of : i < j => said[i].n < said[j].n

\* Nothing said to the session is lost or said twice or out of order: every
\* steering message and every follow-up is in the conversation or queued.
InputsKept ==
    /\ Kept(messages \o steering, "steering", 1..steered)
    /\ Kept(messages \o followup, "user", 0..followed)
    /\ \A i \in DOMAIN steering : steering[i].role = "steering"
    /\ \A i \in DOMAIN followup : followup[i].role = "user"

\* A session ends by itself only with nothing left to do: the last message is
\* an answer without tool calls that no follow-up was waiting for.
NaturalExit ==
    [][ending' = "natural" /\ ending = "none" =>
          /\ messages[Len(messages)].role = "assistant"
          /\ messages[Len(messages)].n = 0
          /\ followup = <<>>]_vars

\* Run returns: failing calls, tool calls and follow-ups use up the rounds or trip
\* the circuit breaker.  Only a streamed call that is canceled may keep it.
SessionEnds == <>(pc = "ended" \/ (pc = "blocked" /\ streaming /\ done))

\* What was said to steer the session is in the conversation when the next
\* turn begins.
\* (The code does not keep this: see the README.)
SteeringInNextTurn ==
    [][(pc \in {"turn", "inject"} /\ pc' = "top") => steering' = <<>>]_vars

\* A session whose model call was given up because its context was canceled
\* is reported as aborted.
\* (The code does not keep this: see the README.)
CancelAborts ==
    pc = "ended" /\ lastError = "abort" => ending = "aborted"
=============================================================================
