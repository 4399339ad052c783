------------------------------ MODULE LLMStream -------------------------------
(***************************************************************************)
(* A streamed answer of a model: a turn of the agent reads it              *)
(* (internal/agent/session.go, streamTurn) from a Stream                   *)
(* (internal/llm/stream.go), into which a goroutine of the provider        *)
(* translates what the server sends (readStream in internal/llm/provider,  *)
(* modules AnthropicStream, OpenAIStream and GeminiStream).  The retry     *)
(* middleware opens the stream (internal/llm/middleware.go); an adapter    *)
(* that cannot stream answers at once, and its answer is put into a stream *)
(* that is complete before it is read.                                     *)
(***************************************************************************)
EXTENDS AnthropicStream, OpenAIStream, GeminiStream

CONSTANTS
    Providers,   \* the adapters the session may use: "anthropic", "openai",
                 \* "gemini", or "whole", one that cannot stream
    Cap,         \* capacity of the channel
    MaxRetries,  \* RetryPolicy.MaxRetries
    MaxWire,     \* bound: events of the server
    MayCancel,   \* may the context of the turn be canceled?
    MayLeave     \* may the reader close the stream early, as any user of a
                 \* Stream but streamTurn may?

ASSUME StreamAssumption ==
    /\ Providers \subseteq {"anthropic", "openai", "gemini", "whole"}
    /\ Cap \in Nat \ {0} /\ MaxRetries \in Nat /\ MaxWire \in Nat
    /\ MayCancel \in BOOLEAN /\ MayLeave \in BOOLEAN

VARIABLES
    provider,  \* the adapter
    attempt,   \* the attempt at opening the stream, from 0
    reader,    \* streamTurn: "opening", "backoff", "reading", "closing",
               \* "draining", "ended"
    outcome,   \* what it returns: "none", "response", or the kind of an error
    given,     \* history: the events the reader was given
    producer,  \* readStream: "none", "more" (reading on), "respond" or "fail"
               \* (about to finish so), "ended", "left" without Finish
    pending,   \* the events it sends before it goes on
    received,  \* events of the server so far
    server,    \* what they were
    acc,       \* what readStream has gathered
    body,      \* the response body: "none", "open", "eof", "broken", "closed"
    ch, closed,
    resp, err, \* what Finish set: is there a response, and the kind of error
    ctxDone,   \* is the context of the turn done, and that of the stream?
    streamDone

turnVars   == <<attempt, reader, outcome, given>>
readVars   == <<producer, pending, received, server, acc>>
streamVars == <<ch, closed, resp, err>>
vars       == <<provider, turnVars, readVars, streamVars, body, ctxDone, streamDone>>

Init ==
    /\ provider \in Providers
    /\ attempt = 0 /\ reader = "opening" /\ outcome = "none" /\ given = <<>>
    /\ producer = "none" /\ pending = <<>> /\ received = 0
    /\ server = NoAnswer /\ acc = EmptyAcc
    /\ body = "none" /\ ch = <<>> /\ closed = FALSE
    /\ resp = FALSE /\ err = "none"
    /\ ctxDone = FALSE /\ streamDone = FALSE

\* The context of the stream is derived from that of the turn, unless the
\* stream was filled at once.
Cancel ==
    /\ MayCancel /\ ~ctxDone
    /\ ctxDone' = TRUE /\ streamDone' = (streamDone \/ provider # "whole")
    /\ UNCHANGED <<provider, turnVars, readVars, streamVars, body>>

-----------------------------------------------------------------------------
(***************************************************************************)
(* Opening the stream.                                                     *)
(***************************************************************************)
Finish(response, kind) ==
    /\ producer' = "ended"
    /\ resp' = response /\ err' = kind /\ closed' = TRUE

\* The count of the attempts ends with the loop.
Opened ==
    /\ reader = "opening" /\ provider # "whole"
    /\ reader' = "reading" /\ producer' = "more" /\ body' = "open" /\ attempt' = 0
    /\ UNCHANGED <<provider, outcome, given, pending, received, server, acc, streamVars,
                   ctxDone, streamDone>>

\* Three events for each of the n parts.
WholeParts(n) ==
    [k \in 1..3 * n |->
        LET i == (k - 1) \div 3
        IN  CASE k % 3 = 1 -> Plain("start", i)
              [] k % 3 = 2 -> StreamEvent("delta", i, << i + 1 >>)
              [] OTHER     -> Plain("stop", i)]

\* The channel is made large enough for an answer of n parts.
OpenedWhole(n) ==
    /\ reader = "opening" /\ provider = "whole"
    /\ reader' = "reading"
    /\ acc' = [acc EXCEPT !.content = [i \in 1..n |-> Part(i - 1, i - 1, <<i>>)]]
    /\ ch' = << Plain("meta", NoBlock) >> \o WholeParts(n) \o << Plain("usage", NoBlock) >>
    /\ Finish(TRUE, "none")
    /\ UNCHANGED <<provider, attempt, outcome, given, pending, received, server, body,
                   ctxDone, streamDone>>

\* No attempt is left to make, or to be made: the error is returned, or put
\* into a stream.
GiveUp(kind) ==
    IF provider = "whole"
    THEN /\ reader' = "reading" /\ Finish(FALSE, kind)
         /\ UNCHANGED <<outcome, ch>>
    ELSE /\ reader' = "ended" /\ outcome' = kind
         /\ UNCHANGED <<producer, streamVars>>

\* What may go wrong: the connection, or the status of the response.
Causes == {"network", "429", "5xx", "4xx"}

Kind(cause) == IF cause = "4xx" THEN "fatal" ELSE "retryable"

OpeningFails(cause) ==
    /\ reader = "opening"
    /\ IF Kind(cause) = "fatal" \/ attempt = MaxRetries
       THEN GiveUp(Kind(cause))
       ELSE reader' = "backoff" /\ UNCHANGED <<outcome, producer, streamVars>>
    /\ UNCHANGED <<provider, attempt, given, pending, received, server, acc, body,
                   ctxDone, streamDone>>

BackoffEnds ==
    /\ reader = "backoff"
    /\ \/ reader' = "opening" /\ attempt' = attempt + 1
          /\ UNCHANGED <<outcome, producer, streamVars>>
       \/ ctxDone /\ GiveUp("abort") /\ UNCHANGED attempt
    /\ UNCHANGED <<provider, given, pending, received, server, acc, body, ctxDone, streamDone>>

Open ==
    \/ Opened \/ (\E n \in 0..Cardinality(Index) : OpenedWhole(n))
    \/ BackoffEnds \/ (\E cause \in Causes : OpeningFails(cause))

-----------------------------------------------------------------------------
(***************************************************************************)
(* The provider's goroutine.                                               *)
(***************************************************************************)
ServerSends ==
    CASE provider = "anthropic" -> AnthropicSends(server)
      [] provider = "openai"    -> OpenAISends(server)
      [] provider = "gemini"    -> GeminiSends(server)
      [] OTHER -> {}

MakesOf(event, told, n) ==
    CASE provider = "anthropic" -> AnthropicReads(acc, event, n)
      [] provider = "openai"    -> OpenAIReads(acc, event, told, n)
      [] provider = "gemini"    -> GeminiReads(acc, event, told, n)

\* The next event of the server, and what is made of it.
Receive ==
    /\ producer = "more" /\ pending = <<>> /\ body = "open" /\ received < MaxWire
    /\ received' = received + 1
    /\ \E event \in ServerSends :
           /\ server' = After(server, event, received')
           /\ \E reads \in MakesOf(event, server', received') :
                  acc' = reads.acc /\ pending' = reads.sends /\ producer' = reads.then
    /\ UNCHANGED <<provider, turnVars, streamVars, body, ctxDone, streamDone>>

\* The body ends, or breaks off, which it does when the context of the turn
\* is done.  The scanner reports both as an error.
BodyEnds(how) ==
    /\ producer = "more" /\ pending = <<>> /\ body = "open"
    /\ body' = how
    /\ Finish(FALSE, "retryable")
    /\ UNCHANGED <<provider, turnVars, pending, received, server, acc, ch, ctxDone, streamDone>>

\* Send: the two cases of the select.
Sent ==
    /\ producer # "left" /\ pending # <<>> /\ Len(ch) < Cap
    /\ ch' = Append(ch, Head(pending).event)
    /\ pending' = Tail(pending)
    /\ UNCHANGED <<provider, turnVars, producer, received, server, acc, closed, resp, err, body,
                   ctxDone, streamDone>>

SendGivesUp ==
    /\ producer # "left" /\ pending # <<>> /\ streamDone
    /\ producer' = IF Head(pending).must THEN "left" ELSE producer
    /\ pending' = Tail(pending)
    /\ UNCHANGED <<provider, turnVars, received, server, acc, streamVars, body,
                   ctxDone, streamDone>>

FinishResponded ==
    /\ producer = "respond" /\ pending = <<>>
    /\ Finish(TRUE, "none")
    /\ UNCHANGED <<provider, turnVars, pending, received, server, acc, ch, body,
                   ctxDone, streamDone>>

FinishFailed_Leaves ==
    /\ producer = "fail" /\ pending = <<>>
    /\ producer' = "left"
    /\ UNCHANGED <<provider, turnVars, pending, received, server, acc, streamVars, body,
                   ctxDone, streamDone>>

FinishFailed ==
    /\ producer = "fail" /\ pending = <<>>
    /\ Finish(FALSE, "fatal")
    /\ UNCHANGED <<provider, turnVars, pending, received, server, acc, ch, body,
                   ctxDone, streamDone>>

Read == Receive \/ \E how \in {"eof", "broken"} : BodyEnds(how)

Produce == Read \/ Sent \/ SendGivesUp \/ FinishResponded \/ FinishFailed

-----------------------------------------------------------------------------
(***************************************************************************)
(* The turn: the loop over Next, then the deferred Close.                  *)
(***************************************************************************)
\* Next gives the reader an event.  What streamTurn tells the listeners of the
\* session of it is not modelled: it passes on the names of the response and
\* the deltas, and its emitter may drop those.
NextGives ==
    /\ reader = "reading" /\ ch # <<>>
    /\ ch' = Tail(ch)
    /\ given' = Append(given, Head(ch))
    /\ IF Head(ch).type = "error"
       THEN reader' = "closing" /\ outcome' = "fatal"
       ELSE UNCHANGED <<reader, outcome>>
    /\ UNCHANGED <<provider, attempt, readVars, closed, resp, err, body, ctxDone, streamDone>>

NextIsLast_AtClose ==
    /\ reader = "reading" /\ closed
    /\ reader' = "closing"
    /\ outcome' = IF err # "none" THEN err ELSE IF resp THEN "response" ELSE "fatal"
    /\ UNCHANGED <<provider, attempt, given, readVars, streamVars, body, ctxDone, streamDone>>

\* The channel is closed and empty; only now are Err and Response looked at.
NextIsLast ==
    /\ reader = "reading" /\ ch = <<>> /\ closed
    /\ reader' = "closing"
    /\ outcome' = IF err # "none" THEN err ELSE IF resp THEN "response" ELSE "fatal"
    /\ UNCHANGED <<provider, attempt, given, readVars, streamVars, body, ctxDone, streamDone>>

StopEarly ==
    /\ MayLeave /\ reader = "reading"
    /\ reader' = "closing" /\ outcome' = "abort"
    /\ UNCHANGED <<provider, attempt, given, readVars, streamVars, body, ctxDone, streamDone>>

CloseCancels ==
    /\ reader = "closing"
    /\ reader' = "draining" /\ streamDone' = TRUE
    /\ UNCHANGED <<provider, attempt, outcome, given, readVars, streamVars, body, ctxDone>>

CloseDrains ==
    /\ reader = "draining" /\ ch # <<>>
    /\ ch' = Tail(ch)
    /\ UNCHANGED <<provider, turnVars, readVars, closed, resp, err, body, ctxDone, streamDone>>

CloseReturns_Undrained ==
    /\ reader = "draining"
    /\ reader' = "ended" /\ body' = "closed"
    /\ UNCHANGED <<provider, attempt, outcome, given, readVars, streamVars, ctxDone, streamDone>>

CloseReturns ==
    /\ reader = "draining" /\ ch = <<>> /\ closed
    /\ reader' = "ended" /\ body' = "closed"
    /\ UNCHANGED <<provider, attempt, outcome, given, readVars, streamVars, ctxDone, streamDone>>

Turn == Open \/ NextGives \/ NextIsLast \/ CloseCancels \/ CloseDrains \/ CloseReturns

Next == Cancel \/ Produce \/ Turn \/ StopEarly

Spec == Init /\ [][Next]_vars

\* Servers answer and end their answers, and both goroutines go on.
FairSpec == Spec /\ WF_vars(Produce) /\ WF_vars(Turn)

-----------------------------------------------------------------------------
(***************************************************************************)
(* Properties.                                                             *)
(***************************************************************************)
\* Every variable stays in its range; no attempt is made beyond the policy.
TypeOK ==
    /\ provider \in Providers /\ attempt \in 0..MaxRetries
    /\ reader \in {"opening", "backoff", "reading", "closing", "draining", "ended"}
    /\ outcome \in {"none", "response", "retryable", "fatal", "abort"}
    /\ producer \in {"none", "more", "respond", "fail", "ended", "left"}
    /\ received \in 0..MaxWire /\ acc.known \subseteq Index
    /\ provider # "whole" => Len(ch) <= Cap
    /\ resp \in BOOLEAN /\ err \in {"none", "retryable", "fatal", "abort"}

\* Of the events given: the deltas of a block, and the blocks begun.
Deltas(events, i) == {k \in DOMAIN events : events[k].type = "delta" /\ events[k].index = i}
Started(events)   == {events[k].index : k \in {n \in DOMAIN events : events[n].type = "start"}}

\* The deltas of the block are the pieces of the text, in its order.
Spelled(events, i, text) ==
    /\ Len(text) = Cardinality(Deltas(events, i))
    /\ \A k \in Deltas(events, i) :
           events[k].text = << text[Cardinality({j \in Deltas(events, i) : j <= k})] >>

\* The last delta of the block is all of the text.
SaidLast(events, i, text) ==
    /\ Deltas(events, i) # {}
    /\ \A k \in Deltas(events, i) :
           (\A j \in Deltas(events, i) : j <= k) => events[k].text = text

\* Who is given these events of an adapter knows the content of the response.
Shows(events, content, adapter) ==
    /\ {part.index : part \in Range(content)} = Started(events)
    /\ \A part \in Range(content) :
           IF adapter = "gemini"
           THEN /\ SaidLast(events, part.index, part.text)
                /\ part.id = part.index \/ part.id \in Started(events) \cap Tools
           ELSE Spelled(events, part.index, part.text) /\ part.id = part.index

\* What the reader of the stream was given by Next is what Response returns.
\* Every part of the response was begun in an event, and every block begun is a
\* part; its text is what its deltas said, piece by piece and in order (Gemini's
\* deltas repeat the text so far, and the last one counts); and a tool call has
\* an identifier that was announced with a tool call, which is the same one
\* except with Gemini.
StreamedIsReturned == outcome = "response" => Shows(given, acc.content, provider)

\* The body is closed only once the goroutine that reads it is through, also
\* when the turn is canceled: a turn leaves no goroutine behind that still
\* reads or sends.
BodyClosedLast ==
    body = "closed" => producer = "ended" /\ closed

\* A turn ends, and the body it opened is closed then.
\* (The code does not keep this: see the README.)
TurnEnds == <>(reader = "ended" /\ body \in {"none", "closed"})

\* So it does if nobody interrupts it, however the answer breaks off.
UninterruptedTurnEnds ==
    <>(ctxDone \/ outcome = "abort" \/ (reader = "ended" /\ body \in {"none", "closed"}))

\* A body that ends properly but without the end of the message is not a
\* failure to repeat the request for.
\* (The code does not keep this: see the README.)
EndWithoutStopIsFatal ==
    body = "eof" => err # "retryable"
=============================================================================
