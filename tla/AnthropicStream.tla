--------------------------- MODULE AnthropicStream ---------------------------
(* internal/llm/provider/anthropic_stream.go                                *)
EXTENDS StreamEvents

AnthropicSends(server) ==
    OfBlocks("start", Index \ server.begun)
    \cup OfBlocks("delta", server.begun \ server.stopped)
    \cup OfBlocks("stop", server.begun \ server.stopped)
    \cup OfAnswer({"error"})
    \cup (IF server = NoAnswer THEN OfAnswer({"meta"}) ELSE {})
    \cup (IF server.begun = server.stopped THEN OfAnswer({"usage", "end"}) ELSE {})

\* The blocks are built as their events are sent on; a stop moves its block
\* into the response.
AnthropicBuilds(acc, event, n) ==
    LET i == event.index IN
    CASE event.type = "start" ->
            [acc EXCEPT !.known = @ \cup {i}, !.text[i] = << >>]
      [] event.type = "delta" /\ i \in acc.known ->
            [acc EXCEPT !.text[i] = Append(@, n)]
      [] event.type = "stop" /\ i \in acc.known ->
            [acc EXCEPT !.content = Append(@, Part(i, i, acc.text[i]))]
      [] OTHER -> acc

\* Events that belong to no block are not sent on.
AnthropicForwards(acc, event, n) ==
    CASE event.type = "delta" ->
            IF event.index \in acc.known THEN << Checked(StreamEvent("delta", event.index, <<n>>)) >>
                                         ELSE << >>
      [] event.type = "stop" ->
            IF event.index \in acc.known THEN << Checked(Plain("stop", event.index)) >> ELSE << >>
      [] event.type \in {"start", "meta", "usage"} -> << Checked(Plain(event.type, event.index)) >>
      [] event.type = "error" -> << Unchecked(Plain("error", NoBlock)) >>
      [] OTHER -> << >>

AnthropicReads(acc, event, n) ==
    { Reads(AnthropicBuilds(acc, event, n), AnthropicForwards(acc, event, n),
            CASE event.type = "end" -> "respond" [] event.type = "error" -> "fail"
              [] OTHER -> "more") }
=============================================================================
