---------------------------- MODULE OpenAIStream ----------------------------
(***************************************************************************)
(* internal/llm/provider/openai_stream.go.  A block is an output item: a   *)
(* message, whose one content part is added after it, or a function call.  *)
(***************************************************************************)
EXTENDS StreamEvents

OpenAISends(server) ==
    LET open == server.begun \ server.stopped IN
    OfBlocks("start", Index \ server.begun)
    \cup OfBlocks("part", open \ (Tools \cup server.parted))
    \cup OfBlocks("delta", open \cap (Tools \cup server.parted))
    \cup OfBlocks("stop", open)
    \cup OfAnswer({"error"})
    \cup (IF server = NoAnswer THEN OfAnswer({"meta"}) ELSE {})
    \cup (IF server.begun = server.stopped THEN OfAnswer({"end"}) ELSE {})

\* The end of an item holds all of it; the part of a message may be missing.
OpenAIBuilds(acc, event, server) ==
    LET i == event.index IN
    CASE event.type = "start" -> [acc EXCEPT !.known = @ \cup {i}]
      [] event.type = "stop" ->
            IF i \in Tools \cup server.parted
            THEN [acc EXCEPT !.content = Append(@, Part(i, i, server.said[i]))] ELSE acc
      [] OTHER -> acc

\* The end of an item is announced under an index of any item added so far: the
\* first one the iteration over the map comes to.
OpenAIForwards(acc, event, n) ==
    CASE event.type = "start" ->
            IF event.index \in Tools THEN { << Checked(Plain("start", event.index)) >> } ELSE { << >> }
      [] event.type = "part"  -> { << Checked(Plain("start", event.index)) >> }
      [] event.type = "delta" -> { << Checked(StreamEvent("delta", event.index, <<n>>)) >> }
      [] event.type = "stop"  ->
            IF acc.known = {} THEN { << >> } ELSE { << Checked(Plain("stop", i)) >> : i \in acc.known }
      [] event.type = "meta"  -> { << Checked(Plain("meta", NoBlock)) >> }
      [] event.type = "end"   -> { << Unchecked(Plain("usage", NoBlock)) >> }
      [] event.type = "error" -> { << Unchecked(Plain("error", NoBlock)) >> }
      [] OTHER -> { << >> }

OpenAIReads(acc, event, server, n) ==
    { Reads(OpenAIBuilds(acc, event, server), sends,
            CASE event.type = "end" -> "respond" [] event.type = "error" -> "fail"
              [] OTHER -> "more") : sends \in OpenAIForwards(acc, event, n) }
=============================================================================
