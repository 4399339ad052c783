------------------------------ MODULE Requests -------------------------------
(***************************************************************************)
(* What the model is sent: a session translates its conversation into a    *)
(* request (internal/agent/session.go, buildRequest), and the adapter of   *)
(* a provider that into the messages of its API (internal/llm/provider/    *)
(* anthropic.go, openai.go and gemini.go, buildRequest).                   *)
(*                                                                         *)
(* A block is a text, a tool call or a tool result; a call and the result  *)
(* that has its identifier are of the same message.                        *)
(***************************************************************************)
EXTENDS Session, SequencesExt

CONSTANTS
    Adapters,   \* "anthropic", "openai", "gemini"
    Silent      \* rounds in which the answer of the model has no text

ASSUME RequestAssumption == Adapters \subseteq {"anthropic", "openai", "gemini"}

Block(kind, m) == [kind |-> kind, of |-> m]
Said(role, content) == [role |-> role, content |-> content]

TextOf(m)  == IF m.role = "assistant" /\ m.of \in Silent THEN <<>> ELSE << Block("text", m) >>
CallsOf(m) == [k \in 1..m.n |-> Block("call", Message("tool", m.of, k))]

\* agentToLLMMessage
LLMMessage_TextOrCalls(m) ==
    CASE m.role = "assistant" -> Said("assistant", IF TextOf(m) # <<>> THEN TextOf(m) ELSE CallsOf(m))
      [] m.role = "tool" -> Said("tool", << Block("result", m) >>)
      [] OTHER -> Said("user", TextOf(m))

LLMMessage(m) ==
    CASE m.role = "assistant" -> Said("assistant", TextOf(m) \o CallsOf(m))
      [] m.role = "tool" -> Said("tool", << Block("result", m) >>)
      [] OTHER -> Said("user", TextOf(m))

\* buildRequest of the session: the system prompt and the conversation.
Prompt == Said("system", << Block("text", Message("system", 0, 0)) >>)

BuildRequest == << Prompt >> \o [i \in DOMAIN messages |-> LLMMessage(messages[i])]

-----------------------------------------------------------------------------
(***************************************************************************)
(* The adapters put the system prompt elsewhere, and the roles of a        *)
(* conversation are the provider's.                                        *)
(***************************************************************************)
\* The elements at some places of a sequence, in their order: SelectSeq, but
\* not a recursive definition, which the provers could not expand.
Picked(seq, places) ==
    [k \in 1..Cardinality(places) |->
        seq[CHOOSE i \in places : Cardinality({j \in places : j <= i}) = k]]

Conversation(request) == Picked(request, {i \in DOMAIN request : request[i].role # "system"})

EmptyText == Block("text", Message("none", 0, 0))

AnthropicMessage(m) ==
    Said(IF m.role = "assistant" THEN "assistant" ELSE "user",
         IF m.content = <<>> THEN << EmptyText >> ELSE m.content)

\* Message.Text: other parts are left out, and so is the identifier.
OpenAIMessage(m) ==
    Said(m.role, Picked(m.content, {k \in DOMAIN m.content : m.content[k].kind = "text"}))

\* A call is sent with its name only, and its result with the identifier of the
\* call in the place of the name: `of' tells them apart here, not on the wire.
GeminiContent(m) == Said(IF m.role = "assistant" THEN "model" ELSE "user", m.content)

\* A message without parts is not sent.
GeminiContents(said) ==
    LET sent == Picked(said, {i \in DOMAIN said : said[i].content # <<>>})
    IN  [i \in DOMAIN sent |-> GeminiContent(sent[i])]

Wire(adapter) ==
    LET said == Conversation(BuildRequest) IN
    CASE adapter = "anthropic" -> [i \in DOMAIN said |-> AnthropicMessage(said[i])]
      [] adapter = "openai"    -> [i \in DOMAIN said |-> OpenAIMessage(said[i])]
      [] adapter = "gemini"    -> GeminiContents(said)

-----------------------------------------------------------------------------
(***************************************************************************)
(* Properties of the request that is sent.                                 *)
(***************************************************************************)
BlocksOf(wire) == (UNION {ToSet(wire[i].content) : i \in DOMAIN wire}) \ {EmptyText}

\* What of a message the model must be told.
Parts(m) ==
    CASE m.role = "tool" -> {Block("result", m)}
      [] m.role = "assistant" -> ToSet(TextOf(m))
                                 \cup {Block("call", Message("tool", m.of, k)) : k \in 1..m.n}
      [] OTHER -> {Block("text", m)}

\* The whole conversation reaches the model, once and in its order: what was
\* said to it, what it said itself, what it asked for and what came of that.
\* The result of a tool call is in a message of the user's side, and between it
\* and the message with the call there are only other results.
HistoryReachesModel ==
    pc = "calling" =>
        \A adapter \in Adapters :
            LET wire  == Wire(adapter)
                parts == [i \in DOMAIN messages |-> Parts(messages[i])]
                Is(i, kind) == \E k \in DOMAIN wire[i].content : wire[i].content[k].kind = kind
                Asks(i, m)  == Block("call", m) \in ToSet(wire[i].content)
            IN  /\ BlocksOf(wire) = UNION Range(parts)
                /\ \A i, j \in DOMAIN wire :
                   \A k \in DOMAIN wire[i].content, l \in DOMAIN wire[j].content :
                       LET b == wire[i].content[k]
                           c == wire[j].content[l]
                       IN  EmptyText \notin {b, c} =>
                             /\ b = c => i = j /\ k = l
                             /\ i <= j => \E x, y \in DOMAIN parts :
                                             x <= y /\ b \in parts[x] /\ c \in parts[y]
                /\ \A i \in DOMAIN wire : Is(i, "result") =>
                       /\ wire[i].role = "user"
                       /\ \E j \in 1..i - 1 :
                              /\ Asks(j, wire[i].content[1].of)
                              /\ \A k \in j + 1..i : Is(k, "result")

\* The results of the tools, errors among them, are passed to the model.
\* (The code does not keep this with OpenAI: see the README.)
ResultsReachModel ==
    pc = "calling" =>
        \A adapter \in Adapters, i \in DOMAIN messages :
            messages[i].role = "tool" =>
                Block("result", messages[i]) \in BlocksOf(Wire(adapter))
=============================================================================
