---------------------------- MODULE GeminiStream ----------------------------
(***************************************************************************)
(* internal/llm/provider/gemini_stream.go.  Every event of the server is   *)
(* a chunk that repeats the answer so far, with a part added or longer, or *)
(* as it was; one with a finish reason is the last.  A chunk without       *)
(* candidates only counts tokens.                                          *)
(***************************************************************************)
EXTENDS StreamEvents

Chunk(type, i, last) == [type |-> type, index |-> i, last |-> last]

\* The next part, or the last one if it is text.
GeminiSends(server) ==
    LET count == Cardinality(server.begun)
        growing == {i \in Index : i = count \/ (i = count - 1 /\ i \notin Tools)}
    IN  {Chunk("extend", i, last) : i \in growing, last \in BOOLEAN}
        \cup {Chunk("repeat", NoBlock, last) : last \in BOOLEAN}
        \cup {Chunk("tokens", NoBlock, FALSE)}

\* The parts that were sent before are sent again, with the whole of their text
\* and not what is new in it; a new part is started first.
SendsParts(acc, server) ==
    LET before  == Cardinality(acc.known)   \* prevPartCount
        new     == Cardinality(server.begun) - before
        Text(i) == Checked(StreamEvent("delta", i, server.said[i]))
    IN  [k \in 1..before |-> Text(k - 1)]
        \o [k \in 1..2 * new |->
              LET i == before + (k - 1) \div 2
              IN  IF k % 2 = 1 THEN Checked(Plain("start", i)) ELSE Text(i)]

\* The stops come in the order of a map.
Orders(S) == {f \in [1..Cardinality(S) -> S] : \A j, k \in DOMAIN f : f[j] = f[k] => j = k}

\* A tool call in the response has the identifier of some tool call announced.
GeminiIds(server, i) == IF i \in Tools THEN server.begun \cap Tools ELSE {i}

GeminiResponses(server) ==
    {[k \in 1..Cardinality(server.begun) |-> Part(k - 1, ids[k - 1], server.said[k - 1])] :
        ids \in {f \in [server.begun -> server.begun] :
                    \A i \in server.begun : f[i] \in GeminiIds(server, i)}}

GeminiReads(acc, event, server, n) ==
    LET meta  == IF n = 1 THEN << Checked(Plain("meta", NoBlock)) >> ELSE << >>
        built == [acc EXCEPT !.known = server.begun]
    IN  IF event.type = "tokens" THEN { Reads(acc, meta, "more") }
        ELSE IF ~event.last THEN { Reads(built, meta \o SendsParts(acc, server), "more") }
        ELSE { Reads([built EXCEPT !.content = content],
                     meta \o SendsParts(acc, server)
                       \o [k \in DOMAIN order |-> Unchecked(Plain("stop", order[k]))]
                       \o << Unchecked(Plain("usage", NoBlock)) >>,
                     "respond") :
               content \in GeminiResponses(server), order \in Orders(server.begun) }
=============================================================================
