--------------------------- MODULE HTTPInterviewer ---------------------------
(***************************************************************************)
(* The questions of human gates (internal/attractor/interviewer/http.go):  *)
(* Ask blocks the goroutine of a stage until an HTTP handler submits an    *)
(* answer or the context of the run is done.  Each question has a channel  *)
(* that holds one answer.                                                  *)
(*                                                                         *)
(* SubmitAnswer looks the question up under the mutex and sends after it   *)
(* released it, so it is two actions.  An answer is the client that        *)
(* submits it; each client submits one.                                    *)
(***************************************************************************)
EXTENDS Integers, Sequences, FiniteSets

CONSTANTS Question, Client, Nobody

ASSUME NobodyAssumption == Nobody \notin Question \cup Client

VARIABLES
    pending,   \* the questions in the map pending
    answer,    \* answer[q]: what the channel of q holds, or Nobody
    ask,       \* ask[q]: Ask: "none", "waiting", "leaving", "returned"
    result,    \* result[q]: the answer Ask returns; Nobody with an error
    target,    \* target[c]: the question client c has looked up, or Nobody
    reply,     \* reply[c]: what SubmitAnswer told c
    accepted   \* history: accepted[q], the clients that were told "answered"

interviewVars == <<pending, answer, ask, result, target, reply, accepted>>

InterviewInit ==
    /\ pending = {}
    /\ answer = [q \in Question |-> Nobody]
    /\ ask = [q \in Question |-> "none"]
    /\ result = [q \in Question |-> Nobody]
    /\ target = [c \in Client |-> Nobody]
    /\ reply = [c \in Client |-> "none"]
    /\ accepted = [q \in Question |-> <<>>]

Ask(q) ==
    /\ ask[q] = "none"
    /\ ask' = [ask EXCEPT ![q] = "waiting"]
    /\ pending' = pending \cup {q}
    /\ UNCHANGED <<answer, result, target, reply, accepted>>

\* The two cases of the select; when both are ready, either is taken.
TakeAnswer(q) ==
    /\ ask[q] = "waiting" /\ answer[q] # Nobody
    /\ ask' = [ask EXCEPT ![q] = "leaving"]
    /\ result' = [result EXCEPT ![q] = answer[q]]
    /\ answer' = [answer EXCEPT ![q] = Nobody]
    /\ UNCHANGED <<pending, target, reply, accepted>>

AbandonQuestion(q, canceled) ==
    /\ ask[q] = "waiting" /\ canceled
    /\ ask' = [ask EXCEPT ![q] = "leaving"]
    /\ UNCHANGED <<pending, answer, result, target, reply, accepted>>

LeaveAsk_KeepsPending(q) ==
    /\ ask[q] = "leaving"
    /\ ask' = [ask EXCEPT ![q] = "returned"]
    /\ UNCHANGED <<pending, answer, result, target, reply, accepted>>

\* The deferred delete, then Ask returns.
LeaveAsk(q) ==
    /\ ask[q] = "leaving"
    /\ ask' = [ask EXCEPT ![q] = "returned"]
    /\ pending' = pending \ {q}
    /\ UNCHANGED <<answer, result, target, reply, accepted>>

LookUp(c, q) ==
    /\ reply[c] = "none" /\ target[c] = Nobody
    /\ IF q \in pending
       THEN target' = [target EXCEPT ![c] = q] /\ UNCHANGED reply
       ELSE reply' = [reply EXCEPT ![c] = "not found"] /\ UNCHANGED target
    /\ UNCHANGED <<pending, answer, ask, result, accepted>>

Send_Replaces(c) ==
    LET q == target[c] IN
    /\ q # Nobody /\ reply[c] = "none"
    /\ answer' = [answer EXCEPT ![q] = c]
    /\ accepted' = [accepted EXCEPT ![q] = Append(@, c)]
    /\ reply' = [reply EXCEPT ![c] = "answered"]
    /\ UNCHANGED <<pending, ask, result, target>>

\* The channel takes the answer if it is empty.
Send(c) ==
    LET q == target[c] IN
    /\ q # Nobody /\ reply[c] = "none"
    /\ IF answer[q] = Nobody
       THEN /\ answer' = [answer EXCEPT ![q] = c]
            /\ accepted' = [accepted EXCEPT ![q] = Append(@, c)]
            /\ reply' = [reply EXCEPT ![c] = "answered"]
       ELSE /\ reply' = [reply EXCEPT ![c] = "already answered"]
            /\ UNCHANGED <<answer, accepted>>
    /\ UNCHANGED <<pending, ask, result, target>>

SubmitAnswer(c) == Send(c) \/ \E q \in Question : LookUp(c, q)

InterviewTypeOK ==
    /\ pending \in SUBSET Question
    /\ answer \in [Question -> Client \cup {Nobody}]
    /\ ask \in [Question -> {"none", "waiting", "leaving", "returned"}]
    /\ result \in [Question -> Client \cup {Nobody}]
    /\ target \in [Client -> Question \cup {Nobody}]
    /\ reply \in [Client -> {"none", "answered", "already answered", "not found"}]
    /\ accepted \in [Question -> Seq(Client)]

\* Of the clients that answer the same question, the one that was told first
\* that it answered is the one the run listens to.
FirstAnswerWins ==
    \A q \in Question : result[q] # Nobody =>
        accepted[q] # <<>> /\ result[q] = accepted[q][1]

\* A client that is told that it answered has answered: its answer is the
\* one the question gets.
\* (The code does not keep this: see the README.)
AnswerUsed ==
    \A c \in Client : reply[c] = "answered" /\ ask[target[c]] = "returned" =>
        result[target[c]] \in {c, Nobody}
=============================================================================
