--------------------------- MODULE RunManagerProofs ---------------------------
(***************************************************************************)
(* Theorems about any number of runs, questions and clients of the HTTP    *)
(* server, canceled and shut down at any point.                            *)
(***************************************************************************)
EXTENDS RunManager, SequenceTheorems, TLAPS

-----------------------------------------------------------------------------
(***************************************************************************)
(* What the kinds of steps leave alone.                                    *)
(***************************************************************************)
\* A step is one of the interviewer or one of the runs and of Shutdown; the
\* questions and the runs see nothing else of each other.
RunsStep(r) == Register(r) \/ Launch(r) \/ Goroutine(r) \/ Cancel(r)

ServerStep == TakeSnapshot \/ DeadlinePasses \/ Shutdown

QuestionStep ==
    /\ \/ \E q \in Question : \/ AskQuestion(q)
                              \/ TakeAnswer(q) \/ LeaveAsk(q)
                              \/ AbandonQuestion(q, Owner[q] \in canceled)
       \/ \E c \in Client : SubmitAnswer(c)
    /\ UNCHANGED <<runVars, shutVars, requested>>

LEMMA StepKinds ==
    ASSUME [Next]_vars
    PROVE  \/ QuestionStep
           \/ UNCHANGED interviewVars /\ (ServerStep \/ \E r \in Run : RunsStep(r))
           \/ UNCHANGED vars
<1>1. ASSUME NEW r \in Run, RunsStep(r) PROVE UNCHANGED interviewVars
  BY <1>1 DEF RunsStep, Register, Launch, Goroutine, Cancel, ExecuteReturns, SetCompleted,
              ReleaseContext, CloseStream, WaitGroupDone
<1>2. ASSUME ServerStep PROVE UNCHANGED interviewVars
  BY <1>2 DEF ServerStep, TakeSnapshot, DeadlinePasses, Shutdown, CancelSnapshot, PassWaitGroup, StopWaiting, Exit
<1>3. ASSUME Interview \/ \E q \in Question : AskEnds(q) PROVE QuestionStep
  BY <1>3 DEF Interview, AskEnds, QuestionStep
<1> QED BY <1>1, <1>2, <1>3 DEF Next, RunsStep, ServerStep

-----------------------------------------------------------------------------
(***************************************************************************)
(* Types.                                                                  *)
(***************************************************************************)
\* The counter of a run's wait group is what the run's goroutine makes it.
Counted ==
    \A r \in Run : waiting[r] = IF gopc[r] \in {"none", "done"} THEN 0 ELSE 1

LEMMA QuestionTyped == TypeOK /\ QuestionStep => InterviewTypeOK'
<1> SUFFICES ASSUME InterviewTypeOK, QuestionStep PROVE InterviewTypeOK'
  BY DEF TypeOK
<1> USE DEF InterviewTypeOK
<1>1. ASSUME NEW q \in Question, AskQuestion(q) PROVE InterviewTypeOK'
  BY <1>1 DEF AskQuestion, Ask
<1>2. ASSUME NEW q \in Question, TakeAnswer(q) PROVE InterviewTypeOK'
  BY <1>2 DEF TakeAnswer
<1>3. ASSUME NEW q \in Question, LeaveAsk(q) PROVE InterviewTypeOK'
  BY <1>3 DEF LeaveAsk
<1>4. ASSUME NEW q \in Question, AbandonQuestion(q, Owner[q] \in canceled) PROVE InterviewTypeOK'
  BY <1>4 DEF AbandonQuestion
<1>5. ASSUME NEW c \in Client, NEW q \in Question, LookUp(c, q) PROVE InterviewTypeOK'
  BY <1>5 DEF LookUp
<1>6. ASSUME NEW c \in Client, Send(c) PROVE InterviewTypeOK'
  <2>1. target[c] \in Question /\ accepted[target[c]] \in Seq(Client)
    BY <1>6 DEF Send
  <2>2. Append(accepted[target[c]], c) \in Seq(Client)
    BY <2>1, AppendProperties
  <2>3. /\ accepted' \in [Question -> Seq(Client)]
        /\ answer' \in [Question -> Client \cup {Nobody}]
    BY <1>6, <2>1, <2>2 DEF Send
  <2>4. reply' \in [Client -> {"none", "answered", "already answered", "not found"}]
    BY <1>6 DEF Send
  <2> QED BY <1>6, <2>3, <2>4 DEF Send
<1> QED BY <1>1, <1>2, <1>3, <1>4, <1>5, <1>6 DEF QuestionStep, SubmitAnswer

LEMMA RunsTyped ==
    ASSUME TypeOK, Counted, UNCHANGED interviewVars, NEW r \in Run, RunsStep(r)
    PROVE  TypeOK' /\ Counted'
<1> USE DEF TypeOK, Counted
<1>0. InterviewTypeOK'
  BY DEF InterviewTypeOK, interviewVars
<1> HIDE DEF InterviewTypeOK
<1>1. CASE Register(r)
  BY <1>0, <1>1 DEF Register, shutVars
<1>2. CASE Launch(r)
  BY <1>0, <1>2 DEF Launch, shutVars
<1>3. CASE ExecuteReturns(r)
  BY <1>0, <1>3 DEF ExecuteReturns, Go, shutVars
<1>4. CASE SetCompleted(r)
  BY <1>0, <1>4 DEF SetCompleted, Go, shutVars, Final
<1>5. CASE ReleaseContext(r)
  BY <1>0, <1>5 DEF ReleaseContext, Go, shutVars
<1>6. CASE CloseStream(r)
  BY <1>0, <1>6 DEF CloseStream, Go, shutVars
<1>7. CASE WaitGroupDone(r)
  BY <1>0, <1>7 DEF WaitGroupDone, Go, shutVars
<1>8. CASE Cancel(r)
  BY <1>0, <1>8 DEF Cancel, CancelRuns, shutVars
<1> QED BY <1>1, <1>2, <1>3, <1>4, <1>5, <1>6, <1>7, <1>8 DEF RunsStep, Goroutine

LEMMA ServerTyped ==
    ASSUME TypeOK, Counted, UNCHANGED interviewVars, ServerStep
    PROVE  TypeOK' /\ Counted'
<1>0. InterviewTypeOK'
  BY DEF TypeOK, InterviewTypeOK, interviewVars
<1>1. CASE TakeSnapshot \/ DeadlinePasses
  BY <1>0, <1>1 DEF TypeOK, Counted, TakeSnapshot, DeadlinePasses, runVars
<1>2. CASE CancelSnapshot
  BY <1>0, <1>2 DEF TypeOK, Counted, CancelSnapshot, CancelRuns
<1>3. ASSUME NEW r \in Run, PassWaitGroup(r) PROVE TypeOK' /\ Counted'
  BY <1>0, <1>3 DEF TypeOK, Counted, PassWaitGroup, runVars
<1>4. CASE StopWaiting \/ Exit
  BY <1>0, <1>4 DEF TypeOK, Counted, StopWaiting, Exit, runVars
<1> QED BY <1>1, <1>2, <1>3, <1>4 DEF ServerStep, Shutdown

LEMMA TypeStep == TypeOK /\ Counted /\ [Next]_vars => TypeOK' /\ Counted'
<1> SUFFICES ASSUME TypeOK, Counted, [Next]_vars PROVE TypeOK' /\ Counted'
  OBVIOUS
<1>1. CASE QuestionStep
  <2>1. InterviewTypeOK'
    BY <1>1, QuestionTyped
  <2> QED BY <1>1, <2>1 DEF QuestionStep, TypeOK, Counted, runVars, shutVars
<1>2. CASE UNCHANGED interviewVars /\ ServerStep
  BY <1>2, ServerTyped
<1>3. CASE UNCHANGED interviewVars /\ \E r \in Run : RunsStep(r)
  BY <1>3, RunsTyped
<1>4. CASE UNCHANGED vars
  BY <1>4 DEF vars, TypeOK, InterviewTypeOK, interviewVars, runVars, shutVars, Counted
<1> QED BY <1>1, <1>2, <1>3, <1>4, StepKinds

LEMMA InitTyped == Init => TypeOK /\ Counted
<1> SUFFICES ASSUME Init PROVE TypeOK /\ Counted
  OBVIOUS
<1>1. <<>> \in Seq(Client)
  BY EmptySeq
<1>2. InterviewTypeOK
  BY <1>1 DEF Init, InterviewInit, InterviewTypeOK
<1> QED BY <1>2 DEF Init, Final, TypeOK, Counted

LEMMA TypeAndCount == Spec => [](TypeOK /\ Counted)
BY InitTyped, TypeStep, PTL DEF Spec

-----------------------------------------------------------------------------
(***************************************************************************)
(* The answer of a question.                                               *)
(***************************************************************************)
\* Until the question is answered, its channel holds the first answer that was
\* accepted, or none was.
FirstIsKept ==
    \A q \in Question :
        /\ ask[q] \in {"none", "waiting"} =>
               /\ result[q] = Nobody
               /\ answer[q] = Nobody => accepted[q] = <<>>
               /\ answer[q] # Nobody => accepted[q] # <<>> /\ answer[q] = accepted[q][1]
        /\ result[q] # Nobody => accepted[q] # <<>> /\ result[q] = accepted[q][1]

\* Another answer does not move the first one.
LEMMA FirstOfAppend ==
    ASSUME NEW S, NEW clients \in Seq(S), NEW c \in S
    PROVE  /\ Append(clients, c) # <<>>
           /\ clients = <<>> => Append(clients, c)[1] = c
           /\ clients # <<>> => Append(clients, c)[1] = clients[1]
<1>1. /\ Len(clients) \in Nat
      /\ clients # <<>> => Len(clients) >= 1
      /\ clients = <<>> => Len(clients) = 0
  BY EmptySeq, LenProperties
<1>2. /\ Append(clients, c) \in Seq(S)
      /\ Len(Append(clients, c)) = Len(clients) + 1
      /\ \A i \in 1..Len(clients) : Append(clients, c)[i] = clients[i]
      /\ Append(clients, c)[Len(clients) + 1] = c
  BY AppendProperties
<1>3. Append(clients, c) # <<>>
  BY <1>1, <1>2, EmptySeq
<1>4. clients = <<>> => Append(clients, c)[1] = c
  <2> SUFFICES ASSUME Len(clients) = 0 PROVE Append(clients, c)[1] = c
    BY <1>1
  <2> QED BY <1>2
<1>5. ASSUME clients # <<>> PROVE Append(clients, c)[1] = clients[1]
  <2>1. 1 \in 1..Len(clients)
    BY <1>1, <1>5
  <2> QED BY <1>2, <2>1
<1> QED BY <1>3, <1>4, <1>5

LEMMA FirstStep == TypeOK /\ FirstIsKept /\ [Next]_vars => FirstIsKept'
<1> SUFFICES ASSUME InterviewTypeOK, FirstIsKept, [Next]_vars PROVE FirstIsKept'
  BY DEF TypeOK
<1> USE DEF InterviewTypeOK, FirstIsKept
<1>1. ASSUME NEW q \in Question, AskQuestion(q) PROVE FirstIsKept'
  BY <1>1 DEF AskQuestion, Ask
<1>2. ASSUME NEW q \in Question, TakeAnswer(q) PROVE FirstIsKept'
  BY <1>2 DEF TakeAnswer
<1>3. ASSUME NEW q \in Question, LeaveAsk(q) PROVE FirstIsKept'
  BY <1>3 DEF LeaveAsk
<1>4. ASSUME NEW q \in Question, AbandonQuestion(q, Owner[q] \in canceled) PROVE FirstIsKept'
  BY <1>4 DEF AbandonQuestion
<1>5. ASSUME NEW c \in Client, NEW q \in Question, LookUp(c, q) PROVE FirstIsKept'
  BY <1>5 DEF LookUp
<1>6. ASSUME NEW c \in Client, Send(c) PROVE FirstIsKept'
  <2> DEFINE q == target[c]
             longer == Append(accepted[q], c)
  <2>1. q \in Question /\ accepted[q] \in Seq(Client) /\ c # Nobody
    BY <1>6, NobodyAssumption DEF Send
  <2>2. /\ longer # <<>>
        /\ accepted[q] = <<>> => longer[1] = c
        /\ accepted[q] # <<>> => longer[1] = accepted[q][1]
    <3> HIDE DEF InterviewTypeOK, FirstIsKept, q
    <3> QED BY <2>1, FirstOfAppend
  <2>3. CASE answer[q] = Nobody
    <3>1. /\ accepted' = [accepted EXCEPT ![q] = longer]
          /\ answer' = [answer EXCEPT ![q] = c] /\ UNCHANGED <<ask, result>>
      BY <1>6, <2>3 DEF Send
    <3> HIDE DEF q, longer
    <3> QED BY <2>1, <2>2, <2>3, <3>1
  <2>4. CASE answer[q] # Nobody
    BY <1>6, <2>4 DEF Send
  <2> QED BY <2>3, <2>4
<1>7. CASE UNCHANGED interviewVars
  BY <1>7 DEF interviewVars
<1> QED BY <1>1, <1>2, <1>3, <1>4, <1>5, <1>6, <1>7, StepKinds DEF QuestionStep, SubmitAnswer, vars

\* Whatever clients race for a question, however late they send what they
\* looked up before, the run goes on with the answer of the client that was
\* told first that it answered (interviewer/http.go, the channel of one).
THEOREM TheFirstAnswerCounts == Spec => []FirstAnswerWins
<1>1. Init => FirstIsKept
  BY DEF Init, InterviewInit, FirstIsKept
<1>2. FirstIsKept => FirstAnswerWins
  BY DEF FirstIsKept, FirstAnswerWins
<1> QED BY <1>1, <1>2, FirstStep, TypeAndCount, PTL DEF Spec

-----------------------------------------------------------------------------
(***************************************************************************)
(* The end of a run.                                                       *)
(***************************************************************************)
\* What the place of a run's goroutine says of the run: its questions, its
\* status, its stream and who canceled its context.
QuestionInOrder(q) ==
    /\ ask[q] \in {"waiting", "leaving"} => gopc[Owner[q]] = "executing"
    /\ q \in pending => ask[q] \in {"waiting", "leaving"}

GoroutineInOrder(r) ==
    /\ r \notin registered => gopc[r] = "none"
    /\ gopc[r] \in {"settled", "released", "closed", "done"} => status[r] \in Final
    /\ gopc[r] \in {"none", "executing", "succeeded", "erred"} => status[r] \notin Final
    /\ r \in closed => gopc[r] \in {"closed", "done"}
    /\ r \in canceled /\ gopc[r] \in {"none", "executing", "succeeded", "erred", "settled"}
           => r \in requested
    /\ status[r] = "canceled" => r \in requested

RunInOrder ==
    /\ \A q \in Question : QuestionInOrder(q)
    /\ \A r \in Run : GoroutineInOrder(r)

LEMMA OrderOfQuestions == TypeOK /\ RunInOrder /\ QuestionStep => RunInOrder'
<1> SUFFICES ASSUME InterviewTypeOK, RunInOrder, QuestionStep PROVE RunInOrder'
  BY DEF TypeOK
<1>0. /\ gopc' = gopc /\ status' = status /\ registered' = registered
      /\ canceled' = canceled /\ closed' = closed /\ requested' = requested
  BY DEF QuestionStep, runVars
<1>1. ASSUME NEW r \in Run PROVE GoroutineInOrder(r)'
  BY <1>0 DEF RunInOrder, GoroutineInOrder
<1> SUFFICES ASSUME NEW p \in Question PROVE QuestionInOrder(p)'
  BY <1>1 DEF RunInOrder
<1>2. QuestionInOrder(p) /\ Owner[p] \in Run
  BY OwnerAssumption DEF RunInOrder
<1> USE DEF InterviewTypeOK, QuestionInOrder
<1>3. ASSUME NEW q \in Question, AskQuestion(q) PROVE QuestionInOrder(p)'
  BY <1>0, <1>2, <1>3 DEF AskQuestion, Ask
<1>4. ASSUME NEW q \in Question, TakeAnswer(q) PROVE QuestionInOrder(p)'
  BY <1>0, <1>2, <1>4 DEF TakeAnswer
<1>5. ASSUME NEW q \in Question, LeaveAsk(q) PROVE QuestionInOrder(p)'
  BY <1>0, <1>2, <1>5 DEF LeaveAsk
<1>6. ASSUME NEW q \in Question, AbandonQuestion(q, Owner[q] \in canceled) PROVE QuestionInOrder(p)'
  BY <1>0, <1>2, <1>6 DEF AbandonQuestion
<1>7. ASSUME NEW c \in Client, SubmitAnswer(c) PROVE QuestionInOrder(p)'
  <2>1. UNCHANGED <<ask, pending>>
    BY <1>7 DEF SubmitAnswer, Send, LookUp
  <2> QED BY <1>0, <1>2, <2>1
<1> QED BY <1>3, <1>4, <1>5, <1>6, <1>7 DEF QuestionStep

LEMMA OrderOfRuns ==
    ASSUME TypeOK, RunInOrder, UNCHANGED interviewVars, NEW r \in Run, RunsStep(r)
    PROVE  RunInOrder'
<1> USE OwnerAssumption DEF TypeOK, RunInOrder, QuestionInOrder, GoroutineInOrder, interviewVars
<1>1. CASE Register(r)
  BY <1>1 DEF Register, Final
<1>2. CASE Launch(r)
  BY <1>2 DEF Launch
<1>3. CASE ExecuteReturns(r)
  BY <1>3 DEF ExecuteReturns, Go, Open
<1>4. CASE SetCompleted(r)
  BY <1>4 DEF SetCompleted, Go, Final
<1>5. CASE ReleaseContext(r)
  BY <1>5 DEF ReleaseContext, Go
<1>6. CASE CloseStream(r)
  BY <1>6 DEF CloseStream, Go
<1>7. CASE WaitGroupDone(r)
  BY <1>7 DEF WaitGroupDone, Go
<1>8. CASE Cancel(r)
  BY <1>8 DEF Cancel, CancelRuns
<1> QED BY <1>1, <1>2, <1>3, <1>4, <1>5, <1>6, <1>7, <1>8 DEF RunsStep, Goroutine

LEMMA OrderStep == TypeOK /\ RunInOrder /\ [Next]_vars => RunInOrder'
<1> SUFFICES ASSUME TypeOK, RunInOrder, [Next]_vars PROVE RunInOrder'
  OBVIOUS
<1>1. CASE UNCHANGED interviewVars /\ ServerStep
  BY <1>1 DEF RunInOrder, QuestionInOrder, GoroutineInOrder, interviewVars, ServerStep,
              TakeSnapshot, DeadlinePasses, Shutdown, CancelSnapshot, CancelRuns, PassWaitGroup,
              StopWaiting, Exit, runVars
<1>2. CASE UNCHANGED vars
  BY <1>2 DEF RunInOrder, QuestionInOrder, GoroutineInOrder, vars, interviewVars, runVars
<1> QED BY <1>1, <1>2, StepKinds, OrderOfQuestions, OrderOfRuns

LEMMA RunsAreInOrder == Spec => []RunInOrder
<1>1. Init => RunInOrder
  BY DEF Init, InterviewInit, RunInOrder, QuestionInOrder, GoroutineInOrder, Final
<1> QED BY <1>1, OrderStep, TypeAndCount, PTL DEF Spec

\* The stream of a run ends after its status is final and its questions are
\* gone, whoever cancels the run meanwhile (runmgr/manager.go, the deferred
\* calls of the goroutine and their order).
THEOREM StreamEndsLast == Spec => []DoneIsFinal
<1>1. TypeOK /\ RunInOrder => DoneIsFinal
  BY DEF TypeOK, RunInOrder, QuestionInOrder, GoroutineInOrder, DoneIsFinal, Open
<1> QED BY <1>1, RunsAreInOrder, TypeAndCount, PTL

\* No run is reported canceled that nobody canceled, although the goroutine
\* cancels every run's context and decides by the context alone.
THEOREM NobodyCanceledByItself == Spec => []CanceledOnRequest
<1>1. RunInOrder => CanceledOnRequest
  BY DEF RunInOrder, GoroutineInOrder, CanceledOnRequest
<1> QED BY <1>1, RunsAreInOrder, PTL

\* A question that clients are shown is one a run waits for: none is left
\* behind by a run that was canceled or has ended.
THEOREM QuestionsHaveRuns == Spec => []NoOrphanQuestion
<1>1. TypeOK /\ RunInOrder => NoOrphanQuestion
  BY DEF TypeOK, InterviewTypeOK, RunInOrder, QuestionInOrder, NoOrphanQuestion
<1> QED BY <1>1, RunsAreInOrder, TypeAndCount, PTL

-----------------------------------------------------------------------------
(***************************************************************************)
(* Shutdown.                                                               *)
(***************************************************************************)
\* What Shutdown knows of the runs that were launched when it began to wait: it
\* passed only those that have ended, and it goes on when it passed them all.
WaitInOrder ==
    /\ server \in {"serving", "canceling"} => launched = {} /\ passed = {}
    /\ passed \subseteq snapshot /\ launched \subseteq snapshot
    /\ \A r \in launched : gopc[r] # "none"
    /\ \A r \in launched \cap passed : gopc[r] = "done"
    /\ server \in {"closing", "exited"} /\ ~deadline => passed = snapshot

\* A goroutine that is there stays there, and one that has ended is not begun
\* anew.
LEMMA RunsStepForward ==
    ASSUME NEW r \in Run, RunsStep(r), NEW s \in Run, TypeOK
    PROVE  /\ gopc[s] # "none" => gopc'[s] # "none"
           /\ gopc[s] = "done" => gopc'[s] = "done"
           /\ UNCHANGED shutVars
BY DEF RunsStep, Register, Launch, Goroutine, Cancel, ExecuteReturns, SetCompleted,
       ReleaseContext, CloseStream, WaitGroupDone, Go, TypeOK

LEMMA WaitStep == TypeOK /\ Counted /\ WaitInOrder /\ [Next]_vars => WaitInOrder'
<1> SUFFICES ASSUME TypeOK, Counted, WaitInOrder, [Next]_vars PROVE WaitInOrder'
  OBVIOUS
<1> USE DEF WaitInOrder
<1>0. launched \subseteq Run /\ snapshot \subseteq Run
  BY DEF TypeOK
<1>1. CASE QuestionStep \/ UNCHANGED vars
  BY <1>1 DEF QuestionStep, runVars, shutVars, vars
<1>2. ASSUME NEW r \in Run, RunsStep(r) PROVE WaitInOrder'
  BY <1>0, <1>2, RunsStepForward DEF shutVars
<1>3. CASE TakeSnapshot \/ DeadlinePasses
  BY <1>3 DEF TakeSnapshot, DeadlinePasses, runVars
<1>4. CASE CancelSnapshot
  BY <1>4 DEF CancelSnapshot
<1>5. ASSUME NEW r \in Run, PassWaitGroup(r) PROVE WaitInOrder'
  <2>1. r \in launched => gopc[r] = "done"
    BY <1>5 DEF PassWaitGroup, Counted
  <2> QED BY <1>5, <2>1 DEF PassWaitGroup, runVars
<1>6. CASE StopWaiting
  BY <1>6 DEF StopWaiting, runVars
<1>7. CASE Exit
  BY <1>7 DEF Exit, runVars
<1> QED BY <1>1, <1>2, <1>3, <1>4, <1>5, <1>6, <1>7, StepKinds DEF ServerStep, Shutdown

\* When Shutdown goes on before its deadline, the goroutines of all runs that were
\* counted when it began to wait have ended, although it looks at the wait groups
\* one after another and runs may be launched meanwhile: what is left of "waits
\* for them to finish" (runmgr/manager.go, Shutdown).
THEOREM ShutdownWaitsForLaunched == Spec => []LaunchedRunsEnd
<1>1. Init => WaitInOrder
  BY DEF Init, WaitInOrder
<1>2. TypeOK /\ WaitInOrder => LaunchedRunsEnd
  BY DEF TypeOK, WaitInOrder, LaunchedRunsEnd
<1> QED BY <1>1, <1>2, WaitStep, TypeAndCount, PTL DEF Spec
=============================================================================
