------------------------------ MODULE Outcomes ------------------------------
(***************************************************************************)
(* The result of executing a pipeline stage (runtime/outcome.go) and the   *)
(* pure functions that combine results of several stages: the join         *)
(* policies of a parallel fan-out (handler/parallel.go) and the ranking of *)
(* a fan-in (handler/fan_in.go).                                           *)
(*                                                                         *)
(* The result of a branch is a record [status, err]: "err" is a Go error   *)
(* returned beside the outcome.  NoStatus is the zero value of             *)
(* StageStatus, the status of the empty outcome that accompanies an error. *)
(***************************************************************************)
EXTENDS Integers, FiniteSets

StageStatus == {"SUCCESS", "FAIL", "RETRY", "PARTIAL_SUCCESS"}
NoStatus    == ""

\* True of any literals; the provers do not know it.
ASSUME StatusesAreStrings == StageStatus \cup {NoStatus} \subseteq STRING

IsSuccess(status) == status \in {"SUCCESS", "PARTIAL_SUCCESS"}

BranchResult == [status : StageStatus \cup {NoStatus}, err : BOOLEAN]

\* A branch counts as successful only without a Go error.
Successful(results) ==
    {c \in DOMAIN results : IsSuccess(results[c].status) /\ ~results[c].err}

Failed(result) == result.err \/ ~IsSuccess(result.status)

\* What the branches of a parallel stage may be joined with: each with a result
\* of its own or, once something interrupts the branches, of an interruption;
\* what does is the end of the run or, under fail_fast, a branch that failed by
\* itself.
JoinedResults(own, interruption, failFast, canceled) ==
    {res \in [DOMAIN own -> UNION {own[c] \cup interruption[c] : c \in DOMAIN own}] :
        /\ \A c \in DOMAIN own : res[c] \in own[c] \cup interruption[c]
        /\ \/ \A c \in DOMAIN own : res[c] \in own[c]
           \/ canceled
           \/ failFast /\ \E c \in DOMAIN own : res[c] \in own[c] /\ Failed(res[c])}

\* The branches the join evaluates: error_policy "ignore" drops the others.
Evaluated(results, errorPolicy) ==
    IF errorPolicy = "ignore" THEN Successful(results) ELSE DOMAIN results

\* joinParallelResults; an unknown policy joins successfully.
Joined(results, evaluated, policy, k) ==
    LET ok    == Cardinality(Successful(results) \cap evaluated)
        total == Cardinality(evaluated)
    IN  CASE policy = "wait_all"      -> ok = total
          [] policy = "first_success" -> ok > 0
          [] policy = "k_of_n"        -> ok >= k
          [] policy = "quorum"        -> ok > total \div 2
          [] OTHER                    -> TRUE

\* The status ParallelHandler.Execute returns once every branch has ended.
FanOutStatus(results, policy, errorPolicy, k) ==
    LET evaluated == Evaluated(results, errorPolicy) IN
    IF /\ errorPolicy = "ignore" => evaluated # {}
       /\ Joined(results, evaluated, policy, k)
    THEN "SUCCESS" ELSE "FAIL"

StatusPriority(status) ==
    CASE status = "SUCCESS"         -> 0
      [] status = "PARTIAL_SUCCESS" -> 1
      [] status = "RETRY"           -> 2
      [] status = "FAIL"            -> 3
      [] OTHER                      -> 4

\* The branches FanInHandler may rank first (ties are broken by identifier).
BestBranches(results) ==
    {c \in DOMAIN results : \A d \in DOMAIN results :
        StatusPriority(results[c].status) <= StatusPriority(results[d].status)}

\* The fan-in reads the stored outcomes only: a branch's Go error is not
\* among them.
FanInStatus(results) ==
    IF DOMAIN results = {} \/ \E c \in DOMAIN results : IsSuccess(results[c].status)
    THEN "SUCCESS" ELSE "FAIL"
=============================================================================
