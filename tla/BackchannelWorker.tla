--------------------------- MODULE BackchannelWorker ---------------------------
(***************************************************************************)
(* The outbox of back-channel logout notifications and the workers that    *)
(* drain it (internal/backchannel), one worker per node of the cluster.    *)
(*                                                                         *)
(* A step is one call of Worker.Step: pick a due row from a possibly stale *)
(* local read, claim it with a conditional UPDATE, read it back, post the  *)
(* logout token, record the outcome.  Each of these is an action, because  *)
(* other nodes act in between.  The lease token of a step is random, so    *)
(* the step itself stands for it, and a token nobody will present again,   *)
(* left by a step that died, is LostStep.                                  *)
(***************************************************************************)
EXTENDS Naturals, FiniteSets

CONSTANTS
    Rows,           \* (event_id, client_id) pairs of oidc_backchannel_deliveries
    Steps,          \* executions of Worker.Step that may be under way at once
    NoStep,         \* SQL NULL of lease_token
    LostStep,       \* the lease_token of a step that died
    NoRow,          \* a step that works on no row
    MaxAttempts,    \* Worker.MaxAttempts
    MaxWorkerFaults \* bound on crashes and on leases that run out under a live step

ASSUME WorkerAssumption ==
    /\ NoStep \notin Steps /\ LostStep \notin Steps /\ NoStep # LostStep
    /\ NoRow \notin Rows
    /\ MaxAttempts \in Nat \ {0}
    /\ MaxWorkerFaults \in Nat

VARIABLES
    status,    \* delivered_at_unix_ms, failed_at_unix_ms
    attempts,  \* attempts
    dueRows,   \* next_attempt_at_unix_ms has passed
    leases,    \* lease_token
    lapsed,    \* lease_until_unix_ms has passed
    events,    \* event log entries of the retry limit, per row
    at, row, seen, result,  \* a step: where it is, its row, attempts it read, outcome
    received,  \* history: how often the relying party took the notification
    workerFaults \* history: crashes and overrun leases so far

rowVars == <<status, attempts, dueRows, leases, lapsed, events>>
stepVars == <<at, row, seen, result>>
workerVars == <<rowVars, stepVars, received, workerFaults>>

StatusStates == {"none", "pending", "delivered", "failed", "removed"}
StepStates == {"idle", "candidate", "claimed", "sending", "outcome"}
Results == {"none", "ok", "retry", "permanent"}

(* Every outbox row and every step has its type. *)
WorkerTypeOK ==
    /\ status \in [Rows -> StatusStates]
    /\ attempts \in [Rows -> 0..MaxAttempts]
    /\ dueRows \subseteq Rows
    /\ leases \in [Rows -> Steps \cup {NoStep, LostStep}]
    /\ lapsed \subseteq Rows
    /\ events \in [Rows -> Nat]
    /\ at \in [Steps -> StepStates]
    /\ row \in [Steps -> Rows \cup {NoRow}]
    /\ seen \in [Steps -> 0..MaxAttempts]
    /\ result \in [Steps -> Results]
    /\ received \subseteq Rows
    /\ workerFaults \in 0..MaxWorkerFaults

WorkerInit ==
    /\ status = [r \in Rows |-> "none"]
    /\ attempts = [r \in Rows |-> 0]
    /\ dueRows = {} /\ lapsed = {}
    /\ leases = [r \in Rows |-> NoStep]
    /\ events = [r \in Rows |-> 0]
    /\ at = [p \in Steps |-> "idle"]
    /\ row = [p \in Steps |-> NoRow]
    /\ seen = [p \in Steps |-> 0]
    /\ result = [p \in Steps |-> "none"]
    /\ received = {}
    /\ workerFaults = 0

(***************************************************************************)
(* The surroundings: logouts enqueue, deleting a client removes its rows,  *)
(* time passes.                                                            *)
(***************************************************************************)
Enqueue(r) ==
    /\ status[r] = "none"
    /\ status' = [status EXCEPT ![r] = "pending"]
    /\ dueRows' = dueRows \cup {r}
    /\ UNCHANGED <<attempts, leases, lapsed, events, stepVars, received, workerFaults>>

Remove(r) ==
    /\ status[r] \notin {"none", "removed"}
    /\ status' = [status EXCEPT ![r] = "removed"]
    /\ leases' = [leases EXCEPT ![r] = NoStep]
    /\ lapsed' = lapsed \ {r}
    /\ dueRows' = dueRows \ {r}
    /\ UNCHANGED <<attempts, events, stepVars, received, workerFaults>>

RetryDue(r) ==
    /\ status[r] = "pending"
    /\ r \notin dueRows
    /\ dueRows' = dueRows \cup {r}
    /\ UNCHANGED <<status, attempts, leases, lapsed, events, stepVars, received, workerFaults>>

(* The lease of a step that died runs out ... *)
LeaseEnds(r) ==
    /\ leases[r] = LostStep
    /\ r \notin lapsed
    /\ lapsed' = lapsed \cup {r}
    /\ UNCHANGED <<status, attempts, dueRows, leases, events, stepVars, received, workerFaults>>

(* ... and that of a live one when it is paused or slow. *)
LeaseOverrun(r) ==
    /\ leases[r] \in Steps
    /\ r \notin lapsed
    /\ workerFaults < MaxWorkerFaults
    /\ workerFaults' = workerFaults + 1
    /\ lapsed' = lapsed \cup {r}
    /\ UNCHANGED <<status, attempts, dueRows, leases, events, stepVars, received>>

(***************************************************************************)
(* Worker.Step.                                                            *)
(***************************************************************************)
ClaimableUnleased(r) ==  \* Mutant: the lease of a dead step is respected for ever.
    /\ status[r] = "pending"
    /\ r \in dueRows
    /\ leases[r] = NoStep

Claimable(r) ==
    /\ status[r] = "pending"
    /\ r \in dueRows
    /\ leases[r] = NoStep \/ r \in lapsed

Move(p, next) == at' = [at EXCEPT ![p] = next]
Stop(p) == Move(p, "idle") /\ row' = [row EXCEPT ![p] = NoRow]

(* The local candidate read grants nothing. *)
Candidate(p, r) ==
    /\ at[p] = "idle"
    /\ Claimable(r)
    /\ Move(p, "candidate")
    /\ row' = [row EXCEPT ![p] = r]
    /\ UNCHANGED <<seen, result, rowVars, received, workerFaults>>

(* The conditional UPDATE elects the sender. *)
Claim(p) ==
    /\ at[p] = "candidate"
    /\ IF Claimable(row[p])
       THEN /\ leases' = [leases EXCEPT ![row[p]] = p]
            /\ lapsed' = lapsed \ {row[p]}
            /\ Move(p, "claimed")
            /\ UNCHANGED row
       ELSE Stop(p) /\ UNCHANGED <<leases, lapsed>>
    /\ UNCHANGED <<status, attempts, dueRows, events, seen, result, received, workerFaults>>

(* The linearizable read of the winner's row. *)
ReadWinner(p) ==
    /\ at[p] = "claimed"
    /\ IF leases[row[p]] = p
       THEN /\ seen' = [seen EXCEPT ![p] = attempts[row[p]]]
            /\ Move(p, "sending")
            /\ UNCHANGED row
       ELSE Stop(p) /\ UNCHANGED seen
    /\ UNCHANGED <<result, rowVars, received, workerFaults>>

(* The attempt: refused or failed before the request, or posted.  The      *)
(* relying party may take a notification whose answer never arrives.       *)
Attempt(p) ==
    /\ at[p] = "sending"
    /\ \E out \in Results \ {"none"} :
          /\ result' = [result EXCEPT ![p] = out]
          /\ IF out = "ok"
             THEN received' = received \cup {row[p]}
             ELSE received' \in {received, received \cup {row[p]}}
    /\ Move(p, "outcome")
    /\ UNCHANGED <<row, seen, rowVars, workerFaults>>

(* The outcome is recorded under the step's own lease token, or not at all; *)
(* at the retry limit the failure event is part of the same batch.          *)
SettlesWithoutLease(p) == TRUE  \* Mutant: the lease token is not compared.
Settles(p) == leases[row[p]] = p

ExhaustedOneLate(p) == result[p] # "ok" /\ seen[p] >= MaxAttempts  \* Mutant.
Exhausted(p) == result[p] # "ok" /\ seen[p] + 1 >= MaxAttempts

OutcomeUnlessRetry(p) == IF result[p] = "retry" THEN "pending" ELSE "delivered"  \* Mutant.
Outcome(p) ==
    CASE result[p] = "ok"                        -> "delivered"
      [] result[p] = "permanent" \/ Exhausted(p) -> "failed"
      [] OTHER                                   -> "pending"

Complete(p) ==
    LET r == row[p] IN
    /\ at[p] = "outcome"
    /\ IF Settles(p)
       THEN /\ attempts' = [attempts EXCEPT ![r] = @ + 1]
            /\ status' = [status EXCEPT ![r] = Outcome(p)]
            /\ dueRows' = IF Outcome(p) = "pending" THEN dueRows \ {r} ELSE dueRows
            /\ leases' = [leases EXCEPT ![r] = NoStep]
            /\ lapsed' = lapsed \ {r}
            /\ events' = [events EXCEPT ![r] = IF Exhausted(p) THEN @ + 1 ELSE @]
       ELSE UNCHANGED rowVars
    /\ Stop(p)
    /\ result' = [result EXCEPT ![p] = "none"]
    /\ UNCHANGED <<seen, received, workerFaults>>

(* A crash, a shutdown or a database error: the step ends where it is. *)
StepDies(p) ==
    /\ at[p] # "idle"
    /\ workerFaults < MaxWorkerFaults
    /\ workerFaults' = workerFaults + 1
    /\ Stop(p)
    /\ result' = [result EXCEPT ![p] = "none"]
    /\ leases' = [r \in Rows |-> IF leases[r] = p THEN LostStep ELSE leases[r]]
    /\ UNCHANGED <<seen, status, attempts, dueRows, lapsed, events, received>>

Proceed(p) ==
    \/ \E r \in Rows : Candidate(p, r)
    \/ Claim(p)
    \/ ReadWinner(p)
    \/ Attempt(p)
    \/ Complete(p)

WorkerNext ==
    \/ \E r \in Rows : Enqueue(r) \/ Remove(r) \/ RetryDue(r) \/ LeaseEnds(r) \/ LeaseOverrun(r)
    \/ \E p \in Steps : Proceed(p) \/ StepDies(p)

(* Every node's worker ticks for ever and every call returns or times out;  *)
(* clocks advance.                                                          *)
Fairness ==
    /\ \A p \in Steps : WF_workerVars(Proceed(p))
    /\ \A r \in Rows : WF_workerVars(RetryDue(r)) /\ WF_workerVars(LeaseEnds(r))

WorkerSpec == WorkerInit /\ [][WorkerNext]_workerVars /\ Fairness

(***************************************************************************)
(* Properties.                                                             *)
(***************************************************************************)
(* A row is retried at most MaxAttempts times, and the event log holds one *)
(* entry for a row that ran into the limit and none for any other.         *)
OneEventAtLimit ==
    \A r \in Rows :
        /\ attempts[r] <= MaxAttempts
        /\ status[r] # "removed" =>
              events[r] = IF status[r] = "failed" /\ attempts[r] = MaxAttempts THEN 1 ELSE 0

(* A notification is recorded as delivered only after the relying party    *)
(* has taken it.                                                           *)
DeliveredWasReceived == \A r \in Rows : status[r] = "delivered" => r \in received

(* An outcome is final: neither a late completion nor a retry reopens it.  *)
OutcomeIsFinal ==
    [][\A r \in Rows : status[r] \in {"delivered", "failed"} => status'[r] \in {status[r], "removed"}]_workerVars

(* Every notification is settled: with finitely many crashes and overrun   *)
(* leases, every enqueued row is delivered, given up or removed.           *)
EventuallySettled == \A r \in Rows : status[r] = "pending" ~> status[r] # "pending"
=============================================================================
