---------------------------- MODULE LeaseProofs ----------------------------
(***************************************************************************)
(* Proofs about the two jobs that every node of a cluster runs and a       *)
(* lease hands to one of them at a time: the scheduled backups             *)
(* (BackupSchedule) and the delivery of back-channel logout notifications  *)
(* (BackchannelWorker).  The two have no state in common.                  *)
(***************************************************************************)
EXTENDS BackupSchedule, BackchannelWorker, TLAPS

(***************************************************************************)
(* Scheduled backups, for every number of nodes, slots and faults.         *)
(* SuccessOnce and WatermarkMonotone are not inductive by themselves: they *)
(* rest on what an attempt remembers of the watermark it read.             *)
(***************************************************************************)

(* Flags belong to attempts that have reached them. *)
FlagsFollow ==
    \A n \in Nodes :
        /\ n \in good => pc[n] = "releasing"
        /\ n \in ran => pc[n] \in {"working", "marking", "releasing"}

(* An attempt past the read is for a slot above the watermark it read, and *)
(* one that is about to move the watermark has its backup.                 *)
AttemptsRemember ==
    \A n \in Nodes :
        /\ pc[n] # "idle" => due[n] \in Slots
        /\ pc[n] \in {"working", "marking"} => prev[n] < due[n]
        /\ pc[n] = "marking" => due[n] \in done

(* A slot that was reported, or is about to be, is below the watermark ... *)
ReportedIsMarked ==
    /\ \A s \in Slots : successes[s] # 0 => s <= mark
    /\ \A n \in good \cap ran : due[n] <= mark /\ successes[due[n]] = 0

(* ... and no two attempts are about to report the same slot. *)
ReportersDiffer == \A n, m \in good \cap ran : due[n] = due[m] => n = m

IInv ==
    /\ TypeOK
    /\ FlagsFollow
    /\ AttemptsRemember
    /\ LeaseProtectsRunner
    /\ MarkWasBackedUp
    /\ ReportedIsMarked
    /\ ReportersDiffer
    /\ SuccessOnce

LEMMA InitIInv == Init => IInv
  BY BackupAssumption DEF Init, IInv, TypeOK, FlagsFollow, AttemptsRemember, LeaseProtectsRunner,
     MarkWasBackedUp, ReportedIsMarked, ReportersDiffer, SuccessOnce, InLease, Slots, PcStates

(* Facts of arithmetic that the type invariant needs step by step. *)
LEMMA Bounds ==
    /\ clock \in 0..MaxSlot /\ clock < MaxSlot => clock + 1 \in 1..MaxSlot
    /\ faults \in 0..MaxFaults /\ Fault => faults' \in 0..MaxFaults
  BY BackupAssumption DEF Fault

LEMMA NextIInv == IInv /\ [Next]_vars => IInv'
  <1> SUFFICES ASSUME IInv, [Next]_vars PROVE IInv'
    OBVIOUS
  <1> USE BackupAssumption DEF Slots, PcStates
  <1>1. CASE Tick
    BY <1>1 DEF IInv, TypeOK, FlagsFollow, AttemptsRemember, LeaseProtectsRunner, MarkWasBackedUp,
       ReportedIsMarked, ReportersDiffer, SuccessOnce, InLease, Tick, attemptVars
  <1>2. CASE Expire
    BY <1>2 DEF IInv, TypeOK, FlagsFollow, AttemptsRemember, LeaseProtectsRunner, MarkWasBackedUp,
       ReportedIsMarked, ReportersDiffer, SuccessOnce, InLease, Expire, Expired, attemptVars
  <1>3. ASSUME NEW n \in Nodes, Pick(n) PROVE IInv'
    <2>1. TypeOK'
      BY <1>3, Bounds DEF IInv, TypeOK, Pick, NextSlot, Goes
    <2>2. FlagsFollow' /\ LeaseProtectsRunner'
      BY <1>3 DEF IInv, TypeOK, FlagsFollow, LeaseProtectsRunner, InLease, Pick, Goes
    <2>3. AttemptsRemember'
      BY <1>3, Bounds DEF IInv, TypeOK, AttemptsRemember, Pick, NextSlot, Goes
    <2>4. n \notin good
      BY <1>3 DEF IInv, FlagsFollow, Pick
    <2>5. ReportedIsMarked' /\ ReportersDiffer'
      BY <1>3, <2>4 DEF IInv, TypeOK, ReportedIsMarked, ReportersDiffer, Pick
    <2> QED
      BY <1>3, <2>1, <2>2, <2>3, <2>5 DEF IInv, MarkWasBackedUp, SuccessOnce, Pick
  <1>4. ASSUME NEW n \in Nodes, Acquire(n) PROVE IInv'
    <2>1. TypeOK'
      <3>1. CASE Acquired(n)
        BY <1>4, <3>1 DEF IInv, TypeOK, Acquire, Acquired, Goes
      <3>2. CASE Busy(n)
        BY <1>4, <3>2 DEF IInv, TypeOK, Acquire, Busy, Goes
      <3>3. CASE AcquireUnknown(n)
        <4>1. faults' \in 0..MaxFaults
          BY <3>3, Bounds DEF IInv, TypeOK, AcquireUnknown
        <4>2. lease' \in Nodes \cup {Nobody, Stale}
          BY <3>3 DEF IInv, TypeOK, AcquireUnknown
        <4> QED
          BY <1>4, <3>3, <4>1, <4>2 DEF IInv, TypeOK, Acquire, AcquireUnknown, Goes
      <3> QED
        BY <1>4, <3>1, <3>2, <3>3 DEF Acquire
    <2>2. LeaseProtectsRunner'
      BY <1>4 DEF IInv, TypeOK, LeaseProtectsRunner, InLease, Acquire, Acquired, Busy, AcquireUnknown, Goes
    <2>3. FlagsFollow' /\ AttemptsRemember'
      BY <1>4 DEF IInv, TypeOK, FlagsFollow, AttemptsRemember, Acquire, Acquired, Busy, AcquireUnknown, Goes
    <2> QED
      BY <1>4, <2>1, <2>2, <2>3 DEF IInv, MarkWasBackedUp, ReportedIsMarked, ReportersDiffer, SuccessOnce, Acquire
  <1>5. ASSUME NEW n \in Nodes, ReadMark(n) PROVE IInv'
    <2>0. faults' \in 0..MaxFaults
      BY <1>5, Bounds DEF IInv, TypeOK, ReadMark
    <2>1. TypeOK' /\ LeaseProtectsRunner'
      <3>1. TypeOK'
        <4>1. prev' \in [Nodes -> 0..MaxSlot]
          BY <1>5 DEF IInv, TypeOK, ReadMark
        <4>2. good' \subseteq Nodes
          BY <1>5, Zenon DEF IInv, TypeOK, ReadMark
        <4>3. ran' \subseteq Nodes
          BY <1>5, Zenon DEF IInv, TypeOK, ReadMark
        <4>4. pc' \in [Nodes -> PcStates]
          BY <1>5 DEF IInv, TypeOK, ReadMark, Goes
        <4> QED
          BY <1>5, <2>0, <4>1, <4>2, <4>3, <4>4 DEF IInv, TypeOK, ReadMark
      <3>2. LeaseProtectsRunner'
        BY <1>5 DEF IInv, TypeOK, LeaseProtectsRunner, InLease, ReadMark, Goes
      <3> QED
        BY <3>1, <3>2
    <2>2. FlagsFollow' /\ AttemptsRemember'
      BY <1>5 DEF IInv, TypeOK, FlagsFollow, AttemptsRemember, ReadMark, Goes
    <2>3. good' \cap ran' = good \cap ran
      BY <1>5 DEF IInv, TypeOK, FlagsFollow, ReadMark
    <2> QED
      BY <1>5, <2>1, <2>2, <2>3 DEF IInv, MarkWasBackedUp, ReportedIsMarked, ReportersDiffer, SuccessOnce, ReadMark
  <1>6. ASSUME NEW n \in Nodes, NEW ok \in BOOLEAN, FinishJob(n, ok) PROVE IInv'
    <2>1. TypeOK'
      BY <1>6 DEF IInv, TypeOK, AttemptsRemember, FinishJob, Goes
    <2>2. LeaseProtectsRunner' /\ FlagsFollow' /\ AttemptsRemember'
      BY <1>6 DEF IInv, TypeOK, LeaseProtectsRunner, FlagsFollow, AttemptsRemember, InLease, FinishJob, Goes
    <2> QED
      BY <1>6, <2>1, <2>2 DEF IInv, MarkWasBackedUp, ReportedIsMarked, ReportersDiffer, SuccessOnce, FinishJob
  <1>7. ASSUME NEW n \in Nodes, WriteMark(n) PROVE IInv'
    <2>1. TypeOK'
      <3>1. faults' \in 0..MaxFaults
        BY <1>7, Bounds DEF IInv, TypeOK, WriteMark
      <3> QED
        BY <1>7, <3>1 DEF IInv, TypeOK, WriteMark, Goes
    <2>2. LeaseProtectsRunner' /\ FlagsFollow' /\ AttemptsRemember'
      BY <1>7 DEF IInv, TypeOK, LeaseProtectsRunner, FlagsFollow, AttemptsRemember, InLease, WriteMark, Goes
    <2>3. MarkWasBackedUp' /\ SuccessOnce'
      BY <1>7 DEF IInv, TypeOK, AttemptsRemember, MarkWasBackedUp, SuccessOnce, WriteMark
    <2>4. CASE mark' = mark /\ good' = good
      BY <1>7, <2>1, <2>2, <2>3, <2>4 DEF IInv, ReportedIsMarked, ReportersDiffer, WriteMark
    <2>5. CASE mark' = due[n] /\ mark = prev[n] /\ good' \in {good, good \cup {n}}
      <3>1. mark < due[n] /\ due[n] \in Slots /\ n \notin good
        BY <1>7, <2>5 DEF IInv, FlagsFollow, AttemptsRemember, WriteMark
      <3>2. successes[due[n]] = 0
        BY <3>1 DEF IInv, TypeOK, ReportedIsMarked
      <3>3. ReportedIsMarked'
        BY <1>7, <2>5, <3>1, <3>2 DEF IInv, TypeOK, ReportedIsMarked, WriteMark
      <3>4. ReportersDiffer'
        BY <1>7, <2>5, <3>1 DEF IInv, TypeOK, ReportedIsMarked, ReportersDiffer, WriteMark
      <3> QED
        BY <2>1, <2>2, <2>3, <3>3, <3>4 DEF IInv
    <2> QED
      BY <1>7, <2>4, <2>5 DEF WriteMark, MarkApplies
  <1>8. ASSUME NEW n \in Nodes, Cancel(n) PROVE IInv'
    BY <1>8 DEF IInv, TypeOK, FlagsFollow, AttemptsRemember, LeaseProtectsRunner, MarkWasBackedUp,
       ReportedIsMarked, ReportersDiffer, SuccessOnce, InLease, Cancel
  <1>9. ASSUME NEW n \in Nodes, Overrun(n) PROVE IInv'
    BY <1>9 DEF IInv, TypeOK, FlagsFollow, AttemptsRemember, LeaseProtectsRunner, MarkWasBackedUp,
       ReportedIsMarked, ReportersDiffer, SuccessOnce, InLease, Overrun, Fault
  <1>10. ASSUME NEW n \in Nodes, Release(n) PROVE IInv'
    <2>1. TypeOK'
      <3>1. faults' \in 0..MaxFaults
        BY <1>10, Bounds DEF IInv, TypeOK, Release
      <3>2. lease' \in Nodes \cup {Nobody, Stale}
        BY <1>10 DEF IInv, TypeOK, Release
      <3>3. successes' \in [Slots -> Nat]
        BY <1>10 DEF IInv, TypeOK, AttemptsRemember, Release
      <3> QED
        BY <1>10, <3>1, <3>2, <3>3 DEF IInv, TypeOK, Release, Goes
    <2>2. LeaseProtectsRunner'
      BY <1>10 DEF IInv, TypeOK, LeaseProtectsRunner, InLease, Release, Holder, Goes
    <2>3. FlagsFollow' /\ AttemptsRemember' /\ MarkWasBackedUp'
      BY <1>10 DEF IInv, TypeOK, FlagsFollow, AttemptsRemember, MarkWasBackedUp, Release, Goes
    <2>4. good' \cap ran' = (good \cap ran) \ {n}
      BY <1>10 DEF Release
    <2>5. CASE successes' = successes
      BY <1>10, <2>1, <2>2, <2>3, <2>4, <2>5 DEF IInv, ReportedIsMarked, ReportersDiffer, SuccessOnce, Release
    <2>6. CASE n \in good \cap ran /\ successes' = [successes EXCEPT ![due[n]] = @ + 1]
      <3>1. due[n] \in Slots /\ successes[due[n]] = 0 /\ due[n] <= mark
        BY <1>10, <2>6 DEF IInv, AttemptsRemember, ReportedIsMarked, Release
      <3>2. SuccessOnce'
        BY <2>6, <3>1 DEF IInv, TypeOK, SuccessOnce
      <3>3. ReportedIsMarked' /\ ReportersDiffer'
        BY <1>10, <2>4, <2>6, <3>1 DEF IInv, TypeOK, ReportedIsMarked, ReportersDiffer, Release
      <3> QED
        BY <2>1, <2>2, <2>3, <3>2, <3>3 DEF IInv
    <2> QED
      BY <1>10, <2>5, <2>6 DEF Release
  <1>11. ASSUME NEW n \in Nodes, Crash(n) PROVE IInv'
    <2>1. TypeOK' /\ LeaseProtectsRunner'
      BY <1>11 DEF IInv, TypeOK, LeaseProtectsRunner, InLease, Crash, Fault, Goes
    <2>2. FlagsFollow' /\ AttemptsRemember' /\ MarkWasBackedUp'
      BY <1>11 DEF IInv, TypeOK, FlagsFollow, AttemptsRemember, MarkWasBackedUp, Crash, Goes
    <2>3. good' \cap ran' = (good \cap ran) \ {n}
      BY <1>11 DEF Crash
    <2> QED
      BY <1>11, <2>1, <2>2, <2>3 DEF IInv, ReportedIsMarked, ReportersDiffer, SuccessOnce, Crash
  <1>12. CASE UNCHANGED vars
    BY <1>12 DEF IInv, TypeOK, FlagsFollow, AttemptsRemember, LeaseProtectsRunner, MarkWasBackedUp,
       ReportedIsMarked, ReportersDiffer, SuccessOnce, InLease, vars, attemptVars
  <1> QED
    BY <1>1, <1>2, <1>3, <1>4, <1>5, <1>6, <1>7, <1>8, <1>9, <1>10, <1>11, <1>12 DEF Next, Progress

(* The inductive invariant holds of every behaviour. *)
LEMMA Invariance == Spec => []IInv
  BY InitIInv, NextIInv, PTL DEF Spec

(* For every cluster, no acquisition and no release of an older attempt    *)
(* takes the lease from an attempt whose own time to live has not passed.  *)
THEOREM LeaseSafety == Spec => []LeaseProtectsRunner
  <1>1. IInv => LeaseProtectsRunner
    BY DEF IInv
  <1> QED
    BY <1>1, Invariance, PTL

(* For every cluster and schedule, no slot is reported as backed up twice. *)
THEOREM ReportSafety == Spec => []SuccessOnce
  <1>1. IInv => SuccessOnce
    BY DEF IInv
  <1> QED
    BY <1>1, Invariance, PTL

(* The watermark only ever names a slot whose job returned without error.  *)
THEOREM MarkSafety == Spec => []MarkWasBackedUp
  <1>1. IInv => MarkWasBackedUp
    BY DEF IInv
  <1> QED
    BY <1>1, Invariance, PTL

(* No step moves the completion watermark back. *)
THEOREM WatermarkNeverMovesBack == Spec => WatermarkMonotone
  <1>1. IInv /\ [Next]_vars => [mark' >= mark]_vars
    <2> SUFFICES ASSUME IInv, [Next]_vars PROVE mark' >= mark
      OBVIOUS
    <2> mark \in Int
      BY BackupAssumption DEF IInv, TypeOK
    <2>1. CASE \E n \in Nodes : WriteMark(n)
      BY <2>1, BackupAssumption DEF IInv, TypeOK, AttemptsRemember, WriteMark, MarkApplies
    <2>2. CASE ~\E n \in Nodes : WriteMark(n)
      <3>1. mark' = mark
        BY <2>2 DEF Next, Progress, vars, attemptVars, Tick, Expire, Pick, Acquire, ReadMark, FinishJob,
           Release, Cancel, Overrun, Crash
      <3> QED
        BY <3>1
    <2> QED
      BY <2>1, <2>2
  <1> QED
    BY <1>1, Invariance, PTL DEF Spec, WatermarkMonotone

(***************************************************************************)
(* Back-channel logout, for any number of rows and steps, any retry limit  *)
(* and any number of crashes and overrun leases.                           *)
(***************************************************************************)

(* A lease is held by a step that works on the row, and only on a row that *)
(* still wants delivery; a row that wants delivery is below the limit.     *)
LeaseInv ==
    \A r \in Rows :
        /\ leases[r] # NoStep => status[r] = "pending"
        /\ leases[r] \in Steps => row[leases[r]] = r /\ at[leases[r]] \in {"claimed", "sending", "outcome"}
        /\ status[r] \in {"none", "pending"} => attempts[r] < MaxAttempts

(* What a step carries: a row from the candidate read on, the attempt      *)
(* counter of the row for as long as it holds the lease, and a result only *)
(* between the request and its completion.                                 *)
StepInv ==
    \A p \in Steps :
        /\ at[p] # "idle" => row[p] \in Rows
        /\ at[p] \in {"sending", "outcome"} /\ leases[row[p]] = p => seen[p] = attempts[row[p]]
        /\ at[p] = "outcome" => result[p] # "none"
        /\ at[p] = "outcome" /\ result[p] = "ok" => row[p] \in received

(* The inductive invariant.                                                *)
WorkerInv == WorkerTypeOK /\ LeaseInv /\ StepInv /\ OneEventAtLimit /\ DeliveredWasReceived

(* The initial outbox is empty and no step is under way.                   *)
LEMMA WorkerStart ==
    WorkerInit => WorkerInv
BY WorkerAssumption DEF WorkerInit, WorkerInv, WorkerTypeOK, LeaseInv, StepInv, OneEventAtLimit, DeliveredWasReceived,
       StatusStates, StepStates, Results

(* Every action keeps the type invariant.                                  *)
LEMMA WorkerTypeStep ==
    WorkerInv /\ [WorkerNext]_workerVars => WorkerTypeOK'
<1> SUFFICES ASSUME WorkerInv, [WorkerNext]_workerVars PROVE WorkerTypeOK'
  OBVIOUS
<1> USE WorkerAssumption DEF WorkerInv, WorkerTypeOK, StatusStates, StepStates, Results, rowVars, stepVars, Move, Stop
<1>1. ASSUME NEW r \in Rows, Enqueue(r) PROVE WorkerTypeOK'
  BY <1>1 DEF Enqueue
<1>2. ASSUME NEW r \in Rows, Remove(r) PROVE WorkerTypeOK'
  BY <1>2 DEF Remove
<1>3. ASSUME NEW r \in Rows, RetryDue(r) PROVE WorkerTypeOK'
  BY <1>3 DEF RetryDue
<1>4. ASSUME NEW r \in Rows, LeaseEnds(r) PROVE WorkerTypeOK'
  BY <1>4 DEF LeaseEnds
<1>5. ASSUME NEW r \in Rows, LeaseOverrun(r) PROVE WorkerTypeOK'
  BY <1>5 DEF LeaseOverrun
<1>6. ASSUME NEW p \in Steps, NEW r \in Rows, Candidate(p, r) PROVE WorkerTypeOK'
  BY <1>6 DEF Candidate
<1>7. ASSUME NEW p \in Steps, Claim(p) PROVE WorkerTypeOK'
  BY <1>7 DEF Claim, StepInv
<1>8. ASSUME NEW p \in Steps, ReadWinner(p) PROVE WorkerTypeOK'
  BY <1>8 DEF ReadWinner, StepInv
<1>9. ASSUME NEW p \in Steps, Attempt(p) PROVE WorkerTypeOK'
  BY <1>9 DEF Attempt, StepInv
<1>10. ASSUME NEW p \in Steps, Complete(p) PROVE WorkerTypeOK'
  <2>1. row[p] \in Rows /\ Outcome(p) \in StatusStates
    BY <1>10 DEF Complete, StepInv, Outcome
  <2>2. Settles(p) => attempts[row[p]] < MaxAttempts
    BY <2>1 DEF Settles, LeaseInv
  <2>3. CASE Settles(p)
    <3>1. attempts' \in [Rows -> 0..MaxAttempts]
      BY <1>10, <2>1, <2>2, <2>3 DEF Complete
    <3>2. events' \in [Rows -> Nat]
      BY <1>10, <2>1, <2>3 DEF Complete
    <3>3. status' \in [Rows -> StatusStates] /\ dueRows' \subseteq Rows /\ lapsed' \subseteq Rows
          /\ leases' \in [Rows -> Steps \cup {NoStep, LostStep}]
      BY <1>10, <2>1, <2>3 DEF Complete
    <3> QED BY <1>10, <3>1, <3>2, <3>3 DEF Complete
  <2>4. CASE ~Settles(p)
    BY <1>10, <2>4 DEF Complete
  <2> QED BY <2>3, <2>4
<1>11. ASSUME NEW p \in Steps, StepDies(p) PROVE WorkerTypeOK'
  BY <1>11 DEF StepDies
<1>12. CASE UNCHANGED workerVars
  BY <1>12 DEF workerVars
<1> QED BY <1>1, <1>2, <1>3, <1>4, <1>5, <1>6, <1>7, <1>8, <1>9, <1>10, <1>11, <1>12 DEF WorkerNext, Proceed

(* Every action keeps the rest of the invariant.                           *)
LEMMA WorkerStep ==
    WorkerInv /\ [WorkerNext]_workerVars => WorkerInv'
<1> SUFFICES ASSUME WorkerInv, [WorkerNext]_workerVars PROVE (LeaseInv /\ StepInv /\ OneEventAtLimit /\ DeliveredWasReceived)'
  BY WorkerTypeStep DEF WorkerInv
<1> DEFINE Rest == LeaseInv /\ StepInv /\ OneEventAtLimit /\ DeliveredWasReceived
<1> USE WorkerAssumption DEF WorkerInv, WorkerTypeOK, rowVars, stepVars, Move, Stop,
        LeaseInv, StepInv, OneEventAtLimit, DeliveredWasReceived
<1>1. ASSUME NEW r \in Rows, Enqueue(r) PROVE Rest'
  BY <1>1 DEF Enqueue
<1>2. ASSUME NEW r \in Rows, Remove(r) PROVE Rest'
  BY <1>2 DEF Remove
<1>3. ASSUME NEW r \in Rows, RetryDue(r) PROVE Rest'
  BY <1>3 DEF RetryDue
<1>4. ASSUME NEW r \in Rows, LeaseEnds(r) PROVE Rest'
  BY <1>4 DEF LeaseEnds
<1>5. ASSUME NEW r \in Rows, LeaseOverrun(r) PROVE Rest'
  BY <1>5 DEF LeaseOverrun
<1>6. ASSUME NEW p \in Steps, NEW r \in Rows, Candidate(p, r) PROVE Rest'
  BY <1>6 DEF Candidate
<1>7. ASSUME NEW p \in Steps, Claim(p) PROVE Rest'
  BY <1>7 DEF Claim, Claimable
<1>8. ASSUME NEW p \in Steps, ReadWinner(p) PROVE Rest'
  BY <1>8 DEF ReadWinner
<1>9. ASSUME NEW p \in Steps, Attempt(p) PROVE Rest'
  BY <1>9 DEF Attempt
<1>10. ASSUME NEW p \in Steps, Complete(p) PROVE Rest'
  <2> DEFINE r == row[p]
  <2>1. r \in Rows /\ at[p] = "outcome"
    BY <1>10 DEF Complete
  <2>2. CASE ~Settles(p)
    BY <1>10, <2>1, <2>2 DEF Complete, Settles
  <2>3. CASE Settles(p)
    <3>1. /\ leases[r] = p /\ status[r] = "pending" /\ seen[p] = attempts[r]
          /\ attempts[r] < MaxAttempts /\ events[r] = 0
      BY <2>1, <2>3 DEF Settles
    <3>2. /\ attempts' = [attempts EXCEPT ![r] = attempts[r] + 1]
          /\ status' = [status EXCEPT ![r] = Outcome(p)]
          /\ leases' = [leases EXCEPT ![r] = NoStep]
          /\ events' = [events EXCEPT ![r] = IF Exhausted(p) THEN 1 ELSE 0]
          /\ at' = [at EXCEPT ![p] = "idle"] /\ row' = [row EXCEPT ![p] = NoRow]
          /\ result' = [result EXCEPT ![p] = "none"]
          /\ UNCHANGED <<seen, received>>
      BY <1>10, <2>3, <3>1 DEF Complete
    <3>3. /\ Outcome(p) = "delivered" => r \in received
          /\ Outcome(p) \in {"delivered", "failed", "pending"}
          /\ Outcome(p) = "pending" => attempts[r] + 1 < MaxAttempts
          /\ Exhausted(p) <=> Outcome(p) = "failed" /\ attempts[r] + 1 = MaxAttempts
      BY <2>1, <3>1 DEF Outcome, Exhausted, Results
    <3>4. LeaseInv'
      BY <2>1, <3>1, <3>2, <3>3
    <3>5. StepInv'
      BY <2>1, <3>1, <3>2
    <3>6. OneEventAtLimit'
      BY <2>1, <3>1, <3>2, <3>3
    <3>7. DeliveredWasReceived'
      BY <2>1, <3>2, <3>3
    <3> QED BY <3>4, <3>5, <3>6, <3>7
  <2> QED BY <2>2, <2>3
<1>11. ASSUME NEW p \in Steps, StepDies(p) PROVE Rest'
  BY <1>11 DEF StepDies
<1>12. CASE UNCHANGED workerVars
  BY <1>12 DEF workerVars
<1> QED BY <1>1, <1>2, <1>3, <1>4, <1>5, <1>6, <1>7, <1>8, <1>9, <1>10, <1>11, <1>12 DEF WorkerNext, Proceed

(* The invariant holds in every reachable state.                           *)
LEMMA WorkerInvariance ==
    WorkerSpec => []WorkerInv
BY WorkerStart, WorkerStep, PTL DEF WorkerSpec

(* Every row of the outbox and every step of a worker keeps its type.      *)
THEOREM WorkerTypesHold ==
    WorkerSpec => []WorkerTypeOK
<1>1. WorkerInv => WorkerTypeOK
  BY DEF WorkerInv
<1> QED BY <1>1, WorkerInvariance, PTL

(* However many workers claim a row after each other's leases, complete    *)
(* settles it within MaxAttempts attempts, and the failure event of the    *)
(* limit is written once for a row that reaches it and for no other.       *)
THEOREM OneEvent ==
    WorkerSpec => []OneEventAtLimit
<1>1. WorkerInv => OneEventAtLimit
  BY DEF WorkerInv
<1> QED BY <1>1, WorkerInvariance, PTL

(* complete marks a row delivered only after its relying party took the    *)
(* notification.                                                           *)
THEOREM DeliveredReceived ==
    WorkerSpec => []DeliveredWasReceived
<1>1. WorkerInv => DeliveredWasReceived
  BY DEF WorkerInv
<1> QED BY <1>1, WorkerInvariance, PTL

(* The lease comparison of complete and the claim's own condition make an  *)
(* outcome final: only a removal of the client touches a settled row.      *)
THEOREM FinalOutcome ==
    WorkerSpec => OutcomeIsFinal
<1>1. WorkerInv /\ [WorkerNext]_workerVars =>
        [\A r \in Rows : status[r] \in {"delivered", "failed"} => status'[r] \in {status[r], "removed"}]_workerVars
  <2> SUFFICES ASSUME WorkerInv, WorkerNext, NEW r \in Rows, status[r] \in {"delivered", "failed"}
               PROVE  status'[r] \in {status[r], "removed"}
    OBVIOUS
  <2> USE DEF WorkerInv, WorkerTypeOK, rowVars, stepVars
  <2>1. ASSUME NEW q \in Rows, Enqueue(q) \/ Remove(q) \/ RetryDue(q) \/ LeaseEnds(q) \/ LeaseOverrun(q)
        PROVE  status'[r] \in {status[r], "removed"}
    BY <2>1 DEF Enqueue, Remove, RetryDue, LeaseEnds, LeaseOverrun
  <2>2. ASSUME NEW p \in Steps, Complete(p) PROVE status'[r] \in {status[r], "removed"}
    <3>1. row[p] \in Rows /\ (Settles(p) => status[row[p]] = "pending")
      BY <2>2, WorkerAssumption DEF Complete, Settles, StepInv, LeaseInv
    <3> QED BY <2>2, <3>1 DEF Complete
  <2>3. ASSUME NEW p \in Steps, Proceed(p) \/ StepDies(p), ~Complete(p) PROVE status' = status
    BY <2>3 DEF Proceed, Candidate, Claim, ReadWinner, Attempt, StepDies
  <2> QED BY <2>1, <2>2, <2>3 DEF WorkerNext
<1> QED BY <1>1, WorkerInvariance, PTL DEF WorkerSpec, OutcomeIsFinal
=============================================================================
