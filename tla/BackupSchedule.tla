---------------------------- MODULE BackupSchedule ----------------------------
(***************************************************************************)
(* The scheduled backups of a cluster (internal/backupschedule).  Every    *)
(* node runs the same dispatcher: it waits for the next slot, takes a      *)
(* replicated lease with a time to live, reads the completion watermark,   *)
(* runs the job and moves the watermark by compare-and-set.                *)
(*                                                                         *)
(* The lease key holds a random token of one attempt: a node's name stands *)
(* for its current attempt, Stale for a token nobody uses any more.  The   *)
(* store's operations are atomic; their answers may be lost.               *)
(***************************************************************************)
EXTENDS Integers, FiniteSets

CONSTANTS
    Nodes,      \* processes of the cluster
    Nobody,     \* the lease key does not exist or has expired
    Stale,      \* the lease key holds a token of an attempt that is over
    MaxSlot,    \* bound on the schedule: slots are 1..MaxSlot
    MaxFaults   \* bound on crashes, overrun leases and lost answers

ASSUME BackupAssumption ==
    /\ Nobody \notin Nodes /\ Stale \notin Nodes /\ Nobody # Stale
    /\ MaxSlot \in Nat \ {0}
    /\ MaxFaults \in Nat

VARIABLES
    clock,      \* the last slot whose time has come
    lease,      \* goauthy/backup-lease/...
    mark,       \* goauthy/backup-completed/..., 0 while the key does not exist
    pc, due, prev,
    cancelled,  \* attempts whose work context is cancelled
    good,       \* attempts whose job function has returned nil so far
    ran,        \* attempts that called the job: executed
    overrun,    \* history: attempts whose lease expired under them
    done,       \* history: slots for which a job returned nil
    successes,  \* history: per slot, attempts reported with executed and no error
    faults

attemptVars == <<pc, due, prev, cancelled, good, ran, overrun>>
vars == <<clock, lease, mark, attemptVars, done, successes, faults>>

Slots == 1..MaxSlot
PcStates == {"idle", "waiting", "reading", "working", "marking", "releasing"}

(* The lease, the watermark and every attempt have their types; an attempt *)
(* is for a slot of the schedule.                                          *)
TypeOK ==
    /\ clock \in 0..MaxSlot
    /\ lease \in Nodes \cup {Nobody, Stale}
    /\ mark \in 0..MaxSlot
    /\ pc \in [Nodes -> PcStates]
    /\ due \in [Nodes -> 0..MaxSlot]
    /\ prev \in [Nodes -> 0..MaxSlot]
    /\ cancelled \subseteq Nodes
    /\ good \subseteq Nodes
    /\ ran \subseteq Nodes
    /\ overrun \subseteq Nodes
    /\ done \subseteq Slots
    /\ successes \in [Slots -> Nat]
    /\ faults \in 0..MaxFaults

Init ==
    /\ clock = 0 /\ lease = Nobody /\ mark = 0
    /\ pc = [n \in Nodes |-> "idle"]
    /\ due = [n \in Nodes |-> 0]
    /\ prev = [n \in Nodes |-> 0]
    /\ cancelled = {} /\ good = {} /\ ran = {} /\ overrun = {} /\ done = {}
    /\ successes = [s \in Slots |-> 0]
    /\ faults = 0

Fault == faults < MaxFaults /\ faults' = faults + 1
Goes(n, where) == pc' = [pc EXCEPT ![n] = where]

Tick ==
    /\ clock < MaxSlot
    /\ clock' = clock + 1
    /\ UNCHANGED <<lease, mark, attemptVars, done, successes, faults>>

(***************************************************************************)
(* Run: the next slot in the future; slots missed meanwhile are skipped.   *)
(***************************************************************************)
NextSlot == clock + 1

Pick(n) ==
    /\ pc[n] = "idle"
    /\ clock < MaxSlot
    /\ Goes(n, "waiting")
    /\ due' = [due EXCEPT ![n] = NextSlot]
    /\ UNCHANGED <<clock, lease, mark, prev, cancelled, good, ran, overrun, done, successes, faults>>

(***************************************************************************)
(* WithLease: acquisition.                                                 *)
(***************************************************************************)
Acquired(n) ==
    /\ lease = Nobody
    /\ lease' = n
    /\ Goes(n, "reading")
    /\ UNCHANGED faults

(* Somebody holds the lease: the attempt ends without an error. *)
Busy(n) ==
    /\ lease # Nobody
    /\ Goes(n, "idle")
    /\ UNCHANGED <<lease, faults>>

(* The mutation failed or its receipt came too late: the token may or may  *)
(* not have been written, and nobody will ever release it.                 *)
AcquireUnknown(n) ==
    /\ Fault
    /\ lease' \in IF lease = Nobody THEN {Nobody, Stale} ELSE {lease}
    /\ Goes(n, "idle")

Acquire(n) ==
    /\ pc[n] = "waiting"
    /\ due[n] <= clock
    /\ Acquired(n) \/ Busy(n) \/ AcquireUnknown(n)
    /\ UNCHANGED <<clock, mark, due, prev, cancelled, good, ran, overrun, done, successes>>

(***************************************************************************)
(* RunSlot, inside the lease.                                              *)
(***************************************************************************)
ReadMarkBlindly(n) ==  \* Mutant: the job runs whatever the watermark says.
    /\ pc[n] = "reading" /\ n \notin cancelled
    /\ prev' = [prev EXCEPT ![n] = mark]
    /\ ran' = ran \cup {n}
    /\ Goes(n, "working")
    /\ UNCHANGED <<clock, lease, mark, due, cancelled, good, overrun, done, successes, faults>>

(* The linearizable read of the watermark and the start of the job. *)
ReadMark(n) ==
    /\ pc[n] = "reading"
    /\ \/ /\ n \notin cancelled /\ mark >= due[n]
          /\ good' = good \cup {n}
          /\ Goes(n, "releasing")
          /\ UNCHANGED <<prev, ran, faults>>
       \/ /\ n \notin cancelled /\ mark < due[n]
          /\ prev' = [prev EXCEPT ![n] = mark]
          /\ ran' = ran \cup {n}
          /\ Goes(n, "working")
          /\ UNCHANGED <<good, faults>>
       \/ /\ IF n \in cancelled THEN UNCHANGED faults ELSE Fault
          /\ Goes(n, "releasing")
          /\ UNCHANGED <<prev, good, ran>>
    /\ UNCHANGED <<clock, lease, mark, due, cancelled, overrun, done, successes>>

FinishJobIgnoringError(n, ok) ==  \* Mutant: the job's error is dropped.
    /\ pc[n] = "working"
    /\ done' = IF ok THEN done \cup {due[n]} ELSE done
    /\ Goes(n, IF n \notin cancelled THEN "marking" ELSE "releasing")
    /\ UNCHANGED <<clock, lease, mark, due, prev, cancelled, good, ran, overrun, successes, faults>>

(* The job returns; a cancelled attempt does not reach the watermark. *)
FinishJob(n, ok) ==
    /\ pc[n] = "working"
    /\ done' = IF ok THEN done \cup {due[n]} ELSE done
    /\ Goes(n, IF ok /\ n \notin cancelled THEN "marking" ELSE "releasing")
    /\ UNCHANGED <<clock, lease, mark, due, prev, cancelled, good, ran, overrun, successes, faults>>

MarkApplyAlways(n) == TRUE  \* Mutant: an unconditional put.
MarkApplies(n) == mark = prev[n]

(* The compare-and-set of the watermark: not applied, applied, or applied  *)
(* with its answer lost.                                                   *)
WriteMark(n) ==
    /\ pc[n] = "marking"
    /\ \/ /\ MarkApplies(n)
          /\ mark' = due[n]
          /\ \/ good' = good \cup {n} /\ UNCHANGED faults
             \/ Fault /\ UNCHANGED good
       \/ /\ ~MarkApplies(n)
          /\ UNCHANGED <<mark, good, faults>>
       \/ /\ IF n \in cancelled THEN UNCHANGED faults ELSE Fault
          /\ UNCHANGED <<mark, good>>
    /\ Goes(n, "releasing")
    /\ UNCHANGED <<clock, lease, due, prev, cancelled, ran, overrun, done, successes>>

(***************************************************************************)
(* WithLease: renewal, release and what the store and the cluster do.      *)
(***************************************************************************)
InLease(n) == pc[n] \in {"reading", "working", "marking"}

(* A renewal that is not proved to have succeeded, or the deadline of the  *)
(* attempt, cancels the work context.                                      *)
Cancel(n) ==
    /\ InLease(n) \/ pc[n] = "releasing"
    /\ n \notin cancelled
    /\ cancelled' = cancelled \cup {n}
    /\ UNCHANGED <<clock, lease, mark, pc, due, prev, good, ran, overrun, done, successes, faults>>

HolderOrNot(n) == TRUE  \* Mutant: KVDelete instead of a conditional expiry.
Holder(n) == lease = n

(* The deferred release: a conditional expiry by the exact token.  The     *)
(* attempt reports success only when the lease was still its own.          *)
Release(n) ==
    /\ pc[n] = "releasing"
    /\ \/ /\ Holder(n)
          /\ lease' = Nobody
          /\ successes' = IF n \in good \cap ran /\ n \notin cancelled
                          THEN [successes EXCEPT ![due[n]] = @ + 1] ELSE successes
          /\ UNCHANGED faults
       \/ /\ ~Holder(n)
          /\ UNCHANGED <<lease, successes, faults>>
       \/ /\ Fault
          /\ lease' \in IF lease = n THEN {Nobody, Stale} ELSE {lease}
          /\ UNCHANGED successes
    /\ Goes(n, "idle")
    /\ cancelled' = cancelled \ {n}
    /\ good' = good \ {n}
    /\ ran' = ran \ {n}
    /\ overrun' = overrun \ {n}
    /\ UNCHANGED <<clock, mark, due, prev, done>>

(* The time to live of a lease that a paused attempt did not renew. *)
Overrun(n) ==
    /\ lease = n
    /\ Fault
    /\ lease' = Nobody
    /\ overrun' = overrun \cup {n}
    /\ UNCHANGED <<clock, mark, pc, due, prev, cancelled, good, ran, done, successes>>

NeverExpires == FALSE  \* Mutant: a lease without a time to live.
Expired == lease = Stale

(* The time to live of a lease whose attempt is over. *)
Expire ==
    /\ Expired
    /\ lease' = Nobody
    /\ UNCHANGED <<clock, mark, attemptVars, done, successes, faults>>

(* A crash forgets the attempt; the key keeps its token until it expires. *)
Crash(n) ==
    /\ pc[n] # "idle"
    /\ Fault
    /\ Goes(n, "idle")
    /\ lease' = IF lease = n THEN Stale ELSE lease
    /\ cancelled' = cancelled \ {n}
    /\ good' = good \ {n}
    /\ ran' = ran \ {n}
    /\ overrun' = overrun \ {n}
    /\ UNCHANGED <<clock, mark, due, prev, done, successes>>

Progress(n) ==
    \/ Acquire(n) \/ ReadMark(n) \/ WriteMark(n) \/ Release(n)
    \/ \E ok \in BOOLEAN : FinishJob(n, ok)

Next ==
    \/ Tick
    \/ Expire
    \/ \E n \in Nodes : Pick(n) \/ Progress(n) \/ Cancel(n) \/ Overrun(n) \/ Crash(n)

(* Every attempt has a deadline its job must honour, each store call a     *)
(* timeout of a third of the lease, and the store expires keys.            *)
Spec == Init /\ [][Next]_vars /\ WF_vars(Expire) /\ \A n \in Nodes : WF_vars(Progress(n))

(***************************************************************************)
(* Properties.                                                             *)
(***************************************************************************)
(* Nobody takes the lease from an attempt: while the job may run and its   *)
(* own time to live did not pass, the key holds that attempt's token, so   *)
(* no release of an older attempt and no second acquisition got through.   *)
LeaseProtectsRunner == \A n \in Nodes : InLease(n) /\ n \notin overrun => lease = n

(* A slot is reported as backed up at most once: two attempts for a slot,  *)
(* even when the first lost its lease in the middle, never both report an  *)
(* executed job without an error.                                          *)
SuccessOnce == \A s \in Slots : successes[s] <= 1

(* The watermark tells the truth: the slot it names, because of which      *)
(* RunSlot skips every slot up to it, is one whose job did return nil.     *)
MarkWasBackedUp == mark # 0 => mark \in done

(* The watermark never moves back: a late holder of an earlier slot cannot *)
(* overwrite its successor's marker.                                       *)
WatermarkMonotone == [][mark' >= mark]_vars

(* The lease always comes back, whatever was crashed or left unanswered.   *)
LeaseReturns == lease # Nobody ~> lease = Nobody
=============================================================================
