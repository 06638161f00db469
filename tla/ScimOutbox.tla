------------------------------ MODULE ScimOutbox ------------------------------
(***************************************************************************)
(* Outbound SCIM provisioning: the outbox rows of one provider             *)
(* (internal/scim), the tombstone of a deleted user (internal/identity),   *)
(* and the reconciliation passes that every replica runs                   *)
(* (cmd/goauthy/scim.go).                                                  *)
(*                                                                         *)
(* One user and one group stand for the local entities.  A pass lists      *)
(* users, tombstones and groups one after the other, queues what it saw,   *)
(* drains the queue and sweeps.  An attempt of the drain claims a row,     *)
(* reads it back, looks the remote resource up, changes it, and records    *)
(* the outcome.  Each of those is an action: the administrators and the    *)
(* other replicas act in between.                                          *)
(*                                                                         *)
(* Time: retry delays are left out (a pending row is due), retention may   *)
(* have passed for any finished row, and a lease lapses only when its      *)
(* attempt is over or died: RequestTimeout < LeaseDuration (Outbox.valid)  *)
(* ends the claim, the read back and the exchange before the lease does.   *)
(***************************************************************************)
EXTENDS Naturals, FiniteSets

CONSTANTS
    Replicas,      \* replicas that run scimRuntime.Run
    NoReplica,     \* SQL NULL of lease_token, and the token of a dead replica
    Versions,      \* projections a user or a group may have (name, active)
    MaxAttempts,   \* OutboxConfig.MaxAttempts
    Scenarios,     \* what there is at the start, and bounds on what changes:
                   \* [provisioned, user, group]
    MaxFaults      \* bound on crashes and failed exchanges

Jobs == {"user", "group"}
Gone == 99

ASSUME ScimAssumption ==
    /\ NoReplica \notin Replicas
    /\ Versions \subseteq Nat \ {0, Gone} /\ Versions # {}
    /\ MaxAttempts \in Nat \ {0}
    /\ Scenarios \subseteq [provisioned : {0} \cup Versions, user : Nat, group : Nat]
    /\ MaxFaults \in Nat

VARIABLES
    user,     \* identity_users projection, 0 when there is no such user
    tomb,     \* generation in scim_user_tombstones, 0 when there is none
    group,    \* rbac_groups name; Gone after deletion (group ids are random)
    rows,     \* scim_user_outbox
    mapping,  \* scim_user_mappings: remote user id, 0 when there is none
    remote,   \* the provider: remote user [id, v] and group content
    rep,      \* replicas: where the pass is, what it listed, its attempt
    budget,   \* changes of the local entities still to come
    faults,   \* faults so far
    gaveUp,   \* history: jobs that were dead-lettered
    overtaken \* history: a sync changed the provider after the deletion of
              \* its user

localVars == <<user, tomb, group>>
counters == <<budget, faults>>
history == <<gaveUp, overtaken>>
vars == <<localVars, rows, mapping, remote, rep, counters, history>>

NoGroup == <<0, 0>>
Statuses == {"none", "pending", "processing", "succeeded", "dead"}
PassSteps == {"idle", "tombstones", "groups", "enqueueUser", "enqueueGroup",
              "enqueueDelete", "drain", "sweepTombstones", "sweepOutbox"}
AttemptSteps == {"readback", "find", "send", "finish", "fail"}

(* A queued request: the projection of a user with no second part, the      *)
(* generation of the tombstone it deletes for, or the content of a group.    *)
Request(op, v) == [op |-> op, v |-> v]
SyncUser(v) == Request("sync", <<v, 0>>)
RemoveUser(generation) == Request("delete", <<generation, 0>>)
NoRequest == Request("none", NoGroup)
EmptyRow == [st |-> "none", req |-> NoRequest, att |-> 0, rev |-> 0,
                own |-> NoReplica, lapsed |-> FALSE]
IdleReplica == [pc |-> "idle", user |-> 0, tomb |-> 0, group |-> NoGroup,
                job |-> "user", req |-> NoRequest, rev |-> 0, att |-> 0,
                found |-> 0, mapped |-> 0]
NextAttempt == [IdleReplica EXCEPT !.pc = "drain"]

(* What may be queued for the user and for the group, a row of the outbox, *)
(* and a replica with its attempt.                                         *)
UserRequests ==
    [op : {"sync"}, v : Versions \X {0}] \cup [op : {"delete"}, v : Nat \X {0}] \cup {NoRequest}
GroupRequests ==
    [op : {"sync"}, v : Versions \X Nat] \cup [op : {"delete", "none"}, v : {NoGroup}]
RequestsOf(j) == IF j = "user" THEN UserRequests ELSE GroupRequests
Requests == UserRequests \cup GroupRequests
Row == [st : Statuses, req : Requests, att : 0..MaxAttempts, rev : Nat,
        own : Replicas \cup {NoReplica}, lapsed : BOOLEAN]
Replica == [pc : PassSteps \cup AttemptSteps, user : Versions \cup {0}, tomb : Nat,
            group : (Versions \X {0, 1}) \cup {NoGroup}, job : Jobs, req : Requests, rev : Nat,
            att : 0..MaxAttempts, found : Nat, mapped : Nat]
Provider == [id : Nat, v : Versions \cup {0}, group : (Versions \X Nat) \cup {NoGroup}, last : Nat]

(* Every row, mapping, remote resource and replica has its type, a request *)
(* fits its row, and only a row in process has a lease.                    *)
TypeOK ==
    /\ user \in Versions \cup {0}
    /\ tomb \in Nat
    /\ group \in Versions \cup {0, Gone}
    /\ rows \in [Jobs -> Row]
    /\ \A j \in Jobs :
         /\ rows[j].req \in RequestsOf(j)
         /\ rows[j].st = "processing" \/ rows[j].own = NoReplica
    /\ mapping \in Nat
    /\ remote \in Provider
    /\ rep \in [Replicas -> Replica]
    /\ \A r \in Replicas : rep[r].req \in RequestsOf(rep[r].job)
    /\ budget \in [Jobs -> Nat]
    /\ faults \in 0..MaxFaults
    /\ gaveUp \subseteq Jobs
    /\ overtaken \in BOOLEAN

(* A fresh installation, or one whose user is provisioned already.         *)
Init ==
    \E s \in Scenarios :
    /\ user = s.provisioned
    /\ tomb = 0 /\ group = 0
    /\ mapping = (IF user = 0 THEN 0 ELSE 1)
    /\ rows = [j \in Jobs |->
         IF j = "user" /\ user # 0
         THEN [EmptyRow EXCEPT !.st = "succeeded", !.req = SyncUser(user), !.att = 1, !.rev = 1]
         ELSE EmptyRow]
    /\ remote = [id |-> mapping, v |-> user, group |-> NoGroup, last |-> mapping]
    /\ rep = [r \in Replicas |-> IdleReplica]
    /\ budget = [j \in Jobs |-> IF j = "user" THEN s.user ELSE s.group]
    /\ faults = 0
    /\ gaveUp = {} /\ overtaken = FALSE

(***************************************************************************)
(* Queueing.  A row whose digest changes loses its outcome; an attempt     *)
(* under way keeps its lease and finds the revision bumped.                *)
(***************************************************************************)

Requeued(row, req) ==
    IF row.req = req THEN row
    ELSE IF row.st = "processing"
         THEN [row EXCEPT !.req = req, !.rev = row.rev + 1]
         ELSE [st |-> "pending", req |-> req, att |-> 0, rev |-> row.rev + 1,
               own |-> NoReplica, lapsed |-> FALSE]

(***************************************************************************)
(* Changes of the local entities.                                          *)
(***************************************************************************)

(* Mutant: the tombstone is not checked. *)
CreateOverTombstone(v) ==
    /\ budget["user"] > 0
    /\ user = 0
    /\ user' = v
    /\ budget' = [budget EXCEPT !["user"] = @ - 1]
    /\ UNCHANGED <<tomb, group, rows, mapping, remote, rep, faults, history>>

(* BootstrapUser: a tombstoned subject cannot be created again. *)
CreateUser(v) ==
    /\ budget["user"] > 0
    /\ user = 0 /\ tomb = 0
    /\ user' = v
    /\ budget' = [budget EXCEPT !["user"] = @ - 1]
    /\ UNCHANGED <<tomb, group, rows, mapping, remote, rep, faults, history>>

(* A rename, or a change of the account's active projection. *)
UpdateUser(v) ==
    /\ budget["user"] > 0
    /\ user # 0 /\ user # v
    /\ user' = v
    /\ budget' = [budget EXCEPT !["user"] = @ - 1]
    /\ UNCHANGED <<tomb, group, rows, mapping, remote, rep, faults, history>>

(* Store.deleteUser, one transaction: the tombstone with a fresh generation *)
(* and the snapshot of the provider, the user's outbox row removed whatever *)
(* its status, the user removed.  The mapping row stays.                    *)
DeleteUser ==
    /\ budget["user"] > 0
    /\ user # 0
    /\ budget' = [budget EXCEPT !["user"] = @ - 1]
    /\ tomb' = IF tomb # 0 THEN tomb ELSE budget["user"]
    /\ user' = 0
    /\ rows' = [rows EXCEPT !["user"] = EmptyRow]
    /\ UNCHANGED <<group, mapping, remote, rep, faults, history>>

SetGroup(v) ==
    /\ budget["group"] > 0
    /\ group \notin {v, Gone}
    /\ group' = v
    /\ budget' = [budget EXCEPT !["group"] = @ - 1]
    /\ UNCHANGED <<user, tomb, rows, mapping, remote, rep, faults, history>>

(* rbac Store.delete with SupersedeGroupProjection: the same transaction   *)
(* repoints a queued projection, if there is one, at a remote delete.      *)
DeleteGroup ==
    /\ budget["group"] > 0
    /\ group \notin {0, Gone}
    /\ group' = Gone
    /\ budget' = [budget EXCEPT !["group"] = @ - 1]
    /\ rows' = IF rows["group"].st = "none" THEN rows
               ELSE [rows EXCEPT !["group"] = Requeued(@, Request("delete", NoGroup))]
    /\ UNCHANGED <<user, tomb, mapping, remote, rep, faults, history>>

(***************************************************************************)
(* One pass of a replica: scimRuntime.Step.                                *)
(***************************************************************************)

At(r, step) == rep[r].pc = step
Goto(r, step) == rep' = [rep EXCEPT ![r] = [@ EXCEPT !.pc = step]]

ListUsers(r) ==
    /\ At(r, "idle")
    /\ rep' = [rep EXCEPT ![r] = [@ EXCEPT !.pc = "tombstones", !.user = user]]
    /\ UNCHANGED <<localVars, rows, mapping, remote, counters, history>>

ListTombstones(r) ==
    /\ At(r, "tombstones")
    /\ rep' = [rep EXCEPT ![r] = [@ EXCEPT !.pc = "groups", !.tomb = tomb]]
    /\ UNCHANGED <<localVars, rows, mapping, remote, counters, history>>

(* The listing of a group carries its member: the user, while it exists.   *)
ListGroups(r) ==
    /\ At(r, "groups")
    /\ LET listed == IF group \in Versions THEN <<group, IF user = 0 THEN 0 ELSE 1>> ELSE NoGroup
       IN  rep' = [rep EXCEPT ![r] = [@ EXCEPT !.pc = "enqueueUser", !.group = listed]]
    /\ UNCHANGED <<localVars, rows, mapping, remote, counters, history>>

(* A listed user is queued unless the pass also listed its tombstone.      *)
EnqueueUser(r) ==
    /\ At(r, "enqueueUser")
    /\ rep' = [rep EXCEPT ![r] = [@ EXCEPT !.pc = "enqueueGroup", !.user = 0]]
    /\ rows' = IF rep[r].user = 0 \/ rep[r].tomb # 0 THEN rows
               ELSE [rows EXCEPT !["user"] = Requeued(@, SyncUser(rep[r].user))]
    /\ UNCHANGED <<localVars, mapping, remote, counters, history>>

(* Mutant: the projection is queued without asking for the group again. *)
EnqueueUnfenced(r) ==
    /\ At(r, "enqueueGroup")
    /\ rep' = [rep EXCEPT ![r] = [@ EXCEPT !.pc = "enqueueDelete", !.group = NoGroup]]
    /\ LET listed == rep[r].group
           member == IF listed[2] = 1 THEN mapping ELSE 0
       IN  rows' = IF listed # NoGroup /\ (listed[2] = 1 => mapping # 0)
                   THEN [rows EXCEPT !["group"] = Requeued(@, Request("sync", <<listed[1], member>>))]
                   ELSE rows
    /\ UNCHANGED <<localVars, mapping, remote, counters, history>>

(* A listed group is queued when its member is mapped, and only while the  *)
(* group still exists (groupAdmission).  The look-up of the mapping is     *)
(* merged with the batch: a delete of the user in between queues the       *)
(* member id that a pass an instant earlier would have queued.             *)
EnqueueGroup(r) ==
    /\ At(r, "enqueueGroup")
    /\ rep' = [rep EXCEPT ![r] = [@ EXCEPT !.pc = "enqueueDelete", !.group = NoGroup]]
    /\ LET listed == rep[r].group
           member == IF listed[2] = 1 THEN mapping ELSE 0
           admitted == /\ listed # NoGroup
                       /\ listed[2] = 1 => mapping # 0
                       /\ group \in Versions
       IN  rows' = IF admitted
                   THEN [rows EXCEPT !["group"] = Requeued(@, Request("sync", <<listed[1], member>>))]
                   ELSE rows
    /\ UNCHANGED <<localVars, mapping, remote, counters, history>>

(* EnqueueTombstoneDelete: only while that generation is still there.      *)
EnqueueTombstoneDelete(r) ==
    /\ At(r, "enqueueDelete")
    /\ rep' = [rep EXCEPT ![r] = [@ EXCEPT !.pc = "drain", !.tomb = 0]]
    /\ rows' = IF rep[r].tomb # 0 /\ tomb = rep[r].tomb
               THEN [rows EXCEPT !["user"] = Requeued(@, RemoveUser(rep[r].tomb))]
               ELSE rows
    /\ UNCHANGED <<localVars, mapping, remote, counters, history>>

(***************************************************************************)
(* One attempt: Outbox.Step.                                               *)
(***************************************************************************)

(* claimableUserSQL *)
Claimable(j) ==
    j = "user" => \/ rows[j].req = RemoveUser(tomb) /\ tomb # 0
                  \/ rows[j].req = SyncUser(user) /\ user # 0 /\ tomb = 0

Due(j) ==
    /\ \/ rows[j].st = "pending"
       \/ rows[j].st = "processing" /\ rows[j].lapsed
    /\ Claimable(j)

Leased(row, r) ==
    [row EXCEPT !.st = "processing", !.att = row.att + 1, !.own = r, !.lapsed = FALSE]

Released(row, st, att) ==
    [row EXCEPT !.st = st, !.att = att, !.own = NoReplica, !.lapsed = FALSE]

Claim(r, j) ==
    /\ At(r, "drain")
    /\ Due(j) /\ rows[j].att < MaxAttempts
    /\ rows' = [rows EXCEPT ![j] = Leased(@, r)]
    /\ rep' = [rep EXCEPT ![r] = [@ EXCEPT !.pc = "readback", !.job = j]]
    /\ UNCHANGED <<localVars, mapping, remote, counters, history>>

(* deadLetterExpired: a final attempt that never reported.                 *)
DeadLetterExpired(r, j) ==
    /\ At(r, "drain")
    /\ Due(j) /\ rows[j].att >= MaxAttempts
    /\ rows' = [rows EXCEPT ![j] = Released(@, "dead", rows[j].att)]
    /\ gaveUp' = gaveUp \cup {j}
    /\ UNCHANGED <<localVars, mapping, remote, rep, counters, overtaken>>

(* lookupOwned: the request and the revision are those of this moment.     *)
ReadBack(r) ==
    /\ At(r, "readback")
    /\ LET row == rows[rep[r].job]
       IN  rep' = IF row.st = "processing" /\ row.own = r
                  THEN [rep EXCEPT ![r] = [@ EXCEPT !.pc = "find", !.req = row.req,
                                                    !.rev = row.rev, !.att = row.att]]
                  ELSE [rep EXCEPT ![r] = [@ EXCEPT !.pc = "drain"]]
    /\ UNCHANGED <<localVars, rows, mapping, remote, counters, history>>

(* The lookup half of Reconcile: a mapped delete asks for the mapped id,   *)
(* everything else searches by externalId.                                 *)
Find(r) ==
    /\ At(r, "find")
    /\ LET mapped == IF rep[r].job = "user" /\ rep[r].req.op = "delete" THEN mapping ELSE 0
           there == IF rep[r].job = "group" THEN IF remote.group = NoGroup THEN 0 ELSE 1
                    ELSE IF mapped # 0 THEN IF remote.id = mapped THEN mapped ELSE 0
                    ELSE remote.id
           next == IF rep[r].req.op = "delete" /\ there = 0 THEN "finish" ELSE "send"
       IN  rep' = [rep EXCEPT ![r] = [@ EXCEPT !.pc = next, !.found = there, !.mapped = mapped]]
    /\ UNCHANGED <<localVars, rows, mapping, remote, counters, history>>

(* What the provider does with the POST, PUT or DELETE of an attempt; a    *)
(* create over an existing externalId and an update of a missing id are    *)
(* refused, a delete of a missing id counts as done.                       *)
Refused(r) ==
    /\ rep[r].job = "user" /\ rep[r].req.op = "sync"
    /\ remote.id # rep[r].found

Effect(r) ==
    LET a == rep[r] IN
    CASE a.job = "group" -> [remote EXCEPT !.group = a.req.v]
      [] a.job = "user" /\ a.req.op = "delete" ->
           IF remote.id = a.found THEN [remote EXCEPT !.id = 0, !.v = 0] ELSE remote
      [] OTHER ->
           IF a.found = 0
           THEN [remote EXCEPT !.id = remote.last + 1, !.last = remote.last + 1, !.v = a.req.v[1]]
           ELSE [remote EXCEPT !.v = a.req.v[1]]

(* History: a sync that reaches the provider after its user was deleted.   *)
Overtakes(r) ==
    /\ rep[r].job = "user" /\ rep[r].req.op = "sync"
    /\ user = 0 \/ rows["user"].own # r

Send(r) ==
    /\ At(r, "send")
    /\ IF Refused(r)
       THEN /\ Goto(r, "fail")
            /\ UNCHANGED <<remote, overtaken>>
       ELSE /\ remote' = Effect(r)
            /\ LET id == IF rep[r].job = "user" THEN Effect(r).id ELSE 1
               IN  rep' = [rep EXCEPT ![r] = [@ EXCEPT !.pc = "finish", !.found = id]]
            /\ overtaken' = (overtaken \/ Overtakes(r))
    /\ UNCHANGED <<localVars, rows, mapping, counters, gaveUp>>

(* The exchange fails: before the provider acts, or after, its answer lost. *)
ExchangeFails(r) ==
    /\ faults < MaxFaults
    /\ rep[r].pc \in {"find", "send"}
    /\ faults' = faults + 1
    /\ Goto(r, "fail")
    /\ \/ UNCHANGED <<remote, overtaken>>
       \/ /\ At(r, "send") /\ ~Refused(r)
          /\ remote' = Effect(r)
          /\ overtaken' = (overtaken \/ Overtakes(r))
    /\ UNCHANGED <<localVars, rows, mapping, budget, gaveUp>>

(* The lease is still this attempt's; and nothing was queued meanwhile.    *)
Owned(r) == LET row == rows[rep[r].job] IN row.st = "processing" /\ row.own = r

(* Mutant: the revision is not compared. *)
OwnedIsCurrent(r) == Owned(r)

Current(r) == Owned(r) /\ rows[rep[r].job].rev = rep[r].rev

(* The mapping a success leaves behind.                                    *)
MappingAfter(r) ==
    LET a == rep[r] IN
    IF ~Current(r) \/ a.job = "group" THEN mapping
    ELSE IF a.req.op = "sync" THEN IF mapping = 0 THEN a.found ELSE mapping
    ELSE IF a.mapped # 0 /\ mapping = a.mapped THEN 0 ELSE mapping

(* The terminal statement of finishSuccess applies.                        *)
Acknowledges(r) ==
    LET a == rep[r] IN
    /\ Owned(r)
    /\ (Current(r) /\ a.job = "user") =>
          /\ a.req.op = "sync" => MappingAfter(r) = a.found
          /\ (a.req.op = "delete" /\ a.mapped # 0) => MappingAfter(r) = 0

(* finishSuccess; ErrOutboxLease ends the pass.                            *)
FinishSuccess(r) ==
    /\ At(r, "finish")
    /\ mapping' = MappingAfter(r)
    /\ rows' = IF Acknowledges(r)
               THEN [rows EXCEPT ![rep[r].job] =
                        IF Current(r) THEN Released(@, "succeeded", rows[rep[r].job].att)
                                      ELSE Released(@, "pending", 0)]
               ELSE rows
    /\ rep' = [rep EXCEPT ![r] = IF Acknowledges(r) THEN NextAttempt ELSE IdleReplica]
    /\ UNCHANGED <<localVars, remote, counters, history>>

(* finish after a failure: retried, or dead when permanent or exhausted.   *)
FinishFailure(r, permanent) ==
    /\ At(r, "fail")
    /\ LET j == rep[r].job
           dead == permanent \/ rep[r].att >= MaxAttempts
       IN  /\ rows' = IF ~Owned(r) THEN rows
                      ELSE [rows EXCEPT ![j] =
                              IF ~Current(r) THEN Released(@, "pending", 0)
                              ELSE Released(@, IF dead THEN "dead" ELSE "pending", rep[r].att)]
           /\ gaveUp' = IF Current(r) /\ dead THEN gaveUp \cup {j} ELSE gaveUp
           /\ rep' = [rep EXCEPT ![r] = IF Owned(r) THEN NextAttempt ELSE IdleReplica]
    /\ UNCHANGED <<localVars, mapping, remote, counters, overtaken>>

(* The drain ends when nothing is due: drainLimit (64) is above the two    *)
(* rows here, and a retry is not due again in the same pass.               *)
EndDrain(r) ==
    /\ At(r, "drain")
    /\ \A j \in Jobs : ~Due(j)
    /\ Goto(r, "sweepTombstones")
    /\ UNCHANGED <<localVars, rows, mapping, remote, counters, history>>

(* Mutant: a tombstone without an open job counts as settled. *)
CleanupUnproven(r) ==
    /\ At(r, "sweepTombstones")
    /\ Goto(r, "sweepOutbox")
    /\ tomb' = IF rows["user"].st \notin {"pending", "processing"} THEN 0 ELSE tomb
    /\ UNCHANGED <<user, group, rows, mapping, remote, counters, history>>

(* CleanupSCIMDeletedUsers: the exact delete has succeeded.                *)
CleanupTombstones(r) ==
    /\ At(r, "sweepTombstones")
    /\ Goto(r, "sweepOutbox")
    /\ tomb' = IF rows["user"].st = "succeeded" /\ rows["user"].req = RemoveUser(tomb)
               THEN 0 ELSE tomb
    /\ UNCHANGED <<user, group, rows, mapping, remote, counters, history>>

(* Outbox.Cleanup of the finished rows whose retention has passed; a user  *)
(* delete stays while its tombstone does, a group row while its group does. *)
Removable(j) ==
    /\ rows[j].st \in {"succeeded", "dead"}
    /\ ~(j = "user" /\ rows[j].req.op = "delete" /\ tomb # 0)
    /\ ~(j = "group" /\ group \in Versions)

Cleanup(r) ==
    /\ At(r, "sweepOutbox")
    /\ rep' = [rep EXCEPT ![r] = IdleReplica]
    /\ \E gone \in SUBSET {j \in Jobs : Removable(j)} :
         rows' = [j \in Jobs |-> IF j \in gone THEN EmptyRow ELSE rows[j]]
    /\ UNCHANGED <<localVars, mapping, remote, counters, history>>

(***************************************************************************)
(* Time and faults.                                                        *)
(***************************************************************************)

(* Mutant: only a known holder loses its lease. *)
KnownLeaseLapses(j) ==
    /\ rows[j].st = "processing" /\ ~rows[j].lapsed
    /\ rows[j].own # NoReplica
    /\ ~(rep[rows[j].own].job = j /\ rep[rows[j].own].pc \in {"readback", "find", "send"})
    /\ rows' = [rows EXCEPT ![j] = [@ EXCEPT !.lapsed = TRUE]]
    /\ UNCHANGED <<localVars, mapping, remote, rep, counters, history>>

LeaseLapses(j) ==
    /\ rows[j].st = "processing" /\ ~rows[j].lapsed
    /\ rows[j].own # NoReplica =>
         ~(rep[rows[j].own].job = j /\ rep[rows[j].own].pc \in {"readback", "find", "send"})
    /\ rows' = [rows EXCEPT ![j] = [@ EXCEPT !.lapsed = TRUE]]
    /\ UNCHANGED <<localVars, mapping, remote, rep, counters, history>>

(* A replica restarts: its pass is lost, its lease token is nobody's.      *)
Crash(r) ==
    /\ faults < MaxFaults
    /\ rep[r].pc \in AttemptSteps
    /\ faults' = faults + 1
    /\ rep' = [rep EXCEPT ![r] = IdleReplica]
    /\ rows' = [j \in Jobs |-> IF rows[j].own = r
                               THEN [rows[j] EXCEPT !.own = NoReplica] ELSE rows[j]]
    /\ UNCHANGED <<localVars, mapping, remote, budget, history>>

LocalChange ==
    \/ \E v \in Versions : CreateUser(v) \/ UpdateUser(v) \/ SetGroup(v)
    \/ DeleteUser \/ DeleteGroup

Pass(r) ==
    \/ ListUsers(r) \/ ListTombstones(r) \/ ListGroups(r)
    \/ EnqueueUser(r) \/ EnqueueGroup(r) \/ EnqueueTombstoneDelete(r)
    \/ \E j \in Jobs : Claim(r, j) \/ DeadLetterExpired(r, j)
    \/ ReadBack(r) \/ Find(r) \/ Send(r) \/ FinishSuccess(r)
    \/ \E permanent \in BOOLEAN : FinishFailure(r, permanent)
    \/ EndDrain(r) \/ CleanupTombstones(r) \/ Cleanup(r)

Next ==
    \/ LocalChange
    \/ \E r \in Replicas : Pass(r) \/ ExchangeFails(r) \/ Crash(r)
    \/ \E j \in Jobs : LeaseLapses(j)

(* Run repeats the pass on every tick, and the clock does not stop.        *)
Spec ==
    /\ Init /\ [][Next]_vars
    /\ \A r \in Replicas : WF_vars(Pass(r))
    /\ \A j \in Jobs : WF_vars(LeaseLapses(j))

(***************************************************************************)
(* Properties.                                                             *)
(***************************************************************************)

(* A local group that was removed leaves no remote group that nobody will   *)
(* delete: as long as the provider has one, a delete of it is queued, unless *)
(* it was dead-lettered.  Aimed at projections captured, queued or being     *)
(* sent when rbac.Store.delete commits.                                      *)
NoOrphanGroup ==
    (group = Gone /\ remote.group # NoGroup /\ "group" \notin gaveUp) =>
        /\ rows["group"].req.op = "delete"
        /\ rows["group"].st \in {"pending", "processing"}

(* A row that says succeeded is true: the provider holds what the row asks  *)
(* for, and the mapping names the remote user, or none after a deletion.     *)
(* Aimed at updates queued while an older revision is being sent             *)
(* (Outbox.finishSuccess); the one exception is a sync that the deletion of  *)
(* its user overtook.                                                        *)
AcknowledgedIsApplied ==
    /\ rows["group"].st = "succeeded" => remote.group = rows["group"].req.v
    /\ (rows["user"].st = "succeeded" /\ ~overtaken) =>
          IF rows["user"].req.op = "delete" THEN remote.id = 0 /\ mapping = 0
          ELSE remote.v = rows["user"].req.v[1] /\ mapping = remote.id

(* While the tombstone of a deleted user is gone, so is the remote user,    *)
(* unless a sync was overtaken by the deletion: CleanupSCIMDeletedUsers      *)
(* drops the obligation only once it is met, and a delete that was given up  *)
(* keeps its tombstone.                                                      *)
TombstoneIsSettled ==
    (user = 0 /\ tomb = 0 /\ remote.id # 0) => overtaken

(* Explicit deletion of a user reaches the provider: when the tombstone is  *)
(* gone and no attempt is under way, no remote record is left.  The code     *)
(* does not keep this; see the findings.                                     *)
DeletedUserIsDeletedRemotely ==
    (/\ user = 0 /\ tomb = 0
     /\ "user" \notin gaveUp
     /\ \A r \in Replicas : rep[r].pc \notin AttemptSteps) => remote.id = 0

(* A replica working for an old deletion never deletes the remote record of *)
(* a subject that exists again (the generation fence of                      *)
(* EnqueueTombstoneDelete and claimableUserSQL).                             *)
DeleteSparesRecreated ==
    [][(remote.id # 0 /\ remote'.id = 0) => (user = 0 /\ tomb # 0)]_vars

(* Once the administrators rest, every deletion is settled and the provider *)
(* holds the user's current projection and the group's, unless the work was  *)
(* dead-lettered or a sync came after the deletion of its user: no row is     *)
(* stranded by a crash, a lapsed lease, a lost answer or a stale pass.        *)
ProviderConverges ==
    <>[](\/ gaveUp # {} \/ overtaken
         \/ /\ tomb = 0
            /\ user # 0 => remote.v = user
            /\ group \in Versions => remote.group[1] = group
            /\ group = Gone => remote.group = NoGroup)
=============================================================================
