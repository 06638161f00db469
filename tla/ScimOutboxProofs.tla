-------------------------- MODULE ScimOutboxProofs --------------------------
(***************************************************************************)
(* Proofs about outbound SCIM provisioning, for any number of replicas,    *)
(* projections, attempts, changes of the local entities and faults.        *)
(***************************************************************************)
EXTENDS ScimOutbox, TLAPS

(***************************************************************************)
(* The helpers on rows.                                                    *)
(***************************************************************************)

(* What queueing a request does to a row, by the row's status.             *)
LEMMA RequeuedIs ==
    ASSUME NEW row \in Row, NEW req \in Requests
    PROVE  /\ Requeued(row, req) \in Row
           /\ Requeued(row, req).req = req
           /\ row.req = req => Requeued(row, req) = row
           /\ (row.req # req /\ row.st = "processing") =>
                /\ Requeued(row, req).st = row.st
                /\ Requeued(row, req).own = row.own
                /\ Requeued(row, req).lapsed = row.lapsed
                /\ Requeued(row, req).rev = row.rev + 1
           /\ (row.req # req /\ row.st # "processing") =>
                /\ Requeued(row, req).st = "pending"
                /\ Requeued(row, req).own = NoReplica
                /\ Requeued(row, req).rev = row.rev + 1
  <1>0. row.rev + 1 \in Nat /\ 0 \in 0..MaxAttempts /\ row.att \in 0..MaxAttempts
    BY ScimAssumption DEF Row
  <1>1. CASE row.req = req
    BY <1>1 DEF Requeued
  <1>2. CASE row.req # req /\ row.st = "processing"
    BY <1>0, <1>2 DEF Requeued, Row
  <1>3. CASE row.req # req /\ row.st # "processing"
    BY <1>0, <1>3 DEF Requeued, Row, Statuses
  <1> QED BY <1>1, <1>2, <1>3

(* A claim leases the row to the replica.                                  *)
LEMMA LeasedIs ==
    ASSUME NEW row \in Row, row.att < MaxAttempts, NEW r \in Replicas
    PROVE  /\ Leased(row, r) \in Row
           /\ Leased(row, r).st = "processing"
           /\ Leased(row, r).own = r
           /\ Leased(row, r).lapsed = FALSE
           /\ Leased(row, r).req = row.req
           /\ Leased(row, r).rev = row.rev
  <1>1. row.att + 1 \in 0..MaxAttempts
    BY ScimAssumption DEF Row
  <1> QED BY <1>1 DEF Leased, Row, Statuses

(* An outcome gives the lease up.                                          *)
LEMMA ReleasedIs ==
    ASSUME NEW row \in Row, NEW st \in Statuses, NEW att \in 0..MaxAttempts
    PROVE  /\ Released(row, st, att) \in Row
           /\ Released(row, st, att).st = st
           /\ Released(row, st, att).own = NoReplica
           /\ Released(row, st, att).req = row.req
           /\ Released(row, st, att).rev = row.rev
  BY DEF Released, Row

(* The rows and replicas that the actions write out have their types.      *)
LEMMA ConstantRecords ==
    /\ EmptyRow \in Row /\ EmptyRow.own = NoReplica /\ EmptyRow.req = NoRequest /\ EmptyRow.st = "none"
    /\ IdleReplica \in Replica /\ IdleReplica.pc = "idle" /\ IdleReplica.req = NoRequest
    /\ NextAttempt \in Replica /\ NextAttempt.pc = "drain" /\ NextAttempt.req = NoRequest
    /\ NoRequest \in UserRequests /\ NoRequest \in GroupRequests /\ NoRequest.op = "none"
  <1>1. NoRequest \in UserRequests /\ NoRequest \in GroupRequests /\ NoRequest.op = "none"
    BY DEF NoRequest, Request, UserRequests, GroupRequests
  <1>2. EmptyRow \in Row /\ EmptyRow.own = NoReplica /\ EmptyRow.req = NoRequest /\ EmptyRow.st = "none"
    BY <1>1, ScimAssumption DEF EmptyRow, Row, Statuses, Requests
  <1>3. IdleReplica \in Replica /\ IdleReplica.pc = "idle" /\ IdleReplica.req = NoRequest
    BY <1>1, ScimAssumption DEF IdleReplica, Replica, Requests, PassSteps, Jobs
  <1>4. NextAttempt \in Replica /\ NextAttempt.pc = "drain" /\ NextAttempt.req = NoRequest
    BY <1>3 DEF NextAttempt, Replica, PassSteps
  <1> QED BY <1>1, <1>2, <1>3, <1>4

(* What may be queued, and what it says.                                   *)
LEMMA RequestsTyped ==
    /\ \A v \in Versions : /\ SyncUser(v) \in UserRequests
                           /\ SyncUser(v).op = "sync" /\ SyncUser(v).v[1] = v
    /\ \A g \in Nat : /\ RemoveUser(g) \in UserRequests
                      /\ RemoveUser(g).op = "delete" /\ RemoveUser(g).v[1] = g
    /\ \A v \in Versions, m \in Nat : /\ Request("sync", <<v, m>>) \in GroupRequests
                                      /\ Request("sync", <<v, m>>).op = "sync"
    /\ Request("delete", NoGroup) \in GroupRequests /\ Request("delete", NoGroup).op = "delete"
    /\ \A q \in GroupRequests : q.op # "sync" => q.v = NoGroup
    /\ \A q \in GroupRequests : q.v \in (Versions \X Nat) \cup {NoGroup}
    /\ \A q \in UserRequests : q.op \in {"sync", "delete", "none"}
    /\ \A q \in UserRequests : q.op = "sync" => q.v[1] \in Versions
    /\ \A q \in UserRequests : q.op # "none" => q.v[1] \in Nat
  <1>1. ASSUME NEW v \in Versions
        PROVE  SyncUser(v) \in UserRequests /\ SyncUser(v).op = "sync" /\ SyncUser(v).v[1] = v
    BY <1>1 DEF SyncUser, Request, UserRequests
  <1>2. ASSUME NEW g \in Nat
        PROVE  RemoveUser(g) \in UserRequests /\ RemoveUser(g).op = "delete" /\ RemoveUser(g).v[1] = g
    BY <1>2 DEF RemoveUser, Request, UserRequests
  <1>3. ASSUME NEW v \in Versions, NEW m \in Nat
        PROVE  Request("sync", <<v, m>>) \in GroupRequests /\ Request("sync", <<v, m>>).op = "sync"
    BY <1>3 DEF Request, GroupRequests
  <1>4. Request("delete", NoGroup) \in GroupRequests /\ Request("delete", NoGroup).op = "delete"
    BY DEF Request, GroupRequests
  <1>5. ASSUME NEW q \in GroupRequests
        PROVE  (q.op # "sync" => q.v = NoGroup) /\ q.v \in (Versions \X Nat) \cup {NoGroup}
    BY <1>5 DEF GroupRequests
  <1>6. ASSUME NEW q \in UserRequests
        PROVE  /\ q.op \in {"sync", "delete", "none"}
               /\ q.op = "sync" => q.v[1] \in Versions
               /\ q.op # "none" => q.v[1] \in Nat
    <2>1. CASE q \in [op : {"sync"}, v : Versions \X {0}]
      <3>1. q.op = "sync" /\ q.v \in Versions \X {0}
        BY <2>1
      <3>2. q.v[1] \in Versions
        BY <3>1
      <3> QED BY <3>1, <3>2, ScimAssumption
    <2>2. CASE q \in [op : {"delete"}, v : Nat \X {0}]
      <3>1. q.op = "delete" /\ q.v \in Nat \X {0}
        BY <2>2
      <3> QED BY <3>1
    <2>3. CASE q = NoRequest
      BY <2>3 DEF NoRequest, Request
    <2> QED BY <1>6, <2>1, <2>2, <2>3 DEF UserRequests
  <1> QED BY <1>1, <1>2, <1>3, <1>4, <1>5, <1>6

(***************************************************************************)
(* The type invariant.                                                     *)
(***************************************************************************)

(* The two parts of the type invariant that take an argument.              *)
RowsTyped ==
    /\ rows \in [Jobs -> Row]
    /\ \A j \in Jobs :
         /\ rows[j].req \in RequestsOf(j)
         /\ rows[j].st = "processing" \/ rows[j].own = NoReplica
RepsTyped ==
    /\ rep \in [Replicas -> Replica]
    /\ \A r \in Replicas : rep[r].req \in RequestsOf(rep[r].job)

(* A step that writes one row, or one replica, keeps the types of all.     *)
LEMMA OneRow ==
    ASSUME TypeOK, NEW j \in Jobs, NEW n \in Row, n.req \in RequestsOf(j),
           n.st = "processing" \/ n.own = NoReplica, rows' = [rows EXCEPT ![j] = n]
    PROVE  RowsTyped'
  BY DEF TypeOK, RowsTyped

LEMMA OneReplica ==
    ASSUME TypeOK, NEW r \in Replicas, NEW a \in Replica, a.req \in RequestsOf(a.job),
           rep' = [rep EXCEPT ![r] = a]
    PROVE  RepsTyped'
  BY DEF TypeOK, RepsTyped

(* Moving a replica on changes nothing but its step.                       *)
LEMMA GotoTyped ==
    ASSUME TypeOK, NEW r \in Replicas, NEW step \in PassSteps \cup AttemptSteps, Goto(r, step)
    PROVE  RepsTyped'
  <1> DEFINE a == [rep[r] EXCEPT !.pc = step]
  <1>1. a \in Replica /\ a.req \in RequestsOf(a.job)
    BY DEF TypeOK, Replica
  <1>2. rep' = [rep EXCEPT ![r] = a]
    BY DEF Goto
  <1> HIDE DEF a
  <1> QED BY <1>1, <1>2, OneReplica

(* Queueing a request that fits a row keeps the rows typed.                *)
LEMMA RequeueTyped ==
    ASSUME TypeOK, NEW j \in Jobs, NEW req \in RequestsOf(j),
           rows' = [rows EXCEPT ![j] = Requeued(@, req)]
    PROVE  RowsTyped'
  <1>1. rows[j] \in Row /\ req \in Requests
    BY DEF TypeOK, RequestsOf, Requests
  <1>2. Requeued(rows[j], req) \in Row /\ Requeued(rows[j], req).req \in RequestsOf(j)
    BY <1>1, RequeuedIs
  <1>3. Requeued(rows[j], req).st = "processing" \/ Requeued(rows[j], req).own = NoReplica
    BY <1>1, RequeuedIs DEF TypeOK
  <1>4. rows' = [rows EXCEPT ![j] = Requeued(rows[j], req)]
    OBVIOUS
  <1> QED BY <1>2, <1>3, <1>4, OneRow

(* Releasing a row keeps the rows typed.                                   *)
LEMMA ReleaseTyped ==
    ASSUME TypeOK, NEW j \in Jobs, NEW st \in Statuses, NEW att \in 0..MaxAttempts,
           rows' = [rows EXCEPT ![j] = Released(rows[j], st, att)]
    PROVE  RowsTyped'
  <1>1. rows[j] \in Row /\ rows[j].req \in RequestsOf(j)
    BY DEF TypeOK
  <1> DEFINE n == Released(rows[j], st, att)
  <1>2. n \in Row /\ n.req \in RequestsOf(j) /\ n.own = NoReplica
    BY <1>1, ReleasedIs
  <1>3. rows' = [rows EXCEPT ![j] = n]
    OBVIOUS
  <1> HIDE DEF n
  <1> QED BY <1>2, <1>3, OneRow

(* What the exchange of an attempt does to the provider.                   *)
LEMMA EffectTyped ==
    ASSUME TypeOK, NEW r \in Replicas, rep[r].req.op \in {"sync", "delete"}
    PROVE  Effect(r) \in Provider
  <1> DEFINE a == rep[r]
  <1>1. a \in Replica /\ a.job \in Jobs /\ a.req \in RequestsOf(a.job) /\ remote \in Provider
    BY DEF TypeOK, Replica
  <1>2. CASE a.job = "group"
    <2>1. a.req.v \in (Versions \X Nat) \cup {NoGroup}
      BY <1>1, <1>2, RequestsTyped DEF RequestsOf
    <2> QED BY <1>1, <1>2, <2>1 DEF Effect, Provider
  <1>3. CASE a.job = "user" /\ a.req.op = "delete"
    BY <1>1, <1>3 DEF Effect, Provider
  <1>4. CASE a.job = "user" /\ a.req.op = "sync"
    <2>1. a.req.v[1] \in Versions
      BY <1>1, <1>4, RequestsTyped DEF RequestsOf
    <2>2. remote.last + 1 \in Nat
      BY <1>1 DEF Provider
    <2>3. Effect(r) = IF a.found = 0
                      THEN [remote EXCEPT !.id = remote.last + 1, !.last = remote.last + 1, !.v = a.req.v[1]]
                      ELSE [remote EXCEPT !.v = a.req.v[1]]
      BY <1>4 DEF Effect
    <2> QED BY <1>1, <2>1, <2>2, <2>3 DEF Provider
  <1> QED BY <1>1, <1>2, <1>3, <1>4 DEF Jobs

(***************************************************************************)
(* The inductive invariant.                                                *)
(***************************************************************************)

Exchanging == {"find", "send"}            \* an attempt that talks to the provider
Leasing == {"readback"} \cup Exchanging   \* ... that ends before its lease does
Carrying == Exchanging \cup {"finish", "fail"}  \* ... that has read its request

(* A row that exists asks for something, and dead rows are known.          *)
RowInv ==
    \A j \in Jobs :
        /\ rows[j].st = "none" <=> rows[j].req.op = "none"
        /\ rows[j].st = "dead" => j \in gaveUp

(* The group: no row before there is a group, none that would create it    *)
(* again after its deletion, one for as long as the provider may have it.  *)
GroupInv ==
    /\ group = 0 => rows["group"].st = "none"
    /\ group = Gone => rows["group"].req.op # "sync"
    /\ (remote.group # NoGroup /\ "group" \notin gaveUp) => rows["group"].st # "none"
    /\ rows["group"].st = "succeeded" => remote.group = rows["group"].req.v

(* The tombstone: there is no user beside it, and a delete that has not    *)
(* succeeded belongs to it.                                                *)
TombInv ==
    /\ tomb # 0 => user = 0
    /\ (rows["user"].req.op = "delete" /\ rows["user"].st # "succeeded") =>
          tomb # 0 /\ rows["user"].req.v[1] = tomb

(* The remote user, unless a sync was overtaken by a deletion: succeeded   *)
(* rows are true, and the mapping names the remote user or is empty, but   *)
(* for a delete that reached the provider and was not acknowledged.        *)
UserInv ==
    ~overtaken =>
      /\ rows["user"].st = "succeeded" =>
           IF rows["user"].req.op = "delete" THEN remote.id = 0 /\ mapping = 0
           ELSE remote.v = rows["user"].req.v[1] /\ mapping = remote.id
      /\ mapping = 0 \/ mapping = remote.id \/ (tomb # 0 /\ remote.id = 0)
      /\ (user = 0 /\ tomb = 0) => remote.id = 0

Deletes(r) == rep[r].job = "user" /\ rep[r].req.op = "delete"

(* What an attempt carries: a request, of the revision it read; ...        *)
CarryInv(r) ==
    /\ rep[r].pc \in Carrying <=> rep[r].req.op # "none"
    /\ (rep[r].pc \in Carrying /\ Owned(r)) =>
         /\ rep[r].rev <= rows[rep[r].job].rev
         /\ rep[r].rev = rows[rep[r].job].rev => rep[r].req = rows[rep[r].job].req

(* ... its lease, which lasts as long as the exchange, and which only the  *)
(* deletion of the user takes away, from a sync; ...                       *)
LeaseInv(r) ==
    /\ (rep[r].pc \in Leasing /\ Owned(r)) => ~rows[rep[r].job].lapsed
    /\ (rep[r].pc \in Leasing /\ rep[r].job = "group") => Owned(r)
    /\ (rep[r].pc \in Exchanging /\ Deletes(r)) => Owned(r) /\ tomb # 0

(* ... and what it found out about the provider or did to it.              *)
FoundInv(r) ==
    /\ (rep[r].pc = "finish" /\ rep[r].job = "group" /\ Owned(r)) => remote.group = rep[r].req.v
    /\ (rep[r].pc \in {"send", "finish"} /\ Deletes(r) /\ Owned(r)) => rep[r].mapped = mapping
    /\ (rep[r].pc = "send" /\ Deletes(r) /\ ~overtaken) => remote.id = rep[r].found
    /\ (rep[r].pc = "finish" /\ rep[r].job = "user" /\ Owned(r) /\ ~overtaken) =>
         IF rep[r].req.op = "delete" THEN remote.id = 0
         ELSE remote.id = rep[r].found /\ remote.v = rep[r].req.v[1]

AttemptInv(r) == CarryInv(r) /\ LeaseInv(r) /\ FoundInv(r)

Inv ==
    /\ TypeOK /\ RowInv /\ GroupInv /\ TombInv /\ UserInv
    /\ \A r \in Replicas : AttemptInv(r)

(* Every action keeps the type invariant.                                  *)
LEMMA TypeStep == Inv /\ [Next]_vars => TypeOK'
  <1> SUFFICES ASSUME Inv, [Next]_vars PROVE TypeOK'
    OBVIOUS
  <1> USE ScimAssumption, ConstantRecords
  <1>a. TypeOK /\ RowsTyped /\ RepsTyped
    BY DEF Inv, TypeOK, RowsTyped, RepsTyped
  <1>b. ASSUME NEW r \in Replicas PROVE rep[r] \in Replica /\ rep[r].job \in Jobs /\ rep[r].req \in RequestsOf(rep[r].job)
    BY <1>a, <1>b DEF RepsTyped, Replica
  <1>c. ASSUME NEW j \in Jobs PROVE rows[j] \in Row /\ rows[j].req \in RequestsOf(j)
    BY <1>a, <1>c DEF RowsTyped
  <1>d. NoRequest \in RequestsOf("user") /\ NoRequest \in RequestsOf("group")
        /\ \A j \in Jobs : NoRequest \in RequestsOf(j)
    BY DEF RequestsOf
  <1>1. ASSUME NEW v \in Versions, CreateUser(v) \/ UpdateUser(v) \/ SetGroup(v) PROVE TypeOK'
    <2>1. budget' \in [Jobs -> Nat]
      BY <1>1, <1>a DEF CreateUser, UpdateUser, SetGroup, TypeOK, Jobs
    <2> QED BY <1>1, <1>a, <2>1 DEF CreateUser, UpdateUser, SetGroup, TypeOK, history
  <1>2. CASE DeleteUser
    <2>1. budget' \in [Jobs -> Nat] /\ tomb' \in Nat
      BY <1>2, <1>a DEF DeleteUser, TypeOK, Jobs
    <2>2. RowsTyped'
      BY <1>2, <1>a, <1>d, OneRow DEF DeleteUser, Jobs
    <2> QED BY <1>2, <1>a, <2>1, <2>2 DEF DeleteUser, TypeOK, RowsTyped, history
  <1>3. CASE DeleteGroup
    <2>1. budget' \in [Jobs -> Nat]
      BY <1>3, <1>a DEF DeleteGroup, TypeOK, Jobs
    <2>2. RowsTyped'
      <3>1. CASE rows' = rows
        BY <1>a, <3>1 DEF RowsTyped
      <3>2. CASE rows' = [rows EXCEPT !["group"] = Requeued(@, Request("delete", NoGroup))]
        BY <1>a, <3>2, RequeueTyped, RequestsTyped DEF Jobs, RequestsOf
      <3> QED BY <1>3, <3>1, <3>2 DEF DeleteGroup
    <2> QED BY <1>3, <1>a, <2>1, <2>2 DEF DeleteGroup, TypeOK, RowsTyped, history
  <1>4. ASSUME NEW r \in Replicas, ListUsers(r) \/ ListTombstones(r) \/ ListGroups(r) PROVE TypeOK'
    <2>1. PICK a \in Replica : rep' = [rep EXCEPT ![r] = a] /\ a.req = rep[r].req /\ a.job = rep[r].job
      <3>1. CASE ListUsers(r)
        <4>1. [rep[r] EXCEPT !.pc = "tombstones", !.user = user] \in Replica
          BY <1>a, <1>b DEF TypeOK, Replica, PassSteps
        <4> QED BY <3>1, <4>1, <1>b DEF ListUsers, Replica
      <3>2. CASE ListTombstones(r)
        <4>1. [rep[r] EXCEPT !.pc = "groups", !.tomb = tomb] \in Replica
          BY <1>a, <1>b DEF TypeOK, Replica, PassSteps
        <4> QED BY <3>2, <4>1, <1>b DEF ListTombstones, Replica
      <3>3. CASE ListGroups(r)
        <4> DEFINE listed == IF group \in Versions THEN <<group, IF user = 0 THEN 0 ELSE 1>> ELSE NoGroup
        <4>1. listed \in (Versions \X {0, 1}) \cup {NoGroup}
          OBVIOUS
        <4>2. rep' = [rep EXCEPT ![r] = [rep[r] EXCEPT !.pc = "enqueueUser", !.group = listed]]
          BY <3>3 DEF ListGroups
        <4> HIDE DEF listed
        <4>3. [rep[r] EXCEPT !.pc = "enqueueUser", !.group = listed] \in Replica
          BY <4>1, <1>b DEF Replica, PassSteps
        <4> QED BY <4>2, <4>3, <1>b DEF Replica
      <3> QED BY <1>4, <3>1, <3>2, <3>3
    <2>2. RepsTyped'
      BY <1>a, <1>b, <2>1, OneReplica
    <2> QED BY <1>4, <1>a, <2>2 DEF ListUsers, ListTombstones, ListGroups, TypeOK, RepsTyped, localVars, counters, history
  <1>5. ASSUME NEW r \in Replicas, EnqueueUser(r) PROVE TypeOK'
    <2> DEFINE a == [rep[r] EXCEPT !.pc = "enqueueGroup", !.user = 0]
    <2>1. a \in Replica /\ a.req \in RequestsOf(a.job)
      BY <1>b DEF Replica, PassSteps
    <2>2. rep' = [rep EXCEPT ![r] = a]
      BY <1>5 DEF EnqueueUser
    <2> HIDE DEF a
    <2>3. RepsTyped'
      BY <1>a, <2>1, <2>2, OneReplica
    <2>4. RowsTyped'
      <3>1. CASE rows' = rows
        BY <1>a, <3>1 DEF RowsTyped
      <3>2. CASE rep[r].user # 0 /\ rows' = [rows EXCEPT !["user"] = Requeued(@, SyncUser(rep[r].user))]
        <4>1. SyncUser(rep[r].user) \in RequestsOf("user")
          BY <1>b, <3>2, RequestsTyped DEF RequestsOf, Replica
        <4> QED BY <1>a, <3>2, <4>1, RequeueTyped DEF Jobs
      <3> QED BY <1>5, <3>1, <3>2 DEF EnqueueUser
    <2> QED BY <1>5, <1>a, <2>3, <2>4 DEF EnqueueUser, TypeOK, RowsTyped, RepsTyped, localVars, counters, history
  <1>6. ASSUME NEW r \in Replicas, EnqueueGroup(r) PROVE TypeOK'
    <2> DEFINE a == [rep[r] EXCEPT !.pc = "enqueueDelete", !.group = NoGroup]
    <2>1. a \in Replica /\ a.req \in RequestsOf(a.job)
      BY <1>b DEF Replica, PassSteps
    <2>2. rep' = [rep EXCEPT ![r] = a]
      BY <1>6 DEF EnqueueGroup
    <2> HIDE DEF a
    <2>3. RepsTyped'
      BY <1>a, <2>1, <2>2, OneReplica
    <2>4. RowsTyped'
      <3> DEFINE listed == rep[r].group
                 member == IF listed[2] = 1 THEN mapping ELSE 0
      <3>1. CASE rows' = rows
        BY <1>a, <3>1 DEF RowsTyped
      <3>2. CASE listed # NoGroup
                 /\ rows' = [rows EXCEPT !["group"] = Requeued(@, Request("sync", <<listed[1], member>>))]
        <4>1. listed \in Versions \X {0, 1} /\ member \in Nat
          BY <1>a, <1>b, <3>2 DEF Replica, TypeOK
        <4>2. listed[1] \in Versions
          BY <4>1
        <4>3. Request("sync", <<listed[1], member>>) \in RequestsOf("group")
          BY <4>1, <4>2, RequestsTyped DEF RequestsOf
        <4> QED BY <1>a, <3>2, <4>3, RequeueTyped DEF Jobs
      <3> QED BY <1>6, <3>1, <3>2 DEF EnqueueGroup
    <2> QED BY <1>6, <1>a, <2>3, <2>4 DEF EnqueueGroup, TypeOK, RowsTyped, RepsTyped, localVars, counters, history
  <1>7. ASSUME NEW r \in Replicas, EnqueueTombstoneDelete(r) PROVE TypeOK'
    <2> DEFINE a == [rep[r] EXCEPT !.pc = "drain", !.tomb = 0]
    <2>1. a \in Replica /\ a.req \in RequestsOf(a.job)
      BY <1>b DEF Replica, PassSteps
    <2>2. rep' = [rep EXCEPT ![r] = a]
      BY <1>7 DEF EnqueueTombstoneDelete
    <2> HIDE DEF a
    <2>3. RepsTyped'
      BY <1>a, <2>1, <2>2, OneReplica
    <2>4. RowsTyped'
      <3>1. CASE rows' = rows
        BY <1>a, <3>1 DEF RowsTyped
      <3>2. CASE rows' = [rows EXCEPT !["user"] = Requeued(@, RemoveUser(rep[r].tomb))]
        <4>1. RemoveUser(rep[r].tomb) \in RequestsOf("user")
          BY <1>b, RequestsTyped DEF RequestsOf, Replica
        <4> QED BY <1>a, <3>2, <4>1, RequeueTyped DEF Jobs
      <3> QED BY <1>7, <3>1, <3>2 DEF EnqueueTombstoneDelete
    <2> QED BY <1>7, <1>a, <2>3, <2>4
          DEF EnqueueTombstoneDelete, TypeOK, RowsTyped, RepsTyped, localVars, counters, history
  <1>8. ASSUME NEW r \in Replicas, NEW j \in Jobs, Claim(r, j) PROVE TypeOK'
    <2> DEFINE a == [rep[r] EXCEPT !.pc = "readback", !.job = j]
    <2>1. a \in Replica /\ a.req \in RequestsOf(a.job)
      <3>1. rep[r].req = NoRequest
        <4>1. rep[r].req.op = "none"
          BY <1>8 DEF Inv, AttemptInv, CarryInv, Claim, At, Carrying, Exchanging
        <4> QED BY <4>1, <1>b DEF RequestsOf, UserRequests, GroupRequests, NoRequest, Request
      <3>2. rep[r] \in Replica
        BY <1>b
      <3>3. a \in Replica /\ a.req = rep[r].req /\ a.job = j
        BY ONLY <3>2, j \in Jobs DEF Replica, AttemptSteps
      <3>4. NoRequest \in RequestsOf(j)
        BY <1>d
      <3> QED BY ONLY <3>1, <3>3, <3>4
    <2>2. rep' = [rep EXCEPT ![r] = a]
      BY <1>8 DEF Claim
    <2> HIDE DEF a
    <2>3. RepsTyped'
      BY <1>a, <2>1, <2>2, OneReplica
    <2>4. RowsTyped'
      <3>1. rows[j] \in Row /\ rows[j].att < MaxAttempts /\ rows' = [rows EXCEPT ![j] = Leased(rows[j], r)]
        BY <1>8, <1>c DEF Claim
      <3> QED BY <1>a, <1>c, <3>1, LeasedIs, OneRow
    <2> QED BY <1>8, <1>a, <2>3, <2>4 DEF Claim, TypeOK, RowsTyped, RepsTyped, localVars, counters, history
  <1>9. ASSUME NEW r \in Replicas, NEW j \in Jobs, DeadLetterExpired(r, j) PROVE TypeOK'
    <2>1. RowsTyped'
      <3>1. rows[j] \in Row /\ rows[j].att \in 0..MaxAttempts
            /\ rows' = [rows EXCEPT ![j] = Released(rows[j], "dead", rows[j].att)]
        <4>1. rows[j] \in Row /\ rows' = [rows EXCEPT ![j] = Released(rows[j], "dead", rows[j].att)]
          BY <1>9, <1>c DEF DeadLetterExpired
        <4>2. rows[j].att \in 0..MaxAttempts
          BY ONLY <4>1 DEF Row
        <4> QED BY <4>1, <4>2
      <3> DEFINE n == Released(rows[j], "dead", rows[j].att)
      <3>2. n \in Row /\ n.own = NoReplica /\ n.req = rows[j].req
        <4>1. "dead" \in Statuses
          BY DEF Statuses
        <4> QED BY ONLY <3>1, <4>1, ReleasedIs
      <3>3. n.req \in RequestsOf(j)
        BY <1>c, <3>2
      <3> HIDE DEF n
      <3>4. rows' = [rows EXCEPT ![j] = n]
        BY <3>1 DEF n
      <3> QED BY ONLY <1>a, <3>2, <3>3, <3>4, j \in Jobs, OneRow
    <2> QED BY <1>9, <1>a, <2>1 DEF DeadLetterExpired, TypeOK, RowsTyped, localVars, counters
  <1>10. ASSUME NEW r \in Replicas, ReadBack(r) PROVE TypeOK'
    <2> DEFINE row == rows[rep[r].job]
               a == [rep[r] EXCEPT !.pc = "find", !.req = row.req, !.rev = row.rev, !.att = row.att]
    <2>1. RepsTyped'
      <3>1. CASE Goto(r, "drain")
        BY <1>a, <3>1, GotoTyped DEF PassSteps
      <3>2. CASE rep' = [rep EXCEPT ![r] = a]
        <4>1. row \in Row /\ row.req \in RequestsOf(rep[r].job)
          BY <1>b, <1>c
        <4>2. a \in Replica /\ a.req \in RequestsOf(a.job)
          BY <1>b, <4>1 DEF Replica, Row, AttemptSteps
        <4> HIDE DEF a
        <4> QED BY <1>a, <3>2, <4>2, OneReplica
      <3> QED BY <1>10, <3>1, <3>2 DEF ReadBack, Goto
    <2> QED BY <1>10, <1>a, <2>1 DEF ReadBack, TypeOK, RepsTyped, localVars, counters, history
  <1>11. ASSUME NEW r \in Replicas, Find(r) PROVE TypeOK'
    <2>1. PICK next \in {"finish", "send"}, there \in Nat, mapped \in Nat :
             rep' = [rep EXCEPT ![r] = [rep[r] EXCEPT !.pc = next, !.found = there, !.mapped = mapped]]
      <3>1. remote.id \in Nat /\ mapping \in Nat
        BY <1>a DEF TypeOK, Provider
      <3> QED BY <1>11, <3>1 DEF Find
    <2> DEFINE a == [rep[r] EXCEPT !.pc = next, !.found = there, !.mapped = mapped]
    <2>2. a \in Replica /\ a.req \in RequestsOf(a.job)
      BY <1>b DEF Replica, AttemptSteps
    <2>3. rep' = [rep EXCEPT ![r] = a]
      BY <2>1
    <2> HIDE DEF a
    <2>4. RepsTyped'
      BY <1>a, <2>2, <2>3, OneReplica
    <2> QED BY <1>11, <1>a, <2>4 DEF Find, TypeOK, RepsTyped, localVars, counters, history
  <1>12. ASSUME NEW r \in Replicas, At(r, "send") PROVE Effect(r) \in Provider
    <2>1. rep[r].req.op # "none"
      BY <1>12 DEF Inv, AttemptInv, CarryInv, At, Carrying, Exchanging
    <2>2. rep[r].req.op \in {"sync", "delete"}
      BY <1>b, <2>1 DEF RequestsOf, UserRequests, GroupRequests, NoRequest, Request
    <2> QED BY <1>a, <2>2, EffectTyped
  <1>13. ASSUME NEW r \in Replicas, Send(r) PROVE TypeOK'
    <2>1. CASE Refused(r)
      <3>1. RepsTyped'
        BY <1>a, <1>13, <2>1, GotoTyped DEF Send, AttemptSteps
      <3> QED BY <1>13, <1>a, <2>1, <3>1 DEF Send, TypeOK, RepsTyped, localVars, counters
    <2>2. CASE ~Refused(r)
      <3> DEFINE id == IF rep[r].job = "user" THEN Effect(r).id ELSE 1
                 a == [rep[r] EXCEPT !.pc = "finish", !.found = id]
      <3>1. remote' \in Provider /\ id \in Nat
        BY <1>12, <1>13, <2>2 DEF Send, Provider
      <3>2. rep' = [rep EXCEPT ![r] = a]
        BY <1>13, <2>2 DEF Send
      <3> HIDE DEF id
      <3>3. a \in Replica /\ a.req \in RequestsOf(a.job)
        BY <1>b, <3>1 DEF Replica, AttemptSteps
      <3> HIDE DEF a
      <3>4. RepsTyped'
        BY <1>a, <3>2, <3>3, OneReplica
      <3>5. overtaken' \in BOOLEAN
        BY <1>13, <1>a, <2>2 DEF Send, TypeOK, Overtakes
      <3> QED BY <1>13, <1>a, <2>2, <3>1, <3>4, <3>5 DEF Send, TypeOK, RepsTyped, localVars, counters
    <2> QED BY <2>1, <2>2
  <1>14. ASSUME NEW r \in Replicas, ExchangeFails(r) PROVE TypeOK'
    <2>1. RepsTyped'
      BY <1>a, <1>14, GotoTyped DEF ExchangeFails, AttemptSteps
    <2>2. remote' \in Provider /\ overtaken' \in BOOLEAN
      BY <1>12, <1>14, <1>a DEF ExchangeFails, TypeOK, Overtakes
    <2>3. faults' \in 0..MaxFaults
      BY <1>14, <1>a DEF ExchangeFails, TypeOK
    <2> QED BY <1>14, <1>a, <2>1, <2>2, <2>3 DEF ExchangeFails, TypeOK, RepsTyped, localVars
  <1>15. ASSUME NEW r \in Replicas, rep' = [rep EXCEPT ![r] = NextAttempt] \/ rep' = [rep EXCEPT ![r] = IdleReplica]
         PROVE  RepsTyped'
    BY <1>a, <1>d, <1>15, OneReplica DEF NextAttempt, IdleReplica
  <1>16. ASSUME NEW r \in Replicas, FinishSuccess(r) PROVE TypeOK'
    <2>1. RepsTyped'
      BY <1>15, <1>16 DEF FinishSuccess
    <2>2. mapping' \in Nat
      BY <1>16, <1>a, <1>b DEF FinishSuccess, MappingAfter, TypeOK, Replica
    <2>3. RowsTyped'
      <3>0. PICK j \in Jobs : j = rep[r].job
        BY <1>b
      <3>1. j \in Jobs /\ rows[j] \in Row /\ rows[j].req \in RequestsOf(j)
            /\ rows[j].att \in 0..MaxAttempts /\ 0 \in 0..MaxAttempts
        BY <1>b, <1>c DEF Row
      <3>2. CASE rows' = rows
        BY <1>a, <3>2 DEF RowsTyped
      <3>3. ASSUME NEW st \in Statuses, NEW att \in 0..MaxAttempts, rows' = [rows EXCEPT ![j] = Released(rows[j], st, att)]
            PROVE  RowsTyped'
        BY <1>a, <3>1, <3>3, ReleaseTyped
      <3>4. \/ rows' = rows
            \/ rows' = [rows EXCEPT ![j] = Released(rows[j], "succeeded", rows[j].att)]
            \/ rows' = [rows EXCEPT ![j] = Released(rows[j], "pending", 0)]
        BY <1>16, <3>0 DEF FinishSuccess
      <3> QED BY <3>1, <3>2, <3>3, <3>4 DEF Statuses
    <2> QED BY <1>16, <1>a, <2>1, <2>2, <2>3 DEF FinishSuccess, TypeOK, RowsTyped, RepsTyped, localVars, counters, history
  <1>17. ASSUME NEW r \in Replicas, NEW permanent \in BOOLEAN, FinishFailure(r, permanent) PROVE TypeOK'
    <2>1. RepsTyped'
      BY <1>15, <1>17 DEF FinishFailure
    <2>2. gaveUp' \subseteq Jobs
      BY <1>17, <1>a, <1>b DEF FinishFailure, TypeOK
    <2>3. RowsTyped'
      <3>0. PICK j \in Jobs : j = rep[r].job
        BY <1>b
      <3>1. j \in Jobs /\ rows[j] \in Row /\ rows[j].req \in RequestsOf(j)
            /\ rep[r].att \in 0..MaxAttempts /\ 0 \in 0..MaxAttempts
        BY <1>b, <1>c DEF Replica
      <3>2. CASE rows' = rows
        BY <1>a, <3>2 DEF RowsTyped
      <3>3. ASSUME NEW st \in Statuses, NEW att \in 0..MaxAttempts, rows' = [rows EXCEPT ![j] = Released(rows[j], st, att)]
            PROVE  RowsTyped'
        BY <1>a, <3>1, <3>3, ReleaseTyped
      <3>4. \/ rows' = rows
            \/ rows' = [rows EXCEPT ![j] = Released(rows[j], "pending", 0)]
            \/ rows' = [rows EXCEPT ![j] = Released(rows[j], "pending", rep[r].att)]
            \/ rows' = [rows EXCEPT ![j] = Released(rows[j], "dead", rep[r].att)]
        BY <1>17, <3>0 DEF FinishFailure
      <3> QED BY <3>1, <3>2, <3>3, <3>4 DEF Statuses
    <2> QED BY <1>17, <1>a, <2>1, <2>2, <2>3 DEF FinishFailure, TypeOK, RowsTyped, RepsTyped, localVars, counters
  <1>18. ASSUME NEW r \in Replicas, EndDrain(r) \/ CleanupTombstones(r) PROVE TypeOK'
    <2>1. RepsTyped'
      BY <1>a, <1>18, GotoTyped DEF EndDrain, CleanupTombstones, PassSteps
    <2> QED BY <1>18, <1>a, <2>1 DEF EndDrain, CleanupTombstones, TypeOK, RepsTyped, localVars, counters, history
  <1>19. ASSUME NEW r \in Replicas, Cleanup(r) PROVE TypeOK'
    <2>1. RepsTyped'
      BY <1>15, <1>19 DEF Cleanup
    <2>2. RowsTyped'
      BY <1>19, <1>a, <1>d DEF Cleanup, RowsTyped
    <2> QED BY <1>19, <1>a, <2>1, <2>2 DEF Cleanup, TypeOK, RowsTyped, RepsTyped, localVars, counters, history
  <1>20. ASSUME NEW r \in Replicas, Crash(r) PROVE TypeOK'
    <2>1. RepsTyped'
      BY <1>15, <1>20 DEF Crash
    <2>2. RowsTyped'
      <3>1. \A j \in Jobs : [rows[j] EXCEPT !.own = NoReplica] \in Row
        BY <1>c DEF Row
      <3>2. \A j \in Jobs : /\ [rows[j] EXCEPT !.own = NoReplica].req = rows[j].req
                            /\ [rows[j] EXCEPT !.own = NoReplica].own = NoReplica
        BY <1>c DEF Row
      <3> QED BY <1>20, <1>a, <3>1, <3>2 DEF Crash, RowsTyped
    <2>3. faults' \in 0..MaxFaults
      BY <1>20, <1>a DEF Crash, TypeOK
    <2> QED BY <1>20, <1>a, <2>1, <2>2, <2>3 DEF Crash, TypeOK, RowsTyped, RepsTyped, localVars, history
  <1>21. ASSUME NEW j \in Jobs, LeaseLapses(j) PROVE TypeOK'
    <2> DEFINE n == [rows[j] EXCEPT !.lapsed = TRUE]
    <2>1. n \in Row /\ n.req \in RequestsOf(j) /\ n.st = "processing"
      BY <1>c, <1>21 DEF LeaseLapses, Row
    <2>2. rows' = [rows EXCEPT ![j] = n]
      BY <1>21 DEF LeaseLapses
    <2> HIDE DEF n
    <2>3. RowsTyped'
      BY <1>a, <2>1, <2>2, OneRow
    <2> QED BY <1>21, <1>a, <2>3 DEF LeaseLapses, TypeOK, RowsTyped, localVars, counters, history
  <1>22. CASE UNCHANGED vars
    BY <1>22, <1>a DEF vars, TypeOK, localVars, counters, history
  <1> QED BY <1>1, <1>2, <1>3, <1>4, <1>5, <1>6, <1>7, <1>8, <1>9, <1>10, <1>11, <1>13, <1>14, <1>16, <1>17,
             <1>18, <1>19, <1>20, <1>21, <1>22 DEF Next, LocalChange, Pass

(* A fresh installation and one whose user is provisioned satisfy it.      *)
LEMMA InitInv == Init => Inv
  <1> SUFFICES ASSUME NEW sc \in Scenarios, Init, user = sc.provisioned,
                      mapping = (IF user = 0 THEN 0 ELSE 1),
                      budget = [j \in Jobs |-> IF j = "user" THEN sc.user ELSE sc.group]
               PROVE  Inv
    BY DEF Init
  <1> USE ScimAssumption, ConstantRecords
  <1> DEFINE done == [EmptyRow EXCEPT !.st = "succeeded", !.req = SyncUser(user), !.att = 1, !.rev = 1]
  <1>1. /\ tomb = 0 /\ group = 0
        /\ rows = [j \in Jobs |-> IF j = "user" /\ user # 0 THEN done ELSE EmptyRow]
        /\ remote = [id |-> mapping, v |-> user, group |-> NoGroup, last |-> mapping]
        /\ rep = [r \in Replicas |-> IdleReplica]
        /\ faults = 0 /\ gaveUp = {} /\ overtaken = FALSE
    BY DEF Init
  <1>2. user \in Versions \cup {0} /\ mapping \in Nat /\ budget \in [Jobs -> Nat]
    OBVIOUS
  <1>3. user # 0 => SyncUser(user) \in UserRequests /\ SyncUser(user).op = "sync" /\ SyncUser(user).v[1] = user
    BY <1>2, RequestsTyped
  <1>4. user # 0 => /\ done \in Row /\ done.st = "succeeded" /\ done.req = SyncUser(user)
                    /\ done.own = NoReplica
    <2>1. SUFFICES ASSUME user # 0 PROVE /\ done \in Row /\ done.st = "succeeded" /\ done.req = SyncUser(user)
                                         /\ done.own = NoReplica
      OBVIOUS
    <2>2. SyncUser(user) \in Requests /\ 1 \in 0..MaxAttempts
      BY <1>3, <2>1 DEF Requests
    <2> QED BY <2>2 DEF Row, Statuses
  <1> HIDE DEF done
  <1>5. rows["user"] = (IF user # 0 THEN done ELSE EmptyRow) /\ rows["group"] = EmptyRow
    BY <1>1 DEF Jobs
  <1>6. RowsTyped
    <2>1. rows \in [Jobs -> Row]
      BY <1>1, <1>4
    <2> QED BY <1>3, <1>4, <1>5, <2>1 DEF RowsTyped, Jobs, RequestsOf
  <1>7. remote \in Provider /\ remote.id = mapping /\ remote.v = user /\ remote.group = NoGroup
    BY <1>1, <1>2 DEF Provider
  <1>8. RepsTyped
    BY <1>1 DEF RepsTyped, RequestsOf
  <1>9. TypeOK
    <2>1. overtaken \in BOOLEAN /\ gaveUp \subseteq Jobs
      BY <1>1, Zenon
    <2>2. tomb \in Nat /\ group \in Versions \cup {0, Gone} /\ faults \in 0..MaxFaults
      BY <1>1
    <2> QED BY <1>2, <1>6, <1>7, <1>8, <2>1, <2>2, Zenon DEF TypeOK, RowsTyped, RepsTyped
  <1>10. RowInv /\ GroupInv /\ TombInv /\ UserInv
    BY <1>1, <1>3, <1>4, <1>5, <1>7 DEF RowInv, GroupInv, TombInv, UserInv, Jobs, Gone
  <1>11. ASSUME NEW r \in Replicas PROVE AttemptInv(r)
    <2>1. rep[r].pc = "idle" /\ rep[r].req.op = "none"
      BY <1>1
    <2> QED BY <2>1 DEF AttemptInv, CarryInv, LeaseInv, FoundInv, Carrying, Leasing, Exchanging
  <1> QED BY <1>9, <1>10, <1>11 DEF Inv

(***************************************************************************)
(* What a step leaves to the attempts it is not a step of.                 *)
(***************************************************************************)

(* The row of the attempt is as it was, or has a newer request, or is no   *)
(* longer the attempt's; this last happens to an exchange under way only   *)
(* when the user of its row is deleted.                                    *)
Undisturbed(q) ==
    LET o == rows[rep[q].job]
        n == rows'[rep[q].job]
    IN  /\ rep'[q] = rep[q]
        /\ \/ /\ n.st = o.st /\ n.own = o.own
              /\ (n.req = o.req /\ n.rev = o.rev) \/ n.rev > o.rev
              /\ n.lapsed = o.lapsed \/ ~(rep[q].pc \in Leasing /\ Owned(q))
           \/ /\ n.own # q
              /\ ~(rep[q].pc \in Leasing /\ Owned(q)) \/ (rep[q].job = "user" /\ tomb = 0)
        /\ (rep[q].pc \in Exchanging /\ Deletes(q) /\ Owned(q)) => tomb' = tomb

(* The provider and the mapping are as the attempt found or made them.     *)
Unsurprised(q) ==
    /\ overtaken => overtaken'
    /\ (Owned(q) /\ rep[q].job = "group") => remote'.group = remote.group
    /\ (Owned(q) /\ rep[q].job = "user") => mapping' = mapping
    /\ (Owned(q) /\ rep[q].job = "user" /\ ~overtaken') => remote'.id = remote.id /\ remote'.v = remote.v

LEMMA UndisturbedAttempt ==
    ASSUME Inv, TypeOK', NEW q \in Replicas, Undisturbed(q), Unsurprised(q)
    PROVE  AttemptInv(q)'
  <1> DEFINE j == rep[q].job
  <1>0. /\ j \in Jobs /\ rep'[q] = rep[q] /\ AttemptInv(q) /\ NoReplica # q
        /\ rows[j].rev \in Nat /\ rows'[j].rev \in Nat /\ rep[q].rev \in Nat
    BY ScimAssumption DEF Inv, TypeOK, Undisturbed, Replica, Row
  <1>1. Owned(q)' => Owned(q)
    BY <1>0 DEF Undisturbed, Owned
  <1>2. CarryInv(q)'
    <2>1. rep[q].pc \in Carrying <=> rep[q].req.op # "none"
      BY <1>0 DEF AttemptInv, CarryInv
    <2>2. ASSUME rep[q].pc \in Carrying, Owned(q)'
          PROVE  rep[q].rev <= rows'[j].rev /\ (rep[q].rev = rows'[j].rev => rep[q].req = rows'[j].req)
      <3>1. rep[q].rev <= rows[j].rev /\ (rep[q].rev = rows[j].rev => rep[q].req = rows[j].req)
        BY <1>0, <1>1, <2>2 DEF AttemptInv, CarryInv
      <3>2. (rows'[j].req = rows[j].req /\ rows'[j].rev = rows[j].rev) \/ rows'[j].rev > rows[j].rev
        BY <1>0, <2>2 DEF Undisturbed, Owned
      <3> QED BY <1>0, <3>1, <3>2
    <2> QED BY <1>0, <2>1, <2>2 DEF CarryInv
  <1>3. LeaseInv(q)'
    <2>1. (rep[q].pc \in Leasing /\ Owned(q)') => ~rows'[j].lapsed
      BY <1>0, <1>1 DEF AttemptInv, LeaseInv, Undisturbed, Owned
    <2>2. (rep[q].pc \in Leasing /\ j = "group") => Owned(q)'
      BY <1>0 DEF AttemptInv, LeaseInv, Undisturbed, Owned
    <2>3. (rep[q].pc \in Exchanging /\ Deletes(q)) => Owned(q)' /\ tomb' # 0
      BY <1>0 DEF AttemptInv, LeaseInv, Undisturbed, Owned, Leasing
    <2> QED BY <1>0, <2>1, <2>2, <2>3 DEF LeaseInv, Deletes
  <1>4. FoundInv(q)'
    <2>1. (rep[q].pc = "send" /\ Deletes(q)) => Owned(q)
      BY <1>0 DEF AttemptInv, LeaseInv, Exchanging
    <2> QED BY <1>0, <1>1, <2>1 DEF AttemptInv, FoundInv, Unsurprised, Deletes
  <1> QED BY <1>2, <1>3, <1>4 DEF AttemptInv

(* A replica that is not in an attempt carries nothing.                    *)
LEMMA RestingAttempt ==
    ASSUME NEW r \in Replicas, rep'[r].pc \notin AttemptSteps, rep'[r].req.op = "none"
    PROVE  AttemptInv(r)'
  BY DEF AttemptInv, CarryInv, LeaseInv, FoundInv, Carrying, Leasing, Exchanging, AttemptSteps

(* Queueing disturbs no attempt.                                           *)
LEMMA RequeueUndisturbed ==
    ASSUME TypeOK, NEW j \in Jobs, NEW req \in RequestsOf(j), rows' = [rows EXCEPT ![j] = Requeued(@, req)],
           NEW q \in Replicas, rep'[q] = rep[q], tomb' = tomb
    PROVE  Undisturbed(q)
  <1>1. rows[j] \in Row /\ req \in Requests /\ NoReplica # q /\ rows[j].rev \in Nat
    BY ScimAssumption DEF TypeOK, RequestsOf, Requests, Row
  <1>2. CASE rep[q].job # j
    BY <1>2 DEF Undisturbed, TypeOK, Replica
  <1>3. CASE rep[q].job = j
    <2>1. rows'[j] = Requeued(rows[j], req)
      BY DEF TypeOK
    <2>2. CASE rows[j].req = req
      BY <1>1, <1>3, <2>1, <2>2, RequeuedIs DEF Undisturbed
    <2>3. CASE rows[j].req # req /\ rows[j].st = "processing"
      <3>1. /\ rows'[j].st = rows[j].st /\ rows'[j].own = rows[j].own
            /\ rows'[j].lapsed = rows[j].lapsed /\ rows'[j].rev > rows[j].rev
        BY <1>1, <2>1, <2>3, RequeuedIs
      <3> QED BY <1>3, <3>1 DEF Undisturbed
    <2>4. CASE rows[j].req # req /\ rows[j].st # "processing"
      <3>1. rows'[j].own = NoReplica
        BY <1>1, <2>1, <2>4, RequeuedIs
      <3> QED BY <1>1, <1>3, <2>4, <3>1 DEF Undisturbed, Owned
    <2> QED BY <2>2, <2>3, <2>4
  <1> QED BY <1>2, <1>3

(***************************************************************************)
(* The actions, by what they write.                                        *)
(***************************************************************************)

(* Changes of the user and of the group that leave the outbox alone.       *)
LEMMA ChangeStep ==
    ASSUME Inv, TypeOK', NEW v \in Versions, CreateUser(v) \/ UpdateUser(v) \/ SetGroup(v)
    PROVE  Inv'
  <1>1. UNCHANGED <<tomb, rows, mapping, remote, rep, gaveUp, overtaken>>
    BY DEF CreateUser, UpdateUser, SetGroup, history
  <1>2. RowInv' /\ TombInv' /\ UserInv'
    BY <1>1, ScimAssumption DEF Inv, RowInv, TombInv, UserInv, CreateUser, UpdateUser, SetGroup
  <1>3. GroupInv'
    BY <1>1, ScimAssumption DEF Inv, GroupInv, CreateUser, UpdateUser, SetGroup
  <1>4. \A q \in Replicas : AttemptInv(q)'
    BY <1>1 DEF Inv, AttemptInv, CarryInv, LeaseInv, FoundInv, Owned, Deletes
  <1> QED BY <1>2, <1>3, <1>4 DEF Inv

(* Deleting the user takes its row from whatever works on it.              *)
LEMMA DeleteUserStep ==
    ASSUME Inv, TypeOK', DeleteUser
    PROVE  Inv'
  <1> USE ConstantRecords
  <1>1. /\ user # 0 /\ tomb = 0 /\ tomb' # 0 /\ user' = 0
        /\ UNCHANGED <<group, mapping, remote, rep, gaveUp, overtaken>>
    BY DEF Inv, TypeOK, TombInv, DeleteUser, history, Jobs
  <1>2. rows'["user"] = EmptyRow /\ rows'["group"] = rows["group"]
    BY DEF Inv, TypeOK, DeleteUser, Jobs
  <1>3. RowInv' /\ GroupInv' /\ TombInv' /\ UserInv'
    BY <1>1, <1>2 DEF Inv, RowInv, GroupInv, TombInv, UserInv, Jobs
  <1>4. ASSUME NEW q \in Replicas PROVE AttemptInv(q)'
    <2>1. Undisturbed(q)
      <3>1. ~(rep[q].pc \in Exchanging /\ Deletes(q))
        BY <1>1 DEF Inv, AttemptInv, LeaseInv
      <3>2. rep[q].job \in Jobs /\ NoReplica # q
        BY ScimAssumption DEF Inv, TypeOK, Replica
      <3> QED BY <1>1, <1>2, <3>1, <3>2 DEF Undisturbed, Jobs
    <2>2. Unsurprised(q)
      BY <1>1 DEF Unsurprised
    <2> QED BY <2>1, <2>2, UndisturbedAttempt
  <1> QED BY <1>3, <1>4 DEF Inv

(* Deleting the group repoints its row at a delete.                        *)
LEMMA DeleteGroupStep ==
    ASSUME Inv, TypeOK', DeleteGroup
    PROVE  Inv'
  <1> DEFINE req == Request("delete", NoGroup)
  <1>0. req \in RequestsOf("group") /\ req \in Requests /\ req.op = "delete"
    BY RequestsTyped DEF RequestsOf, Requests
  <1> HIDE DEF req
  <1>1. group' = Gone /\ UNCHANGED <<user, tomb, mapping, remote, rep, gaveUp, overtaken>>
    BY DEF DeleteGroup, history
  <1>2. \/ rows["group"].st = "none" /\ rows' = rows
        \/ rows["group"].st # "none" /\ rows' = [rows EXCEPT !["group"] = Requeued(@, req)]
    BY DEF DeleteGroup, req
  <1>3. CASE rows["group"].st = "none" /\ rows' = rows
    <2>1. GroupInv' /\ RowInv' /\ TombInv' /\ UserInv'
      BY <1>1, <1>3, ScimAssumption DEF Inv, RowInv, GroupInv, TombInv, UserInv, Jobs, Gone
    <2>2. \A q \in Replicas : AttemptInv(q)'
      BY <1>1, <1>3 DEF Inv, AttemptInv, CarryInv, LeaseInv, FoundInv, Owned, Deletes
    <2> QED BY <2>1, <2>2 DEF Inv
  <1>4. CASE rows["group"].st # "none" /\ rows' = [rows EXCEPT !["group"] = Requeued(@, req)]
    <2>1. /\ rows'["group"] = Requeued(rows["group"], req) /\ rows'["user"] = rows["user"]
          /\ rows["group"] \in Row
      BY <1>4 DEF Inv, TypeOK, Jobs
    <2>2. /\ rows'["group"].req = req
          /\ rows'["group"] = rows["group"] \/ rows'["group"].st \in {"processing", "pending"}
      BY <1>0, <2>1, RequeuedIs
    <2>3. RowInv' /\ GroupInv' /\ TombInv' /\ UserInv'
      BY <1>0, <1>1, <1>4, <2>1, <2>2, ScimAssumption DEF Inv, RowInv, GroupInv, TombInv, UserInv, Jobs, Gone
    <2>4. ASSUME NEW q \in Replicas PROVE AttemptInv(q)'
      <3>1. Undisturbed(q)
        BY <1>0, <1>1, <1>4, RequeueUndisturbed DEF Inv, Jobs
      <3>2. Unsurprised(q)
        BY <1>1 DEF Unsurprised
      <3> QED BY <3>1, <3>2, UndisturbedAttempt
    <2> QED BY <2>3, <2>4 DEF Inv
  <1> QED BY <1>2, <1>3, <1>4

(* The steps of a pass between its attempts: only the replica moves.       *)
LEMMA RestStep ==
    ASSUME Inv, TypeOK', NEW r \in Replicas,
           UNCHANGED <<user, tomb, group, rows, mapping, remote, gaveUp, overtaken>>,
           NEW a \in Replica, a.pc \notin AttemptSteps, a.req.op = "none", rep' = [rep EXCEPT ![r] = a]
    PROVE  Inv'
  <1>1. RowInv' /\ GroupInv' /\ TombInv' /\ UserInv'
    BY DEF Inv, RowInv, GroupInv, TombInv, UserInv
  <1>2. rep'[r] = a /\ \A q \in Replicas \ {r} : rep'[q] = rep[q]
    BY DEF Inv, TypeOK
  <1>3. AttemptInv(r)'
    BY <1>2, RestingAttempt
  <1>4. ASSUME NEW q \in Replicas \ {r} PROVE AttemptInv(q)'
    BY <1>2, <1>4 DEF Inv, AttemptInv, CarryInv, LeaseInv, FoundInv, Owned, Deletes
  <1> QED BY <1>1, <1>3, <1>4 DEF Inv

(* Queueing what a pass listed.                                            *)
LEMMA QueueStep ==
    ASSUME Inv, TypeOK', NEW r \in Replicas,
           UNCHANGED <<user, tomb, group, mapping, remote, gaveUp, overtaken>>,
           NEW a \in Replica, a.pc \notin AttemptSteps, a.req.op = "none", rep' = [rep EXCEPT ![r] = a],
           NEW j \in Jobs, NEW req \in RequestsOf(j), rows' = [rows EXCEPT ![j] = Requeued(@, req)],
           req.op # "none",
           j = "group" => group \in Versions,
           (j = "user" /\ req.op = "delete") => tomb # 0 /\ req.v[1] = tomb
    PROVE  Inv'
  <1>1. rep'[r] = a /\ \A q \in Replicas \ {r} : rep'[q] = rep[q]
    BY DEF Inv, TypeOK
  <1>2. /\ rows'[j] = Requeued(rows[j], req) /\ \A i \in Jobs \ {j} : rows'[i] = rows[i]
        /\ rows[j] \in Row /\ req \in Requests
    BY DEF Inv, TypeOK, RequestsOf, Requests
  <1>3. /\ rows'[j].req = req
        /\ rows'[j] = rows[j] \/ rows'[j].st \in {"processing", "pending"}
    BY <1>2, RequeuedIs
  <1>4. RowInv'
    BY <1>2, <1>3 DEF Inv, RowInv
  <1>5. GroupInv'
    BY <1>2, <1>3, <1>4, ScimAssumption DEF Inv, GroupInv, RowInv, Jobs, Gone
  <1>6. TombInv' /\ UserInv'
    BY <1>2, <1>3 DEF Inv, TombInv, UserInv, Jobs
  <1>7. AttemptInv(r)'
    BY <1>1, RestingAttempt
  <1>8. ASSUME NEW q \in Replicas \ {r} PROVE AttemptInv(q)'
    <2>1. Undisturbed(q)
      BY <1>1, <1>8, RequeueUndisturbed DEF Inv
    <2>2. Unsurprised(q)
      BY DEF Unsurprised
    <2> QED BY <2>1, <2>2, UndisturbedAttempt
  <1> QED BY <1>4, <1>5, <1>6, <1>7, <1>8 DEF Inv

(* The pass: listing and queueing.                                         *)
LEMMA ListStep ==
    ASSUME Inv, TypeOK', NEW r \in Replicas,
           \/ ListUsers(r) \/ ListTombstones(r) \/ ListGroups(r) \/ EndDrain(r)
           \/ EnqueueUser(r) \/ EnqueueGroup(r) \/ EnqueueTombstoneDelete(r)
    PROVE  Inv'
  <1>1. rep[r] \in Replica /\ rep[r].pc \notin AttemptSteps /\ rep[r].req.op = "none"
    BY DEF Inv, TypeOK, AttemptInv, CarryInv, Carrying, Exchanging, AttemptSteps, At,
           ListUsers, ListTombstones, ListGroups, EndDrain, EnqueueUser, EnqueueGroup, EnqueueTombstoneDelete
  <1>2. /\ UNCHANGED <<user, tomb, group, mapping, remote, gaveUp, overtaken>>
        /\ rep'[r] \in Replica
    BY DEF TypeOK, localVars, counters, history,
           ListUsers, ListTombstones, ListGroups, EndDrain, EnqueueUser, EnqueueGroup, EnqueueTombstoneDelete
  <1>3. /\ rep' = [rep EXCEPT ![r] = rep'[r]]
        /\ rep'[r].pc \in PassSteps /\ rep'[r].req = rep[r].req
    <2>1. rep \in [Replicas -> Replica]
      BY DEF Inv, TypeOK
    <2>2. CASE ListUsers(r)
      BY <1>1, <2>1, <2>2 DEF ListUsers, Replica, PassSteps
    <2>3. CASE ListTombstones(r)
      BY <1>1, <2>1, <2>3 DEF ListTombstones, Replica, PassSteps
    <2>4. CASE ListGroups(r)
      BY <1>1, <2>1, <2>4 DEF ListGroups, Replica, PassSteps
    <2>5. CASE EndDrain(r)
      BY <1>1, <2>1, <2>5 DEF EndDrain, Goto, Replica, PassSteps
    <2>6. CASE EnqueueUser(r)
      BY <1>1, <2>1, <2>6 DEF EnqueueUser, Replica, PassSteps
    <2>7. CASE EnqueueGroup(r)
      BY <1>1, <2>1, <2>7 DEF EnqueueGroup, Replica, PassSteps
    <2>8. CASE EnqueueTombstoneDelete(r)
      BY <1>1, <2>1, <2>8 DEF EnqueueTombstoneDelete, Replica, PassSteps
    <2> QED BY <2>2, <2>3, <2>4, <2>5, <2>6, <2>7, <2>8
  <1>4. PICK a \in Replica : a = rep'[r]
    BY <1>2
  <1>5. rep' = [rep EXCEPT ![r] = a] /\ a.pc \notin AttemptSteps /\ a.req.op = "none"
    BY <1>1, <1>3, <1>4 DEF PassSteps, AttemptSteps
  <1>6. CASE rows' = rows
    BY <1>2, <1>5, <1>6, RestStep
  <1>7. CASE EnqueueUser(r) /\ rows' # rows
    <2>1. rep[r].user \in Versions
      BY <1>1, <1>7 DEF EnqueueUser, Replica
    <2>2. PICK req \in RequestsOf("user") : req = SyncUser(rep[r].user) /\ req.op = "sync"
      BY <2>1, RequestsTyped DEF RequestsOf
    <2>3. rows' = [rows EXCEPT !["user"] = Requeued(@, req)]
      BY <1>7, <2>2 DEF EnqueueUser
    <2> QED BY <1>2, <1>5, <2>2, <2>3, QueueStep DEF Jobs
  <1>8. CASE EnqueueGroup(r) /\ rows' # rows
    <2> DEFINE listed == rep[r].group
               member == IF listed[2] = 1 THEN mapping ELSE 0
    <2>1. /\ listed # NoGroup /\ group \in Versions
          /\ rows' = [rows EXCEPT !["group"] = Requeued(@, Request("sync", <<listed[1], member>>))]
      BY <1>8 DEF EnqueueGroup
    <2>2. listed \in Versions \X {0, 1} /\ member \in Nat
      BY <1>1, <2>1 DEF Inv, TypeOK, Replica
    <2>3. listed[1] \in Versions
      BY <2>2
    <2>4. PICK req \in RequestsOf("group") : req = Request("sync", <<listed[1], member>>) /\ req.op = "sync"
      BY <2>2, <2>3, RequestsTyped DEF RequestsOf
    <2>5. rows' = [rows EXCEPT !["group"] = Requeued(@, req)]
      BY <2>1, <2>4
    <2> QED BY <1>2, <1>5, <2>1, <2>4, <2>5, QueueStep DEF Jobs
  <1>9. CASE EnqueueTombstoneDelete(r) /\ rows' # rows
    <2>1. tomb = rep[r].tomb /\ tomb # 0 /\ tomb \in Nat
      BY <1>9 DEF EnqueueTombstoneDelete, Inv, TypeOK
    <2>2. PICK req \in RequestsOf("user") : req = RemoveUser(tomb) /\ req.op = "delete" /\ req.v[1] = tomb
      BY <2>1, RequestsTyped DEF RequestsOf
    <2>3. rows' = [rows EXCEPT !["user"] = Requeued(@, req)]
      BY <1>9, <2>1, <2>2 DEF EnqueueTombstoneDelete
    <2> QED BY <1>2, <1>5, <2>1, <2>2, <2>3, QueueStep DEF Jobs
  <1> QED BY <1>6, <1>7, <1>8, <1>9 DEF ListUsers, ListTombstones, ListGroups, EndDrain

(* Taking a due row, with a lease or for good: its previous holder is not  *)
(* in an exchange any more.                                                *)
LEMMA DueUndisturbed ==
    ASSUME Inv, NEW j \in Jobs, Due(j), NEW n \in Row, rows' = [rows EXCEPT ![j] = n],
           NEW q \in Replicas, n.own # q, rep'[q] = rep[q], tomb' = tomb
    PROVE  Undisturbed(q)
  <1>1. CASE rep[q].job # j
    BY <1>1 DEF Undisturbed, Inv, TypeOK, Replica
  <1>2. CASE rep[q].job = j
    <2>1. ~(rep[q].pc \in Leasing /\ Owned(q))
      BY <1>2 DEF Inv, AttemptInv, LeaseInv, Owned, Due
    <2>2. rows'[j] = n
      BY DEF Inv, TypeOK
    <2> QED BY <1>2, <2>1, <2>2 DEF Undisturbed
  <1> QED BY <1>1, <1>2

LEMMA ClaimStep ==
    ASSUME Inv, TypeOK', NEW r \in Replicas, NEW j \in Jobs, Claim(r, j)
    PROVE  Inv'
  <1>1. /\ UNCHANGED <<user, tomb, group, mapping, remote, gaveUp, overtaken>>
        /\ Due(j) /\ rows[j].st \in {"pending", "processing"} /\ rows[j] \in Row
    BY DEF Claim, Due, localVars, counters, history, Inv, TypeOK
  <1>2. PICK n \in Row : /\ rows' = [rows EXCEPT ![j] = n] /\ n.st = "processing" /\ n.own = r
                         /\ n.lapsed = FALSE /\ n.req = rows[j].req
    <2>1. rows' = [rows EXCEPT ![j] = Leased(rows[j], r)] /\ rows[j].att < MaxAttempts
      BY DEF Claim
    <2> DEFINE m == Leased(rows[j], r)
    <2>2. m \in Row /\ m.st = "processing" /\ m.own = r /\ m.lapsed = FALSE /\ m.req = rows[j].req
      BY <1>1, <2>1, LeasedIs
    <2>3. rows' = [rows EXCEPT ![j] = m]
      BY <2>1
    <2> HIDE DEF m
    <2> QED BY <2>2, <2>3
  <1>3. rows'[j] = n /\ \A i \in Jobs \ {j} : rows'[i] = rows[i]
    BY <1>2 DEF Inv, TypeOK
  <1>4. /\ rep'[r].pc = "readback" /\ rep'[r].job = j /\ rep'[r].req = rep[r].req
        /\ \A q \in Replicas \ {r} : rep'[q] = rep[q]
    BY DEF Claim, Inv, TypeOK, Replica
  <1>5. RowInv' /\ GroupInv' /\ TombInv' /\ UserInv'
    BY <1>1, <1>2, <1>3 DEF Inv, RowInv, GroupInv, TombInv, UserInv, Jobs
  <1>6. AttemptInv(r)'
    <2>1. rep[r].req.op = "none"
      BY DEF Inv, AttemptInv, CarryInv, Carrying, Exchanging, Claim, At
    <2>2. Owned(r)' /\ rows'[j].lapsed = FALSE
      BY <1>2, <1>3, <1>4 DEF Owned
    <2> QED BY <1>4, <2>1, <2>2 DEF AttemptInv, CarryInv, LeaseInv, FoundInv, Carrying, Exchanging
  <1>7. ASSUME NEW q \in Replicas \ {r} PROVE AttemptInv(q)'
    <2>1. Undisturbed(q)
      BY <1>1, <1>2, <1>4, <1>7, DueUndisturbed
    <2>2. Unsurprised(q)
      BY <1>1 DEF Unsurprised
    <2> QED BY <2>1, <2>2, UndisturbedAttempt
  <1> QED BY <1>5, <1>6, <1>7 DEF Inv

LEMMA DeadLetterStep ==
    ASSUME Inv, TypeOK', NEW r \in Replicas, NEW j \in Jobs, DeadLetterExpired(r, j)
    PROVE  Inv'
  <1>1. /\ UNCHANGED <<user, tomb, group, mapping, remote, rep, overtaken>> /\ gaveUp' = gaveUp \cup {j}
        /\ Due(j) /\ rows[j].st \in {"pending", "processing"} /\ rows[j] \in Row
        /\ rows[j].att \in 0..MaxAttempts
    BY DEF DeadLetterExpired, Due, localVars, counters, Inv, TypeOK, Row
  <1>2. PICK n \in Row : /\ rows' = [rows EXCEPT ![j] = n] /\ n.st = "dead" /\ n.own = NoReplica
                         /\ n.req = rows[j].req
    <2>1. rows' = [rows EXCEPT ![j] = Released(rows[j], "dead", rows[j].att)] /\ "dead" \in Statuses
      BY DEF DeadLetterExpired, Statuses
    <2> DEFINE m == Released(rows[j], "dead", rows[j].att)
    <2>2. m \in Row /\ m.st = "dead" /\ m.own = NoReplica /\ m.req = rows[j].req
      BY <1>1, <2>1, ReleasedIs
    <2>3. rows' = [rows EXCEPT ![j] = m]
      BY <2>1
    <2> HIDE DEF m
    <2> QED BY <2>2, <2>3
  <1>3. rows'[j] = n /\ \A i \in Jobs \ {j} : rows'[i] = rows[i]
    BY <1>2 DEF Inv, TypeOK
  <1>5. RowInv' /\ GroupInv' /\ TombInv' /\ UserInv'
    BY <1>1, <1>2, <1>3 DEF Inv, RowInv, GroupInv, TombInv, UserInv, Jobs
  <1>7. ASSUME NEW q \in Replicas PROVE AttemptInv(q)'
    <2>1. Undisturbed(q)
      BY <1>1, <1>2, ScimAssumption, DueUndisturbed
    <2>2. Unsurprised(q)
      BY <1>1 DEF Unsurprised
    <2> QED BY <2>1, <2>2, UndisturbedAttempt
  <1> QED BY <1>5, <1>7 DEF Inv

(* A step of one attempt that writes nothing shared.                       *)
LEMMA PrivateStep ==
    ASSUME Inv, TypeOK', NEW r \in Replicas,
           UNCHANGED <<user, tomb, group, rows, mapping, remote, gaveUp, overtaken>>,
           \A q \in Replicas \ {r} : rep'[q] = rep[q], AttemptInv(r)'
    PROVE  Inv'
  <1>1. RowInv' /\ GroupInv' /\ TombInv' /\ UserInv'
    BY DEF Inv, RowInv, GroupInv, TombInv, UserInv
  <1>2. ASSUME NEW q \in Replicas \ {r} PROVE AttemptInv(q)'
    BY <1>2 DEF Inv, AttemptInv, CarryInv, LeaseInv, FoundInv, Owned, Deletes
  <1> QED BY <1>1, <1>2 DEF Inv

(* The request that is read back is the one of the leased row.             *)
LEMMA ReadBackStep ==
    ASSUME Inv, TypeOK', NEW r \in Replicas, ReadBack(r)
    PROVE  Inv'
  <1>1. /\ UNCHANGED <<user, tomb, group, rows, mapping, remote, gaveUp, overtaken>>
        /\ \A q \in Replicas \ {r} : rep'[q] = rep[q]
        /\ rep[r].pc = "readback" /\ rep[r].req.op = "none" /\ rep[r].job \in Jobs /\ rep[r] \in Replica
    BY DEF ReadBack, At, localVars, counters, history, Inv, TypeOK, AttemptInv, CarryInv, Carrying,
           Exchanging, Replica
  <1>2. CASE Owned(r)
    <2> DEFINE row == rows[rep[r].job]
    <2>1. /\ rep'[r].pc = "find" /\ rep'[r].job = rep[r].job /\ rep'[r].req = row.req
          /\ rep'[r].rev = row.rev /\ row.rev \in Nat
      BY <1>1, <1>2 DEF ReadBack, Owned, Inv, TypeOK, Replica, Row
    <2>2. row.req.op # "none" /\ ~row.lapsed
      BY <1>1, <1>2 DEF Inv, RowInv, AttemptInv, LeaseInv, Leasing, Owned
    <2>3. Owned(r)'
      BY <1>1, <1>2, <2>1 DEF Owned
    <2>4. CarryInv(r)'
      BY <1>1, <2>1, <2>2 DEF CarryInv, Carrying, Exchanging
    <2>5. LeaseInv(r)'
      <3>1. Deletes(r)' => tomb # 0
        BY <1>2, <2>1 DEF Deletes, Inv, TombInv, Owned
      <3> QED BY <1>1, <2>1, <2>2, <2>3, <3>1 DEF LeaseInv
    <2>6. FoundInv(r)'
      BY <2>1 DEF FoundInv
    <2> QED BY <1>1, <2>4, <2>5, <2>6, PrivateStep DEF AttemptInv
  <1>3. CASE ~Owned(r)
    <2>1. rep'[r].pc = "drain" /\ rep'[r].req = rep[r].req
      BY <1>1, <1>3 DEF ReadBack, Owned, Inv, TypeOK, Replica
    <2>2. AttemptInv(r)'
      BY <1>1, <2>1, RestingAttempt DEF AttemptSteps
    <2> QED BY <1>1, <2>2, PrivateStep
  <1> QED BY <1>2, <1>3

(* The lookup tells what the provider has.                                 *)
LEMMA FindStep ==
    ASSUME Inv, TypeOK', NEW r \in Replicas, Find(r)
    PROVE  Inv'
  <1> DEFINE a == rep[r]
             mapped == IF a.job = "user" /\ a.req.op = "delete" THEN mapping ELSE 0
             there == IF a.job = "group" THEN IF remote.group = NoGroup THEN 0 ELSE 1
                      ELSE IF mapped # 0 THEN IF remote.id = mapped THEN mapped ELSE 0
                      ELSE remote.id
             next == IF a.req.op = "delete" /\ there = 0 THEN "finish" ELSE "send"
  <1>1. /\ UNCHANGED <<user, tomb, group, rows, mapping, remote, gaveUp, overtaken>>
        /\ \A q \in Replicas \ {r} : rep'[q] = rep[q]
        /\ a.pc = "find" /\ a.job \in Jobs /\ a \in Replica /\ AttemptInv(r)
    BY DEF Find, At, localVars, counters, history, Inv, TypeOK, Replica
  <1>2. rep' = [rep EXCEPT ![r] = [a EXCEPT !.pc = next, !.found = there, !.mapped = mapped]]
    BY DEF Find
  <1>3. /\ rep'[r].pc = next /\ rep'[r].found = there /\ rep'[r].mapped = mapped
        /\ rep'[r].job = a.job /\ rep'[r].req = a.req /\ rep'[r].rev = a.rev
    <2> HIDE DEF next, there, mapped
    <2> QED BY <1>1, <1>2 DEF Inv, TypeOK, Replica
  <1>4. Owned(r)' <=> Owned(r)
    BY <1>1, <1>3 DEF Owned
  <1>5. Deletes(r)' <=> Deletes(r)
    BY <1>3 DEF Deletes
  <1>6. CarryInv(r)'
    BY <1>1, <1>3, <1>4 DEF AttemptInv, CarryInv, Carrying, Exchanging
  <1>7. LeaseInv(r)'
    BY <1>1, <1>3, <1>4, <1>5 DEF AttemptInv, LeaseInv, Leasing, Exchanging
  <1>8. FoundInv(r)'
    <2>1. (a.job = "group" /\ next = "finish") => remote.group = a.req.v
      <3>1. a.req \in RequestsOf(a.job)
        BY DEF Inv, TypeOK
      <3> QED BY <3>1, RequestsTyped DEF RequestsOf
    <2>2. Deletes(r) => mapped = mapping
      BY DEF Deletes
    <2>3. (Deletes(r) /\ ~overtaken) =>
             /\ next = "finish" => remote.id = 0
             /\ next = "send" => remote.id = there
      BY DEF Deletes, Inv, UserInv
    <2>4. next = "finish" => a.req.op = "delete"
      OBVIOUS
    <2> HIDE DEF next, there, mapped
    <2> QED BY <1>1, <1>3, <1>5, <2>1, <2>2, <2>3, <2>4 DEF FoundInv, Deletes
  <1> QED BY <1>1, <1>6, <1>7, <1>8, PrivateStep DEF AttemptInv

(* What the provider does with the request of an attempt, field by field.  *)
LEMMA EffectIs ==
    ASSUME TypeOK, NEW r \in Replicas, rep[r].req.op \in {"sync", "delete"}
    PROVE  /\ rep[r].job = "group" =>
                Effect(r).group = rep[r].req.v /\ Effect(r).id = remote.id /\ Effect(r).v = remote.v
           /\ rep[r].job = "user" => Effect(r).group = remote.group
           /\ (Deletes(r) /\ remote.id = rep[r].found) => Effect(r).id = 0
           /\ (rep[r].job = "user" /\ rep[r].req.op = "sync") =>
                /\ Effect(r).v = rep[r].req.v[1]
                /\ rep[r].found # 0 => Effect(r).id = remote.id
  <1>1. remote \in Provider /\ rep[r].job \in Jobs
    BY DEF TypeOK, Replica
  <1>2. CASE rep[r].job = "group"
    BY <1>1, <1>2 DEF Effect, Provider, Deletes
  <1>3. CASE rep[r].job = "user" /\ rep[r].req.op = "delete"
    BY <1>1, <1>3 DEF Effect, Provider, Deletes
  <1>4. CASE rep[r].job = "user" /\ rep[r].req.op = "sync"
    <2>1. Effect(r) = IF rep[r].found = 0
                      THEN [remote EXCEPT !.id = remote.last + 1, !.last = remote.last + 1, !.v = rep[r].req.v[1]]
                      ELSE [remote EXCEPT !.v = rep[r].req.v[1]]
      BY <1>4 DEF Effect
    <2> QED BY <1>1, <1>4, <2>1 DEF Provider, Deletes
  <1> QED BY <1>1, <1>2, <1>3, <1>4 DEF Jobs

(* A request that reaches the provider, whatever becomes of its answer.    *)
LEMMA ProviderActs ==
    ASSUME Inv, TypeOK', NEW r \in Replicas, At(r, "send"), ~Refused(r),
           remote' = Effect(r), overtaken' = (overtaken \/ Overtakes(r)),
           UNCHANGED <<user, tomb, group, rows, mapping, gaveUp>>,
           \A q \in Replicas \ {r} : rep'[q] = rep[q], AttemptInv(r)'
    PROVE  Inv'
  <1>1. rep[r].pc = "send" /\ rep[r].job \in Jobs /\ AttemptInv(r) /\ TypeOK
    BY DEF At, Inv, TypeOK, Replica
  <1>2. rep[r].req.op \in {"sync", "delete"}
    <2>1. rep[r].req.op # "none" /\ rep[r].req \in RequestsOf(rep[r].job)
      BY <1>1 DEF AttemptInv, CarryInv, Carrying, Exchanging, TypeOK
    <2> QED BY <2>1 DEF RequestsOf, UserRequests, GroupRequests, NoRequest, Request
  <1>3. CASE rep[r].job = "group"
    <2>1. Owned(r) /\ rows["group"].st = "processing" /\ rows["group"].own = r
      BY <1>1, <1>3 DEF AttemptInv, LeaseInv, Leasing, Exchanging, Owned
    <2>2. remote'.id = remote.id /\ remote'.v = remote.v /\ (overtaken' <=> overtaken)
      BY <1>1, <1>2, <1>3, EffectIs DEF Overtakes
    <2>3. RowInv' /\ GroupInv' /\ TombInv' /\ UserInv'
      BY <2>1, <2>2 DEF Inv, RowInv, GroupInv, TombInv, UserInv
    <2>4. ASSUME NEW q \in Replicas \ {r} PROVE AttemptInv(q)'
      <3>1. Undisturbed(q)
        BY <2>4 DEF Undisturbed
      <3>2. Unsurprised(q)
        BY <2>1, <2>2, <2>4 DEF Unsurprised, Owned
      <3> QED BY <3>1, <3>2, UndisturbedAttempt
    <2> QED BY <2>3, <2>4 DEF Inv
  <1>4. CASE Deletes(r)
    <2>1. /\ rows["user"].st = "processing" /\ rows["user"].own = r /\ tomb # 0
          /\ ~overtaken => remote.id = rep[r].found
      BY <1>1, <1>4 DEF AttemptInv, LeaseInv, FoundInv, Exchanging, Owned, Deletes
    <2>2. /\ remote'.group = remote.group
          /\ ~overtaken => remote'.id = 0
          /\ overtaken' <=> overtaken
      BY <1>1, <1>2, <1>4, <2>1, EffectIs DEF Deletes, Overtakes
    <2>3. RowInv' /\ GroupInv' /\ TombInv' /\ UserInv'
      BY <2>1, <2>2 DEF Inv, RowInv, GroupInv, TombInv, UserInv
    <2>4. ASSUME NEW q \in Replicas \ {r} PROVE AttemptInv(q)'
      <3>1. Undisturbed(q)
        BY <2>4 DEF Undisturbed
      <3>2. Unsurprised(q)
        BY <2>1, <2>2, <2>4 DEF Unsurprised, Owned
      <3> QED BY <3>1, <3>2, UndisturbedAttempt
    <2> QED BY <2>3, <2>4 DEF Inv
  <1>5. CASE rep[r].job = "user" /\ rep[r].req.op = "sync"
    <2>1. /\ remote.id = rep[r].found
          /\ overtaken => overtaken'
          /\ ~overtaken' => user # 0 /\ rows["user"].own = r
      BY <1>5 DEF Refused, Overtakes
    <2>2. ~overtaken' => tomb = 0 /\ rows["user"].st = "processing" /\ ~overtaken
      BY <1>1, <2>1, ScimAssumption DEF Inv, TombInv, TypeOK, Jobs
    <2>3. remote'.group = remote.group /\ (remote.id # 0 => remote'.id = remote.id)
      BY <1>1, <1>2, <1>5, <2>1, EffectIs
    <2>4. RowInv' /\ GroupInv' /\ TombInv'
      BY <2>3 DEF Inv, RowInv, GroupInv, TombInv
    <2>5. UserInv'
      BY <2>1, <2>2, <2>3 DEF Inv, UserInv
    <2>6. ASSUME NEW q \in Replicas \ {r} PROVE AttemptInv(q)'
      <3>1. Undisturbed(q)
        BY <2>6 DEF Undisturbed
      <3>2. Unsurprised(q)
        BY <2>1, <2>3, <2>6 DEF Unsurprised, Owned
      <3> QED BY <3>1, <3>2, UndisturbedAttempt
    <2> QED BY <2>4, <2>5, <2>6 DEF Inv
  <1> QED BY <1>1, <1>2, <1>3, <1>4, <1>5 DEF Deletes, Jobs

(* A failed attempt keeps what it carries and claims nothing else.         *)
LEMMA FailedAttempt ==
    ASSUME Inv, NEW r \in Replicas, rep[r].pc \in Exchanging, Goto(r, "fail"), rows' = rows
    PROVE  AttemptInv(r)' /\ \A q \in Replicas \ {r} : rep'[q] = rep[q]
  <1>1. /\ rep'[r].pc = "fail" /\ rep'[r].job = rep[r].job /\ rep'[r].req = rep[r].req
        /\ rep'[r].rev = rep[r].rev
        /\ \A q \in Replicas \ {r} : rep'[q] = rep[q]
    BY DEF Goto, Inv, TypeOK, Replica
  <1>2. CarryInv(r)'
    BY <1>1 DEF Inv, AttemptInv, CarryInv, Carrying, Exchanging, Owned
  <1> QED BY <1>1, <1>2 DEF AttemptInv, LeaseInv, FoundInv, Leasing, Exchanging

LEMMA SendStep ==
    ASSUME Inv, TypeOK', NEW r \in Replicas, Send(r)
    PROVE  Inv'
  <1>1. UNCHANGED <<user, tomb, group, rows, mapping, gaveUp>> /\ rep[r].pc = "send" /\ AttemptInv(r)
    BY DEF Send, At, localVars, Inv
  <1>2. CASE Refused(r)
    BY <1>1, <1>2, FailedAttempt, PrivateStep DEF Send, Exchanging
  <1>3. CASE ~Refused(r)
    <2> DEFINE id == IF rep[r].job = "user" THEN Effect(r).id ELSE 1
    <2>1. /\ remote' = Effect(r) /\ overtaken' = (overtaken \/ Overtakes(r))
          /\ rep' = [rep EXCEPT ![r] = [rep[r] EXCEPT !.pc = "finish", !.found = id]]
      BY <1>3 DEF Send
    <2>2. /\ rep'[r].pc = "finish" /\ rep'[r].found = id /\ rep'[r].job = rep[r].job
          /\ rep'[r].req = rep[r].req /\ rep'[r].rev = rep[r].rev /\ rep'[r].mapped = rep[r].mapped
          /\ \A q \in Replicas \ {r} : rep'[q] = rep[q]
      <3> HIDE DEF id
      <3> QED BY <2>1 DEF Inv, TypeOK, Replica
    <2>3. (Owned(r)' <=> Owned(r)) /\ (Deletes(r)' <=> Deletes(r))
      BY <1>1, <2>2 DEF Owned, Deletes
    <2>4. CarryInv(r)' /\ LeaseInv(r)'
      BY <1>1, <2>2, <2>3 DEF AttemptInv, CarryInv, LeaseInv, Carrying, Leasing, Exchanging
    <2>5. rep[r].req.op \in {"sync", "delete"}
      <3>1. rep[r].req.op # "none" /\ rep[r].req \in RequestsOf(rep[r].job)
        BY <1>1 DEF AttemptInv, CarryInv, Carrying, Exchanging, Inv, TypeOK
      <3> QED BY <3>1 DEF RequestsOf, UserRequests, GroupRequests, NoRequest, Request
    <2>6. FoundInv(r)'
      <3>1. rep[r].job = "group" => remote'.group = rep[r].req.v
        BY <2>1, <2>5, EffectIs DEF Inv
      <3>2. (Deletes(r) /\ Owned(r)) => rep[r].mapped = mapping
        BY <1>1 DEF AttemptInv, FoundInv
      <3>3. (Deletes(r) /\ ~overtaken') => remote'.id = 0
        <4>1. (Deletes(r) /\ ~overtaken) => remote.id = rep[r].found
          BY <1>1 DEF AttemptInv, FoundInv
        <4> QED BY <2>1, <2>5, <4>1, EffectIs DEF Inv
      <3>4. (rep[r].job = "user" /\ rep[r].req.op = "sync") => remote'.id = id /\ remote'.v = rep[r].req.v[1]
        BY <2>1, <2>5, EffectIs DEF Inv
      <3> HIDE DEF id
      <3> QED BY <1>1, <2>2, <2>3, <2>5, <3>1, <3>2, <3>3, <3>4 DEF FoundInv, Deletes
    <2>7. AttemptInv(r)'
      BY <2>4, <2>6 DEF AttemptInv
    <2> QED BY <1>1, <1>3, <2>1, <2>2, <2>7, ProviderActs DEF At
  <1> QED BY <1>2, <1>3

LEMMA ExchangeFailsStep ==
    ASSUME Inv, TypeOK', NEW r \in Replicas, ExchangeFails(r)
    PROVE  Inv'
  <1>1. /\ UNCHANGED <<user, tomb, group, rows, mapping, gaveUp>> /\ rep[r].pc \in Exchanging
        /\ Goto(r, "fail")
    BY DEF ExchangeFails, localVars, Exchanging
  <1>2. AttemptInv(r)' /\ \A q \in Replicas \ {r} : rep'[q] = rep[q]
    BY <1>1, FailedAttempt
  <1>3. CASE UNCHANGED <<remote, overtaken>>
    BY <1>1, <1>2, <1>3, PrivateStep
  <1>4. CASE /\ At(r, "send") /\ ~Refused(r) /\ remote' = Effect(r)
             /\ overtaken' = (overtaken \/ Overtakes(r))
    BY <1>1, <1>2, <1>4, ProviderActs
  <1> QED BY <1>3, <1>4 DEF ExchangeFails

(* The holder of a lease gives it up: nobody else held it.                 *)
LEMMA ReleaseUndisturbed ==
    ASSUME Inv, NEW r \in Replicas, Owned(r), NEW j \in Jobs, j = rep[r].job,
           NEW n \in Row, n.own = NoReplica, rows' = [rows EXCEPT ![j] = n],
           NEW q \in Replicas \ {r}, rep'[q] = rep[q], tomb' = tomb
    PROVE  Undisturbed(q)
  <1>1. CASE rep[q].job # j
    BY <1>1 DEF Undisturbed, Inv, TypeOK, Replica
  <1>2. CASE rep[q].job = j
    <2>1. rows'[j] = n /\ ~Owned(q) /\ NoReplica # q
      BY <1>2, ScimAssumption DEF Owned, Inv, TypeOK
    <2> QED BY <1>2, <2>1 DEF Undisturbed
  <1> QED BY <1>1, <1>2

(* An outcome that is not a success: the row is retried or dead.           *)
LEMMA UnsuccessfulOutcome ==
    ASSUME Inv, TypeOK', NEW r \in Replicas, Owned(r), NEW j \in Jobs, j = rep[r].job,
           UNCHANGED <<user, tomb, group, mapping, remote, overtaken>>,
           rep' = [rep EXCEPT ![r] = NextAttempt],
           NEW st \in {"pending", "dead"}, NEW att \in 0..MaxAttempts,
           rows' = [rows EXCEPT ![j] = Released(rows[j], st, att)],
           gaveUp' = (IF st = "dead" THEN gaveUp \cup {j} ELSE gaveUp)
    PROVE  Inv'
  <1> DEFINE n == Released(rows[j], st, att)
  <1>1. rows[j].st = "processing" /\ rows[j] \in Row
    BY DEF Owned, Inv, TypeOK
  <1>2. n \in Row /\ n.st = st /\ n.own = NoReplica /\ n.req = rows[j].req
    <2>1. st \in Statuses
      BY DEF Statuses
    <2> QED BY <1>1, <2>1, ReleasedIs
  <1>3. rows' = [rows EXCEPT ![j] = n] /\ rows'[j] = n /\ \A i \in Jobs \ {j} : rows'[i] = rows[i]
    BY DEF Inv, TypeOK
  <1> HIDE DEF n
  <1>4. RowInv' /\ GroupInv' /\ TombInv' /\ UserInv'
    BY <1>1, <1>2, <1>3 DEF Inv, RowInv, GroupInv, TombInv, UserInv, Jobs
  <1>5. rep'[r] = NextAttempt /\ \A q \in Replicas \ {r} : rep'[q] = rep[q]
    BY DEF Inv, TypeOK
  <1>6. AttemptInv(r)'
    BY <1>5, ConstantRecords, RestingAttempt DEF AttemptSteps
  <1>7. ASSUME NEW q \in Replicas \ {r} PROVE AttemptInv(q)'
    <2>1. Undisturbed(q)
      BY <1>2, <1>3, <1>5, <1>7, ReleaseUndisturbed
    <2>2. Unsurprised(q)
      BY DEF Unsurprised
    <2> QED BY <2>1, <2>2, UndisturbedAttempt
  <1> QED BY <1>4, <1>6, <1>7 DEF Inv

(* An acknowledgement: the request that was sent is the one the row holds, *)
(* and the provider still has it.                                          *)
LEMMA AcknowledgedStep ==
    ASSUME Inv, TypeOK', NEW r \in Replicas, FinishSuccess(r), Acknowledges(r), Current(r)
    PROVE  Inv'
  <1>0. PICK j \in Jobs : j = rep[r].job
    BY DEF Inv, TypeOK, Replica
  <1>1. /\ UNCHANGED <<user, tomb, group, remote, gaveUp, overtaken>>
        /\ mapping' = MappingAfter(r) /\ rep[r].pc = "finish"
        /\ rep' = [rep EXCEPT ![r] = NextAttempt]
    BY DEF FinishSuccess, At, localVars, counters, history
  <1>2. Owned(r) /\ rows[j].st = "processing" /\ rows[j].own = r /\ rows[j] \in Row /\ rows[j].att \in 0..MaxAttempts
    BY <1>0 DEF Current, Owned, Inv, TypeOK, Row
  <1> DEFINE n == Released(rows[j], "succeeded", rows[j].att)
  <1>3. n \in Row /\ n.st = "succeeded" /\ n.own = NoReplica /\ n.req = rows[j].req
    <2>1. "succeeded" \in Statuses
      BY DEF Statuses
    <2> QED BY <1>2, <2>1, ReleasedIs
  <1>4. rows' = [rows EXCEPT ![j] = n]
    BY <1>0 DEF FinishSuccess
  <1> HIDE DEF n
  <1>5. rows'[j] = n /\ \A i \in Jobs \ {j} : rows'[i] = rows[i]
    BY <1>4 DEF Inv, TypeOK
  <1>6. n.req = rep[r].req
    BY <1>0, <1>1, <1>2, <1>3 DEF Inv, AttemptInv, CarryInv, Carrying, Current
  <1>7. FoundInv(r) /\ rep[r].req.op # "none"
    BY <1>1 DEF Inv, AttemptInv, CarryInv, Carrying
  <1>8. RowInv'
    BY <1>1, <1>2, <1>3, <1>5 DEF Inv, RowInv
  <1>9. GroupInv'
    <2>1. CASE j = "group"
      <3>1. remote.group = n.req.v
        BY <1>0, <1>1, <1>2, <1>6, <1>7, <2>1 DEF FoundInv
      <3> QED BY <1>1, <1>2, <1>3, <1>5, <2>1, <3>1 DEF Inv, GroupInv
    <2>2. CASE j # "group"
      BY <1>1, <1>5, <2>2 DEF Inv, GroupInv, Jobs
    <2> QED BY <2>1, <2>2
  <1>10. TombInv'
    BY <1>1, <1>2, <1>3, <1>5 DEF Inv, TombInv, Jobs
  <1>11. j = "group" => mapping' = mapping
    BY <1>0, <1>1 DEF MappingAfter
  <1>12. UserInv'
    <2>1. CASE j = "group"
      BY <1>1, <1>5, <1>11, <2>1 DEF Inv, UserInv, Jobs
    <2>2. CASE j = "user" /\ rep[r].req.op = "delete"
      <3>1. rep[r].mapped = mapping /\ (~overtaken => remote.id = 0)
        BY <1>0, <1>1, <1>2, <1>7, <2>2 DEF FoundInv, Deletes
      <3>2. mapping' = 0
        BY <1>0, <1>1, <2>2, <3>1 DEF MappingAfter
      <3> QED BY <1>1, <1>3, <1>5, <1>6, <2>2, <3>1, <3>2 DEF Inv, UserInv
    <2>3. CASE j = "user" /\ rep[r].req.op # "delete"
      <3>1. ~overtaken => remote.id = rep[r].found /\ remote.v = rep[r].req.v[1]
        BY <1>0, <1>1, <1>2, <1>7, <2>3 DEF FoundInv
      <3>2. rep[r].req.op = "sync"
        <4>1. rep[r].req \in UserRequests
          BY <1>0, <2>3 DEF Inv, TypeOK, RequestsOf
        <4> QED BY <1>7, <2>3, <4>1, RequestsTyped
      <3>3. mapping' = rep[r].found
        BY <1>0, <1>1, <2>3, <3>2 DEF Acknowledges
      <3> QED BY <1>1, <1>3, <1>5, <1>6, <2>3, <3>1, <3>3 DEF Inv, UserInv
    <2> QED BY <2>1, <2>2, <2>3 DEF Jobs
  <1>13. rep'[r] = NextAttempt /\ \A q \in Replicas \ {r} : rep'[q] = rep[q]
    BY <1>1 DEF Inv, TypeOK
  <1>14. AttemptInv(r)'
    BY <1>13, ConstantRecords, RestingAttempt DEF AttemptSteps
  <1>15. ASSUME NEW q \in Replicas \ {r} PROVE AttemptInv(q)'
    <2>1. Undisturbed(q)
      BY <1>0, <1>1, <1>2, <1>3, <1>4, <1>13, <1>15, ReleaseUndisturbed
    <2>2. (Owned(q) /\ rep[q].job = "user") => mapping' = mapping
      BY <1>0, <1>2, <1>11, <1>15 DEF Owned, Jobs
    <2>3. Unsurprised(q)
      BY <1>1, <2>2 DEF Unsurprised
    <2> QED BY <2>1, <2>3, UndisturbedAttempt
  <1> QED BY <1>8, <1>9, <1>10, <1>12, <1>14, <1>15 DEF Inv

LEMMA FinishSuccessStep ==
    ASSUME Inv, TypeOK', NEW r \in Replicas, FinishSuccess(r)
    PROVE  Inv'
  <1>0. PICK j \in Jobs : j = rep[r].job
    BY DEF Inv, TypeOK, Replica
  <1>1. UNCHANGED <<user, tomb, group, remote, gaveUp, overtaken>> /\ mapping' = MappingAfter(r)
    BY DEF FinishSuccess, localVars, counters, history
  <1>2. CASE Acknowledges(r) /\ Current(r)
    BY <1>2, AcknowledgedStep
  <1>3. CASE Acknowledges(r) /\ ~Current(r)
    <2>1. Owned(r) /\ 0 \in 0..MaxAttempts
      BY <1>3, ScimAssumption DEF Acknowledges
    <2>2. mapping' = mapping
      BY <1>1, <1>3 DEF MappingAfter
    <2>3. /\ rep' = [rep EXCEPT ![r] = NextAttempt]
          /\ rows' = [rows EXCEPT ![j] = Released(rows[j], "pending", 0)]
      BY <1>0, <1>3 DEF FinishSuccess
    <2> QED BY <1>0, <1>1, <2>1, <2>2, <2>3, UnsuccessfulOutcome
  <1>4. CASE ~Acknowledges(r)
    <2>1. mapping' = mapping
      BY <1>1, <1>4 DEF Acknowledges, MappingAfter, Current
    <2>2. rows' = rows /\ rep' = [rep EXCEPT ![r] = IdleReplica]
      BY <1>4 DEF FinishSuccess
    <2> QED BY <1>1, <2>1, <2>2, ConstantRecords, RestStep DEF AttemptSteps
  <1> QED BY <1>2, <1>3, <1>4

LEMMA FinishFailureStep ==
    ASSUME Inv, TypeOK', NEW r \in Replicas, NEW permanent \in BOOLEAN, FinishFailure(r, permanent)
    PROVE  Inv'
  <1>0. PICK j \in Jobs : j = rep[r].job
    BY DEF Inv, TypeOK, Replica
  <1>1. UNCHANGED <<user, tomb, group, mapping, remote, overtaken>> /\ rep[r].att \in 0..MaxAttempts
        /\ 0 \in 0..MaxAttempts
    BY ScimAssumption DEF FinishFailure, localVars, counters, Inv, TypeOK, Replica
  <1>2. CASE ~Owned(r)
    <2>1. rows' = rows /\ gaveUp' = gaveUp /\ rep' = [rep EXCEPT ![r] = IdleReplica]
      BY <1>2 DEF FinishFailure, Current
    <2> QED BY <1>1, <2>1, ConstantRecords, RestStep DEF AttemptSteps
  <1>3. CASE Owned(r)
    <2>1. rep' = [rep EXCEPT ![r] = NextAttempt]
      BY <1>3 DEF FinishFailure
    <2>2. \/ gaveUp' = gaveUp /\ rows' = [rows EXCEPT ![j] = Released(rows[j], "pending", 0)]
          \/ gaveUp' = gaveUp /\ rows' = [rows EXCEPT ![j] = Released(rows[j], "pending", rep[r].att)]
          \/ gaveUp' = gaveUp \cup {j} /\ rows' = [rows EXCEPT ![j] = Released(rows[j], "dead", rep[r].att)]
      BY <1>0, <1>3 DEF FinishFailure
    <2> QED BY <1>0, <1>1, <1>3, <2>1, <2>2, UnsuccessfulOutcome
  <1> QED BY <1>2, <1>3

(* A tombstone goes only when its delete succeeded, and with it neither a  *)
(* remote user nor a mapping is left.                                      *)
LEMMA CleanupTombstonesStep ==
    ASSUME Inv, TypeOK', NEW r \in Replicas, CleanupTombstones(r)
    PROVE  Inv'
  <1>1. /\ UNCHANGED <<user, group, rows, mapping, remote, gaveUp, overtaken>>
        /\ rep[r] \in Replica /\ rep[r].req.op = "none"
    BY DEF CleanupTombstones, At, counters, history, Inv, TypeOK, AttemptInv, CarryInv, Carrying, Exchanging
  <1>2. PICK a \in Replica : rep' = [rep EXCEPT ![r] = a] /\ a.pc \notin AttemptSteps /\ a.req.op = "none"
    <2> DEFINE b == [rep[r] EXCEPT !.pc = "sweepOutbox"]
    <2>1. b \in Replica /\ b.pc = "sweepOutbox" /\ b.req = rep[r].req
      BY <1>1 DEF Replica, PassSteps
    <2>2. rep' = [rep EXCEPT ![r] = b]
      BY DEF CleanupTombstones, Goto
    <2> HIDE DEF b
    <2> QED BY <1>1, <2>1, <2>2 DEF AttemptSteps
  <1>3. CASE tomb' = tomb
    BY <1>1, <1>2, <1>3, RestStep
  <1>4. CASE tomb' # tomb
    <2>1. tomb' = 0 /\ rows["user"].st = "succeeded" /\ rows["user"].req = RemoveUser(tomb)
      BY <1>4 DEF CleanupTombstones
    <2>2. rows["user"].req.op = "delete"
      BY <2>1, RequestsTyped DEF Inv, TypeOK
    <2>3. RowInv' /\ GroupInv' /\ TombInv' /\ UserInv'
      BY <1>1, <2>1, <2>2 DEF Inv, RowInv, GroupInv, TombInv, UserInv
    <2>4. rep'[r] = a /\ \A q \in Replicas \ {r} : rep'[q] = rep[q]
      BY <1>2 DEF Inv, TypeOK
    <2>5. AttemptInv(r)'
      BY <1>2, <2>4, RestingAttempt
    <2>6. ASSUME NEW q \in Replicas \ {r} PROVE AttemptInv(q)'
      <3>1. ~(Deletes(q) /\ Owned(q))
        BY <2>1 DEF Deletes, Owned
      <3>2. Undisturbed(q)
        BY <1>1, <2>4, <2>6, <3>1 DEF Undisturbed
      <3>3. Unsurprised(q)
        BY <1>1 DEF Unsurprised
      <3> QED BY <3>2, <3>3, UndisturbedAttempt
    <2> QED BY <2>3, <2>5, <2>6 DEF Inv
  <1> QED BY <1>3, <1>4

(* The sweep removes finished rows only, and that of a group only when the *)
(* provider has nothing of it or the row was given up.                     *)
LEMMA CleanupStep ==
    ASSUME Inv, TypeOK', NEW r \in Replicas, Cleanup(r)
    PROVE  Inv'
  <1> USE ConstantRecords
  <1>1. /\ UNCHANGED <<user, tomb, group, mapping, remote, gaveUp, overtaken>>
        /\ rep' = [rep EXCEPT ![r] = IdleReplica]
    BY DEF Cleanup, localVars, counters, history
  <1>2. \A j \in Jobs : rows'[j] = rows[j] \/ (rows'[j] = EmptyRow /\ Removable(j))
    BY DEF Cleanup
  <1>3. RowInv' /\ TombInv' /\ UserInv'
    BY <1>1, <1>2 DEF Inv, RowInv, TombInv, UserInv, Jobs
  <1>4. GroupInv'
    <2>1. CASE rows'["group"] = rows["group"]
      BY <1>1, <2>1 DEF Inv, GroupInv
    <2>2. CASE rows'["group"] = EmptyRow /\ Removable("group")
      <3>1. rows["group"].st \in {"succeeded", "dead"} /\ group \notin Versions
        BY <2>2 DEF Removable
      <3>2. group = Gone
        BY <3>1 DEF Inv, TypeOK, GroupInv
      <3>3. rows["group"].req.v = NoGroup
        <4>1. rows["group"].req \in GroupRequests
          BY DEF Inv, TypeOK, RequestsOf, Jobs
        <4> QED BY <3>2, <4>1, RequestsTyped DEF Inv, GroupInv
      <3>4. remote.group = NoGroup \/ "group" \in gaveUp
        BY <3>1, <3>3 DEF Inv, GroupInv, RowInv, Jobs
      <3> QED BY <1>1, <2>2, <3>4 DEF GroupInv
    <2> QED BY <1>2, <2>1, <2>2 DEF Jobs
  <1>5. rep'[r] = IdleReplica /\ \A q \in Replicas \ {r} : rep'[q] = rep[q]
    BY <1>1 DEF Inv, TypeOK
  <1>6. AttemptInv(r)'
    BY <1>5, RestingAttempt DEF AttemptSteps
  <1>7. ASSUME NEW q \in Replicas \ {r} PROVE AttemptInv(q)'
    <2>0. PICK j \in Jobs : j = rep[q].job
      BY <1>7 DEF Inv, TypeOK, Replica
    <2>1. Undisturbed(q)
      <3>1. CASE rows'[j] = rows[j]
        BY <1>1, <1>5, <1>7, <2>0, <3>1 DEF Undisturbed
      <3>2. CASE rows'[j] = EmptyRow /\ Removable(j)
        <4>1. ~Owned(q) /\ NoReplica # q
          BY <1>7, <2>0, <3>2, ScimAssumption DEF Owned, Removable
        <4> QED BY <1>1, <1>5, <1>7, <2>0, <3>2, <4>1 DEF Undisturbed
      <3> QED BY <1>2, <3>1, <3>2
    <2>2. Unsurprised(q)
      BY <1>1 DEF Unsurprised
    <2> QED BY <2>1, <2>2, UndisturbedAttempt
  <1> QED BY <1>3, <1>4, <1>6, <1>7 DEF Inv

(* A crash orphans the leases of one replica.                              *)
LEMMA CrashStep ==
    ASSUME Inv, TypeOK', NEW r \in Replicas, Crash(r)
    PROVE  Inv'
  <1> USE ConstantRecords
  <1>1. /\ UNCHANGED <<user, tomb, group, mapping, remote, gaveUp, overtaken>>
        /\ rep' = [rep EXCEPT ![r] = IdleReplica]
    BY DEF Crash, localVars, history
  <1>2. \A j \in Jobs : /\ rows'[j].st = rows[j].st /\ rows'[j].req = rows[j].req
                        /\ rows'[j].rev = rows[j].rev /\ rows'[j].lapsed = rows[j].lapsed
                        /\ rows'[j].own = IF rows[j].own = r THEN NoReplica ELSE rows[j].own
    BY DEF Crash, Inv, TypeOK, Row
  <1>3. RowInv' /\ TombInv' /\ UserInv' /\ GroupInv'
    BY <1>1, <1>2 DEF Inv, RowInv, TombInv, UserInv, GroupInv, Jobs
  <1>5. rep'[r] = IdleReplica /\ \A q \in Replicas \ {r} : rep'[q] = rep[q]
    BY <1>1 DEF Inv, TypeOK
  <1>6. AttemptInv(r)'
    BY <1>5, RestingAttempt DEF AttemptSteps
  <1>7. ASSUME NEW q \in Replicas \ {r} PROVE AttemptInv(q)'
    <2>0. PICK j \in Jobs : j = rep[q].job
      BY <1>7 DEF Inv, TypeOK, Replica
    <2>1. Undisturbed(q)
      <3>1. CASE rows[j].own # r
        BY <1>1, <1>2, <1>5, <1>7, <2>0, <3>1 DEF Undisturbed
      <3>2. CASE rows[j].own = r
        <4>1. ~Owned(q) /\ NoReplica # q
          BY <1>7, <2>0, <3>2, ScimAssumption DEF Owned
        <4> QED BY <1>1, <1>2, <1>5, <1>7, <2>0, <3>2, <4>1 DEF Undisturbed
      <3> QED BY <3>1, <3>2
    <2>2. Unsurprised(q)
      BY <1>1 DEF Unsurprised
    <2> QED BY <2>1, <2>2, UndisturbedAttempt
  <1> QED BY <1>3, <1>6, <1>7 DEF Inv

(* A lease lapses under nobody's exchange.                                 *)
LEMMA LeaseLapsesStep ==
    ASSUME Inv, TypeOK', NEW j \in Jobs, LeaseLapses(j)
    PROVE  Inv'
  <1>1. UNCHANGED <<user, tomb, group, mapping, remote, rep, gaveUp, overtaken>>
    BY DEF LeaseLapses, localVars, counters, history
  <1>2. /\ rows'[j].st = rows[j].st /\ rows'[j].req = rows[j].req
        /\ rows'[j].rev = rows[j].rev /\ rows'[j].own = rows[j].own
        /\ \A i \in Jobs \ {j} : rows'[i] = rows[i]
    BY DEF LeaseLapses, Inv, TypeOK, Row
  <1>3. RowInv' /\ TombInv' /\ UserInv' /\ GroupInv'
    BY <1>1, <1>2 DEF Inv, RowInv, TombInv, UserInv, GroupInv, Jobs
  <1>4. ASSUME NEW q \in Replicas PROVE AttemptInv(q)'
    <2>1. Undisturbed(q)
      <3>1. CASE rep[q].job # j
        BY <1>1, <1>2, <3>1 DEF Undisturbed, Inv, TypeOK, Replica
      <3>2. CASE rep[q].job = j
        <4>1. ~(rep[q].pc \in Leasing /\ Owned(q))
          BY <3>2, ScimAssumption DEF LeaseLapses, Owned, Leasing, Exchanging
        <4> QED BY <1>1, <1>2, <3>2, <4>1 DEF Undisturbed
      <3> QED BY <3>1, <3>2
    <2>2. Unsurprised(q)
      BY <1>1 DEF Unsurprised
    <2> QED BY <2>1, <2>2, UndisturbedAttempt
  <1> QED BY <1>3, <1>4 DEF Inv

(***************************************************************************)
(* The theorems.                                                           *)
(***************************************************************************)

LEMMA InvStep == Inv /\ [Next]_vars => Inv'
  <1> SUFFICES ASSUME Inv, [Next]_vars PROVE Inv'
    OBVIOUS
  <1>0. TypeOK'
    BY TypeStep
  <1>1. CASE LocalChange
    BY <1>0, <1>1, ChangeStep, DeleteUserStep, DeleteGroupStep DEF LocalChange
  <1>2. ASSUME NEW r \in Replicas, Pass(r) PROVE Inv'
    BY <1>0, <1>2, ListStep, ClaimStep, DeadLetterStep, ReadBackStep, FindStep, SendStep,
       FinishSuccessStep, FinishFailureStep, CleanupTombstonesStep, CleanupStep DEF Pass
  <1>3. ASSUME NEW r \in Replicas, ExchangeFails(r) \/ Crash(r) PROVE Inv'
    BY <1>0, <1>3, ExchangeFailsStep, CrashStep
  <1>4. ASSUME NEW j \in Jobs, LeaseLapses(j) PROVE Inv'
    BY <1>0, <1>4, LeaseLapsesStep
  <1>5. CASE UNCHANGED vars
    <2>1. UNCHANGED <<user, tomb, group, rows, mapping, remote, rep, gaveUp, overtaken>>
      BY <1>5 DEF vars, localVars, history
    <2> QED BY <1>0, <2>1 DEF Inv, RowInv, GroupInv, TombInv, UserInv, AttemptInv, CarryInv, LeaseInv,
                              FoundInv, Owned, Deletes
  <1> QED BY <1>1, <1>2, <1>3, <1>4, <1>5 DEF Next

(* The invariant holds in every reachable state.                           *)
LEMMA Invariance == Spec => []Inv
  BY InitInv, InvStep, PTL DEF Spec

(* Rows, mapping, provider and replicas keep their types, a request fits   *)
(* the row it is queued in and the attempt that carries it.                *)
THEOREM ScimTypeOK == Spec => []TypeOK
  <1>1. Inv => TypeOK
    BY DEF Inv
  <1> QED BY <1>1, Invariance, PTL

(* A group that rbac.Store.delete removed is not left at the provider:     *)
(* whatever projection was listed, queued or being sent, its delete stays  *)
(* queued until it is done or given up.                                    *)
THEOREM NoGroupIsOrphaned == Spec => []NoOrphanGroup
  <1>1. Inv => NoOrphanGroup
    <2> SUFFICES ASSUME Inv, group = Gone, remote.group # NoGroup, "group" \notin gaveUp
                 PROVE  rows["group"].req.op = "delete" /\ rows["group"].st \in {"pending", "processing"}
      BY DEF NoOrphanGroup
    <2>1. rows["group"].req \in GroupRequests /\ rows["group"].st \in Statuses
      BY DEF Inv, TypeOK, RequestsOf, Jobs, Row
    <2>2. rows["group"].st \notin {"none", "dead"} /\ rows["group"].req.op \notin {"none", "sync"}
      BY DEF Inv, GroupInv, RowInv, Jobs
    <2>3. rows["group"].req.op = "delete" /\ rows["group"].req.v = NoGroup
      BY <2>1, <2>2, RequestsTyped DEF GroupRequests
    <2>4. rows["group"].st # "succeeded"
      BY <2>3 DEF Inv, GroupInv
    <2> QED BY <2>1, <2>2, <2>3, <2>4 DEF Statuses
  <1> QED BY <1>1, Invariance, PTL

(* finishSuccess acknowledges only what the provider holds: the revision   *)
(* it compares is that of the request it sent, and no other attempt has    *)
(* reached the provider since.                                             *)
THEOREM AcknowledgementIsTrue == Spec => []AcknowledgedIsApplied
  <1>1. Inv => AcknowledgedIsApplied
    BY DEF Inv, GroupInv, UserInv, AcknowledgedIsApplied
  <1> QED BY <1>1, Invariance, PTL

(* CleanupSCIMDeletedUsers drops a tombstone only when no remote user is   *)
(* left, unless a late sync was overtaken by the deletion.                 *)
THEOREM TombstoneOutlivesItsWork == Spec => []TombstoneIsSettled
  <1>1. Inv => TombstoneIsSettled
    BY DEF Inv, UserInv, TombstoneIsSettled
  <1> QED BY <1>1, Invariance, PTL

(* The remote record of a user disappears only while its tombstone stands: *)
(* no delete of an older generation reaches a user that was created again. *)
THEOREM RecreatedUserIsSpared == Spec => DeleteSparesRecreated
  <1>1. Inv /\ [Next]_vars => [(remote.id # 0 /\ remote'.id = 0) => (user = 0 /\ tomb # 0)]_vars
    <2> SUFFICES ASSUME Inv, Next, remote.id # 0, remote'.id = 0 PROVE user = 0 /\ tomb # 0
      OBVIOUS
    <2>1. PICK r \in Replicas : rep[r].pc = "send" /\ ~Refused(r) /\ remote' = Effect(r)
      <3>1. \E r \in Replicas : Send(r) \/ ExchangeFails(r)
        BY DEF Next, LocalChange, Pass, localVars, counters, history, CreateUser, UpdateUser, SetGroup,
               DeleteUser, DeleteGroup, ListUsers, ListTombstones, ListGroups, EnqueueUser, EnqueueGroup,
               EnqueueTombstoneDelete, Claim, DeadLetterExpired, ReadBack, Find, FinishSuccess,
               FinishFailure, EndDrain, CleanupTombstones, Cleanup, Crash, LeaseLapses
      <3> QED BY <3>1 DEF Send, ExchangeFails, At
    <2>2. rep[r].req.op \in {"sync", "delete"} /\ rep[r].job \in Jobs /\ AttemptInv(r)
      <3>1. rep[r].req.op # "none" /\ rep[r].req \in RequestsOf(rep[r].job)
        BY <2>1 DEF AttemptInv, CarryInv, Carrying, Exchanging, Inv, TypeOK
      <3> QED BY <3>1 DEF RequestsOf, UserRequests, GroupRequests, NoRequest, Request, Inv, TypeOK, Replica
    <2>3. rep[r].job # "group"
      BY <2>1, <2>2, EffectIs DEF Inv
    <2>4. ~(rep[r].job = "user" /\ rep[r].req.op = "sync")
      BY <2>1, <2>2, EffectIs DEF Inv, Refused
    <2>5. Deletes(r) /\ tomb # 0
      BY <2>1, <2>2, <2>3, <2>4 DEF Deletes, Jobs, AttemptInv, LeaseInv, Exchanging
    <2> QED BY <2>5 DEF Inv, TombInv
  <1> QED BY <1>1, Invariance, PTL DEF Spec, DeleteSparesRecreated

(* At most one replica talks to the provider about the group, and at most  *)
(* one deletes the remote user: the lease outlasts the exchange, and a     *)
(* tombstone keeps the row of a delete from being taken away.              *)
ExchangesAreExclusive ==
    \A r, q \in Replicas :
        (\/ /\ rep[r].pc \in Leasing /\ rep[r].job = "group"
            /\ rep[q].pc \in Leasing /\ rep[q].job = "group"
         \/ /\ rep[r].pc \in Exchanging /\ Deletes(r)
            /\ rep[q].pc \in Exchanging /\ Deletes(q)) => r = q

(* Outbox.Step never lets two replicas exchange the group, or delete the   *)
(* user, at the same time.                                                 *)
THEOREM OneExchange == Spec => []ExchangesAreExclusive
  <1>1. Inv => ExchangesAreExclusive
    BY DEF Inv, AttemptInv, LeaseInv, Owned, Deletes, ExchangesAreExclusive
  <1> QED BY <1>1, Invariance, PTL

(* While no deletion is being reconciled, scim_user_mappings names the     *)
(* remote user or nothing, unless a sync was overtaken.                    *)
MappingNamesRemote == (tomb = 0 /\ ~overtaken) => mapping \in {0, remote.id}

(* The mapping that finishSuccess records and a delete removes is never    *)
(* left naming a remote user that is not there.                            *)
THEOREM MappingIsTrue == Spec => []MappingNamesRemote
  <1>1. Inv => MappingNamesRemote
    BY DEF Inv, UserInv, MappingNamesRemote
  <1> QED BY <1>1, Invariance, PTL
=============================================================================
