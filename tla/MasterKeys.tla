------------------------------ MODULE MasterKeys ------------------------------
(***************************************************************************)
(* The retirement of a master key.  Every secret at rest is an envelope    *)
(* sealed under a master key; passwordless cookies are envelopes kept by   *)
(* browsers.  An operator retires a key with a replicated barrier:         *)
(* prepare, fence (writers under any other key are refused), one           *)
(* attestation per member that it uses the replacement and saw no other    *)
(* reference, ready.  A housekeeping job of each node then deletes the old *)
(* key (internal/storage/master_key_retirement.go, cmd/goauthy).           *)
(*                                                                         *)
(* A call is one request or worker pass of a node between its reads and    *)
(* its replicated batch; batches are atomic.  Clocks are synchronous, but  *)
(* a handler may have read the time up to Lag before its batch.            *)
(***************************************************************************)
EXTENDS Integers, FiniteSets, FiniteSetsExt

CONSTANTS
    Nodes, Keys, NoKey, FirstKey,
    Rows,           \* stored envelopes
    Calls,          \* operations in progress
    DefaultTTL,     \* defaultRenewTTL, the floor of every retention
    Overlap,        \* retiredKeyOverlapPeriod
    Lag,            \* bound on the age of a handler's time
    MaxTime, MaxEpoch,
    Scenarios       \* clusters and bounds: [members, keys, plan, ttls, epochs,
                    \* writes, cookies, restarts]; plan is what the operator may prepare

ScenarioRows ==
    [members : SUBSET Nodes, keys : SUBSET Keys, plan : SUBSET (Keys \X Keys),
     ttls : SUBSET Nat,        \* cookie lifetimes, 0 when passkeys are disabled
     epochs : 0..MaxEpoch, writes : Nat, cookies : Nat, restarts : Nat]

ASSUME MasterKeysAssumption ==
    /\ FirstKey \in Keys /\ NoKey \notin Keys
    /\ {DefaultTTL, Overlap, Lag, MaxTime, MaxEpoch} \subseteq Nat
    /\ Lag <= Overlap
    /\ Scenarios \subseteq ScenarioRows
    /\ \A s \in Scenarios : Cardinality(s.members) \in {1, 3} /\ FirstKey \in s.keys

VARIABLES
    clock,
    barrier,        \* master_key_retirement_barrier
    attestedAt,     \* master_key_retirement_members of the barrier's epoch
    generations,    \* master_key_retirement_generations
    env,            \* the stored envelopes: sealing key, revision of the content
    ledger,         \* passkey_cookie_key_retention
    cookies,        \* unexpired cookies that browsers hold
    keyring, active, ttl,
    registered,     \* Service.retentionRegistered
    op,             \* what each call has in hand
    scenario

storeVars == <<barrier, attestedAt, generations, env, ledger>>
nodeVars == <<keyring, active, ttl, registered>>
vars == <<clock, storeVars, nodeVars, cookies, op, scenario>>

Never == -1
Epochs == 1..MaxEpoch
Members == scenario.members

Idle == [kind |-> "idle", node |-> NoKey, key |-> NoKey, rows |-> {}, read |-> <<>>, at |-> 0, epoch |-> 0]
NoBarrier == [epoch |-> 0, old |-> NoKey, new |-> NoKey, state |-> "none", prepared |-> Never, fenced |-> Never]
NoGeneration == [old |-> NoKey, ready |-> Never]

Kinds == {"idle", "write", "rewrap", "scan", "sealed", "cookie"}

BarrierRows == [epoch : 0..MaxEpoch, old : Keys \cup {NoKey}, new : Keys \cup {NoKey},
                state : {"none", "prepared", "fenced", "ready", "aborted"},
                prepared : Never..MaxTime, fenced : Never..MaxTime]
GenerationRows == [old : Keys \cup {NoKey}, ready : Never..MaxTime]
Envelopes == [Rows -> [key : Keys, rev : Nat]]
CallRows == [kind : Kinds, node : Nodes \cup {NoKey}, key : Keys \cup {NoKey}, rows : SUBSET Rows,
             read : Envelopes \cup {<<>>}, at : Nat, epoch : 0..MaxEpoch]

(* Tables, keyrings and calls have their types, and a key that a node uses *)
(* is on its keyring.                                                      *)
TypeOK ==
    /\ clock \in 0..MaxTime
    /\ barrier \in BarrierRows
    /\ attestedAt \in [Nodes -> Never..MaxTime]
    /\ generations \in [Epochs -> GenerationRows]
    /\ env \in Envelopes
    /\ ledger \in [Keys -> Nat]
    /\ cookies \subseteq [key : Keys, expires : Nat]
    /\ keyring \in [Nodes -> SUBSET Keys] /\ active \in [Nodes -> Keys]
    /\ \A n \in Nodes : active[n] \in keyring[n]
    /\ ttl \in [Nodes -> Nat] /\ registered \in [Nodes -> SUBSET Keys]
    /\ op \in [Calls -> CallRows]
    /\ scenario \in ScenarioRows

Init ==
    /\ scenario \in Scenarios
    /\ clock = 0
    /\ barrier = NoBarrier
    /\ attestedAt = [n \in Nodes |-> Never]
    /\ generations = [e \in Epochs |-> NoGeneration]
    /\ env = [r \in Rows |-> [key |-> FirstKey, rev |-> 0]]
    /\ ledger = [k \in Keys |-> 0]
    /\ cookies = {}
    /\ keyring = [n \in Nodes |-> scenario.keys]
    /\ active = [n \in Nodes |-> FirstKey]
    /\ \E t \in scenario.ttls : ttl = [n \in Nodes |-> t]
    /\ registered = [n \in Nodes |-> {}]
    /\ op = [c \in Calls |-> Idle]

-----------------------------------------------------------------------------
(* Admission of writers *)

Retired(key) == \E e \in Epochs : generations[e].old = key /\ generations[e].ready # Never

(* Mutant: the fence lets every key pass that no generation has retired.   *)
WriterNotRetired(key) == ~Retired(key)

(* envelopeWriterRejectedPredicate, negated: evaluated inside the batch.   *)
WriterAllowed(key) ==
    /\ barrier.state \in {"fenced", "ready"} => barrier.new = key
    /\ ~Retired(key)

(* The time a handler works with when its batch commits.                   *)
Times == {t \in 0..clock : t >= clock - Lag}

Restart(n) ==
    /\ n \in Members
    /\ scenario.restarts > 0
    /\ \E k \in keyring[n], t \in scenario.ttls :
         /\ WriterAllowed(k)                       \* admitMasterKeyRuntime
         /\ active' = [active EXCEPT ![n] = k]
         /\ ttl' = [ttl EXCEPT ![n] = t]
    /\ registered' = [registered EXCEPT ![n] = {}]
    (* A batch that was already proposed may still commit. *)
    /\ \E late \in SUBSET {c \in Calls : op[c].node = n /\ op[c].kind \in {"write", "rewrap"}} :
         op' = [c \in Calls |-> IF op[c].node = n /\ c \notin late THEN Idle ELSE op[c]]
    /\ scenario' = [scenario EXCEPT !.restarts = @ - 1]
    /\ UNCHANGED <<clock, storeVars, cookies, keyring>>

-----------------------------------------------------------------------------
(* Envelopes at rest *)

Begin(c, call) ==
    /\ op[c] = Idle
    /\ op' = [op EXCEPT ![c] = call]

Finish(c) == op' = [op EXCEPT ![c] = Idle]

SealWrite(c, n, r) ==
    /\ n \in Members
    /\ scenario.writes > 0
    /\ Begin(c, [Idle EXCEPT !.kind = "write", !.node = n, !.key = active[n], !.rows = {r}])
    /\ scenario' = [scenario EXCEPT !.writes = @ - 1]
    /\ UNCHANGED <<clock, storeVars, nodeVars, cookies>>

(* ExecuteEnvelope: the whole batch rolls back for a refused writer.       *)
CommitWrite(c) ==
    /\ op[c].kind = "write"
    /\ env' = IF WriterAllowed(op[c].key)
              THEN [r \in Rows |-> IF r \in op[c].rows
                                   THEN [key |-> op[c].key, rev |-> env[r].rev + 1]
                                   ELSE env[r]]
              ELSE env
    /\ Finish(c)
    /\ UNCHANGED <<clock, barrier, attestedAt, generations, ledger, nodeVars, cookies, scenario>>

(* A rewrap pass of a node opens every row of a batch before it seals the  *)
(* ones that are not under its active key.                                 *)
ReadRewrap(c, n) ==
    LET stale == {r \in Rows : env[r].key # active[n]} IN
    /\ n \in Members
    /\ stale # {}
    /\ \A r \in Rows : env[r].key \in keyring[n]
    /\ Begin(c, [Idle EXCEPT !.kind = "rewrap", !.node = n, !.key = active[n],
                             !.rows = stale, !.read = env])
    /\ UNCHANGED <<clock, storeVars, nodeVars, cookies, scenario>>

(* Mutant: the update compares keys only.                                  *)
RewrapAppliesByKey(c) == \A r \in op[c].rows : env[r].key = op[c].read[r].key

(* The compare-and-set counts all rows of the batch unchanged.             *)
RewrapApplies(c) == \A r \in op[c].rows : env[r] = op[c].read[r]

CommitRewrap(c) ==
    /\ op[c].kind = "rewrap"
    /\ env' = IF WriterAllowed(op[c].key) /\ RewrapApplies(c)
              THEN [r \in Rows |-> IF r \in op[c].rows
                                   THEN [key |-> op[c].key, rev |-> op[c].read[r].rev]
                                   ELSE env[r]]
              ELSE env
    /\ Finish(c)
    /\ UNCHANGED <<clock, barrier, attestedAt, generations, ledger, nodeVars, cookies, scenario>>

-----------------------------------------------------------------------------
(* Passwordless cookies *)

SealCookie(c, n) ==
    /\ n \in Members
    /\ ttl[n] > 0
    /\ scenario.cookies > 0
    /\ Begin(c, [Idle EXCEPT !.kind = "sealed", !.node = n, !.key = active[n], !.at = clock + ttl[n]])
    /\ scenario' = [scenario EXCEPT !.cookies = @ - 1]
    /\ UNCHANGED <<clock, storeVars, nodeVars, cookies>>

(* Mutant: the lifetime is taken to be covered by the default.             *)
SkipRegistration(c) ==
    /\ op[c].kind = "sealed"
    /\ op' = [op EXCEPT ![c] = [@ EXCEPT !.kind = "cookie"]]
    /\ UNCHANGED <<clock, storeVars, nodeVars, cookies, scenario>>

(* The registration is skipped when this process has made it before, and   *)
(* is itself an admitted write.                                            *)
RegisterCookie(c) ==
    LET n == op[c].node
        k == op[c].key
    IN
    /\ op[c].kind = "sealed"
    /\ \/ /\ k \in registered[n]
          /\ op' = [op EXCEPT ![c] = [@ EXCEPT !.kind = "cookie"]]
          /\ UNCHANGED <<ledger, registered>>
       \/ /\ k \notin registered[n]
          /\ WriterAllowed(k)
          /\ ledger' = [ledger EXCEPT ![k] = Max({@, ttl[n]})]
          /\ registered' = [registered EXCEPT ![n] = @ \cup {k}]
          /\ op' = [op EXCEPT ![c] = [@ EXCEPT !.kind = "cookie"]]
       \/ /\ k \notin registered[n]
          /\ ~WriterAllowed(k)
          /\ Finish(c)
          /\ UNCHANGED <<ledger, registered>>
    /\ UNCHANGED <<clock, barrier, attestedAt, generations, env, keyring, active, ttl, cookies, scenario>>

(* CheckEnvelopeWriterAllowed for this very cookie.                        *)
IssueCookie(c) ==
    /\ op[c].kind = "cookie"
    /\ cookies' = IF WriterAllowed(op[c].key) /\ op[c].at > clock
                  THEN cookies \cup {[key |-> op[c].key, expires |-> op[c].at]}
                  ELSE cookies
    /\ Finish(c)
    /\ UNCHANGED <<clock, storeVars, nodeVars, scenario>>

-----------------------------------------------------------------------------
(* The barrier *)

(* retirementPrepareConflictClause: a retry retires the same key, a chained *)
(* epoch the key that the last one installed, and no retired key returns.   *)
Preparable(old, new) ==
    CASE barrier.state = "none" -> TRUE
      [] barrier.state = "aborted" ->
            /\ barrier.old = old
            /\ \A e \in Epochs : generations[e].old # new
      [] barrier.state = "ready" ->
            /\ barrier.new = old
            /\ \A e \in Epochs : generations[e].old # new
      [] OTHER -> FALSE

Prepare(old, new) ==
    /\ old # new
    /\ Preparable(old, new)
    /\ barrier.epoch < scenario.epochs
    /\ \E t \in Times :
         barrier' = [epoch |-> barrier.epoch + 1, old |-> old, new |-> new, state |-> "prepared",
                     prepared |-> t, fenced |-> Never]
    /\ attestedAt' = [n \in Nodes |-> Never]
    /\ UNCHANGED <<clock, generations, env, ledger, nodeVars, cookies, op, scenario>>

Fence ==
    /\ barrier.state = "prepared"
    /\ \E t \in Times :
         /\ t >= barrier.prepared
         /\ barrier' = [barrier EXCEPT !.state = "fenced", !.fenced = t, !.prepared = Never]
    /\ generations' = [generations EXCEPT ![barrier.epoch] = [old |-> barrier.old, ready |-> Never]]
    /\ UNCHANGED <<clock, attestedAt, env, ledger, nodeVars, cookies, op, scenario>>

Retention(n) == Max({DefaultTTL, ttl[n], ledger[barrier.old], Overlap})

(* masterKeyRetirementWorker.Step up to the inspection.  The one worker of *)
(* a node inspects and attests again on every tick.                        *)
StartScan(c, n) ==
    /\ n \in Members
    /\ barrier.state = "fenced"
    /\ active[n] = barrier.new
    /\ \A d \in Calls : op[d].node = n => op[d].kind # "scan"
    /\ clock >= barrier.fenced + Retention(n)
    /\ Begin(c, [Idle EXCEPT !.kind = "scan", !.node = n, !.key = active[n],
                             !.at = clock, !.epoch = barrier.epoch])
    /\ UNCHANGED <<clock, storeVars, nodeVars, cookies, scenario>>

(* The families are read one page at a time; a foreign reference ends the  *)
(* attempt until the next tick.                                            *)
ScanRow(c, r) ==
    /\ op[c].kind = "scan"
    /\ r \notin op[c].rows
    /\ IF env[r].key = op[c].key
       THEN op' = [op EXCEPT ![c] = [op[c] EXCEPT !.rows = @ \cup {r}]]
       ELSE Finish(c)
    /\ UNCHANGED <<clock, storeVars, nodeVars, cookies, scenario>>

AttestGuard(c) ==
    /\ barrier.epoch = op[c].epoch
    /\ barrier.state = "fenced"
    /\ barrier.new = op[c].key
    /\ op[c].at >= barrier.fenced

Attest(c) ==
    /\ op[c].kind = "scan"
    /\ op[c].rows = Rows
    /\ attestedAt' = IF AttestGuard(c) THEN [attestedAt EXCEPT ![op[c].node] = op[c].at] ELSE attestedAt
    /\ Finish(c)
    /\ UNCHANGED <<clock, barrier, generations, env, ledger, nodeVars, cookies, scenario>>

(* All members attested, not before the fence and not after the handler's  *)
(* time.                                                                   *)
Ready ==
    /\ barrier.state = "fenced"
    /\ \E t \in Times :
         /\ \A n \in Members : attestedAt[n] # Never /\ attestedAt[n] \in barrier.fenced..t
         /\ barrier' = [barrier EXCEPT !.state = "ready"]
         /\ generations' = [generations EXCEPT ![barrier.epoch] = [@ EXCEPT !.ready = t]]
    /\ UNCHANGED <<clock, attestedAt, env, ledger, nodeVars, cookies, op, scenario>>

Abort ==
    /\ barrier.state \in {"prepared", "fenced"}
    /\ barrier' = [barrier EXCEPT !.state = "aborted", !.prepared = Never]
    /\ UNCHANGED <<clock, attestedAt, generations, env, ledger, nodeVars, cookies, op, scenario>>

(* The fence time of a generation is only known while the barrier is its.  *)
RemovalDeadline(n, e) ==
    LET lifetime == Max({ledger[generations[e].old], DefaultTTL, ttl[n]})
        base == IF barrier.epoch = e THEN barrier.fenced ELSE generations[e].ready
    IN Max({generations[e].ready + Overlap, base + lifetime})

(* removeRetiredMasterKey for one completed generation.                    *)
RemoveKey(n, e) ==
    /\ n \in Members
    /\ generations[e].ready # Never
    /\ generations[e].old \in keyring[n] \ {active[n]}
    /\ clock >= RemovalDeadline(n, e)
    /\ keyring' = [keyring EXCEPT ![n] = @ \ {generations[e].old}]
    /\ UNCHANGED <<clock, storeVars, active, ttl, registered, cookies, op, scenario>>

Tick ==
    /\ clock < MaxTime
    /\ clock' = clock + 1
    /\ cookies' = {k \in cookies : k.expires > clock + 1}
    /\ UNCHANGED <<storeVars, nodeVars, op, scenario>>

-----------------------------------------------------------------------------
Next ==
    \/ \E n \in Nodes : Restart(n)
    \/ \E c \in Calls, n \in Nodes, r \in Rows : SealWrite(c, n, r)
    \/ \E c \in Calls : CommitWrite(c) \/ CommitRewrap(c)
    \/ \E c \in Calls, n \in Nodes : ReadRewrap(c, n) \/ SealCookie(c, n) \/ StartScan(c, n)
    \/ \E c \in Calls : RegisterCookie(c) \/ IssueCookie(c)
    \/ \E c \in Calls, r \in Rows : ScanRow(c, r)
    \/ \E c \in Calls : Attest(c)
    \/ \E pair \in scenario.plan : Prepare(pair[1], pair[2])
    \/ Fence \/ Ready \/ Abort
    \/ \E n \in Nodes, e \in Epochs : RemoveKey(n, e)
    \/ Tick

Spec == Init /\ [][Next]_vars

-----------------------------------------------------------------------------
(* A key that a node deleted seals nothing at rest: whatever writers,      *)
(* rewraps, aborted epochs and restarts did between the scans and the      *)
(* removal, every stored secret can still be opened by every member.       *)
StoredSecretsOpen ==
    \A n \in Members, r \in Rows : env[r].key \in keyring[n]

(* A passwordless cookie that a browser holds can be opened by every       *)
(* member until it expires, whatever lifetime the issuing process was      *)
(* configured with and has been restarted with since.                      *)
CookiesOpenUntilExpiry ==
    \A k \in cookies, n \in Members : k.key \in keyring[n]

(* Re-encryption never brings back an earlier content of a row that was    *)
(* written while the new envelope was being sealed.                        *)
RewrapKeepsContent ==
    [][\A r \in Rows : env'[r].rev >= env[r].rev]_vars
===============================================================================
