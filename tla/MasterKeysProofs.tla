--------------------------- MODULE MasterKeysProofs ---------------------------
(***************************************************************************)
(* The safety properties of MasterKeys, for every cluster, keyring, number *)
(* of calls and envelopes, every lifetime and every length of time.        *)
(*                                                                         *)
(* A node deletes retired keys only, so it is enough that no row and no    *)
(* unexpired cookie is under a retired key when it does.  For rows: what a *)
(* scan saw under the new key stays under it while the epoch is fenced.    *)
(* For cookies: those of the old key expire within the recorded lifetime   *)
(* of the real moment of the fence, which is at most Lag after the         *)
(* recorded one; the scans wait for the lifetime and the removal for       *)
(* Overlap after them, and Lag <= Overlap.                                 *)
(***************************************************************************)
EXTENDS MasterKeys, FiniteSetTheorems, TLAPS

(* What a call works with.                                                 *)
CallOK(c) ==
    /\ op[c].kind # "idle" => op[c].key \in scenario.keys /\ op[c].node \in Nodes
    /\ op[c].kind = "sealed" => op[c].at <= clock + ttl[op[c].node]
    /\ op[c].kind = "cookie" => op[c].at <= clock + ledger[op[c].key]
    /\ op[c].kind = "scan" =>
         /\ op[c].at <= clock /\ op[c].epoch <= barrier.epoch
         /\ barrier.state = "prepared" => op[c].epoch < barrier.epoch
    /\ (op[c].kind = "scan" /\ barrier.state = "fenced" /\ op[c].epoch = barrier.epoch) =>
         /\ op[c].key = barrier.new /\ \A r \in op[c].rows : env[r].key = barrier.new
         /\ op[c].at >= barrier.fenced + ledger[barrier.old]

CallInv == \A c \in Calls : CallOK(c)

(* A node has every key that is not retired.                               *)
NodeOK(n) ==
    /\ keyring[n] \subseteq scenario.keys
    /\ \A k \in scenario.keys : k \in keyring[n] \/ Retired(k)
    /\ \A k \in registered[n] : ledger[k] >= ttl[n]

NodeInv == \A n \in Nodes : NodeOK(n)

(* No stored row is under a retired key.                                   *)
EnvInv == \A r \in Rows : env[r].key \in scenario.keys /\ ~Retired(env[r].key)

BarrierInv ==
    /\ barrier.state = "none" => \A e \in Epochs : generations[e].old = NoKey
    /\ barrier.state # "none" => barrier.epoch \in Epochs
    /\ barrier.state \in {"prepared", "fenced", "ready"} =>
         /\ barrier.old \in Keys /\ barrier.new \in Keys /\ barrier.old # barrier.new
         /\ \A e \in Epochs : generations[e].old # barrier.new
    /\ barrier.state = "fenced" =>
         generations[barrier.epoch].old = barrier.old /\ barrier.fenced \in Nat
    /\ \A e \in Epochs : generations[e].ready # Never =>
         generations[e].old \in Keys
           /\ (e < barrier.epoch \/ (e = barrier.epoch /\ barrier.state = "ready"))

(* What an attestation has established.                                    *)
AttestInv ==
    \A n \in Nodes :
        /\ barrier.state = "prepared" => attestedAt[n] = Never
        /\ (barrier.state = "fenced" /\ attestedAt[n] # Never) =>
             /\ \A r \in Rows : env[r].key = barrier.new
             /\ attestedAt[n] >= barrier.fenced + ledger[barrier.old]

(* A cookie expires within the recorded lifetime of its key; one of the    *)
(* key being retired within that of the fence; one of a retired key before *)
(* the key may be deleted.                                                 *)
CookieOK(k) ==
    /\ k.key \in scenario.keys /\ k.expires > clock /\ k.expires <= clock + ledger[k.key]
    /\ (barrier.state = "fenced" /\ k.key = barrier.old) =>
         k.expires <= barrier.fenced + Lag + ledger[k.key]
    /\ \A e \in Epochs : (generations[e].ready # Never /\ generations[e].old = k.key) =>
         k.expires <= generations[e].ready + Overlap

CookieInv == \A k \in cookies : CookieOK(k)

Inv ==
    /\ TypeOK /\ scenario.members # {} /\ CallInv /\ NodeInv /\ EnvInv /\ BarrierInv /\ AttestInv
    /\ CookieInv /\ CookiesOpenUntilExpiry

-----------------------------------------------------------------------------
(* Maxima of the sets that the deadlines use.                              *)

LEMMA Max2 ==
    ASSUME NEW a \in Int, NEW b \in Int
    PROVE  Max({a, b}) \in {a, b} /\ Max({a, b}) >= a /\ Max({a, b}) >= b
<1>1. \E x \in {a, b} : \A y \in {a, b} : x >= y
  <2>1. CASE a >= b
    BY <2>1
  <2>2. CASE b >= a
    BY <2>2
  <2> QED BY <2>1, <2>2
<1> QED BY <1>1 DEF Max

LEMMA Max4 ==
    ASSUME NEW a \in Int, NEW b \in Int, NEW c \in Int, NEW d \in Int
    PROVE  Max({a, b, c, d}) \in {a, b, c, d} /\ Max({a, b, c, d}) >= c
<1>1. \E x \in {a, b, c, d} : \A y \in {a, b, c, d} : x >= y
  <2>1. PICK m \in {a, b} : m >= a /\ m >= b
    BY Max2
  <2>2. PICK k \in {c, d} : k >= c /\ k >= d
    BY Max2
  <2>3. CASE m >= k
    <3>1. \A y \in {a, b, c, d} : m >= y
      BY <2>1, <2>2, <2>3
    <3> QED BY <2>1, <3>1
  <2>4. CASE k >= m
    <3>1. \A y \in {a, b, c, d} : k >= y
      BY <2>1, <2>2, <2>4
    <3> QED BY <2>2, <3>1
  <2> QED BY <2>1, <2>2, <2>3, <2>4
<1> QED BY <1>1 DEF Max

-----------------------------------------------------------------------------
(* The parts of the invariant that a step leaves alone.                    *)

SameScenario ==
    /\ scenario' \in ScenarioRows
    /\ scenario'.members = scenario.members /\ scenario'.keys = scenario.keys

LedgerGrows == \A k \in Keys : ledger'[k] >= ledger[k]

(* A call that a step leaves alone while the barrier stands. *)
LEMMA CallKept ==
    ASSUME TypeOK, TypeOK', NEW c \in Calls, CallOK(c), op'[c] = op[c], BarrierInv,
           SameScenario, clock' >= clock, LedgerGrows, UNCHANGED barrier,
           op[c].kind = "sealed" => ttl'[op[c].node] = ttl[op[c].node],
           barrier.state = "fenced" =>
             /\ ledger'[barrier.old] = ledger[barrier.old]
             /\ \A r \in Rows : env[r].key = barrier.new => env'[r].key = barrier.new
    PROVE  CallOK(c)'
<1>0. /\ op[c] \in CallRows /\ clock \in Nat /\ clock' \in Nat
  BY MasterKeysAssumption DEF TypeOK
<1>t. op[c].at \in Nat /\ op[c].rows \subseteq Rows
  BY <1>0 DEF CallRows
<1>1. (op[c].kind # "idle" => op[c].key \in scenario.keys /\ op[c].node \in Nodes)'
  BY DEF CallOK, SameScenario
<1>2. (op[c].kind = "sealed" => op[c].at <= clock + ttl[op[c].node])'
  <2> SUFFICES ASSUME op[c].kind = "sealed"
               PROVE  op[c].at <= clock' + ttl'[op[c].node]
    OBVIOUS
  <2>1. op[c].node \in Nodes /\ op[c].at <= clock + ttl[op[c].node] /\ ttl'[op[c].node] = ttl[op[c].node]
    BY DEF CallOK
  <2>2. ttl[op[c].node] \in Nat
    BY <2>1 DEF TypeOK
  <2> QED BY <1>0, <1>t, <2>1, <2>2
<1>3. (op[c].kind = "cookie" => op[c].at <= clock + ledger[op[c].key])'
  <2> SUFFICES ASSUME op[c].kind = "cookie"
               PROVE  op[c].at <= clock' + ledger'[op[c].key]
    OBVIOUS
  <2>1. op[c].key \in Keys /\ op[c].at <= clock + ledger[op[c].key]
    BY DEF CallOK, TypeOK, ScenarioRows
  <2>2. ledger[op[c].key] \in Nat /\ ledger'[op[c].key] \in Nat /\ ledger'[op[c].key] >= ledger[op[c].key]
    BY <2>1 DEF TypeOK, LedgerGrows
  <2> QED BY <1>0, <1>t, <2>1, <2>2
<1>4. (op[c].kind = "scan" =>
         /\ op[c].at <= clock /\ op[c].epoch <= barrier.epoch
         /\ barrier.state = "prepared" => op[c].epoch < barrier.epoch)'
  BY <1>0, <1>t DEF CallOK
<1>5. ((op[c].kind = "scan" /\ barrier.state = "fenced" /\ op[c].epoch = barrier.epoch) =>
         /\ op[c].key = barrier.new /\ \A r \in op[c].rows : env[r].key = barrier.new
         /\ op[c].at >= barrier.fenced + ledger[barrier.old])'
  BY <1>t DEF CallOK
<1> QED BY <1>1, <1>2, <1>3, <1>4, <1>5 DEF CallOK

(* An idle call meets its invariant.                                       *)
LEMMA IdleOK == ASSUME NEW c \in Calls, op'[c].kind = "idle" PROVE CallOK(c)'
BY DEF CallOK

LEMMA IdleTyped == Idle \in CallRows
BY MasterKeysAssumption DEF Idle, CallRows, Kinds

(* The retired keys are those of the generations.                          *)
LEMMA RetiredKept == ASSUME UNCHANGED generations, NEW k PROVE Retired(k)' <=> Retired(k)
BY DEF Retired

LEMMA BarrierKept ==
    ASSUME BarrierInv, UNCHANGED <<barrier, generations>>
    PROVE  BarrierInv'
BY DEF BarrierInv

(* The other calls when call c moves and the barrier stands.               *)
LEMMA CallsMove ==
    ASSUME Inv, TypeOK', NEW c \in Calls, NEW row \in CallRows, op' = [op EXCEPT ![c] = row],
           CallOK(c)', SameScenario, clock' >= clock, LedgerGrows, UNCHANGED <<barrier, ttl>>,
           barrier.state = "fenced" =>
             /\ ledger'[barrier.old] = ledger[barrier.old]
             /\ \A r \in Rows : env[r].key = barrier.new => env'[r].key = barrier.new
    PROVE  CallInv'
<1>1. ASSUME NEW d \in Calls
      PROVE  CallOK(d)'
  <2>1. CASE d = c
    BY <2>1
  <2>2. CASE d # c
    <3>1. op'[d] = op[d] /\ CallOK(d)
      BY <2>2 DEF Inv, TypeOK, CallInv
    <3> QED BY <3>1, CallKept DEF Inv
  <2> QED BY <2>1, <2>2
<1> QED BY <1>1 DEF CallInv

(* A step that moves one call and no table.                                *)
LEMMA OpStep ==
    ASSUME Inv, NEW c \in Calls, NEW row \in CallRows, op' = [op EXCEPT ![c] = row],
           CallOK(c)', SameScenario, UNCHANGED <<clock, storeVars, nodeVars, cookies>>
    PROVE  Inv'
<1>1. TypeOK'
  BY DEF Inv, TypeOK, SameScenario, storeVars, nodeVars
<1>2. clock' >= clock /\ LedgerGrows
  BY MasterKeysAssumption DEF Inv, TypeOK, LedgerGrows, storeVars
<1>3. CallInv'
  BY <1>1, <1>2, CallsMove DEF storeVars, nodeVars
<1>4. NodeInv' /\ EnvInv'
  BY RetiredKept DEF Inv, NodeInv, NodeOK, EnvInv, SameScenario, storeVars, nodeVars
<1>5. BarrierInv'
  BY BarrierKept DEF Inv, storeVars
<1>6. AttestInv'
  BY DEF Inv, AttestInv, storeVars
<1>7. CookieInv'
  BY DEF Inv, CookieInv, CookieOK, SameScenario, storeVars
<1>8. CookiesOpenUntilExpiry'
  BY DEF Inv, CookiesOpenUntilExpiry, Members, SameScenario, nodeVars
<1> QED BY <1>1, <1>3, <1>4, <1>5, <1>6, <1>7, <1>8 DEF Inv, SameScenario

LEMMA FinishStep ==
    ASSUME Inv, NEW c \in Calls, Finish(c), UNCHANGED <<clock, storeVars, nodeVars, cookies, scenario>>
    PROVE  Inv'
<1> DEFINE row == Idle
<1>1. op' = [op EXCEPT ![c] = row] /\ op'[c].kind = "idle"
  BY DEF Inv, TypeOK, Finish, Idle
<1>2. row \in CallRows
  BY IdleTyped
<1>3. SameScenario
  BY DEF Inv, TypeOK, SameScenario
<1> HIDE DEF row
<1> QED BY <1>1, <1>2, <1>3, IdleOK, OpStep

(* The active key of a member is one of the cluster's.                     *)
LEMMA ActiveKey ==
    ASSUME Inv, NEW n \in Nodes
    PROVE  active[n] \in scenario.keys /\ active[n] \in Keys
BY DEF Inv, TypeOK, NodeInv, NodeOK

LEMMA SealWriteStep ==
    ASSUME Inv, NEW c \in Calls, NEW n \in Nodes, NEW r \in Rows, SealWrite(c, n, r)
    PROVE  Inv'
<1> DEFINE row == [Idle EXCEPT !.kind = "write", !.node = n, !.key = active[n], !.rows = {r}]
<1>1. active[n] \in scenario.keys /\ active[n] \in Keys
  BY ActiveKey
<1>2. row \in CallRows /\ row.kind = "write" /\ row.key = active[n] /\ row.node = n
  BY <1>1, IdleTyped DEF CallRows, Kinds
<1>3. op' = [op EXCEPT ![c] = row] /\ op'[c] = row
  BY DEF SealWrite, Begin, Inv, TypeOK
<1>4. SameScenario
  BY DEF SealWrite, Inv, TypeOK, SameScenario, ScenarioRows
<1> HIDE DEF row
<1>5. CallOK(c)'
  BY <1>1, <1>2, <1>3, <1>4 DEF CallOK, SameScenario
<1> QED BY <1>2, <1>3, <1>4, <1>5, OpStep DEF SealWrite

LEMMA ReadRewrapStep ==
    ASSUME Inv, NEW c \in Calls, NEW n \in Nodes, ReadRewrap(c, n)
    PROVE  Inv'
<1> DEFINE stale == {r \in Rows : env[r].key # active[n]}
           row == [Idle EXCEPT !.kind = "rewrap", !.node = n, !.key = active[n],
                               !.rows = stale, !.read = env]
<1>1. active[n] \in scenario.keys /\ active[n] \in Keys /\ env \in Envelopes /\ stale \subseteq Rows
  BY ActiveKey DEF Inv, TypeOK
<1>3. op' = [op EXCEPT ![c] = row] /\ op'[c] = row
  BY DEF ReadRewrap, Begin, Inv, TypeOK
<1> HIDE DEF stale
<1>2. row \in CallRows /\ row.kind = "rewrap" /\ row.key = active[n] /\ row.node = n
  BY <1>1, IdleTyped DEF CallRows, Kinds
<1>4. SameScenario
  BY DEF ReadRewrap, Inv, TypeOK, SameScenario
<1> HIDE DEF row
<1>5. CallOK(c)'
  BY <1>1, <1>2, <1>3, <1>4 DEF CallOK, SameScenario
<1> QED BY <1>2, <1>3, <1>4, <1>5, OpStep DEF ReadRewrap

LEMMA SealCookieStep ==
    ASSUME Inv, NEW c \in Calls, NEW n \in Nodes, SealCookie(c, n)
    PROVE  Inv'
<1> DEFINE row == [Idle EXCEPT !.kind = "sealed", !.node = n, !.key = active[n], !.at = clock + ttl[n]]
<1>1. active[n] \in scenario.keys /\ active[n] \in Keys /\ clock + ttl[n] \in Nat
  BY ActiveKey, MasterKeysAssumption DEF Inv, TypeOK
<1>2. /\ row \in CallRows /\ row.kind = "sealed" /\ row.key = active[n] /\ row.node = n
      /\ row.at = clock + ttl[n]
  BY <1>1, IdleTyped DEF CallRows, Kinds
<1>3. op' = [op EXCEPT ![c] = row] /\ op'[c] = row
  BY DEF SealCookie, Begin, Inv, TypeOK
<1>4. SameScenario
  BY DEF SealCookie, Inv, TypeOK, SameScenario, ScenarioRows
<1> HIDE DEF row
<1>6. UNCHANGED <<clock, storeVars, nodeVars, cookies>>
  BY DEF SealCookie
<1>5. CallOK(c)'
  <2>1. op'[c].at <= clock' + ttl'[n]
    BY <1>1, <1>2, <1>3, <1>6 DEF nodeVars
  <2> QED BY <1>1, <1>2, <1>3, <1>4, <2>1 DEF CallOK, SameScenario
<1> QED BY <1>2, <1>3, <1>4, <1>5, <1>6, OpStep

LEMMA StartScanStep ==
    ASSUME Inv, NEW c \in Calls, NEW n \in Nodes, StartScan(c, n)
    PROVE  Inv'
<1> DEFINE row == [Idle EXCEPT !.kind = "scan", !.node = n, !.key = active[n],
                               !.at = clock, !.epoch = barrier.epoch]
<1>1. active[n] \in scenario.keys /\ active[n] \in Keys
  BY ActiveKey
<1>t. clock \in Nat /\ barrier.epoch \in 0..MaxEpoch /\ barrier \in BarrierRows
  BY MasterKeysAssumption DEF Inv, TypeOK, BarrierRows
<1>2. /\ row \in CallRows /\ row.kind = "scan" /\ row.key = active[n] /\ row.node = n
      /\ row.at = clock /\ row.epoch = barrier.epoch /\ row.rows = {}
  BY <1>1, <1>t, IdleTyped DEF CallRows, Kinds, Idle
<1>3. op' = [op EXCEPT ![c] = row] /\ op'[c] = row
  BY DEF StartScan, Begin, Inv, TypeOK
<1>4. SameScenario
  BY DEF StartScan, Inv, TypeOK, SameScenario
<1> HIDE DEF row
<1>6. UNCHANGED <<clock, storeVars, nodeVars, cookies>> /\ barrier.state = "fenced"
  BY DEF StartScan
<1>7. clock >= barrier.fenced + ledger[barrier.old]
  <2>1. barrier.old \in Keys /\ barrier.fenced \in Nat
    BY <1>6 DEF Inv, BarrierInv
  <2>2. /\ DefaultTTL \in Int /\ ttl[n] \in Int /\ ledger[barrier.old] \in Int /\ Overlap \in Int
    BY <2>1, MasterKeysAssumption DEF Inv, TypeOK
  <2>3. Retention(n) >= ledger[barrier.old] /\ Retention(n) \in Int
    BY <2>2, Max4 DEF Retention
  <2>4. clock >= barrier.fenced + Retention(n)
    BY DEF StartScan
  <2> QED BY <1>t, <2>1, <2>2, <2>3, <2>4
<1>5. CallOK(c)'
  <2>1. op'[c].at <= clock' /\ op'[c].epoch <= barrier'.epoch /\ barrier'.state = "fenced"
    BY <1>t, <1>2, <1>3, <1>6 DEF storeVars
  <2>2. op'[c].at >= barrier'.fenced + ledger'[barrier'.old] /\ op'[c].key = barrier'.new
    BY <1>2, <1>3, <1>6, <1>7 DEF storeVars, StartScan
  <2> QED BY <1>1, <1>2, <1>3, <1>4, <2>1, <2>2 DEF CallOK, SameScenario
<1> QED BY <1>2, <1>3, <1>4, <1>5, <1>6, OpStep

LEMMA ScanRowStep ==
    ASSUME Inv, NEW c \in Calls, NEW r \in Rows, ScanRow(c, r)
    PROVE  Inv'
<1>u. UNCHANGED <<clock, storeVars, nodeVars, cookies, scenario>> /\ op[c].kind = "scan"
  BY DEF ScanRow
<1>0. op[c] \in CallRows /\ CallOK(c)
  BY DEF Inv, TypeOK, CallInv
<1>1. CASE Finish(c)
  BY <1>1, <1>u, FinishStep
<1>2. CASE env[r].key = op[c].key /\ op' = [op EXCEPT ![c] = [op[c] EXCEPT !.rows = @ \cup {r}]]
  <2> DEFINE row == [op[c] EXCEPT !.rows = @ \cup {r}]
  <2>1. /\ row \in CallRows /\ row.kind = "scan" /\ row.key = op[c].key /\ row.node = op[c].node
        /\ row.at = op[c].at /\ row.epoch = op[c].epoch /\ row.rows = op[c].rows \cup {r}
    <3>1. op[c].rows \cup {r} \in SUBSET Rows
      BY <1>0 DEF CallRows
    <3>2. row = [op[c] EXCEPT !.rows = op[c].rows \cup {r}]
      OBVIOUS
    <3> QED BY <1>0, <1>u, <3>1, <3>2 DEF CallRows
  <2>2. op' = [op EXCEPT ![c] = row] /\ op'[c] = row
    BY <1>2 DEF Inv, TypeOK
  <2>3. SameScenario
    BY <1>u DEF Inv, TypeOK, SameScenario
  <2> HIDE DEF row
  <2>4. CASE barrier.state = "fenced" /\ op[c].epoch = barrier.epoch
    <3>1. op[c].key = barrier.new
      BY <1>0, <1>u, <2>4 DEF CallOK
    <3>2. CallOK(c)'
      BY <1>0, <1>2, <1>u, <2>1, <2>2, <2>3, <2>4, <3>1 DEF CallOK, SameScenario, storeVars
    <3> QED BY <1>u, <2>1, <2>2, <2>3, <3>2, OpStep
  <2>5. CASE ~(barrier.state = "fenced" /\ op[c].epoch = barrier.epoch)
    <3>2. CallOK(c)'
      BY <1>0, <1>u, <2>1, <2>2, <2>3, <2>5 DEF CallOK, SameScenario, storeVars
    <3> QED BY <1>u, <2>1, <2>2, <2>3, <3>2, OpStep
  <2> QED BY <2>4, <2>5
<1> QED BY <1>1, <1>2 DEF ScanRow

-----------------------------------------------------------------------------
(* Commits.                                                                *)

(* A batch that the fence admits writes some rows under its key.           *)
LEMMA EnvStep ==
    ASSUME Inv, NEW c \in Calls, Finish(c), NEW k \in scenario.keys, WriterAllowed(k),
           env' \in Envelopes, \A r \in Rows : env'[r].key \in {env[r].key, k},
           UNCHANGED <<clock, barrier, attestedAt, generations, ledger, nodeVars, cookies, scenario>>
    PROVE  Inv'
<1> DEFINE row == Idle
<1>1. op' = [op EXCEPT ![c] = row] /\ op'[c].kind = "idle"
  BY DEF Inv, TypeOK, Finish, Idle
<1>2. row \in CallRows
  BY IdleTyped
<1> HIDE DEF row
<1>3. SameScenario
  BY DEF Inv, TypeOK, SameScenario
<1>4. TypeOK'
  BY <1>1, <1>2 DEF Inv, TypeOK, nodeVars
<1>5. clock' >= clock /\ LedgerGrows
  BY MasterKeysAssumption DEF Inv, TypeOK, LedgerGrows
<1>6. barrier.state = "fenced" => \A r \in Rows : env[r].key = barrier.new => env'[r].key = barrier.new
  BY DEF WriterAllowed
<1>7. CallInv'
  <2>1. CallOK(c)'
    BY <1>1, IdleOK
  <2> QED BY <1>1, <1>2, <1>3, <1>4, <1>5, <1>6, <2>1, CallsMove DEF nodeVars
<1>8. NodeInv'
  BY RetiredKept DEF Inv, NodeInv, NodeOK, nodeVars
<1>9. EnvInv'
  <2>1. ~Retired(k)
    BY DEF WriterAllowed
  <2> QED BY <2>1, RetiredKept DEF Inv, EnvInv
<1>10. BarrierInv'
  BY BarrierKept DEF Inv
<1>11. AttestInv'
  BY <1>6 DEF Inv, AttestInv
<1>12. CookieInv' /\ CookiesOpenUntilExpiry'
  BY DEF Inv, CookieInv, CookieOK, CookiesOpenUntilExpiry, Members, nodeVars
<1> QED BY <1>4, <1>7, <1>8, <1>9, <1>10, <1>11, <1>12 DEF Inv

LEMMA CommitStep ==
    ASSUME Inv, NEW c \in Calls, CommitWrite(c) \/ CommitRewrap(c)
    PROVE  Inv'
<1>u. /\ UNCHANGED <<clock, barrier, attestedAt, generations, ledger, nodeVars, cookies, scenario>>
      /\ Finish(c)
  BY DEF CommitWrite, CommitRewrap
<1>0. op[c] \in CallRows /\ env \in Envelopes /\ op[c].key \in scenario.keys /\ op[c].key \in Keys
  <2>1. op[c] \in CallRows /\ env \in Envelopes /\ CallOK(c) /\ scenario.keys \subseteq Keys
    BY DEF Inv, TypeOK, CallInv, ScenarioRows
  <2>2. op[c].kind # "idle"
    BY DEF CommitWrite, CommitRewrap
  <2> QED BY <2>1, <2>2 DEF CallOK
<1>1. CASE env' = env
  BY <1>1, <1>u, FinishStep DEF storeVars
<1>2. CASE /\ WriterAllowed(op[c].key)
           /\ env' = [r \in Rows |-> IF r \in op[c].rows
                                     THEN [key |-> op[c].key, rev |-> env[r].rev + 1] ELSE env[r]]
  <2>1. env' \in Envelopes
    BY <1>0, <1>2 DEF Envelopes
  <2>2. \A r \in Rows : env'[r].key \in {env[r].key, op[c].key}
    BY <1>2
  <2> QED BY <1>0, <1>2, <1>u, <2>1, <2>2, EnvStep
<1>3. CASE /\ WriterAllowed(op[c].key) /\ RewrapApplies(c)
           /\ env' = [r \in Rows |-> IF r \in op[c].rows
                                     THEN [key |-> op[c].key, rev |-> op[c].read[r].rev] ELSE env[r]]
  <2>0. \A r \in op[c].rows : op[c].read[r] = env[r]
    BY <1>3 DEF RewrapApplies
  <2>1. env' \in Envelopes
    BY <1>0, <1>3, <2>0 DEF Envelopes
  <2>2. \A r \in Rows : env'[r].key \in {env[r].key, op[c].key}
    BY <1>3
  <2> QED BY <1>0, <1>3, <1>u, <2>1, <2>2, EnvStep
<1> QED BY <1>1, <1>2, <1>3 DEF CommitWrite, CommitRewrap

-----------------------------------------------------------------------------
(* Cookies.                                                                *)

LEMMA RegisterCookieStep ==
    ASSUME Inv, NEW c \in Calls, RegisterCookie(c)
    PROVE  Inv'
<1> DEFINE n == op[c].node
           k == op[c].key
           row == [op[c] EXCEPT !.kind = "cookie"]
<1>u. UNCHANGED <<clock, barrier, attestedAt, generations, env, keyring, active, ttl, cookies, scenario>>
  BY DEF RegisterCookie
<1>0. /\ op[c] \in CallRows /\ CallOK(c) /\ op[c].kind = "sealed"
      /\ n \in Nodes /\ k \in scenario.keys /\ k \in Keys
  <2>1. op[c] \in CallRows /\ CallOK(c) /\ op[c].kind = "sealed" /\ scenario.keys \subseteq Keys
    BY DEF Inv, TypeOK, CallInv, RegisterCookie, ScenarioRows
  <2> QED BY <2>1 DEF CallOK
<1>t. clock \in Nat /\ ttl[n] \in Nat /\ ledger[k] \in Nat /\ op[c].at \in Nat
  BY <1>0, MasterKeysAssumption DEF Inv, TypeOK, CallRows
<1>1. op[c].at <= clock + ttl[n]
  BY <1>0 DEF CallOK
<1>2. /\ row \in CallRows /\ row.kind = "cookie" /\ row.key = k /\ row.node = n /\ row.at = op[c].at
  BY <1>0 DEF CallRows, Kinds
<1>s. SameScenario
  BY <1>u DEF Inv, TypeOK, SameScenario
<1>3. CASE Finish(c) /\ UNCHANGED <<ledger, registered>>
  BY <1>3, <1>u, FinishStep DEF storeVars, nodeVars
<1>4. CASE k \in registered[n] /\ op' = [op EXCEPT ![c] = row] /\ UNCHANGED <<ledger, registered>>
  <2>1. ledger[k] >= ttl[n]
    BY <1>0, <1>4 DEF Inv, NodeInv, NodeOK
  <2>2. op'[c] = row
    BY <1>4 DEF Inv, TypeOK
  <2>3. op[c].at <= clock + ledger[k]
    BY <1>t, <1>1, <2>1
  <2> HIDE DEF row
  <2>4. CallOK(c)'
    BY <1>0, <1>2, <1>4, <1>u, <2>2, <2>3 DEF CallOK
  <2> QED BY <1>2, <1>4, <1>s, <1>u, <2>4, OpStep DEF storeVars, nodeVars
<1>5. CASE /\ k \notin registered[n] /\ WriterAllowed(k)
           /\ ledger' = [ledger EXCEPT ![k] = Max({@, ttl[n]})]
           /\ registered' = [registered EXCEPT ![n] = @ \cup {k}]
           /\ op' = [op EXCEPT ![c] = row]
  <2> DEFINE m == Max({ledger[k], ttl[n]})
  <2>1. m \in Nat /\ m >= ledger[k] /\ m >= ttl[n]
    <3>1. ledger[k] \in Int /\ ttl[n] \in Int
      BY <1>t
    <3>2. m \in {ledger[k], ttl[n]} /\ m >= ledger[k] /\ m >= ttl[n]
      BY <3>1, Max2
    <3> QED BY <1>t, <3>2
  <2>2. ledger' = [ledger EXCEPT ![k] = m]
    BY <1>5
  <2> HIDE DEF m, row
  <2>3. ledger' \in [Keys -> Nat] /\ ledger'[k] = m /\ \A x \in Keys : x # k => ledger'[x] = ledger[x]
    BY <1>0, <2>1, <2>2 DEF Inv, TypeOK
  <2>4. LedgerGrows
    BY <1>t, <2>1, <2>3 DEF LedgerGrows, Inv, TypeOK
  <2>5. TypeOK'
    <3>1. registered' \in [Nodes -> SUBSET Keys]
      BY <1>0, <1>5 DEF Inv, TypeOK
    <3>2. op' \in [Calls -> CallRows]
      BY <1>2, <1>5 DEF Inv, TypeOK
    <3> QED BY <1>u, <2>3, <3>1, <3>2 DEF Inv, TypeOK
  <2>6. op'[c] = row
    BY <1>5 DEF Inv, TypeOK
  <2>7. CallOK(c)'
    <3>1. op[c].at <= clock + m
      BY <1>t, <1>1, <2>1
    <3> QED BY <1>0, <1>2, <1>u, <2>3, <2>6, <3>1 DEF CallOK
  <2>8. barrier.state = "fenced" => barrier.old \in Keys /\ ledger'[barrier.old] = ledger[barrier.old]
    BY <1>5, <2>3 DEF Inv, BarrierInv, WriterAllowed
  <2>9. CallInv'
    <3>1. clock' >= clock
      BY <1>t, <1>u
    <3> QED BY <1>2, <1>5, <1>s, <1>u, <2>4, <2>5, <2>7, <2>8, <3>1, CallsMove
  <2>10. NodeInv'
    <3>1. ASSUME NEW x \in Nodes
          PROVE  NodeOK(x)'
      <4>1. NodeOK(x) /\ ttl[x] \in Nat
        BY DEF Inv, NodeInv, TypeOK
      <4>2. ASSUME NEW y \in registered'[x]
            PROVE  ledger'[y] >= ttl[x]
        <5>1. CASE y \in registered[x]
          <6>1. y \in Keys /\ ledger[y] \in Nat /\ ledger'[y] \in Nat
            BY <2>3, <5>1 DEF Inv, TypeOK
          <6> QED BY <4>1, <5>1, <6>1, <2>4 DEF NodeOK, LedgerGrows
        <5>2. CASE y \notin registered[x]
          <6>1. x = n /\ y = k
            BY <1>0, <1>5, <4>2, <5>2 DEF Inv, TypeOK
          <6> QED BY <2>1, <2>3, <6>1
        <5> QED BY <5>1, <5>2
      <4> QED BY <1>u, <4>1, <4>2, RetiredKept DEF NodeOK
    <3> QED BY <3>1 DEF NodeInv
  <2>11. EnvInv' /\ BarrierInv' /\ CookiesOpenUntilExpiry'
    BY <1>u, RetiredKept, BarrierKept DEF Inv, EnvInv, CookiesOpenUntilExpiry, Members
  <2>12. AttestInv'
    BY <1>u, <2>8 DEF Inv, AttestInv
  <2>13. CookieInv'
    <3>1. ASSUME NEW x \in cookies
          PROVE  CookieOK(x)'
      <4>1. CookieOK(x) /\ x.expires \in Nat /\ x.key \in Keys
        BY DEF Inv, CookieInv, TypeOK
      <4>2. ledger[x.key] \in Nat /\ ledger'[x.key] \in Nat /\ ledger'[x.key] >= ledger[x.key]
        BY <2>3, <2>4, <4>1 DEF LedgerGrows, Inv, TypeOK
      <4>3. x.expires <= clock + ledger'[x.key]
        BY <1>t, <4>1, <4>2 DEF CookieOK
      <4> QED BY <1>u, <2>8, <4>1, <4>3 DEF CookieOK
    <3> QED BY <1>u, <3>1 DEF CookieInv
  <2> QED BY <1>u, <2>5, <2>9, <2>10, <2>11, <2>12, <2>13 DEF Inv
<1> QED BY <1>3, <1>4, <1>5 DEF RegisterCookie

LEMMA IssueCookieStep ==
    ASSUME Inv, NEW c \in Calls, IssueCookie(c)
    PROVE  Inv'
<1> DEFINE k == [key |-> op[c].key, expires |-> op[c].at]
           row == Idle
<1>u. UNCHANGED <<clock, storeVars, nodeVars, scenario>> /\ Finish(c)
  BY DEF IssueCookie
<1>1. CASE cookies' = cookies
  BY <1>1, <1>u, FinishStep
<1>2. CASE WriterAllowed(op[c].key) /\ op[c].at > clock /\ cookies' = cookies \cup {k}
  <2>0. /\ op[c].key \in scenario.keys /\ op[c].key \in Keys /\ op[c].at \in Nat
        /\ op[c].at <= clock + ledger[op[c].key]
    BY DEF Inv, TypeOK, CallInv, CallOK, IssueCookie, ScenarioRows, CallRows
  <2>1. /\ op' = [op EXCEPT ![c] = row] /\ op'[c].kind = "idle"
    BY <1>u DEF Finish, Inv, TypeOK, Idle
  <2>2. row \in CallRows
    BY IdleTyped
  <2> HIDE DEF row
  <2>3. TypeOK'
    <3>1. cookies' \subseteq [key : Keys, expires : Nat]
      BY <1>2, <2>0 DEF Inv, TypeOK
    <3> QED BY <1>u, <2>1, <2>2, <3>1 DEF Inv, TypeOK, storeVars, nodeVars
  <2>4. SameScenario /\ clock' >= clock /\ LedgerGrows
    BY <1>u, MasterKeysAssumption DEF Inv, TypeOK, SameScenario, LedgerGrows, storeVars
  <2>5. CallInv'
    <3>1. CallOK(c)'
      BY <2>1, IdleOK
    <3> QED BY <1>u, <2>1, <2>2, <2>3, <2>4, <3>1, CallsMove DEF storeVars, nodeVars
  <2>6. NodeInv' /\ EnvInv'
    BY <1>u, RetiredKept DEF Inv, NodeInv, NodeOK, EnvInv, storeVars, nodeVars
  <2>7. BarrierInv' /\ AttestInv'
    BY <1>u, BarrierKept DEF Inv, AttestInv, storeVars
  <2>8. ~Retired(op[c].key) /\ (barrier.state = "fenced" => op[c].key # barrier.old)
    BY <1>2 DEF WriterAllowed, Inv, BarrierInv
  <2>9. CookieInv'
    <3>1. \A x \in cookies : CookieOK(x)'
      BY <1>u DEF Inv, CookieInv, CookieOK, storeVars
    <3>2. ASSUME NEW x \in cookies', x \notin cookies
          PROVE  CookieOK(x)'
      <4>1. x.key = op[c].key /\ x.expires = op[c].at
        BY <1>2, <3>2
      <4> QED BY <1>2, <1>u, <2>0, <2>8, <4>1 DEF CookieOK, Retired, storeVars
    <3> QED BY <3>1, <3>2 DEF CookieInv
  <2>10. CookiesOpenUntilExpiry'
    <3>1. \A n \in Members : op[c].key \in keyring[n]
      BY <2>0, <2>8 DEF Inv, NodeInv, NodeOK, Members, TypeOK, ScenarioRows
    <3> QED BY <1>2, <1>u, <3>1 DEF Inv, CookiesOpenUntilExpiry, Members, nodeVars
  <2> QED BY <1>u, <2>3, <2>5, <2>6, <2>7, <2>9, <2>10 DEF Inv
<1> QED BY <1>1, <1>2 DEF IssueCookie

-----------------------------------------------------------------------------
(* The barrier.                                                            *)

LEMMA AttestStep ==
    ASSUME Inv, NEW c \in Calls, Attest(c)
    PROVE  Inv'
<1>u. UNCHANGED <<clock, barrier, generations, env, ledger, nodeVars, cookies, scenario>> /\ Finish(c)
  BY DEF Attest
<1>1. CASE attestedAt' = attestedAt
  BY <1>1, <1>u, FinishStep DEF storeVars
<1>2. CASE AttestGuard(c) /\ attestedAt' = [attestedAt EXCEPT ![op[c].node] = op[c].at]
  <2> DEFINE row == Idle
  <2>0. /\ op[c].node \in Nodes /\ op[c].at \in 0..MaxTime /\ barrier.state = "fenced"
        /\ \A r \in Rows : env[r].key = barrier.new
        /\ op[c].at >= barrier.fenced + ledger[barrier.old]
    <3>1. CallOK(c) /\ op[c] \in CallRows /\ op[c].kind = "scan" /\ op[c].rows = Rows
      BY DEF Inv, CallInv, TypeOK, Attest
    <3>2. barrier.state = "fenced" /\ op[c].epoch = barrier.epoch
      BY <1>2 DEF AttestGuard
    <3>3. op[c].at \in 0..MaxTime
      BY <3>1, MasterKeysAssumption DEF CallOK, CallRows, Inv, TypeOK
    <3> QED BY <3>1, <3>2, <3>3 DEF CallOK
  <2>1. op' = [op EXCEPT ![c] = row] /\ op'[c].kind = "idle"
    BY <1>u DEF Finish, Inv, TypeOK, Idle
  <2>2. row \in CallRows
    BY IdleTyped
  <2> HIDE DEF row
  <2>3. attestedAt' \in [Nodes -> Never..MaxTime]
    <3>1. op[c].at \in Never..MaxTime
      BY <2>0, MasterKeysAssumption DEF Never
    <3> QED BY <1>2, <3>1 DEF Inv, TypeOK
  <2>4. TypeOK'
    BY <1>u, <2>1, <2>2, <2>3 DEF Inv, TypeOK, nodeVars
  <2>5. SameScenario /\ clock' >= clock /\ LedgerGrows
    BY <1>u, MasterKeysAssumption DEF Inv, TypeOK, SameScenario, LedgerGrows
  <2>6. CallInv'
    <3>1. CallOK(c)'
      BY <2>1, IdleOK
    <3> QED BY <1>u, <2>1, <2>2, <2>4, <2>5, <3>1, CallsMove DEF nodeVars
  <2>7. NodeInv' /\ EnvInv' /\ BarrierInv'
    BY <1>u, RetiredKept, BarrierKept DEF Inv, NodeInv, NodeOK, EnvInv, nodeVars
  <2>8. AttestInv'
    <3>1. ASSUME NEW n \in Nodes
          PROVE  attestedAt'[n] \in {attestedAt[n], op[c].at}
      BY <1>2 DEF Inv, TypeOK
    <3>2. attestedAt \in [Nodes -> Never..MaxTime]
      BY DEF Inv, TypeOK
    <3>3. ASSUME NEW n \in Nodes
          PROVE  attestedAt'[n] # Never => attestedAt'[n] >= barrier.fenced + ledger[barrier.old]
      BY <2>0, <3>1, <3>3 DEF Inv, AttestInv
    <3> QED BY <1>u, <2>0, <3>3 DEF AttestInv
  <2>9. CookieInv' /\ CookiesOpenUntilExpiry'
    BY <1>u DEF Inv, CookieInv, CookieOK, CookiesOpenUntilExpiry, Members, nodeVars
  <2> QED BY <1>u, <2>4, <2>6, <2>7, <2>8, <2>9 DEF Inv
<1> QED BY <1>1, <1>2 DEF Attest

(* The barrier moves to another state: what depends on it is given, and    *)
(* the rest stays.                                                         *)
LEMMA BarrierStep ==
    ASSUME Inv, barrier' \in BarrierRows, attestedAt' \in [Nodes -> Never..MaxTime],
           generations' \in [Epochs -> GenerationRows],
           UNCHANGED <<clock, env, ledger, nodeVars, cookies, op, scenario>>,
           CallInv', BarrierInv', AttestInv', CookieInv',
           \A k \in Keys : Retired(k) => Retired(k)',
           \A r \in Rows : ~Retired(env[r].key)'
    PROVE  Inv'
<1>1. TypeOK'
  BY DEF Inv, TypeOK, nodeVars
<1>2. NodeInv'
  <2>1. ASSUME NEW n \in Nodes
        PROVE  NodeOK(n)'
    <3>1. NodeOK(n) /\ scenario.keys \subseteq Keys
      BY DEF Inv, NodeInv, TypeOK, ScenarioRows
    <3> QED BY <3>1 DEF NodeOK, nodeVars
  <2> QED BY <2>1 DEF NodeInv
<1>3. EnvInv'
  <2>1. ASSUME NEW r \in Rows
        PROVE  (env[r].key \in scenario.keys /\ ~Retired(env[r].key))'
    <3>1. env[r].key \in scenario.keys
      BY DEF Inv, EnvInv
    <3> QED BY <3>1
  <2> QED BY <2>1 DEF EnvInv
<1>4. CookiesOpenUntilExpiry'
  BY DEF Inv, CookiesOpenUntilExpiry, Members, nodeVars
<1> QED BY <1>1, <1>2, <1>3, <1>4 DEF Inv

(* Outside a fenced epoch the calls have nothing to establish but that     *)
(* their epoch is not ahead.                                               *)
LEMMA CallsElsewhere ==
    ASSUME Inv, UNCHANGED <<clock, env, ledger, ttl, op, scenario>>, barrier' \in BarrierRows,
           barrier'.state # "fenced",
           \/ barrier'.epoch = barrier.epoch /\ barrier'.state # "prepared"
           \/ barrier'.epoch > barrier.epoch
    PROVE  CallInv'
<1>1. ASSUME NEW c \in Calls
      PROVE  CallOK(c)'
  <2>1. CallOK(c) /\ op[c].epoch \in Nat /\ barrier.epoch \in Nat /\ barrier'.epoch \in Nat
    BY MasterKeysAssumption DEF Inv, CallInv, TypeOK, CallRows, BarrierRows
  <2> QED BY <2>1 DEF CallOK
<1> QED BY <1>1 DEF CallInv

LEMMA PrepareStep ==
    ASSUME Inv, NEW old \in Keys, NEW new \in Keys, Prepare(old, new)
    PROVE  Inv'
<1>u. UNCHANGED <<clock, generations, env, ledger, nodeVars, cookies, op, scenario>>
  BY DEF Prepare
<1>0. /\ barrier \in BarrierRows /\ scenario.epochs \in 0..MaxEpoch /\ clock \in 0..MaxTime
      /\ barrier.epoch \in 0..MaxEpoch
  BY DEF Inv, TypeOK, ScenarioRows, BarrierRows
<1>1. /\ barrier'.epoch = barrier.epoch + 1 /\ barrier'.old = old /\ barrier'.new = new
      /\ barrier'.state = "prepared" /\ barrier' \in BarrierRows /\ barrier'.epoch \in Epochs
  <2>1. barrier.epoch + 1 \in 0..MaxEpoch /\ barrier.epoch + 1 \in Epochs
    BY <1>0, MasterKeysAssumption DEF Prepare, Epochs
  <2>2. PICK t \in Times :
             barrier' = [epoch |-> barrier.epoch + 1, old |-> old, new |-> new, state |-> "prepared",
                         prepared |-> t, fenced |-> Never]
    BY DEF Prepare
  <2>3. t \in Never..MaxTime /\ Never \in Never..MaxTime
    BY <1>0, MasterKeysAssumption DEF Never, Times
  <2> QED BY <2>1, <2>2, <2>3 DEF BarrierRows
<1>2. attestedAt' \in [Nodes -> Never..MaxTime] /\ \A n \in Nodes : attestedAt'[n] = Never
  BY MasterKeysAssumption DEF Prepare, Never
<1>3. CallInv'
  <2>1. barrier'.epoch > barrier.epoch
    BY <1>0, <1>1
  <2> QED BY <1>1, <1>u, <2>1, CallsElsewhere DEF nodeVars
<1>4. BarrierInv'
  <2>1. old # new /\ \A e \in Epochs : generations[e].old # new
    BY MasterKeysAssumption DEF Prepare, Preparable, Inv, BarrierInv
  <2>2. \A e \in Epochs : generations[e].ready # Never => generations[e].old \in Keys /\ e < barrier'.epoch
    BY <1>0, <1>1 DEF Inv, BarrierInv, Epochs
  <2> QED BY <1>1, <1>u, <2>1, <2>2 DEF BarrierInv
<1>5. AttestInv'
  BY <1>1, <1>2 DEF AttestInv
<1>6. CookieInv'
  BY <1>1, <1>u DEF Inv, CookieInv, CookieOK
<1>7. \A k : Retired(k)' <=> Retired(k)
  BY <1>u, RetiredKept
<1>8. \A r \in Rows : ~Retired(env[r].key)'
  BY <1>u, RetiredKept DEF Inv, EnvInv
<1>9. generations' \in [Epochs -> GenerationRows]
  BY <1>u DEF Inv, TypeOK
<1> QED BY <1>1, <1>2, <1>3, <1>4, <1>5, <1>6, <1>7, <1>8, <1>9, <1>u, BarrierStep

(* The fence is recorded at most Lag before it stands, so a cookie of the   *)
(* old key outlives the recorded time by at most Lag and its lifetime.      *)
LEMMA FenceStep ==
    ASSUME Inv, Fence
    PROVE  Inv'
<1>u. UNCHANGED <<clock, attestedAt, env, ledger, nodeVars, cookies, op, scenario>>
  BY DEF Fence
<1>0. /\ barrier \in BarrierRows /\ barrier.state = "prepared" /\ clock \in 0..MaxTime
      /\ barrier.epoch \in Epochs /\ barrier.old \in Keys /\ barrier.new \in Keys
      /\ barrier.old # barrier.new /\ \A e \in Epochs : generations[e].old # barrier.new
  BY DEF Fence, Inv, TypeOK, BarrierInv
<1>l. Lag \in Nat /\ MaxTime \in Nat
  BY MasterKeysAssumption
<1>1. PICK t \in Times : barrier' = [barrier EXCEPT !.state = "fenced", !.fenced = t, !.prepared = Never]
  BY DEF Fence
<1>2. t \in 0..MaxTime /\ t >= clock - Lag
  BY <1>0, <1>1, <1>l DEF Times
<1>3. /\ barrier' \in BarrierRows /\ barrier'.state = "fenced" /\ barrier'.fenced = t
      /\ barrier'.epoch = barrier.epoch /\ barrier'.old = barrier.old /\ barrier'.new = barrier.new
  <2>1. t \in Never..MaxTime /\ Never \in Never..MaxTime
    BY <1>2, <1>l DEF Never
  <2> QED BY <1>0, <1>1, <2>1 DEF BarrierRows
<1>4. /\ generations' \in [Epochs -> GenerationRows]
      /\ generations'[barrier.epoch].old = barrier.old /\ generations'[barrier.epoch].ready = Never
      /\ \A e \in Epochs : e # barrier.epoch => generations'[e] = generations[e]
  <2> DEFINE row == [old |-> barrier.old, ready |-> Never]
  <2>1. row \in GenerationRows /\ row.old = barrier.old /\ row.ready = Never
    BY <1>0, <1>l DEF GenerationRows, Never
  <2>2. generations' = [generations EXCEPT ![barrier.epoch] = row] /\ generations \in [Epochs -> GenerationRows]
    BY DEF Fence, Inv, TypeOK
  <2> HIDE DEF row
  <2> QED BY <1>0, <2>1, <2>2
<1>5. \A e \in Epochs : generations[e].ready # Never =>
         e < barrier.epoch /\ e # barrier.epoch /\ generations[e].old \in Keys
  BY <1>0 DEF Inv, BarrierInv, Epochs
<1>6. \A k : Retired(k)' <=> Retired(k)
  BY <1>4, <1>5 DEF Retired
<1>7. BarrierInv'
  <2>1. \A e \in Epochs : generations'[e].old # barrier.new
    BY <1>0, <1>4
  <2>2. \A e \in Epochs : generations'[e].ready # Never => generations'[e].old \in Keys /\ e < barrier.epoch
    BY <1>4, <1>5
  <2> QED BY <1>0, <1>2, <1>3, <1>4, <2>1, <2>2 DEF BarrierInv
<1>8. CallInv'
  <2>1. ASSUME NEW c \in Calls
        PROVE  CallOK(c)'
    <3>1. CallOK(c) /\ op[c].epoch \in Nat /\ barrier.epoch \in Nat
      BY MasterKeysAssumption DEF Inv, CallInv, TypeOK, CallRows, BarrierRows
    <3>2. op[c].kind = "scan" => op[c].epoch # barrier.epoch
      BY <1>0, <3>1 DEF CallOK
    <3> QED BY <1>3, <1>u, <3>1, <3>2 DEF CallOK, nodeVars
  <2> QED BY <2>1 DEF CallInv
<1>9. AttestInv'
  BY <1>0, <1>3, <1>u DEF Inv, AttestInv
<1>10. CookieInv'
  <2>1. ASSUME NEW k \in cookies
        PROVE  CookieOK(k)'
    <3>1. CookieOK(k) /\ k.key \in Keys /\ k.expires \in Nat /\ ledger[k.key] \in Nat
      BY DEF Inv, CookieInv, TypeOK
    <3>2. k.expires <= t + Lag + ledger[k.key]
      BY <1>0, <1>2, <1>l, <3>1 DEF CookieOK
    <3>3. \A e \in Epochs : (generations'[e].ready # Never /\ generations'[e].old = k.key) =>
             k.expires <= generations'[e].ready + Overlap
      BY <1>4, <3>1 DEF CookieOK
    <3> QED BY <1>3, <1>u, <3>1, <3>2, <3>3 DEF CookieOK
  <2> QED BY <1>u, <2>1 DEF CookieInv
<1>11. \A r \in Rows : ~Retired(env[r].key)'
  BY <1>u, <1>6 DEF Inv, EnvInv
<1>12. attestedAt' \in [Nodes -> Never..MaxTime]
  BY <1>u DEF Inv, TypeOK
<1> QED BY <1>3, <1>4, <1>6, <1>7, <1>8, <1>9, <1>10, <1>11, <1>12, <1>u, BarrierStep

(* Every member has attested, so no row is under the old key, and its       *)
(* recorded lifetime has passed since the recorded fence.                   *)
LEMMA ReadyStep ==
    ASSUME Inv, Ready
    PROVE  Inv'
<1>u. UNCHANGED <<clock, attestedAt, env, ledger, nodeVars, cookies, op, scenario>>
  BY DEF Ready
<1>0. /\ barrier \in BarrierRows /\ barrier.state = "fenced" /\ clock \in 0..MaxTime
      /\ barrier.epoch \in Epochs /\ barrier.old \in Keys /\ barrier.new \in Keys
      /\ barrier.old # barrier.new /\ \A e \in Epochs : generations[e].old # barrier.new
      /\ generations[barrier.epoch].old = barrier.old /\ barrier.fenced \in Nat
  BY DEF Ready, Inv, TypeOK, BarrierInv
<1>l. Lag \in Nat /\ MaxTime \in Nat /\ Overlap \in Nat /\ Lag <= Overlap
  BY MasterKeysAssumption
<1>1. PICK t \in Times :
        /\ \A n \in Members : attestedAt[n] # Never /\ attestedAt[n] \in barrier.fenced..t
        /\ barrier' = [barrier EXCEPT !.state = "ready"]
        /\ generations' = [generations EXCEPT ![barrier.epoch] = [@ EXCEPT !.ready = t]]
  BY DEF Ready
<1>2. PICK n \in Nodes : attestedAt[n] # Never /\ attestedAt[n] \in barrier.fenced..t
  <2>1. scenario.members # {} /\ scenario.members \subseteq Nodes
    BY DEF Inv, TypeOK, ScenarioRows
  <2> QED BY <1>1, <2>1 DEF Members
<1>3. /\ \A r \in Rows : env[r].key = barrier.new
      /\ attestedAt[n] >= barrier.fenced + ledger[barrier.old]
  BY <1>0, <1>2 DEF Inv, AttestInv
<1>t. t \in 0..MaxTime /\ ledger[barrier.old] \in Nat /\ attestedAt[n] \in Int
  BY <1>0, <1>1, <1>l DEF Times, Inv, TypeOK, Never
<1>4. t >= barrier.fenced + ledger[barrier.old] /\ t # Never
  BY <1>0, <1>2, <1>3, <1>t DEF Never
<1>5. /\ barrier' \in BarrierRows /\ barrier'.state = "ready"
      /\ barrier'.epoch = barrier.epoch /\ barrier'.old = barrier.old /\ barrier'.new = barrier.new
  BY <1>0, <1>1 DEF BarrierRows
<1>6. /\ generations' \in [Epochs -> GenerationRows]
      /\ generations'[barrier.epoch].old = barrier.old /\ generations'[barrier.epoch].ready = t
      /\ \A e \in Epochs : e # barrier.epoch => generations'[e] = generations[e]
  <2> DEFINE row == [generations[barrier.epoch] EXCEPT !.ready = t]
  <2>0. t \in Never..MaxTime /\ generations[barrier.epoch] \in GenerationRows
    BY <1>0, <1>t DEF Never, Inv, TypeOK
  <2>1. row \in GenerationRows /\ row.old = barrier.old /\ row.ready = t
    BY <1>0, <2>0 DEF GenerationRows
  <2>2. generations' = [generations EXCEPT ![barrier.epoch] = row] /\ generations \in [Epochs -> GenerationRows]
    BY <1>1 DEF Inv, TypeOK
  <2> HIDE DEF row
  <2> QED BY <1>0, <2>1, <2>2
<1>7. \A k : Retired(k)' <=> (Retired(k) \/ k = barrier.old)
  <2>1. \A e \in Epochs : generations[e].ready # Never => e # barrier.epoch
    BY <1>0 DEF Inv, BarrierInv, Epochs
  <2> QED BY <1>0, <1>4, <1>6, <2>1 DEF Retired
<1>8. BarrierInv'
  <2>1. \A e \in Epochs : generations'[e].old # barrier.new
    BY <1>0, <1>6
  <2>2. \A e \in Epochs : generations'[e].ready # Never =>
           generations'[e].old \in Keys /\ (e < barrier.epoch \/ e = barrier.epoch)
    BY <1>0, <1>6 DEF Inv, BarrierInv
  <2> QED BY <1>0, <1>5, <2>1, <2>2 DEF BarrierInv
<1>9. CallInv'
  <2>1. barrier'.state # "fenced" /\ barrier'.epoch = barrier.epoch /\ barrier'.state # "prepared"
    BY <1>5
  <2> QED BY <1>5, <1>u, <2>1, CallsElsewhere DEF nodeVars
<1>10. AttestInv'
  BY <1>5 DEF AttestInv
<1>11. CookieInv'
  <2>1. ASSUME NEW k \in cookies
        PROVE  CookieOK(k)'
    <3>1. CookieOK(k) /\ k.key \in Keys /\ k.expires \in Nat /\ ledger[k.key] \in Nat
      BY DEF Inv, CookieInv, TypeOK
    <3>2. k.key = barrier.old => k.expires <= t + Overlap
      BY <1>0, <1>4, <1>l, <1>t, <3>1 DEF CookieOK
    <3>3. \A e \in Epochs : (generations'[e].ready # Never /\ generations'[e].old = k.key) =>
             k.expires <= generations'[e].ready + Overlap
      BY <1>6, <3>1, <3>2 DEF CookieOK
    <3> QED BY <1>5, <1>u, <3>1, <3>3 DEF CookieOK
  <2> QED BY <1>u, <2>1 DEF CookieInv
<1>12. \A r \in Rows : ~Retired(env[r].key)'
  BY <1>0, <1>3, <1>7, <1>u DEF Inv, EnvInv
<1>13. attestedAt' \in [Nodes -> Never..MaxTime]
  BY <1>u DEF Inv, TypeOK
<1> QED BY <1>5, <1>6, <1>7, <1>8, <1>9, <1>10, <1>11, <1>12, <1>13, <1>u, BarrierStep

LEMMA AbortStep ==
    ASSUME Inv, Abort
    PROVE  Inv'
<1>u. UNCHANGED <<clock, attestedAt, generations, env, ledger, nodeVars, cookies, op, scenario>>
  BY DEF Abort
<1>0. barrier \in BarrierRows /\ barrier.epoch \in Epochs /\ barrier.state \in {"prepared", "fenced"}
  BY DEF Abort, Inv, TypeOK, BarrierInv
<1>1. barrier' \in BarrierRows /\ barrier'.state = "aborted" /\ barrier'.epoch = barrier.epoch
  <2>1. Never \in Never..MaxTime
    BY MasterKeysAssumption DEF Never
  <2> QED BY <1>0, <2>1 DEF Abort, BarrierRows
<1>2. CallInv'
  <2>1. barrier'.state # "fenced" /\ barrier'.epoch = barrier.epoch /\ barrier'.state # "prepared"
    BY <1>1
  <2> QED BY <1>1, <1>u, <2>1, CallsElsewhere DEF nodeVars
<1>3. BarrierInv'
  BY <1>0, <1>1, <1>u DEF Inv, BarrierInv
<1>4. AttestInv'
  BY <1>1 DEF AttestInv
<1>5. CookieInv'
  BY <1>1, <1>u DEF Inv, CookieInv, CookieOK
<1>6. \A k : Retired(k)' <=> Retired(k)
  BY <1>u, RetiredKept
<1>7. \A r \in Rows : ~Retired(env[r].key)'
  BY <1>u, RetiredKept DEF Inv, EnvInv
<1>8. generations' \in [Epochs -> GenerationRows] /\ attestedAt' \in [Nodes -> Never..MaxTime]
  BY <1>u DEF Inv, TypeOK
<1> QED BY <1>1, <1>2, <1>3, <1>4, <1>5, <1>6, <1>7, <1>8, <1>u, BarrierStep

-----------------------------------------------------------------------------
(* Nodes and time.                                                         *)

(* A key is deleted when every cookie under it has expired.                *)
LEMMA RemoveKeyStep ==
    ASSUME Inv, NEW n \in Nodes, NEW e \in Epochs, RemoveKey(n, e)
    PROVE  Inv'
<1> DEFINE old == generations[e].old
<1>u. UNCHANGED <<clock, storeVars, active, ttl, registered, cookies, op, scenario>>
  BY DEF RemoveKey
<1>0. /\ generations[e] \in GenerationRows /\ generations[e].ready # Never /\ old \in Keys
      /\ old # active[n] /\ clock \in Nat /\ generations[e].ready \in Int
  BY MasterKeysAssumption DEF RemoveKey, Inv, TypeOK, BarrierInv, GenerationRows, Never
<1>1. keyring' = [keyring EXCEPT ![n] = keyring[n] \ {old}]
  BY DEF RemoveKey
<1>2. \A x \in Nodes : keyring'[x] = IF x = n THEN keyring[x] \ {old} ELSE keyring[x]
  BY <1>1 DEF Inv, TypeOK
<1>3. TypeOK'
  <2>1. keyring' \in [Nodes -> SUBSET Keys]
    BY <1>1 DEF Inv, TypeOK
  <2>2. \A x \in Nodes : active[x] \in keyring'[x]
    BY <1>0, <1>2 DEF Inv, TypeOK
  <2> QED BY <1>u, <2>1, <2>2 DEF Inv, TypeOK, storeVars
<1>4. SameScenario /\ clock' >= clock /\ LedgerGrows
  BY <1>u, MasterKeysAssumption DEF Inv, TypeOK, SameScenario, LedgerGrows, storeVars
<1>5. CallInv'
  BY <1>u DEF Inv, CallInv, CallOK, storeVars
<1>6. NodeInv'
  <2>1. Retired(old)
    BY <1>0 DEF Retired
  <2>2. ASSUME NEW x \in Nodes
        PROVE  NodeOK(x)'
    <3>1. NodeOK(x)
      BY DEF Inv, NodeInv
    <3>2. \A k : Retired(k)' <=> Retired(k)
      BY <1>u, RetiredKept DEF storeVars
    <3> QED BY <1>2, <1>u, <2>1, <3>1, <3>2 DEF NodeOK, storeVars
  <2> QED BY <2>2 DEF NodeInv
<1>7. EnvInv' /\ BarrierInv' /\ AttestInv'
  BY <1>u, RetiredKept, BarrierKept DEF Inv, EnvInv, AttestInv, storeVars
<1>8. CookieInv'
  BY <1>u DEF Inv, CookieInv, CookieOK, storeVars
<1>9. \A k \in cookies : k.key # old
  <2>1. clock >= generations[e].ready + Overlap
    <3> DEFINE a == generations[e].ready + Overlap
               l == Max({ledger[generations[e].old], DefaultTTL, ttl[n]})
               base == IF barrier.epoch = e THEN barrier.fenced ELSE generations[e].ready
    <3>1. RemovalDeadline(n, e) = Max({a, base + l})
      BY DEF RemovalDeadline
    <3>2. /\ ledger[old] \in Int /\ DefaultTTL \in Int /\ ttl[n] \in Int /\ Overlap \in Int
      BY <1>0, MasterKeysAssumption DEF Inv, TypeOK
    <3>3. l \in Int
      <4>1. {ledger[old], DefaultTTL, ttl[n]} = {ledger[old], DefaultTTL, ttl[n], ttl[n]}
        OBVIOUS
      <4>2. Max({ledger[old], DefaultTTL, ttl[n], ttl[n]}) \in {ledger[old], DefaultTTL, ttl[n], ttl[n]}
        BY <3>2, Max4
      <4> QED BY <3>2, <4>1, <4>2
    <3>4. base \in Int /\ a \in Int
      <4>1. barrier.fenced \in Int
        BY MasterKeysAssumption DEF Inv, TypeOK, BarrierRows, Never
      <4> QED BY <1>0, <3>2, <4>1
    <3> HIDE DEF a, l, base
    <3>5. base + l \in Int
      BY <3>3, <3>4
    <3>6. Max({a, base + l}) >= a /\ Max({a, base + l}) \in Int
      BY <3>4, <3>5, Max2
    <3>7. clock >= RemovalDeadline(n, e)
      BY DEF RemoveKey
    <3>8. clock >= a
      BY <1>0, <3>1, <3>4, <3>6, <3>7
    <3> QED BY <3>8 DEF a
  <2>2. ASSUME NEW k \in cookies, k.key = old
        PROVE  FALSE
    <3>1. CookieOK(k) /\ k.expires \in Nat
      BY DEF Inv, CookieInv, TypeOK
    <3> QED BY <1>0, <2>1, <2>2, <3>1, MasterKeysAssumption DEF CookieOK
  <2> QED BY <2>2
<1>10. CookiesOpenUntilExpiry'
  BY <1>2, <1>9, <1>u DEF Inv, CookiesOpenUntilExpiry, Members, TypeOK, ScenarioRows
<1> QED BY <1>3, <1>5, <1>6, <1>7, <1>8, <1>10, <1>u DEF Inv

LEMMA TickStep ==
    ASSUME Inv, Tick
    PROVE  Inv'
<1>u. UNCHANGED <<storeVars, nodeVars, op, scenario>>
  BY DEF Tick
<1>0. clock \in Nat /\ clock' = clock + 1 /\ clock' \in 0..MaxTime
  BY MasterKeysAssumption DEF Tick, Inv, TypeOK
<1>1. cookies' \subseteq cookies /\ \A k \in cookies' : k.expires > clock'
  BY <1>0 DEF Tick
<1>2. TypeOK'
  BY <1>0, <1>1, <1>u DEF Inv, TypeOK, storeVars, nodeVars
<1>3. SameScenario /\ clock' >= clock /\ LedgerGrows
  BY <1>0, <1>u DEF Inv, TypeOK, SameScenario, LedgerGrows, storeVars
<1>4. CallInv'
  <2>1. ASSUME NEW c \in Calls
        PROVE  CallOK(c)'
    <3>1. CallOK(c)
      BY DEF Inv, CallInv
    <3> QED BY <1>2, <1>3, <1>u, <3>1, CallKept DEF Inv, storeVars, nodeVars
  <2> QED BY <2>1 DEF CallInv
<1>5. NodeInv' /\ EnvInv' /\ BarrierInv' /\ AttestInv'
  BY <1>u, RetiredKept, BarrierKept DEF Inv, NodeInv, NodeOK, EnvInv, AttestInv, storeVars, nodeVars
<1>6. CookieInv'
  <2>1. ASSUME NEW k \in cookies'
        PROVE  CookieOK(k)'
    <3>1. CookieOK(k) /\ k.key \in Keys /\ k.expires \in Nat /\ ledger[k.key] \in Nat
      BY <1>1 DEF Inv, CookieInv, TypeOK
    <3>2. k.expires <= clock' + ledger[k.key]
      BY <1>0, <3>1 DEF CookieOK
    <3> QED BY <1>1, <1>u, <3>1, <3>2 DEF CookieOK, storeVars
  <2> QED BY <2>1 DEF CookieInv
<1>7. CookiesOpenUntilExpiry'
  BY <1>1, <1>u DEF Inv, CookiesOpenUntilExpiry, Members, nodeVars
<1> QED BY <1>2, <1>4, <1>5, <1>6, <1>7, <1>u DEF Inv

LEMMA RestartStep ==
    ASSUME Inv, NEW n \in Nodes, Restart(n)
    PROVE  Inv'
<1>u. UNCHANGED <<clock, storeVars, cookies, keyring>>
  BY DEF Restart
<1>1. /\ \E k \in keyring[n] : active' = [active EXCEPT ![n] = k]
      /\ \E t \in Nat : ttl' = [ttl EXCEPT ![n] = t]
  BY DEF Restart, Inv, TypeOK, ScenarioRows
<1>2. PICK late \in SUBSET {c \in Calls : op[c].node = n /\ op[c].kind \in {"write", "rewrap"}} :
        op' = [c \in Calls |-> IF op[c].node = n /\ c \notin late THEN Idle ELSE op[c]]
  BY DEF Restart
<1>3. SameScenario
  <2>1. scenario' = [scenario EXCEPT !.restarts = @ - 1] /\ scenario.restarts > 0
    BY DEF Restart
  <2>2. scenario \in ScenarioRows
    BY DEF Inv, TypeOK
  <2>3. scenario.restarts - 1 \in Nat
    BY <2>1, <2>2 DEF ScenarioRows
  <2> QED BY <2>1, <2>2, <2>3 DEF SameScenario, ScenarioRows
<1>4. registered' = [registered EXCEPT ![n] = {}]
  BY DEF Restart
<1>5. TypeOK'
  <2>1. active' \in [Nodes -> Keys] /\ \A x \in Nodes : active'[x] \in keyring[x]
    BY <1>1 DEF Inv, TypeOK
  <2>2. ttl' \in [Nodes -> Nat] /\ registered' \in [Nodes -> SUBSET Keys]
    BY <1>1, <1>4 DEF Inv, TypeOK
  <2>3. op' \in [Calls -> CallRows]
    BY <1>2, IdleTyped DEF Inv, TypeOK
  <2> QED BY <1>3, <1>u, <2>1, <2>2, <2>3 DEF Inv, TypeOK, SameScenario, storeVars
<1>6. clock' >= clock /\ LedgerGrows
  BY <1>u, MasterKeysAssumption DEF Inv, TypeOK, LedgerGrows, storeVars
<1>7. \A x \in Nodes : x # n => ttl'[x] = ttl[x] /\ registered'[x] = registered[x]
  BY <1>1, <1>4 DEF Inv, TypeOK
<1>8. CallInv'
  <2>1. ASSUME NEW c \in Calls
        PROVE  CallOK(c)'
    <3>1. CASE op'[c] = Idle
      <4>1. op'[c].kind = "idle"
        BY <3>1 DEF Idle
      <4> QED BY <4>1, IdleOK
    <3>2. CASE op'[c] = op[c] /\ (op[c].node = n => op[c].kind \in {"write", "rewrap"})
      <4>1. CallOK(c)
        BY DEF Inv, CallInv
      <4>2. op[c].kind = "sealed" => ttl'[op[c].node] = ttl[op[c].node]
        BY <1>7, <3>2, <4>1 DEF CallOK
      <4> QED BY <1>3, <1>5, <1>6, <1>u, <3>2, <4>1, <4>2, CallKept DEF Inv, storeVars
    <3> QED BY <1>2, <3>1, <3>2
  <2> QED BY <2>1 DEF CallInv
<1>9. NodeInv'
  <2>1. registered'[n] = {}
    BY <1>4 DEF Inv, TypeOK
  <2>2. ASSUME NEW x \in Nodes
        PROVE  NodeOK(x)'
    <3>1. NodeOK(x)
      BY DEF Inv, NodeInv
    <3>2. \A k : Retired(k)' <=> Retired(k)
      BY <1>u, RetiredKept DEF storeVars
    <3> QED BY <1>3, <1>7, <1>u, <2>1, <3>1, <3>2 DEF NodeOK, SameScenario, storeVars
  <2> QED BY <2>2 DEF NodeInv
<1>10. EnvInv' /\ BarrierInv' /\ AttestInv'
  BY <1>3, <1>u, RetiredKept, BarrierKept DEF Inv, EnvInv, AttestInv, SameScenario, storeVars
<1>11. CookieInv' /\ CookiesOpenUntilExpiry'
  BY <1>3, <1>u DEF Inv, CookieInv, CookieOK, CookiesOpenUntilExpiry, Members, SameScenario, storeVars
<1> QED BY <1>3, <1>5, <1>8, <1>9, <1>10, <1>11 DEF Inv, SameScenario

-----------------------------------------------------------------------------
(* The inductive invariant.                                                *)

LEMMA InitInv == Init => Inv
<1> SUFFICES ASSUME Init
             PROVE  Inv
  OBVIOUS
<1>0. scenario \in ScenarioRows /\ Cardinality(scenario.members) \in {1, 3} /\ FirstKey \in scenario.keys
  BY MasterKeysAssumption DEF Init
<1>1. scenario.members # {}
  BY <1>0, FS_EmptySet
<1>2. TypeOK
  <2>1. NoBarrier \in BarrierRows /\ NoGeneration \in GenerationRows /\ Never \in Never..MaxTime
    BY MasterKeysAssumption DEF NoBarrier, NoGeneration, BarrierRows, GenerationRows, Never
  <2>2. clock \in 0..MaxTime /\ barrier \in BarrierRows /\ cookies = {}
    BY <2>1, MasterKeysAssumption DEF Init
  <2>3. attestedAt \in [Nodes -> Never..MaxTime] /\ generations \in [Epochs -> GenerationRows]
    BY <2>1 DEF Init
  <2>4. env \in Envelopes /\ ledger \in [Keys -> Nat]
    BY MasterKeysAssumption DEF Init, Envelopes
  <2>5. /\ keyring \in [Nodes -> SUBSET Keys] /\ active \in [Nodes -> Keys]
        /\ \A n \in Nodes : active[n] \in keyring[n]
    BY <1>0, MasterKeysAssumption DEF Init, ScenarioRows
  <2>6. ttl \in [Nodes -> Nat] /\ registered \in [Nodes -> SUBSET Keys]
    BY <1>0 DEF Init, ScenarioRows
  <2>7. op \in [Calls -> CallRows]
    BY IdleTyped DEF Init
  <2> QED BY <1>0, <2>2, <2>3, <2>4, <2>5, <2>6, <2>7 DEF TypeOK
<1>3. \A k : ~Retired(k)
  BY DEF Init, Retired, NoGeneration
<1>4. CallInv
  BY DEF Init, CallInv, CallOK, Idle
<1>5. NodeInv
  BY DEF Init, NodeInv, NodeOK
<1>6. EnvInv
  BY <1>0, <1>3 DEF Init, EnvInv
<1>7. BarrierInv
  BY DEF Init, BarrierInv, NoBarrier, NoGeneration
<1>8. AttestInv /\ CookieInv /\ CookiesOpenUntilExpiry
  BY DEF Init, AttestInv, CookieInv, CookiesOpenUntilExpiry, NoBarrier
<1> QED BY <1>1, <1>2, <1>4, <1>5, <1>6, <1>7, <1>8 DEF Inv

LEMMA StutterStep == ASSUME Inv, UNCHANGED vars PROVE Inv'
<1>1. UNCHANGED <<clock, barrier, attestedAt, generations, env, ledger, keyring, active, ttl,
                  registered, cookies, op, scenario>>
  BY DEF vars, storeVars, nodeVars
<1>2. TypeOK' /\ CallInv' /\ NodeInv' /\ EnvInv'
  BY <1>1, RetiredKept DEF Inv, TypeOK, CallInv, CallOK, NodeInv, NodeOK, EnvInv
<1>3. BarrierInv' /\ AttestInv' /\ CookieInv' /\ CookiesOpenUntilExpiry'
  BY <1>1, BarrierKept DEF Inv, AttestInv, CookieInv, CookieOK, CookiesOpenUntilExpiry, Members
<1> QED BY <1>1, <1>2, <1>3 DEF Inv

LEMMA NextInv == Inv /\ [Next]_vars => Inv'
<1> SUFFICES ASSUME Inv, [Next]_vars
             PROVE  Inv'
  OBVIOUS
<1>1. CASE \E pair \in scenario.plan : Prepare(pair[1], pair[2])
  <2>1. PICK pair \in scenario.plan : Prepare(pair[1], pair[2])
    BY <1>1
  <2>2. pair[1] \in Keys /\ pair[2] \in Keys
    BY <2>1 DEF Inv, TypeOK, ScenarioRows
  <2> QED BY <2>1, <2>2, PrepareStep
<1>2. CASE \E n \in Nodes : Restart(n)
  BY <1>2, RestartStep
<1>3. CASE \E c \in Calls, n \in Nodes, r \in Rows : SealWrite(c, n, r)
  BY <1>3, SealWriteStep
<1>4. CASE \E c \in Calls : CommitWrite(c) \/ CommitRewrap(c)
  BY <1>4, CommitStep
<1>5. CASE \E c \in Calls, n \in Nodes : ReadRewrap(c, n) \/ SealCookie(c, n) \/ StartScan(c, n)
  BY <1>5, ReadRewrapStep, SealCookieStep, StartScanStep
<1>6. CASE \E c \in Calls : RegisterCookie(c) \/ IssueCookie(c)
  BY <1>6, RegisterCookieStep, IssueCookieStep
<1>7. CASE \E c \in Calls, r \in Rows : ScanRow(c, r)
  BY <1>7, ScanRowStep
<1>8. CASE \E c \in Calls : Attest(c)
  BY <1>8, AttestStep
<1>9. CASE Fence \/ Ready \/ Abort
  BY <1>9, FenceStep, ReadyStep, AbortStep
<1>10. CASE \E n \in Nodes, e \in Epochs : RemoveKey(n, e)
  BY <1>10, RemoveKeyStep
<1>11. CASE Tick
  BY <1>11, TickStep
<1>12. CASE UNCHANGED vars
  BY <1>12, StutterStep
<1> QED BY <1>1, <1>2, <1>3, <1>4, <1>5, <1>6, <1>7, <1>8, <1>9, <1>10, <1>11, <1>12 DEF Next

-----------------------------------------------------------------------------
(* The theorems.                                                           *)

LEMMA InvHolds == Spec => []Inv
BY InitInv, NextInv, PTL DEF Spec

(* Tables, keyrings and calls keep their types, and no node is left with an *)
(* active key that is not on its keyring (removeRetiredMasterKey).          *)
THEOREM MasterKeysTypeOK == Spec => []TypeOK
<1>1. Inv => TypeOK
  BY DEF Inv
<1> QED BY <1>1, InvHolds, PTL

(* Every stored secret can be opened by every member at every time: writers *)
(* that are late, rewraps, aborted and chained epochs, restarts and         *)
(* removals never leave a row under a deleted key (ExecuteEnvelope,         *)
(* ReadyMasterKeyRetirement, removeRetiredMasterKey).                       *)
THEOREM SecretsStayReadable == Spec => []StoredSecretsOpen
<1>1. Inv => StoredSecretsOpen
  BY DEF Inv, EnvInv, NodeInv, NodeOK, StoredSecretsOpen, Members, TypeOK, ScenarioRows
<1> QED BY <1>1, InvHolds, PTL

(* A cookie that has not expired can be opened by every member, for every   *)
(* lifetime and lag as long as a handler's time is not older than the       *)
(* overlap (the retention ledger and the removal deadline of cmd/goauthy).  *)
THEOREM CookiesStayReadable == Spec => []CookiesOpenUntilExpiry
<1>1. Inv => CookiesOpenUntilExpiry
  BY DEF Inv
<1> QED BY <1>1, InvHolds, PTL

(* The revision of a row's content never goes back. *)
ContentKept == \A r \in Rows : env'[r].rev >= env[r].rev

LEMMA ContentStep == ASSUME Inv, [Next]_vars PROVE ContentKept
<1>0. env \in Envelopes /\ \A r \in Rows : env[r].rev \in Nat
  BY DEF Inv, TypeOK, Envelopes
<1>1. CASE env' = env
  BY <1>0, <1>1 DEF ContentKept
<1>2. ASSUME NEW c \in Calls, CommitWrite(c) \/ CommitRewrap(c)
      PROVE  ContentKept
  <2>1. CASE env' = env
    BY <1>0, <2>1 DEF ContentKept
  <2>2. CASE env' = [r \in Rows |-> IF r \in op[c].rows
                                    THEN [key |-> op[c].key, rev |-> env[r].rev + 1] ELSE env[r]]
    BY <1>0, <2>2 DEF ContentKept
  <2>3. CASE /\ RewrapApplies(c)
             /\ env' = [r \in Rows |-> IF r \in op[c].rows
                                       THEN [key |-> op[c].key, rev |-> op[c].read[r].rev] ELSE env[r]]
    BY <1>0, <2>3 DEF ContentKept, RewrapApplies
  <2> QED BY <1>2, <2>1, <2>2, <2>3 DEF CommitWrite, CommitRewrap
<1>3. CASE UNCHANGED vars
  BY <1>1, <1>3 DEF vars, storeVars
<1>4. ASSUME Next, env' # env
      PROVE  \E c \in Calls : CommitWrite(c) \/ CommitRewrap(c)
  BY <1>4 DEF Next, Restart, SealWrite, ReadRewrap, SealCookie, StartScan, RegisterCookie,
              IssueCookie, ScanRow, Attest, Prepare, Fence, Ready, Abort, RemoveKey, Tick, storeVars
<1> QED BY <1>1, <1>2, <1>3, <1>4

(* A rewrap that was sealed from an older read never overwrites a newer     *)
(* content: the compare-and-set of the rewrap batch                         *)
(* (internal/storage).                                                      *)
THEOREM RewrapsKeepContent == Spec => RewrapKeepsContent
<1>1. Inv /\ [Next]_vars => [ContentKept]_vars
  BY ContentStep
<1>2. [][ContentKept]_vars => RewrapKeepsContent
  BY DEF ContentKept, RewrapKeepsContent
<1> QED BY <1>1, <1>2, InvHolds, PTL DEF Spec
===============================================================================
