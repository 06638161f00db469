-------------------------- MODULE SigningKeysProofs --------------------------
(***************************************************************************)
(* Proofs about SigningKeys, for any number of keys, workers and signers   *)
(* and any times that satisfy SigningKeysAssumption.  The argument is one  *)
(* of margins: a retiring key is kept for a cache age longer than a token  *)
(* lives, the pass that retired it and the signer that still holds it are  *)
(* each at most MaxDelay late, and 2 * MaxDelay fits in a cache age.       *)
(***************************************************************************)
EXTENDS SigningKeys, TLAPS

(* A pass in progress has what its step needs, and is not too old.         *)
PassInv ==
    \A w \in Workers :
        /\ pc[w] \in {"prepare", "activate"} => seen[w] \in Kids
        /\ pc[w] = "activate" => pending[w] \in Kids
        /\ Busy(w) => now[w] <= clock /\ clock <= now[w] + MaxDelay

(* At most one row is active and one pending, and one is active once a     *)
(* node has started.                                                       *)
RowInv ==
    /\ \A j, k \in Kids : keys[j].state = "active" /\ keys[k].state = "active" => j = k
    /\ \A j, k \in Kids : keys[j].state = "pending" /\ keys[k].state = "pending" => j = k
    /\ (\E w \in Workers : pc[w] # "boot") => \E k \in Kids : keys[k].state = "active"

(* A key is kept until the given time at least.                            *)
KeptUntil(k, time) ==
    \/ keys[k].state = "active"
    \/ keys[k].state = "retiring" /\ keys[k].after >= time

(* A key a signer holds is kept until the last token it may sign expires.  *)
SignerInv ==
    \A s \in Signers : loaded[s] # NoKid =>
        /\ since[s] <= clock
        /\ clock <= since[s] + MaxDelay
        /\ KeptUntil(loaded[s], since[s] + MaxDelay + Lifetime)

(* A key with an unexpired token is kept until that expires.               *)
TokenInv ==
    \A k \in Kids : expires[k] > 0 =>
        /\ clock <= expires[k]
        /\ expires[k] <= clock + Lifetime
        /\ KeptUntil(k, expires[k])

(* A pending key was published at most MaxDelay after the time of its pass.*)
PendingInv ==
    \A k \in Kids : keys[k].state = "pending" => published + CacheAge <= keys[k].after + MaxDelay

Inv == TypeOK /\ PassInv /\ RowInv /\ SignerInv /\ TokenInv /\ PendingInv

-----------------------------------------------------------------------------
(* The initial state satisfies the invariant.                              *)
LEMMA InitInv == Init => Inv
BY SigningKeysAssumption DEF Init, Inv, TypeOK, PassInv, RowInv, SignerInv, TokenInv, PendingInv, KeptUntil, Unused, Row, States, Busy

(* The activation batch replaces the active key by the pending one or      *)
(* changes nothing.                                                        *)
LEMMA ActivateEffect ==
    ASSUME Inv, NEW w \in Workers, Activate(w)
    PROVE  \/ keys' = keys /\ published' = published
           \/ /\ seen[w] \in Kids /\ pending[w] \in Kids /\ seen[w] # pending[w]
              /\ keys[seen[w]].state = "active" /\ keys[pending[w]].state = "pending"
              /\ keys[pending[w]].after <= now[w]
              /\ now[w] <= clock /\ clock <= now[w] + MaxDelay
              /\ keys' = [keys EXCEPT
                            ![seen[w]] = Row("retiring", keys[seen[w]].created, now[w] + Retirement),
                            ![pending[w]] = Row("active", keys[pending[w]].created, 0)]
              /\ published' = 0
<1> DEFINE old == seen[w]
           new == pending[w]
           ret == Row("retiring", keys[old].created, now[w] + Retirement)
           retired == [keys EXCEPT ![old] = ret]
<1>1. /\ pc[w] = "activate" /\ old \in Kids /\ new \in Kids
      /\ now[w] <= clock /\ clock <= now[w] + MaxDelay
  BY DEF Inv, PassInv, Activate, Busy
<1>2. /\ keys \in [Kids -> [state : States, created : Nat, after : Nat]]
      /\ now[w] \in Nat /\ now[w] + Retirement \in Nat
  BY SigningKeysAssumption DEF Inv, TypeOK, Retirement
<1>3. CASE ~Retires(w)
  <2>1. PICK k \in Kids : keys[k].state = "active"
    BY <1>1 DEF Inv, RowInv
  <2>2. ~Replaces(keys, w)
    BY <2>1 DEF Replaces
  <2> QED BY <1>3, <2>2 DEF Activate
<1>4. CASE Retires(w)
  <2>1. /\ keys[old].state = "active" /\ keys[new].state = "pending"
        /\ keys[new].after <= now[w] /\ old # new
    BY <1>4, <1>1 DEF Retires
  <2>3. Replaces(retired, w)
    <3>1. /\ retired[old] = ret /\ retired[new] = keys[new]
          /\ \A k \in Kids \ {old} : retired[k] = keys[k]
      BY <1>1, <1>2, <2>1
    <3>2. ASSUME NEW k \in Kids PROVE retired[k].state # "active"
      <4>1. CASE k = old
        BY <4>1, <3>1 DEF Row
      <4>2. CASE k # old
        <5>1. keys[k].state # "active"
          BY <4>2, <2>1, <1>1 DEF Inv, RowInv
        <5> QED BY <5>1, <4>2, <3>1
      <4> QED BY <4>1, <4>2
    <3> QED BY <3>1, <3>2, <2>1 DEF Replaces, Row
  <2>4. keys' = [retired EXCEPT ![new] = Row("active", keys[new].created, 0)] /\ published' = 0
    BY <1>4, <2>3 DEF Activate
  <2>5. keys' = [keys EXCEPT ![old] = ret, ![new] = Row("active", keys[new].created, 0)]
    BY <2>4
  <2> QED BY <1>1, <2>1, <2>4, <2>5
<1> QED BY <1>3, <1>4

(* Every row but those the activation names is left alone.                 *)
LEMMA ActivateRows ==
    ASSUME Inv, NEW old \in Kids, NEW new \in Kids, old # new,
           NEW r, NEW a, keys' = [keys EXCEPT ![old] = r, ![new] = a]
    PROVE  keys'[old] = r /\ keys'[new] = a /\ \A k \in Kids \ {old, new} : keys'[k] = keys[k]
BY DEF Inv, TypeOK

(* Every action keeps the type invariant.                                  *)
LEMMA TypeStep == Inv /\ [Next]_vars => TypeOK'
<1> SUFFICES ASSUME Inv, [Next]_vars PROVE TypeOK'
  OBVIOUS
<1> USE SigningKeysAssumption DEF TypeOK, States, Row, Goto, Leave
<1>1. ASSUME NEW w \in Workers, Ensure(w) PROVE TypeOK'
  BY <1>1 DEF Inv, Ensure, In, signerVars
<1>2. ASSUME NEW w \in Workers, BeginPass(w) PROVE TypeOK'
  BY <1>2 DEF Inv, BeginPass, signerVars
<1>3. ASSUME NEW w \in Workers, Cleanup(w) PROVE TypeOK'
  BY <1>3 DEF Inv, Cleanup, signerVars
<1>4. ASSUME NEW w \in Workers, LoadActive(w) PROVE TypeOK'
  BY <1>4 DEF Inv, LoadActive, In, signerVars
<1>5. ASSUME NEW w \in Workers, PrepareKey(w) PROVE TypeOK'
  <2>1. PICK k \in Kids : Continue(w, k)
    BY <1>5 DEF PrepareKey, In
  <2>2. pending' \in [Workers -> Kids \cup {NoKid}] /\ pc' \in [Workers -> {"boot", "idle", "clean", "loaded", "prepare", "activate"}]
        /\ now' \in [Workers -> Nat] /\ seen' \in [Workers -> Kids \cup {NoKid}]
    <3>1. \/ pending' = [pending EXCEPT ![w] = k] /\ pc' = [pc EXCEPT ![w] = "activate"] /\ UNCHANGED <<now, seen>>
          \/ Leave(w)
      BY ONLY <2>1 DEF Continue, Goto
    <3> QED BY <3>1 DEF Inv
  <2>3. keys' \in [Kids -> [state : States, created : Nat, after : Nat]] /\ published' \in Nat
    <3>1. \/ UNCHANGED <<keys, published>>
          \/ \E j \in Kids :
                /\ keys' = [keys EXCEPT ![j] = Row("pending", now[w], ActivatesAfter(now[w]))]
                /\ published' = clock
      BY ONLY <1>5 DEF PrepareKey, In
    <3>2. Row("pending", now[w], ActivatesAfter(now[w])) \in [state : States, created : Nat, after : Nat]
      BY ONLY Inv, SigningKeysAssumption, w \in Workers DEF Inv, ActivatesAfter, Row, States, TypeOK
    <3> QED BY ONLY Inv, SigningKeysAssumption, <3>1, <3>2 DEF Inv, TypeOK
  <2> QED BY <1>5, <2>2, <2>3 DEF Inv, PrepareKey, signerVars
<1>6. ASSUME NEW w \in Workers, Activate(w) PROVE TypeOK'
  <2>1. keys' \in [Kids -> [state : States, created : Nat, after : Nat]] /\ published' \in Nat
    BY <1>6, ActivateEffect DEF Inv, Retirement
  <2> QED BY <1>6, <2>1 DEF Inv, Activate, signerVars
<1>7. ASSUME NEW w \in Workers, FailPass(w) PROVE TypeOK'
  BY <1>7 DEF Inv, FailPass, signerVars
<1>8. ASSUME NEW s \in Signers, LoadKey(s) PROVE TypeOK'
  BY <1>8 DEF Inv, LoadKey, In, workerVars
<1>9. ASSUME NEW s \in Signers, Sign(s) PROVE TypeOK'
  BY <1>9 DEF Inv, Sign, workerVars
<1>10. CASE Tick
  BY <1>10 DEF Inv, Tick, workerVars, signerVars
<1>11. CASE UNCHANGED vars
  BY <1>11 DEF Inv, vars, workerVars, signerVars
<1> QED BY <1>1, <1>2, <1>3, <1>4, <1>5, <1>6, <1>7, <1>8, <1>9, <1>10, <1>11 DEF Next

(* Passes keep what they need and do not outlive MaxDelay.                 *)
LEMMA PassStep == Inv /\ [Next]_vars => PassInv'
<1> SUFFICES ASSUME Inv, [Next]_vars PROVE PassInv'
  OBVIOUS
<1> USE SigningKeysAssumption DEF TypeOK, PassInv, Busy, Goto, Leave
<1>1. ASSUME NEW w \in Workers, Ensure(w) PROVE PassInv'
  BY <1>1 DEF Inv, Ensure
<1>2. ASSUME NEW w \in Workers, BeginPass(w) PROVE PassInv'
  BY <1>2 DEF Inv, BeginPass
<1>3. ASSUME NEW w \in Workers, Cleanup(w) PROVE PassInv'
  BY <1>3 DEF Inv, Cleanup
<1>4. ASSUME NEW w \in Workers, LoadActive(w) PROVE PassInv'
  BY <1>4 DEF Inv, LoadActive, In
<1>5. ASSUME NEW w \in Workers, PrepareKey(w) PROVE PassInv'
  BY <1>5 DEF Inv, PrepareKey, Continue, In
<1>6. ASSUME NEW w \in Workers, Activate(w) PROVE PassInv'
  BY <1>6 DEF Inv, Activate
<1>7. ASSUME NEW w \in Workers, FailPass(w) PROVE PassInv'
  BY <1>7 DEF Inv, FailPass
<1>8. ASSUME NEW s \in Signers, LoadKey(s) \/ Sign(s) PROVE PassInv'
  BY <1>8 DEF Inv, LoadKey, Sign, workerVars
<1>9. CASE Tick
  BY <1>9 DEF Inv, Tick, workerVars
<1>10. CASE UNCHANGED vars
  BY <1>10 DEF Inv, vars, workerVars
<1> QED BY <1>1, <1>2, <1>3, <1>4, <1>5, <1>6, <1>7, <1>8, <1>9, <1>10 DEF Next

(* What each action does to the rows, as the other parts need it: a row    *)
(* that is kept stays kept, and one that is not in use is never kept.      *)
LEMMA RowStep == Inv /\ [Next]_vars => RowInv' /\ PendingInv'
<1> SUFFICES ASSUME Inv, [Next]_vars PROVE RowInv' /\ PendingInv'
  OBVIOUS
<1> USE SigningKeysAssumption DEF TypeOK, RowInv, PendingInv, Goto, Leave, Row
<1>1. ASSUME NEW w \in Workers, Ensure(w) PROVE RowInv' /\ PendingInv'
  <2>1. CASE In("active") = {}
    <3>1. PICK k \in In("unused") : keys' = [keys EXCEPT ![k] = Row("active", clock, 0)]
      BY <1>1, <2>1 DEF Ensure
    <3>2. /\ k \in Kids /\ keys'[k].state = "active"
          /\ \A j \in Kids \ {k} : keys'[j] = keys[j] /\ keys[j].state # "active"
      BY <2>1, <3>1 DEF Inv, In
    <3>3. published' = published
      BY <1>1 DEF Ensure
    <3>4. \A j \in Kids : keys'[j].state = "active" => j = k
      BY <3>2
    <3>5. \A j \in Kids : keys'[j].state = "pending" => keys[j].state = "pending" /\ keys'[j] = keys[j]
      BY <3>2
    <3> QED BY <3>2, <3>3, <3>4, <3>5 DEF Inv
  <2>2. CASE In("active") # {}
    BY <1>1, <2>2 DEF Inv, Ensure, In
  <2> QED BY <2>1, <2>2
<1>2. ASSUME NEW w \in Workers, BeginPass(w) \/ FailPass(w) PROVE RowInv' /\ PendingInv'
  BY <1>2 DEF Inv, BeginPass, FailPass
<1>3. ASSUME NEW w \in Workers, Cleanup(w) PROVE RowInv' /\ PendingInv'
  <2>1. pc[w] # "boot" /\ UNCHANGED published
    BY <1>3 DEF Cleanup
  <2>2. \A k \in Kids :
          /\ keys[k].state \in {"active", "pending"} => keys'[k] = keys[k]
          /\ keys'[k].state \in {"active", "pending"} => keys'[k] = keys[k]
    BY <1>3 DEF Inv, Cleanup, Removable
  <2>3. \E k \in Kids : keys'[k].state = "active"
    BY <2>1, <2>2 DEF Inv
  <2> QED BY ONLY Inv, <2>1, <2>2, <2>3 DEF Inv, RowInv, PendingInv
<1>4. ASSUME NEW w \in Workers, LoadActive(w) PROVE RowInv' /\ PendingInv'
  BY <1>4 DEF Inv, LoadActive, In
<1>5. ASSUME NEW w \in Workers, PrepareKey(w) PROVE RowInv' /\ PendingInv'
  <2>1. pc[w] # "boot" /\ clock <= now[w] + MaxDelay
    BY <1>5 DEF Inv, PassInv, Busy, PrepareKey
  <2>2. CASE UNCHANGED <<keys, published>>
    BY <1>5, <2>1, <2>2 DEF Inv, PrepareKey
  <2>3. CASE ~UNCHANGED <<keys, published>>
    <3>1. PICK k \in In("unused") :
            /\ keys' = [keys EXCEPT ![k] = Row("pending", now[w], ActivatesAfter(now[w]))]
            /\ published' = clock
      BY <1>5, <2>3 DEF PrepareKey
    <3>2. In("pending") = {}
      BY <1>5, <2>3 DEF PrepareKey
    <3>3. /\ k \in Kids /\ keys'[k] = Row("pending", now[w], now[w] + CacheAge) /\ keys[k].state = "unused"
          /\ \A j \in Kids \ {k} : keys'[j] = keys[j] /\ keys[j].state # "pending"
      BY <3>1, <3>2 DEF Inv, In, ActivatesAfter
    <3> QED BY <2>1, <3>1, <3>3 DEF Inv
  <2> QED BY <2>2, <2>3
<1>6. ASSUME NEW w \in Workers, Activate(w) PROVE RowInv' /\ PendingInv'
  <2>1. CASE keys' = keys /\ published' = published
    BY <1>6, <2>1 DEF Inv, Activate
  <2>2. CASE ~(keys' = keys /\ published' = published)
    <3> DEFINE old == seen[w]
               new == pending[w]
               r == Row("retiring", keys[old].created, now[w] + Retirement)
               a == Row("active", keys[new].created, 0)
    <3>1. /\ old \in Kids /\ new \in Kids /\ old # new
          /\ keys[old].state = "active" /\ keys[new].state = "pending"
          /\ keys' = [keys EXCEPT ![old] = r, ![new] = a]
      BY <1>6, <2>2, ActivateEffect
    <3>2. /\ keys'[old] = r /\ keys'[new] = a
          /\ \A k \in Kids \ {old, new} : keys'[k] = keys[k]
      BY <3>1, ActivateRows DEF Inv
    <3>3. \A k \in Kids : keys'[k].state = "active" => k = new
      BY <3>1, <3>2 DEF Inv
    <3>4. \A k \in Kids : keys'[k].state # "pending"
      BY <3>1, <3>2 DEF Inv
    <3>5. keys'[new].state = "active"
      BY <3>2
    <3> HIDE DEF new, Row
    <3> QED BY <3>1, <3>3, <3>4, <3>5
  <2> QED BY <2>1, <2>2
<1>7. ASSUME NEW s \in Signers, LoadKey(s) \/ Sign(s) PROVE RowInv' /\ PendingInv'
  BY <1>7 DEF Inv, LoadKey, Sign, workerVars
<1>8. CASE Tick
  BY <1>8 DEF Inv, Tick, workerVars
<1>9. CASE UNCHANGED vars
  BY <1>9 DEF Inv, vars, workerVars
<1> QED BY <1>1, <1>2, <1>3, <1>4, <1>5, <1>6, <1>7, <1>8, <1>9 DEF Next

(* A row is kept for what depends on it: a step of a worker keeps a kept   *)
(* key up to any time that has not passed and that a token signed within   *)
(* MaxDelay from now may reach.                                            *)
LEMMA KeptStep ==
    ASSUME Inv, NEW w \in Workers,
           Ensure(w) \/ Cleanup(w) \/ LoadActive(w) \/ PrepareKey(w) \/ Activate(w),
           NEW k \in Kids, NEW time \in Nat, clock <= time, time <= clock + MaxDelay + Lifetime,
           KeptUntil(k, time)
    PROVE  KeptUntil(k, time)'
<1> USE SigningKeysAssumption DEF Inv, TypeOK, KeptUntil, Row
<1>1. CASE Ensure(w)
  BY <1>1 DEF Ensure, In
<1>2. CASE Cleanup(w)
  <2>1. now[w] <= clock
    BY <1>2 DEF Cleanup, PassInv, Busy
  <2> QED BY <1>2, <2>1 DEF Cleanup, Removable
<1>3. CASE LoadActive(w)
  BY <1>3 DEF LoadActive
<1>4. CASE PrepareKey(w)
  BY <1>4 DEF PrepareKey, In
<1>5. CASE Activate(w)
  <2>1. CASE keys' = keys
    BY <2>1
  <2>2. CASE keys' # keys
    <3> DEFINE old == seen[w]
               new == pending[w]
               r == Row("retiring", keys[old].created, now[w] + Retirement)
               a == Row("active", keys[new].created, 0)
    <3>1. /\ old \in Kids /\ new \in Kids /\ old # new
          /\ keys[new].state = "pending" /\ clock <= now[w] + MaxDelay
          /\ keys' = [keys EXCEPT ![old] = r, ![new] = a]
      BY <1>5, <2>2, ActivateEffect
    <3>2. /\ keys'[old] = r /\ keys'[new] = a
          /\ \A j \in Kids \ {old, new} : keys'[j] = keys[j]
      BY <3>1, ActivateRows
    <3>3. time <= now[w] + Retirement
      BY <3>1 DEF Retirement
    <3>4. CASE k = old
      BY <3>4, <3>2, <3>3 DEF Retirement
    <3>5. CASE k # old
      BY <3>5, <3>1, <3>2
    <3> QED BY <3>4, <3>5
  <2> QED BY <2>1, <2>2
<1> QED BY <1>1, <1>2, <1>3, <1>4, <1>5

(* Held keys and keys with unexpired tokens stay kept.                     *)
LEMMA SignerStep == Inv /\ [Next]_vars => SignerInv' /\ TokenInv'
<1> SUFFICES ASSUME Inv, [Next]_vars PROVE SignerInv' /\ TokenInv'
  OBVIOUS
<1> USE SigningKeysAssumption DEF TypeOK, SignerInv, TokenInv
<1>1. ASSUME NEW w \in Workers, Ensure(w) \/ Cleanup(w) \/ LoadActive(w) \/ PrepareKey(w) \/ Activate(w)
      PROVE  SignerInv' /\ TokenInv'
  <2>1. ASSUME NEW k \in Kids, NEW time \in Nat, clock <= time, time <= clock + MaxDelay + Lifetime,
               keys[k].state = "active" \/ (keys[k].state = "retiring" /\ keys[k].after >= time)
        PROVE  keys'[k].state = "active" \/ (keys'[k].state = "retiring" /\ keys'[k].after >= time)
    BY <1>1, <2>1, KeptStep DEF KeptUntil
  <2>2. UNCHANGED <<clock, loaded, since, expires>>
    BY <1>1 DEF Ensure, Cleanup, LoadActive, PrepareKey, Activate, signerVars
  <2>3. SignerInv'
    <3> SUFFICES ASSUME NEW s \in Signers, loaded'[s] # NoKid
                 PROVE  /\ since'[s] <= clock' /\ clock' <= since'[s] + MaxDelay
                        /\ \/ keys'[loaded'[s]].state = "active"
                           \/ keys'[loaded'[s]].state = "retiring" /\ keys'[loaded'[s]].after >= since'[s] + MaxDelay + Lifetime
      BY DEF KeptUntil
    <3>1. /\ loaded[s] \in Kids /\ since[s] + MaxDelay + Lifetime \in Nat
          /\ since[s] <= clock /\ clock <= since[s] + MaxDelay
          /\ \/ keys[loaded[s]].state = "active"
             \/ keys[loaded[s]].state = "retiring" /\ keys[loaded[s]].after >= since[s] + MaxDelay + Lifetime
      BY <2>2 DEF Inv, KeptUntil
    <3>2. clock <= since[s] + MaxDelay + Lifetime /\ since[s] + MaxDelay + Lifetime <= clock + MaxDelay + Lifetime
      BY <3>1 DEF Inv
    <3> QED BY <2>1, <2>2, <3>1, <3>2
  <2>4. TokenInv'
    <3> SUFFICES ASSUME NEW k \in Kids, expires'[k] > 0
                 PROVE  /\ clock' <= expires'[k] /\ expires'[k] <= clock' + Lifetime
                        /\ \/ keys'[k].state = "active"
                           \/ keys'[k].state = "retiring" /\ keys'[k].after >= expires'[k]
      BY DEF KeptUntil
    <3>1. /\ expires[k] \in Nat /\ clock <= expires[k] /\ expires[k] <= clock + Lifetime
          /\ keys[k].state = "active" \/ (keys[k].state = "retiring" /\ keys[k].after >= expires[k])
      BY <2>2 DEF Inv, KeptUntil
    <3>2. expires[k] <= clock + MaxDelay + Lifetime
      BY <3>1 DEF Inv
    <3> QED BY <2>1, <2>2, <3>1, <3>2
  <2> QED BY <2>3, <2>4
<1>2. ASSUME NEW w \in Workers, BeginPass(w) \/ FailPass(w) PROVE SignerInv' /\ TokenInv'
  BY <1>2 DEF Inv, BeginPass, FailPass, signerVars, KeptUntil
<1>3. ASSUME NEW s \in Signers, LoadKey(s) PROVE SignerInv' /\ TokenInv'
  BY <1>3 DEF Inv, LoadKey, In, KeptUntil
<1>4. ASSUME NEW s \in Signers, Sign(s) PROVE SignerInv' /\ TokenInv'
  <2>1. SignerInv'
    BY <1>4 DEF Inv, Sign, KeptUntil
  <2>2. /\ loaded[s] \in Kids /\ clock + Lifetime <= since[s] + MaxDelay + Lifetime
        /\ \/ keys[loaded[s]].state = "active"
           \/ keys[loaded[s]].state = "retiring" /\ keys[loaded[s]].after >= since[s] + MaxDelay + Lifetime
    BY <1>4 DEF Inv, Sign, KeptUntil
  <2>3. TokenInv'
    BY <1>4, <2>2 DEF Inv, Sign, KeptUntil
  <2> QED BY <2>1, <2>3
<1>5. CASE Tick
  BY <1>5 DEF Inv, Tick, KeptUntil, signerVars
<1>6. CASE UNCHANGED vars
  BY <1>6 DEF Inv, vars, signerVars, KeptUntil
<1> QED BY <1>1, <1>2, <1>3, <1>4, <1>5, <1>6 DEF Next

(* The parts above hold together in every reachable state.                 *)
THEOREM Invariance == Spec => []Inv
<1>1. Inv /\ [Next]_vars => Inv'
  BY TypeStep, PassStep, RowStep, SignerStep DEF Inv
<1> QED BY <1>1, InitInv, PTL DEF Spec

(* An unexpired token's key is served: the retirement margin absorbs the   *)
(* delay of the pass that retires it and of the signer that holds it.      *)
THEOREM VerificationSafety == Spec => []TokensVerifiable
<1>1. Inv => TokensVerifiable
  BY SigningKeysAssumption DEF Inv, TypeOK, TokenInv, KeptUntil, TokensVerifiable, Served, In
<1> QED BY <1>1, Invariance, PTL

(* From the first started node on exactly one key is active.               *)
THEOREM ActiveKeySafety == Spec => []OneActiveKey
<1>1. Inv => OneActiveKey
  <2> SUFFICES ASSUME Inv, \E w \in Workers : pc[w] # "boot"
               PROVE  \E k \in Kids : In("active") = {k}
    BY DEF OneActiveKey
  <2>1. PICK k \in Kids : keys[k].state = "active"
    BY DEF Inv, RowInv
  <2>2. In("active") = {k}
    BY <2>1 DEF Inv, RowInv, In
  <2> QED BY <2>2
<1> QED BY <1>1, Invariance, PTL

(* No step activates a key that was not served for long enough.            *)
THEOREM PublicationSafety == Spec => PublishedBeforeUse
<1>1. Inv /\ [Next]_vars =>
        [\A k \in Kids : keys[k].state = "pending" /\ keys'[k].state = "active"
                            => clock + MaxDelay >= published + CacheAge]_vars
  <2> SUFFICES ASSUME Inv, Next, NEW k \in Kids, keys[k].state = "pending", keys'[k].state = "active"
               PROVE  clock + MaxDelay >= published + CacheAge
    OBVIOUS
  <2> USE DEF Row
  <2>1. ASSUME NEW w \in Workers, Activate(w) PROVE keys[k].after <= clock
    <3>1. keys' # keys
      OBVIOUS
    <3> DEFINE old == seen[w]
               new == pending[w]
               r == Row("retiring", keys[old].created, now[w] + Retirement)
               a == Row("active", keys[new].created, 0)
    <3>2. /\ old \in Kids /\ new \in Kids /\ old # new
          /\ keys[old].state = "active" /\ keys[new].after <= now[w] /\ now[w] <= clock
          /\ keys' = [keys EXCEPT ![old] = r, ![new] = a]
      BY <2>1, <3>1, ActivateEffect
    <3>3. k = new
      BY <3>2 DEF Inv, TypeOK
    <3> QED BY <2>1, <3>2, <3>3 DEF Inv, TypeOK
  <2>2. \E w \in Workers : Activate(w)
    <3>1. ASSUME NEW w \in Workers, Ensure(w) PROVE FALSE
      BY <3>1 DEF Ensure, In, Inv, TypeOK
    <3>2. ASSUME NEW w \in Workers, BeginPass(w) \/ LoadActive(w) \/ FailPass(w) PROVE FALSE
      BY <3>2 DEF BeginPass, LoadActive, FailPass
    <3>3. ASSUME NEW w \in Workers, Cleanup(w) PROVE FALSE
      BY <3>3 DEF Cleanup, Inv, TypeOK
    <3>4. ASSUME NEW w \in Workers, PrepareKey(w) PROVE FALSE
      BY <3>4 DEF PrepareKey, In, Inv, TypeOK
    <3>5. ASSUME NEW s \in Signers, LoadKey(s) \/ Sign(s) PROVE FALSE
      BY <3>5 DEF LoadKey, Sign
    <3>6. CASE Tick
      BY <3>6 DEF Tick
    <3> QED BY <3>1, <3>2, <3>3, <3>4, <3>5, <3>6 DEF Next
  <2> QED BY <2>1, <2>2, SigningKeysAssumption DEF Inv, TypeOK, PendingInv
<1> QED BY <1>1, Invariance, PTL DEF Spec, PublishedBeforeUse
===============================================================================
