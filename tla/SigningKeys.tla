----------------------------- MODULE SigningKeys -----------------------------
(***************************************************************************)
(* The rotation of the token signing key (internal/oidc: keys.go,          *)
(* rotation.go, rotation_worker.go).  Every node runs the same worker: it  *)
(* deletes keys whose retirement is over, publishes a pending key one      *)
(* cache age before the active one is due, and activates it.  A pass works *)
(* with the time it read when it began; its batches commit later, at most  *)
(* MaxDelay later.  Token endpoints load the active key and sign with it   *)
(* at most MaxDelay later.                                                 *)
(***************************************************************************)
EXTENDS Integers

CONSTANTS
    Kids, NoKid,
    Workers, Signers,
    CacheAge,       \* JWKSCacheMaxAge
    Lifetime,       \* MaxAccessTokenLifetime
    Period,         \* the configured rotation period
    MaxDelay,       \* bound on the time an operation is in progress
    MaxTime

ASSUME SigningKeysAssumption ==
    /\ NoKid \notin Kids
    /\ {CacheAge, Lifetime, Period, MaxDelay, MaxTime} \subseteq Nat
    /\ Period >= CacheAge
    /\ 2 * MaxDelay <= CacheAge

VARIABLES
    clock,
    keys,           \* oidc_signing_keys
    pc, now,        \* per worker: where its pass is, and the time it works with
    seen, pending,  \* per worker: the active and the pending key it has read
    loaded, since,  \* per signer: the key it has loaded, and when
    expires,        \* per key: when the last token signed with it expires
    published       \* history: when the pending key appeared in the key set

workerVars == <<pc, now, seen, pending>>
signerVars == <<loaded, since>>
vars == <<clock, keys, workerVars, signerVars, expires, published>>

(* after is activates_after of a pending and retire_after of a retiring row.*)
Row(state, created, after) == [state |-> state, created |-> created, after |-> after]
Unused == Row("unused", 0, 0)
States == {"unused", "pending", "active", "retiring", "deleted"}
Retirement == Lifetime + CacheAge     \* MinimumSigningKeyRetirement

(* Keys, passes and expiry times have their types.                         *)
TypeOK ==
    /\ clock \in 0..MaxTime
    /\ keys \in [Kids -> [state : States, created : Nat, after : Nat]]
    /\ pc \in [Workers -> {"boot", "idle", "clean", "loaded", "prepare", "activate"}]
    /\ now \in [Workers -> Nat]
    /\ seen \in [Workers -> Kids \cup {NoKid}]
    /\ pending \in [Workers -> Kids \cup {NoKid}]
    /\ loaded \in [Signers -> Kids \cup {NoKid}]
    /\ since \in [Signers -> Nat]
    /\ expires \in [Kids -> Nat]
    /\ published \in Nat

Init ==
    /\ clock = 0
    /\ keys = [k \in Kids |-> Unused]
    /\ pc = [w \in Workers |-> "boot"]
    /\ now = [w \in Workers |-> 0]
    /\ seen = [w \in Workers |-> NoKid]
    /\ pending = [w \in Workers |-> NoKid]
    /\ loaded = [s \in Signers |-> NoKid]
    /\ since = [s \in Signers |-> 0]
    /\ expires = [k \in Kids |-> 0]
    /\ published = 0

(* The rows in a state.                                                    *)
In(state) == {k \in Kids : keys[k].state = state}

(* LoadJWKSKeys: what the key set endpoint serves.                         *)
Served ==
    In("active") \cup In("pending") \cup {k \in In("retiring") : keys[k].after >= clock}

Goto(w, where) == pc' = [pc EXCEPT ![w] = where]

(* A pass ends; what it had in hand is dropped.                            *)
Leave(w) ==
    /\ Goto(w, "idle")
    /\ now' = [now EXCEPT ![w] = 0]
    /\ seen' = [seen EXCEPT ![w] = NoKid]
    /\ pending' = [pending EXCEPT ![w] = NoKid]

-----------------------------------------------------------------------------
(* EnsureSigningKey: the unique index admits one active row; a loser takes *)
(* the winner's.                                                           *)
Ensure(w) ==
    /\ pc[w] = "boot"
    /\ \/ /\ In("active") = {}
          /\ \E k \in In("unused") :
               keys' = [keys EXCEPT ![k] = Row("active", clock, 0)]
       \/ /\ In("active") # {}
          /\ UNCHANGED keys
    /\ Goto(w, "idle")
    /\ UNCHANGED <<clock, now, seen, pending, signerVars, expires, published>>

(* Run takes a tick: the pass works with its time.                         *)
BeginPass(w) ==
    /\ pc[w] = "idle"
    /\ now' = [now EXCEPT ![w] = clock]
    /\ Goto(w, "clean")
    /\ UNCHANGED <<clock, keys, seen, pending, signerVars, expires, published>>

(* Mutant: retired keys go one cache age early.                            *)
RemovableEarly(k, time) == keys[k].state = "retiring" /\ keys[k].after < time + CacheAge

Removable(k, time) == keys[k].state = "retiring" /\ keys[k].after < time

(* CleanupRetiredSigningKeys: the local read may miss what is there.       *)
Cleanup(w) ==
    /\ pc[w] = "clean"
    /\ \/ keys' = [k \in Kids |-> IF Removable(k, now[w]) THEN Row("deleted", 0, 0) ELSE keys[k]]
       \/ keys' = keys
    /\ Goto(w, "loaded")
    /\ UNCHANGED <<clock, now, seen, pending, signerVars, expires, published>>

(* Step leaves a key alone that is not due within a cache age.             *)
LoadActive(w) ==
    /\ pc[w] = "loaded"
    /\ \E k \in In("active") :
         IF now[w] < keys[k].created + Period - CacheAge
         THEN Leave(w)
         ELSE /\ seen' = [seen EXCEPT ![w] = k]
              /\ Goto(w, "prepare")
              /\ UNCHANGED <<now, pending>>
    /\ UNCHANGED <<clock, keys, signerVars, expires, published>>

(* A prepared key is activated by this pass once the key it loaded is due. *)
Continue(w, k) ==
    IF keys'[k].state = "pending" /\ now[w] >= keys[seen[w]].created + Period /\ now[w] >= keys'[k].after
    THEN /\ pending' = [pending EXCEPT ![w] = k]
         /\ Goto(w, "activate")
         /\ UNCHANGED <<now, seen>>
    ELSE Leave(w)

(* Mutant: a prepared key may be used at once.                             *)
ActivatesAtOnce(time) == time

ActivatesAfter(time) == time + CacheAge

(* PrepareSigningKey: an existing pending key is used, otherwise a new one *)
(* is published; it may be used one cache age after the pass's time.       *)
PrepareKey(w) ==
    /\ pc[w] = "prepare"
    /\ \/ /\ UNCHANGED <<keys, published>>
          /\ \E k \in In("pending") : Continue(w, k)
       \/ /\ In("pending") = {}
          /\ \E k \in In("unused") :
               /\ keys' = [keys EXCEPT ![k] = Row("pending", now[w], ActivatesAfter(now[w]))]
               /\ published' = clock
               /\ Continue(w, k)
    /\ UNCHANGED <<clock, signerVars, expires>>

(* The first statement of the activation batch.                            *)
Retires(w) ==
    /\ keys[seen[w]].state = "active"
    /\ keys[pending[w]].state = "pending"
    /\ keys[pending[w]].after <= now[w]

(* Mutant: the second statement wants a key that is overdue.               *)
ReplacesOverdue(table, w) ==
    /\ table[pending[w]].state = "pending"
    /\ table[pending[w]].after < now[w]
    /\ table[seen[w]].state = "retiring"
    /\ table[seen[w]].after = now[w] + Retirement
    /\ \A k \in Kids : table[k].state # "active"

(* The second statement sees what the first one left.                      *)
Replaces(table, w) ==
    /\ table[pending[w]].state = "pending"
    /\ table[pending[w]].after <= now[w]
    /\ table[seen[w]].state = "retiring"
    /\ table[seen[w]].after = now[w] + Retirement
    /\ \A k \in Kids : table[k].state # "active"

(* ActivatePreparedSigningKey: one batch retires the expected key and      *)
(* activates the pending one, or changes nothing.                          *)
Activate(w) ==
    /\ pc[w] = "activate"
    /\ LET old == seen[w]
           new == pending[w]
           retired == IF Retires(w)
                      THEN [keys EXCEPT ![old] = Row("retiring", keys[old].created, now[w] + Retirement)]
                      ELSE keys
           wins == Replaces(retired, w)
       IN /\ keys' = IF wins THEN [retired EXCEPT ![new] = Row("active", keys[new].created, 0)] ELSE retired
          /\ published' = IF wins THEN 0 ELSE published
    /\ Leave(w)
    /\ UNCHANGED <<clock, signerVars, expires>>

(* A read or a batch fails, or the process is replaced.                    *)
FailPass(w) ==
    /\ pc[w] \in {"clean", "loaded", "prepare", "activate"}
    /\ Leave(w)
    /\ UNCHANGED <<clock, keys, signerVars, expires, published>>

-----------------------------------------------------------------------------
(* A token endpoint loads the active key and signs with what it loaded.    *)
LoadKey(s) ==
    /\ loaded[s] = NoKid
    /\ \E k \in In("active") : loaded' = [loaded EXCEPT ![s] = k]
    /\ since' = [since EXCEPT ![s] = clock]
    /\ UNCHANGED <<clock, keys, workerVars, expires, published>>

Sign(s) ==
    /\ loaded[s] # NoKid
    /\ expires' = [expires EXCEPT ![loaded[s]] = clock + Lifetime]
    /\ loaded' = [loaded EXCEPT ![s] = NoKid]
    /\ since' = [since EXCEPT ![s] = 0]
    /\ UNCHANGED <<clock, keys, workerVars, published>>

(* Nothing stays in progress for longer than MaxDelay.                     *)
Busy(w) == pc[w] \notin {"boot", "idle"}

Tick ==
    /\ clock < MaxTime
    /\ \A w \in Workers : Busy(w) => clock < now[w] + MaxDelay
    /\ \A s \in Signers : loaded[s] # NoKid => clock < since[s] + MaxDelay
    /\ clock' = clock + 1
    /\ expires' = [k \in Kids |-> IF expires[k] > clock THEN expires[k] ELSE 0]
    /\ UNCHANGED <<keys, workerVars, signerVars, published>>

Next ==
    \/ \E w \in Workers :
         \/ Ensure(w) \/ BeginPass(w) \/ Cleanup(w) \/ LoadActive(w)
         \/ PrepareKey(w) \/ Activate(w) \/ FailPass(w)
    \/ \E s \in Signers : LoadKey(s) \/ Sign(s)
    \/ Tick

Spec == Init /\ [][Next]_vars

-----------------------------------------------------------------------------
(* A token can be verified for as long as it is valid: the key set serves  *)
(* the key it was signed with until the token has expired, although the    *)
(* signer may have loaded the key before a rotation and the rotation was   *)
(* computed from an older time.                                            *)
TokensVerifiable ==
    \A k \in Kids : expires[k] > 0 => k \in Served

(* Once a node has started there is exactly one active key, whichever      *)
(* passes raced and failed: a token endpoint never finds none.             *)
OneActiveKey ==
    (\E w \in Workers : pc[w] # "boot") => \E k \in Kids : In("active") = {k}

(* A prepared key signs only after the key set has served it for a cache   *)
(* age, short of the time a pass may take to publish it: relying parties   *)
(* that refresh their copy on schedule know a key before its first token.  *)
PublishedBeforeUse ==
    [][\A k \in Kids : keys[k].state = "pending" /\ keys'[k].state = "active"
                          => clock + MaxDelay >= published + CacheAge]_vars
===============================================================================
