------------------------- MODULE SaasCredentialProofs -------------------------
(***************************************************************************)
(* The safety properties of SaasCredential, for every number of calls,     *)
(* requests, grants, accounts and changes.                                 *)
(*                                                                         *)
(* Three facts carry the proof.  token_version moves with every token, so  *)
(* a call that still finds the version it read also finds the token it     *)
(* read.  A refresh token is in the hands of one call at a time, and the   *)
(* stored copy of a token that a call carries is claimed by that call or   *)
(* out of use.  And a consent of the credential's generation names the     *)
(* credential's account, because a generation has one account.             *)
(***************************************************************************)
EXTENDS SaasCredential, TLAPS

Connecting == {"consume", "exchangeCode", "install"}
Refreshing == {"claim", "exchange", "complete", "late"}
Carrying == {"exchange", "complete", "late", "install"}

(* The credential row, against the connection and the provider.            *)
CredInv ==
    /\ conn.gen >= 1 /\ cred.gen <= conn.gen
    /\ cred.st = "none" => cred.gen = 0 /\ cred.ver = 0
    /\ cred.st = "ready" => cred.tok \in upstream.valid
    /\ cred.tok <= upstream.last

UpstreamInv ==
    /\ upstream.valid \subseteq 1..upstream.last
    /\ \A q \in upstream.codes : requests[q].st = "consumed"

RequestInv == \A q \in Requests : requests[q].ver <= MaxVersion

(* A consent of the credential's generation names its account.             *)
ConsentOK(s) == s.gen <= cred.gen /\ (s.gen = cred.gen => s.acct = cred.acct)

ConsentInv == ConsentOK(handoff) /\ \A g \in Grants : ConsentOK(grants[g])

(* The request of a callback.                                              *)
RequestOK(c) ==
    \E q \in Requests :
        /\ calls[c].req = {q} /\ requests[q].st # "none"
        /\ requests[q].gen = calls[c].gen /\ requests[q].ver = calls[c].ver

(* The token that a call carries.                                          *)
CarriedOK(c) ==
    /\ calls[c].tok \in upstream.valid
    /\ calls[c].tok = cred.tok => Held(c) \/ cred.st \in {"revoked", "uncertain"}

CallOK(c) ==
    /\ calls[c].pc \in Connecting => RequestOK(c)
    /\ calls[c].pc \in Refreshing => calls[c].ver < MaxVersion
    /\ calls[c].pc \in {"claim", "deliver"} => calls[c].ver <= cred.ver
    /\ calls[c].pc = "claim" /\ calls[c].ver = cred.ver => calls[c].tok = cred.tok
    /\ calls[c].pc = "deliver" /\ calls[c].ver = cred.ver => calls[c].acct = cred.acct
    /\ calls[c].pc \in Carrying => CarriedOK(c)
    /\ calls[c].pc = "exchangeCode" =>
         \A q \in calls[c].req : requests[q].st = "consumed" /\ q \notin upstream.codes

CallInv == \A c \in Calls : CallOK(c)

(* No two calls carry one token, and none exchange one code.               *)
Apart(c, d) ==
    /\ calls[c].pc \in Carrying /\ calls[d].pc \in Carrying => calls[c].tok # calls[d].tok
    /\ calls[c].pc = "exchangeCode" /\ calls[d].pc = "exchangeCode" =>
         calls[c].req \cap calls[d].req = {}

ApartInv == \A c, d \in Calls : c # d => Apart(c, d)

Inv ==
    /\ TypeOK /\ CredInv /\ UpstreamInv /\ RequestInv /\ ConsentInv /\ CallInv /\ ApartInv
    /\ NoSecretReuse /\ DeliveredAccountIsConsented

-----------------------------------------------------------------------------
(* Steps as a call sees them.                                              *)

(* A request that was begun stays what it is, and a consumed one consumed. *)
RequestsKept ==
    \A q \in Requests :
        /\ requests[q].st # "none" => /\ requests'[q].st # "none"
                                      /\ requests'[q].gen = requests[q].gen
                                      /\ requests'[q].ver = requests[q].ver
        /\ requests[q].st = "consumed" => requests'[q].st = "consumed"

(* The version moves, or the secret stays.                                 *)
SecretKept ==
    \/ cred'.ver = cred.ver /\ cred'.tok = cred.tok /\ cred'.acct = cred.acct
    \/ cred.ver < cred'.ver

(* The token of a carrier is not offered to another.                       *)
CarrierKept(d) ==
    calls[d].pc \in Carrying =>
        /\ calls[d].tok \in upstream'.valid
        /\ calls[d].tok = cred'.tok =>
             \/ cred'.st = "refreshing" /\ cred'.claim = d
                  /\ cred'.gen = calls[d].gen /\ cred'.ver = calls[d].ver
             \/ cred'.st \in {"revoked", "uncertain"}

CodeKept(d) ==
    calls[d].pc = "exchangeCode" => \A q \in calls[d].req : q \notin upstream'.codes

(* A call that a step leaves alone keeps its invariant. *)
LEMMA CallKept ==
    ASSUME TypeOK, TypeOK', NEW d \in Calls, CallOK(d), calls'[d] = calls[d],
           RequestsKept, SecretKept, CarrierKept(d), CodeKept(d)
    PROVE  CallOK(d)'
<1> DEFINE me == calls[d]
<1>0. /\ me \in CallRows /\ cred \in CredentialRows /\ cred' \in CredentialRows
  BY DEF TypeOK
<1>t. me.ver \in Nat /\ me.req \subseteq Requests /\ cred.ver \in Nat /\ cred'.ver \in Nat
  BY <1>0 DEF CallRows, CredentialRows
<1>1. (calls[d].pc \in Connecting => RequestOK(d))'
  <2> SUFFICES ASSUME me.pc \in Connecting
               PROVE  RequestOK(d)'
    OBVIOUS
  <2>1. RequestOK(d)
    BY DEF CallOK
  <2>2. PICK q \in Requests : /\ me.req = {q} /\ requests[q].st # "none"
                              /\ requests[q].gen = me.gen /\ requests[q].ver = me.ver
    BY <2>1 DEF RequestOK
  <2> QED BY <2>2 DEF RequestOK, RequestsKept
<1>2. (calls[d].pc \in Refreshing => calls[d].ver < MaxVersion)'
  BY DEF CallOK
<1>3. (calls[d].pc \in {"claim", "deliver"} => calls[d].ver <= cred.ver)'
  BY <1>t DEF CallOK, SecretKept
<1>4. (calls[d].pc = "claim" /\ calls[d].ver = cred.ver => calls[d].tok = cred.tok)'
  BY <1>t DEF CallOK, SecretKept
<1>5. (calls[d].pc = "deliver" /\ calls[d].ver = cred.ver => calls[d].acct = cred.acct)'
  BY <1>t DEF CallOK, SecretKept
<1>6. (calls[d].pc \in Carrying => CarriedOK(d))'
  BY DEF CarrierKept, CarriedOK, Held, Binding
<1>7. (calls[d].pc = "exchangeCode" =>
         \A q \in calls[d].req : requests[q].st = "consumed" /\ q \notin upstream.codes)'
  BY <1>t DEF CallOK, CodeKept, RequestsKept
<1> QED BY <1>1, <1>2, <1>3, <1>4, <1>5, <1>6, <1>7 DEF CallOK

(* A step of call c that keeps the other calls' invariants and c's own. *)
LEMMA CallsMove ==
    ASSUME TypeOK, ApartInv, NEW c \in Calls, NEW row \in CallRows,
           calls' = [calls EXCEPT ![c] = row],
           CallOK(c)',
           \A d \in Calls \ {c} : CallOK(d)' /\ Apart(c, d)'
    PROVE  CallInv' /\ ApartInv' /\ calls' \in [Calls -> CallRows]
<1>1. calls' \in [Calls -> CallRows]
  BY DEF TypeOK
<1>2. CallInv'
  BY DEF CallInv
<1>3. ASSUME NEW a \in Calls, NEW b \in Calls, a # b
      PROVE  Apart(a, b)'
  <2>1. CASE a = c
    BY <1>3, <2>1
  <2>2. CASE b = c
    <3>1. Apart(c, a)'
      BY <1>3, <2>2
    <3> QED BY <3>1, <2>2 DEF Apart
  <2>3. CASE a # c /\ b # c
    <3>1. calls'[a] = calls[a] /\ calls'[b] = calls[b]
      BY <2>3 DEF TypeOK
    <3>2. Apart(a, b)
      BY <1>3 DEF ApartInv
    <3> QED BY <3>1, <3>2 DEF Apart
  <2> QED BY <2>1, <2>2, <2>3
<1> QED BY <1>1, <1>2, <1>3 DEF ApartInv

(* A call that carries nothing new stays apart from the others. *)
Quiet(c, row) ==
    /\ row.pc \in Carrying => calls[c].pc \in Carrying /\ row.tok = calls[c].tok
    /\ row.pc = "exchangeCode" => calls[c].pc = "exchangeCode" /\ row.req = calls[c].req

LEMMA QuietApart ==
    ASSUME TypeOK, ApartInv, NEW c \in Calls, NEW row, Quiet(c, row),
           calls' = [calls EXCEPT ![c] = row], NEW d \in Calls \ {c}
    PROVE  Apart(c, d)'
<1>1. calls'[c] = row /\ calls'[d] = calls[d]
  BY DEF TypeOK
<1>2. Apart(c, d)
  BY DEF ApartInv
<1> QED BY <1>1, <1>2 DEF Apart, Quiet

(* A call that stands idle, or only marks, meets its invariant.            *)
LEMMA IdleOK ==
    ASSUME NEW c \in Calls, calls'[c].pc \in {"idle", "mark", "load"}
    PROVE  CallOK(c)'
BY DEF CallOK, Connecting, Refreshing, Carrying

LEMMA IdleTyped == Idle \in CallRows
BY SaasAssumption DEF Idle, CallRows, Steps, AnAccount

(* Steps that leave every table but the calls alone keep what is about them. *)
Tables == <<conn, cred, requests, grants, handoff, upstream>>

LEMMA TablesKept ==
    ASSUME CredInv, UpstreamInv, RequestInv, ConsentInv, UNCHANGED Tables
    PROVE  CredInv' /\ UpstreamInv' /\ RequestInv' /\ ConsentInv'
BY DEF CredInv, UpstreamInv, RequestInv, ConsentInv, ConsentOK, Tables

LEMMA CallStep ==
    ASSUME Inv, NEW c \in Calls, NEW row \in CallRows,
           calls' = [calls EXCEPT ![c] = row], CallOK(c)', Quiet(c, row),
           UNCHANGED <<adminVars, cred, requests, consentVars, upstream, history, limits>>
    PROVE  Inv'
<1>1. TypeOK'
  BY DEF Inv, TypeOK, adminVars, consentVars, history, limits
<1>2. RequestsKept /\ SecretKept
  BY DEF RequestsKept, SecretKept
<1>3. ASSUME NEW d \in Calls \ {c}
      PROVE  CallOK(d)' /\ Apart(c, d)'
  <2>1. CallOK(d) /\ calls'[d] = calls[d]
    BY DEF Inv, CallInv, TypeOK
  <2>2. CarrierKept(d) /\ CodeKept(d)
    BY <2>1 DEF CarrierKept, CodeKept, CallOK, CarriedOK, Held, Binding
  <2>3. CallOK(d)'
    BY <1>1, <1>2, <2>1, <2>2, CallKept DEF Inv
  <2> QED BY <2>3, QuietApart DEF Inv
<1>4. CallInv' /\ ApartInv'
  BY <1>3, CallsMove DEF Inv
<1>5. CredInv' /\ UpstreamInv' /\ RequestInv' /\ ConsentInv'
  BY TablesKept DEF Inv, Tables, adminVars, consentVars
<1> QED BY <1>1, <1>4, <1>5 DEF Inv, NoSecretReuse, DeliveredAccountIsConsented, history

(* Steps that leave the credential, the calls and the provider alone.      *)
LEMMA QuietTables ==
    ASSUME Inv, TypeOK', RequestsKept, RequestInv', UNCHANGED <<cred, calls, upstream, history>>,
           conn'.gen >= conn.gen, ConsentInv'
    PROVE  Inv'
<1>1. SecretKept
  BY DEF SecretKept
<1>2. ASSUME NEW d \in Calls
      PROVE  CallOK(d)'
  <2>1. CallOK(d)
    BY DEF Inv, CallInv
  <2>2. CarrierKept(d) /\ CodeKept(d)
    BY <2>1 DEF CarrierKept, CodeKept, CallOK, CarriedOK, Held, Binding
  <2> QED BY <1>1, <2>1, <2>2, CallKept DEF Inv
<1>3. ApartInv'
  BY DEF Inv, ApartInv, Apart
<1>4. UpstreamInv'
  BY DEF Inv, UpstreamInv, RequestsKept, TypeOK
<1>5. CredInv'
  <2>1. conn.gen \in Nat /\ conn'.gen \in Nat /\ cred.gen \in Nat
    BY DEF Inv, TypeOK, CredentialRows
  <2> QED BY <2>1 DEF Inv, CredInv
<1> QED BY <1>2, <1>3, <1>4, <1>5 DEF Inv, CallInv, NoSecretReuse, DeliveredAccountIsConsented, history

-----------------------------------------------------------------------------
(* The steps of a call that only move the call.                            *)

LEMMA EndStep ==
    ASSUME Inv, NEW c \in Calls, End(c),
           UNCHANGED <<adminVars, cred, requests, consentVars, upstream, history, limits>>
    PROVE  Inv'
<1>1. calls' = [calls EXCEPT ![c] = Idle] /\ calls'[c].pc = "idle"
  BY DEF Inv, TypeOK, End, Idle
<1>2. CallOK(c)'
  BY <1>1, IdleOK
<1>3. Quiet(c, Idle)
  BY DEF Quiet, Idle, Carrying
<1> HIDE DEF Idle
<1> QED BY <1>1, <1>2, <1>3, IdleTyped, CallStep

LEMMA MarkStep ==
    ASSUME Inv, NEW c \in Calls, Goto(c, "mark"),
           UNCHANGED <<adminVars, cred, requests, consentVars, upstream, history, limits>>
    PROVE  Inv'
<1> DEFINE row == [calls[c] EXCEPT !.pc = "mark"]
<1>1. row \in CallRows
  BY DEF Inv, TypeOK, CallRows, Steps
<1>2. calls' = [calls EXCEPT ![c] = row] /\ calls'[c].pc = "mark"
  BY DEF Inv, TypeOK, Goto, CallRows
<1>3. CallOK(c)'
  BY <1>2, IdleOK
<1>4. Quiet(c, row)
  BY <1>1 DEF Quiet, CallRows, Carrying, Inv, TypeOK
<1> HIDE DEF row
<1> QED BY <1>1, <1>2, <1>3, <1>4, CallStep

LEMMA StartCallbackStep ==
    ASSUME Inv, NEW c \in Calls, NEW q \in Requests, StartCallback(c, q)
    PROVE  Inv'
<1> DEFINE row == [Idle EXCEPT !.pc = "consume", !.gen = requests[q].gen, !.ver = requests[q].ver,
                               !.rev = requests[q].rev, !.req = {q}]
<1>0. requests[q] \in RequestRows
  BY DEF Inv, TypeOK
<1>1. row \in CallRows
  BY <1>0, IdleTyped DEF CallRows, Steps, RequestRows
<1>2. calls' = [calls EXCEPT ![c] = row] /\ calls'[c] = row
  BY DEF Inv, TypeOK, StartCallback
<1>3. row.pc = "consume" /\ row.req = {q} /\ row.gen = requests[q].gen /\ row.ver = requests[q].ver
  BY DEF Idle
<1>4. requests' = requests /\ requests[q].st = "open"
  BY DEF StartCallback
<1>5. RequestOK(c)'
  BY <1>2, <1>3, <1>4 DEF RequestOK
<1>6. CallOK(c)'
  BY <1>2, <1>3, <1>5 DEF CallOK, Connecting, Refreshing, Carrying
<1>7. Quiet(c, row)
  BY <1>3 DEF Quiet, Carrying
<1>8. UNCHANGED <<adminVars, cred, requests, consentVars, upstream, history, limits>>
  BY DEF StartCallback
<1> HIDE DEF row
<1> QED BY <1>1, <1>2, <1>6, <1>7, <1>8, CallStep

LEMMA StartRefreshStep ==
    ASSUME Inv, NEW c \in Calls, NEW under \in SUBSET Grants, StartRefresh(c, under)
    PROVE  Inv'
<1> DEFINE row == [Idle EXCEPT !.pc = "claim", !.gen = cred.gen, !.ver = cred.ver, !.rev = prov.rev,
                               !.under = under, !.tok = cred.tok, !.acct = cred.acct]
<1>0. cred \in CredentialRows /\ prov.rev \in Nat
  BY DEF Inv, TypeOK
<1>a. cred.gen \in Nat /\ cred.ver \in Nat /\ cred.tok \in Nat /\ cred.acct \in Accounts
  BY <1>0, SaasAssumption DEF CredentialRows
<1>1. row \in CallRows
  BY <1>0, <1>a, IdleTyped DEF CallRows, Steps
<1>2. calls' = [calls EXCEPT ![c] = row] /\ calls'[c] = row
  BY DEF Inv, TypeOK, StartRefresh
<1>3. row.pc = "claim" /\ row.ver = cred.ver /\ row.tok = cred.tok
  BY DEF Idle
<1>4. cred' = cred /\ cred.ver < MaxVersion /\ cred.ver <= cred.ver
  BY <1>0, SaasAssumption DEF StartRefresh, CredentialRows
<1>6. CallOK(c)'
  BY <1>2, <1>3, <1>4 DEF CallOK, Connecting, Refreshing, Carrying
<1>7. Quiet(c, row)
  BY <1>3 DEF Quiet, Carrying
<1>8. UNCHANGED <<adminVars, cred, requests, consentVars, upstream, history, limits>>
  BY DEF StartRefresh
<1> HIDE DEF row
<1> QED BY <1>1, <1>2, <1>6, <1>7, <1>8, CallStep

LEMMA StartDeliveryStep ==
    ASSUME Inv, NEW c \in Calls, NEW g \in Grants, StartDelivery(c, g)
    PROVE  Inv'
<1> DEFINE row == [Idle EXCEPT !.pc = "load", !.under = {g}, !.gen = grants[g].gen, !.ver = cred.ver]
<1>0. cred.ver \in Nat /\ grants[g].gen \in Nat
  BY SaasAssumption DEF Inv, TypeOK, CredentialRows, ConsentRows
<1>1. row \in CallRows
  BY <1>0, IdleTyped DEF CallRows, Steps
<1>2. calls' = [calls EXCEPT ![c] = row] /\ calls'[c] = row
  BY DEF Inv, TypeOK, StartDelivery
<1>3. row.pc = "load"
  BY DEF Idle
<1>6. CallOK(c)'
  BY <1>2, <1>3, IdleOK
<1>7. Quiet(c, row)
  BY <1>3 DEF Quiet, Carrying
<1>8. UNCHANGED <<adminVars, cred, requests, consentVars, upstream, history, limits>>
  BY DEF StartDelivery
<1> HIDE DEF row
<1> QED BY <1>1, <1>2, <1>6, <1>7, <1>8, CallStep

LEMMA LoadForDeliveryStep ==
    ASSUME Inv, NEW c \in Calls, LoadForDelivery(c)
    PROVE  Inv'
<1> DEFINE row == [calls[c] EXCEPT !.pc = "deliver", !.acct = cred.acct]
<1>0. UNCHANGED <<adminVars, cred, requests, consentVars, upstream, history, limits>>
  BY DEF LoadForDelivery
<1>1. CASE End(c)
  BY <1>0, <1>1, EndStep
<1>2. CASE UseGuard(c) /\ calls' = [calls EXCEPT ![c] = row]
  <2>0. calls[c] \in CallRows /\ cred \in CredentialRows
    BY DEF Inv, TypeOK
  <2>1. row \in CallRows
    BY <2>0 DEF CallRows, Steps, CredentialRows
  <2>2. calls'[c] = row
    BY <1>2 DEF Inv, TypeOK
  <2>3. row.pc = "deliver" /\ row.acct = cred.acct /\ row.ver = calls[c].ver
    BY <2>0 DEF CallRows
  <2>4. cred' = cred /\ cred.ver = calls[c].ver /\ cred.ver <= cred.ver
    BY <1>0, <1>2, <2>0, SaasAssumption DEF UseGuard, CredentialRows
  <2>6. CallOK(c)'
    BY <2>2, <2>3, <2>4 DEF CallOK, Connecting, Refreshing, Carrying
  <2>7. Quiet(c, row)
    BY <2>3 DEF Quiet, Carrying
  <2> HIDE DEF row
  <2> QED BY <1>0, <1>2, <2>1, <2>6, <2>7, CallStep
<1> QED BY <1>1, <1>2 DEF LoadForDelivery

LEMMA AuthorityLapsesStep ==
    ASSUME Inv, NEW c \in Calls, AuthorityLapses(c)
    PROVE  Inv'
<1> DEFINE row == [calls[c] EXCEPT !.auth = FALSE]
<1>0. UNCHANGED <<adminVars, cred, requests, consentVars, upstream, history, limits>>
  BY DEF AuthorityLapses
<1>1. calls[c] \in CallRows /\ calls' = [calls EXCEPT ![c] = row] /\ calls'[c] = row
  BY DEF Inv, TypeOK, AuthorityLapses
<1>2. row \in CallRows
  BY <1>1 DEF CallRows
<1>3. /\ row.pc = calls[c].pc /\ row.gen = calls[c].gen /\ row.ver = calls[c].ver
      /\ row.req = calls[c].req /\ row.tok = calls[c].tok /\ row.acct = calls[c].acct
  BY <1>1 DEF CallRows
<1>4. CallOK(c)
  BY DEF Inv, CallInv
<1> HIDE DEF row
<1>5. cred' = cred /\ upstream' = upstream /\ requests' = requests
  BY <1>0
<1>6. (RequestOK(c) => RequestOK(c)') /\ (CarriedOK(c) => CarriedOK(c)')
  BY <1>1, <1>3, <1>5 DEF RequestOK, CarriedOK, Held, Binding
<1>7. CallOK(c)'
  BY <1>1, <1>3, <1>4, <1>5, <1>6 DEF CallOK
<1>8. Quiet(c, row)
  BY <1>3 DEF Quiet
<1> QED BY <1>0, <1>1, <1>2, <1>7, <1>8, CallStep

LEMMA DeliverStep ==
    ASSUME Inv, NEW c \in Calls, Deliver(c)
    PROVE  Inv'
<1>1. CallOK(c) /\ calls[c] \in CallRows
  BY DEF Inv, CallInv, TypeOK
<1>2. misled' = {}
  <2>1. CASE UseGuard(c)
    <3>1. ASSUME NEW g \in calls[c].under
          PROVE  grants[g].acct = calls[c].acct
      <4>1. g \in Grants /\ grants[g].gen = conn.gen /\ cred.gen = conn.gen
        BY <1>1, <2>1, <3>1 DEF UseGuard, UsePolicy, CallRows
      <4>2. grants[g].acct = cred.acct
        BY <4>1 DEF Inv, ConsentInv, ConsentOK
      <4>3. calls[c].acct = cred.acct
        BY <1>1, <2>1 DEF CallOK, UseGuard, Deliver
      <4> QED BY <4>2, <4>3
    <3>2. misled = {} /\ misled' = misled \cup {g \in calls[c].under : grants[g].acct # calls[c].acct}
      BY <2>1 DEF Deliver, Inv, DeliveredAccountIsConsented
    <3> QED BY <3>1, <3>2
  <2>2. CASE ~UseGuard(c)
    BY <2>2 DEF Deliver, Inv, DeliveredAccountIsConsented
  <2> QED BY <2>1, <2>2
<1>3. misled' = misled
  BY <1>2 DEF Inv, DeliveredAccountIsConsented
<1>4. UNCHANGED <<adminVars, cred, requests, consentVars, upstream, history, limits>> /\ End(c)
  BY <1>3 DEF Deliver, history
<1> QED BY <1>4, EndStep

-----------------------------------------------------------------------------
(* The callback.                                                           *)

LEMMA ConsumeStep ==
    ASSUME Inv, NEW c \in Calls, ConsumeAuthorization(c)
    PROVE  Inv'
<1> DEFINE q == CHOOSE x \in Requests : x \in calls[c].req
           row == [calls[c] EXCEPT !.pc = "exchangeCode"]
<1>0. calls[c] \in CallRows /\ CallOK(c) /\ calls[c].pc = "consume"
  BY DEF Inv, TypeOK, CallInv, ConsumeAuthorization
<1>1. /\ q \in Requests /\ calls[c].req = {q} /\ requests[q].st # "none"
      /\ requests[q].gen = calls[c].gen /\ requests[q].ver = calls[c].ver
  BY <1>0 DEF CallOK, RequestOK, Connecting
<1>u. UNCHANGED <<adminVars, cred, consentVars, upstream, history, limits>>
  BY DEF ConsumeAuthorization
<1>2. CASE requests' = requests /\ End(c)
  BY <1>2, <1>u, EndStep
<1>3. CASE /\ requests[q].st = "open"
           /\ requests' = [requests EXCEPT ![q].st = "consumed"] /\ Goto(c, "exchangeCode")
  <2>h. q \in Requests
    BY <1>1
  <2> HIDE DEF q
  <2>t. requests \in [Requests -> RequestRows]
    BY DEF Inv, TypeOK
  <2>1. /\ requests'[q].st = "consumed" /\ requests'[q].gen = requests[q].gen
        /\ requests'[q].ver = requests[q].ver
        /\ \A x \in Requests : x # q => requests'[x] = requests[x]
    BY <1>3, <2>h, <2>t DEF RequestRows
  <2>2. RequestsKept
    BY <1>3, <2>1 DEF RequestsKept
  <2>3. row \in CallRows /\ row.pc = "exchangeCode" /\ row.req = {q}
        /\ row.gen = calls[c].gen /\ row.ver = calls[c].ver
    BY <1>0, <1>1 DEF CallRows, Steps
  <2>4. calls' = [calls EXCEPT ![c] = row] /\ calls'[c] = row
    BY <1>3 DEF Goto, Inv, TypeOK
  <2> HIDE DEF row
  <2>5. q \notin upstream'.codes
    BY <1>3, <1>u DEF Inv, UpstreamInv
  <2>6. CallOK(c)'
    <3>1. RequestOK(c)'
      BY <1>1, <2>1, <2>3, <2>4 DEF RequestOK
    <3> QED BY <2>1, <2>3, <2>4, <2>5, <3>1 DEF CallOK, Connecting, Refreshing, Carrying
  <2>7. requests' \in [Requests -> RequestRows]
    BY <1>3, <2>h, <2>t DEF RequestRows
  <2>8. TypeOK'
    BY <1>u, <2>3, <2>4, <2>7 DEF Inv, TypeOK, adminVars, consentVars, history, limits
  <2>9. SecretKept
    BY <1>u DEF SecretKept
  <2>10. ASSUME NEW d \in Calls \ {c}
         PROVE  CallOK(d)' /\ Apart(c, d)'
    <3>1. CallOK(d) /\ calls'[d] = calls[d]
      BY <2>4 DEF Inv, CallInv, TypeOK
    <3>2. CarrierKept(d) /\ CodeKept(d)
      BY <1>u, <3>1 DEF CarrierKept, CodeKept, CallOK, CarriedOK, Held, Binding
    <3>3. CallOK(d)'
      BY <2>2, <2>8, <2>9, <3>1, <3>2, CallKept DEF Inv
    <3>4. calls[d].pc = "exchangeCode" => q \notin calls[d].req
      BY <1>3, <3>1 DEF CallOK
    <3> QED BY <2>3, <2>4, <3>1, <3>3, <3>4 DEF Apart, Carrying
  <2>11. CallInv' /\ ApartInv'
    BY <2>3, <2>4, <2>6, <2>10, CallsMove DEF Inv
  <2>12. UpstreamInv' /\ RequestInv' /\ CredInv' /\ ConsentInv'
    <3>1. RequestInv'
      BY <2>1 DEF Inv, RequestInv
    <3>2. UpstreamInv'
      BY <1>u, <2>2 DEF Inv, UpstreamInv, RequestsKept, TypeOK
    <3> QED BY <1>u, <3>1, <3>2 DEF Inv, CredInv, ConsentInv, ConsentOK, adminVars, consentVars
  <2> QED BY <1>u, <2>8, <2>11, <2>12 DEF Inv, NoSecretReuse, DeliveredAccountIsConsented, history
<1> QED BY <1>2, <1>3 DEF ConsumeAuthorization

(* The provider issues one more token; the tokens still valid and the codes *)
(* spent are given by the caller.                                           *)
LEMMA IssueStep ==
    ASSUME Inv, NEW c \in Calls, NEW row \in CallRows,
           calls' = [calls EXCEPT ![c] = row], CallOK(c)',
           \A d \in Calls \ {c} : CarrierKept(d) /\ CodeKept(d) /\ Apart(c, d)',
           upstream' \in [last : Nat, valid : SUBSET Nat, codes : SUBSET Requests],
           upstream'.last >= upstream.last, UpstreamInv',
           cred.st = "ready" => cred.tok \in upstream'.valid,
           reused' = FALSE,
           UNCHANGED <<adminVars, cred, requests, consentVars, misled, limits>>
    PROVE  Inv'
<1>1. TypeOK'
  BY DEF Inv, TypeOK, adminVars, consentVars, limits
<1>2. RequestsKept /\ SecretKept
  BY DEF RequestsKept, SecretKept
<1>3. ASSUME NEW d \in Calls \ {c}
      PROVE  CallOK(d)'
  <2>1. CallOK(d) /\ calls'[d] = calls[d]
    BY DEF Inv, CallInv, TypeOK
  <2> QED BY <1>1, <1>2, <2>1, CallKept DEF Inv
<1>4. CallInv' /\ ApartInv'
  BY <1>3, CallsMove DEF Inv
<1>5. CredInv'
  <2>1. cred.tok \in Nat /\ upstream.last \in Nat /\ upstream'.last \in Nat
    BY <1>1 DEF Inv, TypeOK, CredentialRows
  <2>2. cred.tok <= upstream'.last
    BY <2>1 DEF Inv, CredInv
  <2> QED BY <2>2 DEF Inv, CredInv, adminVars
<1>6. RequestInv' /\ ConsentInv'
  BY DEF Inv, RequestInv, ConsentInv, ConsentOK, consentVars
<1> QED BY <1>1, <1>4, <1>5, <1>6 DEF Inv, NoSecretReuse, DeliveredAccountIsConsented

LEMMA ExchangeCodeStep ==
    ASSUME Inv, NEW c \in Calls, ExchangeCode(c)
    PROVE  Inv'
<1> DEFINE tok == upstream.last + 1
<1>0. calls[c] \in CallRows /\ CallOK(c) /\ calls[c].pc = "exchangeCode" /\ cred \in CredentialRows
  BY DEF Inv, TypeOK, CallInv, ExchangeCode
<1>t. upstream \in [last : Nat, valid : SUBSET Nat, codes : SUBSET Requests]
  BY DEF Inv, TypeOK
<1>u. UNCHANGED <<adminVars, cred, requests, consentVars, misled, limits>>
  BY DEF ExchangeCode
<1>1. /\ upstream'.last = tok /\ upstream'.valid = upstream.valid \cup {tok}
      /\ upstream'.codes = upstream.codes \cup calls[c].req
      /\ upstream' \in [last : Nat, valid : SUBSET Nat, codes : SUBSET Requests]
  <2>1. upstream' = [last |-> tok, valid |-> upstream.valid \cup {tok},
                     codes |-> upstream.codes \cup calls[c].req]
    BY DEF ExchangeCode
  <2> QED BY <1>0, <1>t, <2>1 DEF CallRows
<1>2. tok \in Nat /\ tok > upstream.last /\ tok \notin upstream.valid /\ cred.tok # tok
  BY <1>0, <1>t DEF Inv, UpstreamInv, CredInv, CredentialRows
<1>3. reused' = FALSE
  <2>1. calls[c].req \cap upstream.codes = {}
    BY <1>0 DEF CallOK
  <2> QED BY <2>1 DEF ExchangeCode, Inv, NoSecretReuse
<1>4. UpstreamInv'
  <2>1. upstream'.valid \subseteq 1..upstream'.last
    BY <1>1, <1>2, <1>t DEF Inv, UpstreamInv
  <2>2. \A q \in upstream'.codes : requests[q].st = "consumed"
    BY <1>0, <1>1 DEF Inv, UpstreamInv, CallOK
  <2> QED BY <1>u, <2>1, <2>2 DEF UpstreamInv
<1>5. cred.st = "ready" => cred.tok \in upstream'.valid
  BY <1>1 DEF Inv, CredInv
<1>6. ASSUME NEW d \in Calls \ {c}
      PROVE  CarrierKept(d) /\ CodeKept(d) /\ (calls[d].pc \in Carrying => calls[d].tok # tok)
  <2>1. CallOK(d)
    BY DEF Inv, CallInv
  <2>2. Apart(c, d)
    BY DEF Inv, ApartInv
  <2>3. CarrierKept(d)
    BY <1>u, <1>1, <2>1 DEF CarrierKept, CallOK, CarriedOK, Held, Binding
  <2>4. CodeKept(d)
    BY <1>0, <1>1, <2>1, <2>2 DEF CodeKept, CallOK, Apart
  <2>5. calls[d].pc \in Carrying => calls[d].tok # tok
    BY <1>2, <2>1 DEF CallOK, CarriedOK
  <2> QED BY <2>3, <2>4, <2>5
<1>7. ASSUME NEW row \in CallRows, calls' = [calls EXCEPT ![c] = row], CallOK(c)',
             row.pc = "idle" \/ (row.pc = "install" /\ row.tok = tok)
      PROVE  Inv'
  <2>1. ASSUME NEW d \in Calls \ {c}
        PROVE  Apart(c, d)'
    <3>1. calls'[c] = row /\ calls'[d] = calls[d]
      BY <1>7 DEF Inv, TypeOK
    <3> QED BY <1>6, <1>7, <3>1 DEF Apart, Carrying
  <2>2. upstream'.last >= upstream.last
    BY <1>1, <1>2, <1>t
  <2> QED BY <1>1, <1>3, <1>4, <1>5, <1>6, <1>7, <1>u, <2>1, <2>2, IssueStep
<1>8. CASE End(c)
  <2> DEFINE row == Idle
  <2>1. calls' = [calls EXCEPT ![c] = row] /\ calls'[c].pc = "idle" /\ row.pc = "idle"
    BY <1>8 DEF Inv, TypeOK, End, Idle
  <2>2. CallOK(c)'
    BY <2>1, IdleOK
  <2>3. row \in CallRows
    BY IdleTyped
  <2> HIDE DEF row
  <2> QED BY <1>7, <2>1, <2>2, <2>3
<1>9. ASSUME NEW a \in Accounts,
             calls' = [calls EXCEPT ![c] = [@ EXCEPT !.pc = "install", !.tok = tok, !.acct = a]]
      PROVE  Inv'
  <2> DEFINE row == [calls[c] EXCEPT !.pc = "install", !.tok = tok, !.acct = a]
  <2>1. /\ row \in CallRows /\ row.pc = "install" /\ row.tok = tok /\ row.req = calls[c].req
        /\ row.gen = calls[c].gen /\ row.ver = calls[c].ver
    BY <1>0, <1>2 DEF CallRows, Steps
  <2>2. calls' = [calls EXCEPT ![c] = row] /\ calls'[c] = row
    BY <1>9 DEF Inv, TypeOK
  <2> HIDE DEF row
  <2>3. RequestOK(c)'
    <3>1. RequestOK(c)
      BY <1>0 DEF CallOK, Connecting
    <3> QED BY <1>u, <2>1, <2>2, <3>1 DEF RequestOK
  <2>4. CarriedOK(c)'
    BY <1>1, <1>2, <1>u, <2>1, <2>2 DEF CarriedOK
  <2>5. CallOK(c)'
    BY <2>1, <2>2, <2>3, <2>4 DEF CallOK, Connecting, Refreshing, Carrying
  <2> QED BY <1>7, <2>1, <2>2, <2>5
<1> QED BY <1>8, <1>9 DEF ExchangeCode

(* A credential is put in the place of an absent or revoked one: the       *)
(* version moves, the generation grows, so every older consent and every   *)
(* call that read the row is fenced.                                       *)
LEMMA InstallStep ==
    ASSUME Inv, NEW c \in Calls, Install(c)
    PROVE  Inv'
<1>0. calls[c] \in CallRows /\ CallOK(c) /\ calls[c].pc = "install" /\ cred \in CredentialRows
  BY DEF Inv, TypeOK, CallInv, Install
<1>u. UNCHANGED <<adminVars, requests, consentVars, upstream, history, limits>> /\ End(c)
  BY DEF Install
<1>1. CASE cred' = cred
  BY <1>1, <1>u, EndStep
<1>2. CASE /\ ParentGuard(calls[c].gen) /\ Installable(calls[c].gen, calls[c].ver)
           /\ cred' = [st |-> "ready", gen |-> calls[c].gen, ver |-> calls[c].ver, claim |-> NoCall,
                       tok |-> calls[c].tok, acct |-> calls[c].acct]
  <2>1. calls[c].ver \in 0..MaxVersion
    <3>1. PICK q \in Requests : requests[q].ver = calls[c].ver
      BY <1>0 DEF CallOK, RequestOK, Connecting
    <3> QED BY <1>0, <3>1, SaasAssumption DEF Inv, RequestInv, CallRows
  <2>2. cred' \in CredentialRows
    BY <1>0, <1>2, <2>1 DEF CredentialRows, CallRows
  <2>3. calls' = [calls EXCEPT ![c] = Idle] /\ calls'[c].pc = "idle" /\ Idle.pc = "idle"
    BY <1>u DEF Inv, TypeOK, End, Idle
  <2>4. TypeOK'
    <3>1. calls' \in [Calls -> CallRows]
      BY <2>3, IdleTyped DEF Inv, TypeOK
    <3>2. (cred'.st = "refreshing") = (cred'.claim # NoCall)
      BY <1>2
    <3> QED BY <1>u, <2>2, <3>1, <3>2 DEF Inv, TypeOK, adminVars, consentVars, history, limits
  <2>5. cred.ver < cred'.ver /\ cred.gen < cred'.gen /\ cred'.gen = conn.gen
    <3>1. cred.gen \in Nat /\ cred.ver \in Nat /\ conn.gen \in Nat
      BY <1>0, SaasAssumption DEF CredentialRows, Inv, TypeOK
    <3>2. cred.gen <= conn.gen /\ conn.gen = calls[c].gen /\ conn.gen >= 1
      BY <1>2 DEF ParentGuard, Inv, CredInv
    <3>3. CASE cred.st = "none" /\ calls[c].ver = 1
      <4>1. cred.gen = 0 /\ cred.ver = 0
        BY <3>3 DEF Inv, CredInv
      <4>2. cred'.ver = 1 /\ cred'.gen = conn.gen
        BY <1>2, <3>2, <3>3
      <4> QED BY <3>1, <3>2, <4>1, <4>2
    <3>4. CASE cred.st = "revoked" /\ cred.gen # calls[c].gen /\ cred.ver + 1 = calls[c].ver
      BY <1>2, <3>1, <3>2, <3>4
    <3> QED BY <1>2, <3>3, <3>4 DEF Installable
  <2>6. RequestsKept /\ SecretKept
    BY <1>u, <2>5 DEF RequestsKept, SecretKept
  <2>7. CallOK(c)'
    BY <2>3, IdleOK
  <2>8. Quiet(c, Idle)
    BY <2>3 DEF Quiet, Carrying
  <2>9. ASSUME NEW d \in Calls \ {c}
        PROVE  CallOK(d)' /\ Apart(c, d)'
    <3>1. CallOK(d) /\ calls'[d] = calls[d]
      BY <2>3 DEF Inv, CallInv, TypeOK
    <3>2. Apart(c, d)
      BY DEF Inv, ApartInv
    <3>3. CarrierKept(d)
      BY <1>0, <1>2, <1>u, <3>1, <3>2 DEF CarrierKept, CallOK, CarriedOK, Apart, Carrying
    <3>4. CodeKept(d)
      BY <1>u, <3>1 DEF CodeKept, CallOK
    <3>5. CallOK(d)'
      BY <2>4, <2>6, <3>1, <3>3, <3>4, CallKept DEF Inv
    <3> QED BY <2>3, <2>8, <3>5, QuietApart DEF Inv
  <2>10. CallInv' /\ ApartInv'
    <3>1. Idle \in CallRows
      BY IdleTyped
    <3> HIDE DEF Idle
    <3> QED BY <2>3, <2>7, <2>9, <3>1, CallsMove DEF Inv
  <2>11. CredInv'
    <3>1. calls[c].tok \in upstream.valid /\ calls[c].tok <= upstream.last
      BY <1>0 DEF CallOK, CarriedOK, Carrying, Inv, UpstreamInv, TypeOK
    <3>2. cred'.gen <= conn.gen /\ conn.gen >= 1
      BY <2>5 DEF Inv, CredInv, TypeOK
    <3> QED BY <1>2, <1>u, <3>1, <3>2 DEF CredInv, adminVars
  <2>12. UpstreamInv' /\ RequestInv'
    BY <1>u DEF Inv, UpstreamInv, RequestInv
  <2>13. ConsentInv'
    <3>1. ASSUME NEW s, s.gen \in Nat, ConsentOK(s)
          PROVE  s.gen < cred'.gen
      BY <1>0, <2>2, <2>5, <3>1 DEF ConsentOK, CredentialRows
    <3>2. handoff.gen < cred'.gen
      BY <3>1 DEF Inv, ConsentInv, TypeOK, ConsentRows
    <3>3. ASSUME NEW g \in Grants
          PROVE  grants[g].gen < cred'.gen
      BY <3>1 DEF Inv, ConsentInv, TypeOK, ConsentRows
    <3>4. cred'.gen \in Nat /\ handoff.gen \in Nat /\ \A g \in Grants : grants[g].gen \in Nat
      BY <2>2 DEF CredentialRows, Inv, TypeOK, ConsentRows
    <3> QED BY <1>u, <3>2, <3>3, <3>4 DEF ConsentInv, ConsentOK, consentVars
  <2> QED BY <1>u, <2>4, <2>10, <2>11, <2>12, <2>13
          DEF Inv, NoSecretReuse, DeliveredAccountIsConsented, history
<1> QED BY <1>1, <1>2 DEF Install

-----------------------------------------------------------------------------
(* The refresh.                                                            *)

(* The credential changes within its generation and account.               *)
LEMMA CredStep ==
    ASSUME Inv, NEW c \in Calls, NEW row \in CallRows,
           calls' = [calls EXCEPT ![c] = row], CallOK(c)',
           \A d \in Calls \ {c} : CarrierKept(d) /\ Apart(c, d)',
           cred' \in CredentialRows, (cred'.st = "refreshing") = (cred'.claim # NoCall),
           cred'.gen = cred.gen, cred'.acct = cred.acct, SecretKept,
           cred'.st # "none", cred'.st = "ready" => cred'.tok \in upstream.valid,
           cred'.tok <= upstream.last,
           UNCHANGED <<adminVars, requests, consentVars, upstream, history, limits>>
    PROVE  Inv'
<1>0. calls' \in [Calls -> CallRows]
  BY DEF Inv, TypeOK
<1>1. TypeOK'
  BY <1>0 DEF Inv, TypeOK, adminVars, consentVars, history, limits
<1>2. RequestsKept
  BY DEF RequestsKept
<1>3. ASSUME NEW d \in Calls \ {c}
      PROVE  CallOK(d)'
  <2>1. CallOK(d) /\ calls'[d] = calls[d]
    BY DEF Inv, CallInv, TypeOK
  <2>2. CodeKept(d)
    BY <2>1 DEF CodeKept, CallOK
  <2> QED BY <1>1, <1>2, <2>1, <2>2, CallKept DEF Inv
<1>4. CallInv' /\ ApartInv'
  BY <1>3, CallsMove DEF Inv
<1>5. CredInv'
  BY DEF Inv, CredInv, adminVars
<1>6. UpstreamInv' /\ RequestInv' /\ ConsentInv'
  BY DEF Inv, UpstreamInv, RequestInv, ConsentInv, ConsentOK, consentVars
<1> QED BY <1>1, <1>4, <1>5, <1>6 DEF Inv, NoSecretReuse, DeliveredAccountIsConsented, history

(* While the credential is ready no call carries its token, so the caller  *)
(* whose claim applies is the only one to carry it.                        *)
LEMMA ClaimStep ==
    ASSUME Inv, NEW c \in Calls, ClaimRefresh(c)
    PROVE  Inv'
<1>0. calls[c] \in CallRows /\ CallOK(c) /\ calls[c].pc = "claim" /\ cred \in CredentialRows
  BY DEF Inv, TypeOK, CallInv, ClaimRefresh
<1>u. UNCHANGED <<adminVars, requests, consentVars, upstream, history, limits>>
  BY DEF ClaimRefresh
<1>1. CASE UNCHANGED cred /\ End(c)
  BY <1>1, <1>u, EndStep
<1>2. CASE /\ Claims(c) /\ cred' = [cred EXCEPT !.st = "refreshing", !.claim = c]
           /\ Goto(c, "exchange") \/ End(c)
  <2>1. cred.st = "ready" /\ cred.gen = calls[c].gen /\ cred.ver = calls[c].ver
    BY <1>2 DEF Claims, Binding
  <2>2. calls[c].tok = cred.tok /\ cred.tok \in upstream.valid /\ cred.tok <= upstream.last
    BY <1>0, <2>1 DEF CallOK, Inv, CredInv
  <2>3. /\ cred' \in CredentialRows /\ cred'.st = "refreshing" /\ cred'.claim = c
        /\ cred'.gen = cred.gen /\ cred'.ver = cred.ver /\ cred'.tok = cred.tok /\ cred'.acct = cred.acct
    BY <1>0, <1>2 DEF CredentialRows
  <2>4. (cred'.st = "refreshing") = (cred'.claim # NoCall)
    BY <2>3, SaasAssumption
  <2>5. SecretKept
    BY <2>3 DEF SecretKept
  <2>6. ASSUME NEW d \in Calls \ {c}
        PROVE  CarrierKept(d) /\ (calls[d].pc \in Carrying => calls[d].tok # cred.tok)
    <3>1. CallOK(d)
      BY DEF Inv, CallInv
    <3>2. calls[d].pc \in Carrying => calls[d].tok # cred.tok /\ calls[d].tok \in upstream.valid
      BY <2>1, <3>1 DEF CallOK, CarriedOK, Held
    <3> QED BY <1>u, <2>3, <3>2 DEF CarrierKept
  <2>7. ASSUME NEW row \in CallRows, calls' = [calls EXCEPT ![c] = row], CallOK(c)',
               row.pc = "idle" \/ (row.pc = "exchange" /\ row.tok = cred.tok)
        PROVE  Inv'
    <3>1. ASSUME NEW d \in Calls \ {c}
          PROVE  Apart(c, d)'
      <4>1. calls'[c] = row /\ calls'[d] = calls[d]
        BY <2>7 DEF Inv, TypeOK
      <4> QED BY <2>6, <2>7, <4>1 DEF Apart, Carrying
    <3> QED BY <1>u, <2>2, <2>3, <2>4, <2>5, <2>6, <2>7, <3>1, CredStep
  <2>8. CASE End(c)
    <3> DEFINE row == Idle
    <3>1. calls' = [calls EXCEPT ![c] = row] /\ calls'[c].pc = "idle" /\ row.pc = "idle"
      BY <2>8 DEF Inv, TypeOK, End, Idle
    <3>2. CallOK(c)'
      BY <3>1, IdleOK
    <3>3. row \in CallRows
      BY IdleTyped
    <3> HIDE DEF row
    <3> QED BY <2>7, <3>1, <3>2, <3>3
  <2>9. CASE Goto(c, "exchange")
    <3> DEFINE row == [calls[c] EXCEPT !.pc = "exchange"]
    <3>1. /\ row \in CallRows /\ row.pc = "exchange" /\ row.tok = calls[c].tok
          /\ row.gen = calls[c].gen /\ row.ver = calls[c].ver
      BY <1>0 DEF CallRows, Steps
    <3>2. calls' = [calls EXCEPT ![c] = row] /\ calls'[c] = row
      BY <2>9 DEF Inv, TypeOK, Goto
    <3> HIDE DEF row
    <3>3. CarriedOK(c)'
      BY <1>u, <2>1, <2>2, <2>3, <3>1, <3>2 DEF CarriedOK, Held, Binding
    <3>4. calls[c].ver < MaxVersion
      BY <1>0 DEF CallOK, Refreshing
    <3>5. CallOK(c)'
      BY <3>1, <3>2, <3>3, <3>4 DEF CallOK, Connecting, Refreshing, Carrying
    <3> QED BY <2>2, <2>7, <3>1, <3>2, <3>5
  <2> QED BY <1>2, <2>8, <2>9
<1> QED BY <1>1, <1>2 DEF ClaimRefresh

(* A call goes on with the token it carries. *)
LEMMA CarryStep ==
    ASSUME Inv, NEW c \in Calls, NEW step \in {"complete", "late"}, Goto(c, step),
           calls[c].pc \in {"exchange", "complete"},
           UNCHANGED <<adminVars, cred, requests, consentVars, upstream, history, limits>>
    PROVE  Inv'
<1> DEFINE row == [calls[c] EXCEPT !.pc = step]
<1>0. calls[c] \in CallRows /\ CallOK(c)
  BY DEF Inv, TypeOK, CallInv
<1>1. /\ row \in CallRows /\ row.pc = step /\ row.tok = calls[c].tok
      /\ row.gen = calls[c].gen /\ row.ver = calls[c].ver
  BY <1>0 DEF CallRows, Steps
<1>2. calls' = [calls EXCEPT ![c] = row] /\ calls'[c] = row
  BY DEF Inv, TypeOK, Goto
<1> HIDE DEF row
<1>3. CarriedOK(c)'
  <2>1. CarriedOK(c)
    BY <1>0 DEF CallOK, Carrying
  <2> QED BY <1>1, <1>2, <2>1 DEF CarriedOK, Held, Binding
<1>4. calls[c].ver < MaxVersion
  BY <1>0 DEF CallOK, Refreshing
<1>5. CallOK(c)'
  BY <1>1, <1>2, <1>3, <1>4 DEF CallOK, Connecting, Refreshing, Carrying
<1>6. Quiet(c, row)
  BY <1>1 DEF Quiet, Carrying
<1> QED BY <1>1, <1>2, <1>5, <1>6, CallStep

LEMMA ExchangeRefreshStep ==
    ASSUME Inv, NEW c \in Calls, ExchangeRefresh(c)
    PROVE  Inv'
<1> DEFINE old == calls[c].tok
           new == upstream.last + 1
<1>0. calls[c] \in CallRows /\ CallOK(c) /\ calls[c].pc = "exchange" /\ cred \in CredentialRows
  BY DEF Inv, TypeOK, CallInv, ExchangeRefresh
<1>t. upstream \in [last : Nat, valid : SUBSET Nat, codes : SUBSET Requests]
  BY DEF Inv, TypeOK
<1>u. UNCHANGED <<adminVars, cred, requests, consentVars, misled, limits>>
  BY DEF ExchangeRefresh
<1>1. old \in upstream.valid /\ CarriedOK(c)
  BY <1>0 DEF CallOK, CarriedOK, Carrying
<1>2. reused' = FALSE /\ reused = FALSE
  <2>1. reused = FALSE
    BY DEF Inv, TypeOK, NoSecretReuse
  <2>2. reused' = (reused \/ old \notin upstream.valid)
    BY DEF ExchangeRefresh
  <2> QED BY <1>1, <2>1, <2>2
<1>3. CASE UNCHANGED upstream /\ (Goto(c, "complete") \/ Goto(c, "mark"))
  <2>1. UNCHANGED <<adminVars, cred, requests, consentVars, upstream, history, limits>>
    BY <1>2, <1>3, <1>u DEF history
  <2>2. CASE Goto(c, "complete")
    BY <1>0, <2>1, <2>2, CarryStep
  <2>3. CASE Goto(c, "mark")
    BY <2>1, <2>3, MarkStep
  <2> QED BY <1>3, <2>2, <2>3
<1>4. CASE /\ upstream' = [last |-> new, valid |-> (upstream.valid \ {old}) \cup {new},
                         codes |-> upstream.codes]
           /\ \/ calls' = [calls EXCEPT ![c] = [@ EXCEPT !.pc = "complete", !.tok = new]]
              \/ Goto(c, "mark")
  <2>1. /\ upstream'.last = new /\ upstream'.valid = (upstream.valid \ {old}) \cup {new}
        /\ upstream'.codes = upstream.codes
        /\ upstream' \in [last : Nat, valid : SUBSET Nat, codes : SUBSET Requests]
    BY <1>4, <1>t
  <2>2. new \in Nat /\ new > upstream.last /\ new \notin upstream.valid /\ cred.tok # new
    BY <1>0, <1>t DEF Inv, UpstreamInv, CredInv, CredentialRows
  <2>3. UpstreamInv'
    <3>1. upstream'.valid \subseteq 1..upstream'.last
      BY <2>1, <2>2, <1>t DEF Inv, UpstreamInv
    <3> QED BY <1>u, <2>1, <3>1 DEF Inv, UpstreamInv
  <2>4. cred.st = "ready" => cred.tok \in upstream'.valid
    BY <1>1, <2>1 DEF Inv, CredInv, CarriedOK, Held
  <2>5. ASSUME NEW d \in Calls \ {c}
        PROVE  CarrierKept(d) /\ CodeKept(d) /\ (calls[d].pc \in Carrying => calls[d].tok # new)
    <3>1. CallOK(d)
      BY DEF Inv, CallInv
    <3>2. Apart(c, d)
      BY DEF Inv, ApartInv
    <3>3. CarrierKept(d)
      BY <1>0, <1>u, <2>1, <3>1, <3>2 DEF CarrierKept, CallOK, CarriedOK, Held, Binding, Apart, Carrying
    <3>4. CodeKept(d)
      BY <2>1, <3>1 DEF CodeKept, CallOK
    <3>5. calls[d].pc \in Carrying => calls[d].tok # new
      BY <2>2, <3>1 DEF CallOK, CarriedOK
    <3> QED BY <3>3, <3>4, <3>5
  <2>6. ASSUME NEW row \in CallRows, calls' = [calls EXCEPT ![c] = row], CallOK(c)',
               row.pc = "mark" \/ (row.pc = "complete" /\ row.tok = new)
        PROVE  Inv'
    <3>1. ASSUME NEW d \in Calls \ {c}
          PROVE  Apart(c, d)'
      <4>1. calls'[c] = row /\ calls'[d] = calls[d]
        BY <2>6 DEF Inv, TypeOK
      <4> QED BY <2>5, <2>6, <4>1 DEF Apart, Carrying
    <3>2. upstream'.last >= upstream.last
      BY <2>1, <2>2, <1>t
    <3> QED BY <1>2, <1>u, <2>1, <2>3, <2>4, <2>5, <2>6, <3>1, <3>2, IssueStep
  <2>7. CASE Goto(c, "mark")
    <3> DEFINE row == [calls[c] EXCEPT !.pc = "mark"]
    <3>1. row \in CallRows /\ row.pc = "mark"
      BY <1>0 DEF CallRows, Steps
    <3>2. calls' = [calls EXCEPT ![c] = row] /\ calls'[c] = row
      BY <2>7 DEF Inv, TypeOK, Goto
    <3> HIDE DEF row
    <3>3. CallOK(c)'
      BY <3>1, <3>2, IdleOK
    <3> QED BY <2>6, <3>1, <3>2, <3>3
  <2>8. CASE calls' = [calls EXCEPT ![c] = [@ EXCEPT !.pc = "complete", !.tok = new]]
    <3> DEFINE row == [calls[c] EXCEPT !.pc = "complete", !.tok = new]
    <3>1. row \in CallRows /\ row.pc = "complete" /\ row.tok = new /\ row.ver = calls[c].ver
      BY <1>0, <2>2 DEF CallRows, Steps
    <3>2. calls' = [calls EXCEPT ![c] = row] /\ calls'[c] = row
      BY <2>8 DEF Inv, TypeOK
    <3> HIDE DEF row
    <3>3. CarriedOK(c)'
      BY <1>u, <2>1, <2>2, <3>1, <3>2 DEF CarriedOK
    <3>4. calls[c].ver < MaxVersion
      BY <1>0 DEF CallOK, Refreshing
    <3>5. CallOK(c)'
      BY <3>1, <3>2, <3>3, <3>4 DEF CallOK, Connecting, Refreshing, Carrying
    <3> QED BY <2>6, <3>1, <3>2, <3>5
  <2> QED BY <1>4, <2>7, <2>8
<1> QED BY <1>1, <1>3, <1>4 DEF ExchangeRefresh

(* The rotation of a call that holds the claim, whatever the call does next. *)
LEMMA RotateStep ==
    ASSUME Inv, NEW c \in Calls, calls[c].pc \in {"complete", "late"}, Held(c),
           cred' = Rotated(c), NEW row \in CallRows, row.pc \in {"idle", "mark"},
           calls' = [calls EXCEPT ![c] = row],
           UNCHANGED <<adminVars, requests, consentVars, upstream, history, limits>>
    PROVE  Inv'
<1>0. calls[c] \in CallRows /\ CallOK(c) /\ cred \in CredentialRows
  BY DEF Inv, TypeOK, CallInv
<1>1. calls[c].ver < MaxVersion /\ calls[c].tok \in upstream.valid /\ cred.ver = calls[c].ver
  BY <1>0 DEF CallOK, Refreshing, Carrying, CarriedOK, Held, Binding
<1>2. /\ cred' \in CredentialRows /\ cred'.st = "ready" /\ cred'.claim = NoCall
      /\ cred'.gen = cred.gen /\ cred'.ver = cred.ver + 1
      /\ cred'.tok = calls[c].tok /\ cred'.acct = cred.acct
  <2>1. cred.ver + 1 \in 0..MaxVersion /\ calls[c].tok \in Nat
    BY <1>0, <1>1, SaasAssumption DEF CredentialRows, CallRows
  <2> QED BY <1>0, <2>1 DEF CredentialRows, Rotated
<1>3. SecretKept
  BY <1>0, <1>2, SaasAssumption DEF SecretKept, CredentialRows
<1>4. calls[c].tok <= upstream.last
  BY <1>1 DEF Inv, UpstreamInv, TypeOK
<1>5. calls'[c] = row
  BY DEF Inv, TypeOK
<1>6. CallOK(c)'
  BY <1>5, IdleOK
<1>7. ASSUME NEW d \in Calls \ {c}
      PROVE  CarrierKept(d) /\ Apart(c, d)'
  <2>1. CallOK(d)
    BY DEF Inv, CallInv
  <2>2. Apart(c, d)
    BY DEF Inv, ApartInv
  <2>3. CarrierKept(d)
    BY <1>2, <2>1, <2>2 DEF CarrierKept, CallOK, CarriedOK, Apart, Carrying
  <2>4. Quiet(c, row)
    BY DEF Quiet, Carrying
  <2> QED BY <2>3, <2>4, QuietApart DEF Inv
<1>8. (cred'.st = "refreshing") = (cred'.claim # NoCall)
  BY <1>2
<1> QED BY <1>1, <1>2, <1>3, <1>4, <1>6, <1>7, <1>8, CredStep

LEMMA CompleteStep ==
    ASSUME Inv, NEW c \in Calls, CompleteRefresh(c) \/ LateCompletion(c)
    PROVE  Inv'
<1>0. calls[c] \in CallRows
  BY DEF Inv, TypeOK
<1>u. UNCHANGED <<adminVars, requests, consentVars, upstream, history, limits>>
  BY DEF CompleteRefresh, LateCompletion
<1>p. calls[c].pc \in {"complete", "late"}
  BY DEF CompleteRefresh, LateCompletion
<1>1. CASE Completes(c) /\ cred' = Rotated(c) /\ End(c)
  <2> DEFINE row == Idle
  <2>1. calls' = [calls EXCEPT ![c] = row] /\ row \in CallRows /\ row.pc = "idle"
    BY <1>1, IdleTyped DEF End, Idle
  <2> HIDE DEF row
  <2> QED BY <1>1, <1>p, <1>u, <2>1, RotateStep DEF Completes
<1>2. CASE Completes(c) /\ cred' = Rotated(c) /\ Goto(c, "mark")
  <2> DEFINE row == [calls[c] EXCEPT !.pc = "mark"]
  <2>1. calls' = [calls EXCEPT ![c] = row] /\ row \in CallRows /\ row.pc = "mark"
    BY <1>0, <1>2 DEF Goto, CallRows, Steps
  <2> HIDE DEF row
  <2> QED BY <1>2, <1>p, <1>u, <2>1, RotateStep DEF Completes
<1>3. CASE Goto(c, "mark") /\ UNCHANGED cred
  BY <1>3, <1>u, MarkStep
<1>4. CASE CompleteRefresh(c) /\ Goto(c, "late") /\ UNCHANGED cred
  <2>1. calls[c].pc = "complete"
    BY <1>4 DEF CompleteRefresh
  <2> QED BY <1>4, <1>u, <2>1, CarryStep
<1>5. CASE End(c) /\ UNCHANGED cred
  BY <1>5, <1>u, EndStep
<1>6. CASE CompleteRefresh(c)
  BY <1>1, <1>2, <1>3, <1>4, <1>6 DEF CompleteRefresh
<1>7. CASE LateCompletion(c)
  BY <1>1, <1>5, <1>7 DEF LateCompletion
<1> QED BY <1>6, <1>7

-----------------------------------------------------------------------------
(* The credential goes out of use: a marker, a revocation, a trigger.      *)

Stops ==
    /\ cred' \in CredentialRows /\ cred'.st \in {"revoked", "uncertain"} /\ cred'.claim = NoCall
    /\ cred'.gen = cred.gen /\ cred'.ver = cred.ver /\ cred'.tok = cred.tok /\ cred'.acct = cred.acct

LEMMA StopCarrier ==
    ASSUME Inv, Stops, NEW d \in Calls, UNCHANGED upstream
    PROVE  CarrierKept(d)
BY DEF Inv, CallInv, CallOK, CarriedOK, CarrierKept, Stops

LEMMA StopStep ==
    ASSUME Inv, Stops, TypeOK', RequestsKept, RequestInv',
           UNCHANGED <<conn, calls, consentVars, upstream, history>>
    PROVE  Inv'
<1>1. SecretKept
  BY DEF SecretKept, Stops
<1>2. ASSUME NEW d \in Calls
      PROVE  CallOK(d)'
  <2>1. CallOK(d)
    BY DEF Inv, CallInv
  <2>2. CarrierKept(d)
    BY StopCarrier
  <2>3. CodeKept(d)
    BY <2>1 DEF CodeKept, CallOK
  <2> QED BY <1>1, <2>1, <2>2, <2>3, CallKept DEF Inv
<1>3. ApartInv'
  BY DEF Inv, ApartInv, Apart
<1>4. UpstreamInv'
  BY DEF Inv, UpstreamInv, RequestsKept, TypeOK
<1>5. CredInv'
  BY DEF Inv, CredInv, Stops
<1>6. ConsentInv'
  BY DEF Inv, ConsentInv, ConsentOK, Stops, consentVars
<1> QED BY <1>2, <1>3, <1>4, <1>5, <1>6
       DEF Inv, CallInv, NoSecretReuse, DeliveredAccountIsConsented, history

LEMMA MarkRefreshStep ==
    ASSUME Inv, NEW c \in Calls, MarkRefreshUncertain(c)
    PROVE  Inv'
<1>0. cred \in CredentialRows
  BY DEF Inv, TypeOK
<1>u. UNCHANGED <<adminVars, requests, consentVars, upstream, history, limits>>
  BY DEF MarkRefreshUncertain
<1>1. Stops
  BY <1>0 DEF Stops, CredentialRows, MarkRefreshUncertain
<1>2. CASE UNCHANGED calls
  <2>1. TypeOK'
    BY <1>1, <1>2, <1>u DEF Inv, TypeOK, Stops, adminVars, consentVars, history, limits
  <2>2. RequestsKept /\ RequestInv'
    BY <1>u DEF RequestsKept, RequestInv, Inv
  <2> QED BY <1>1, <1>2, <1>u, <2>1, <2>2, StopStep DEF adminVars
<1>3. CASE End(c)
  <2> DEFINE row == Idle
  <2>1. calls' = [calls EXCEPT ![c] = row] /\ row \in CallRows /\ row.pc = "idle"
    BY <1>3, IdleTyped DEF End, Idle
  <2> HIDE DEF row
  <2>2. CallOK(c)'
    <3>1. calls'[c].pc = "idle"
      BY <2>1 DEF Inv, TypeOK
    <3> QED BY <3>1, IdleOK
  <2>3. ASSUME NEW d \in Calls \ {c}
        PROVE  CarrierKept(d) /\ Apart(c, d)'
    <3>1. CarrierKept(d)
      BY <1>1, <1>u, StopCarrier
    <3>2. Quiet(c, row)
      BY <2>1 DEF Quiet, Carrying
    <3> QED BY <2>1, <3>1, <3>2, QuietApart DEF Inv
  <2>4. /\ cred' \in CredentialRows /\ cred'.gen = cred.gen /\ cred'.acct = cred.acct
        /\ cred'.st # "none" /\ cred'.st # "ready" /\ cred'.tok <= upstream.last
        /\ (cred'.st = "refreshing") = (cred'.claim # NoCall)
    BY <1>1 DEF Stops, Inv, CredInv
  <2>5. SecretKept
    BY <1>1 DEF SecretKept, Stops
  <2> QED BY <1>u, <2>1, <2>2, <2>3, <2>4, <2>5, CredStep
<1> QED BY <1>2, <1>3 DEF MarkRefreshUncertain

LEMMA RevokeStep ==
    ASSUME Inv, RevokeOAuth2
    PROVE  Inv'
<1>0. cred \in CredentialRows /\ changes' \in Nat
  BY DEF Inv, TypeOK, RevokeOAuth2, Change
<1>u. UNCHANGED <<adminVars, requests, consentVars, calls, upstream, history, kinds>>
  BY DEF RevokeOAuth2
<1>1. Stops
  BY <1>0 DEF Stops, CredentialRows, RevokeOAuth2
<1>2. TypeOK'
  BY <1>0, <1>1, <1>u DEF Inv, TypeOK, Stops, adminVars, consentVars, history
<1>3. RequestsKept /\ RequestInv'
  BY <1>u DEF RequestsKept, RequestInv, Inv
<1> QED BY <1>1, <1>2, <1>3, <1>u, StopStep DEF adminVars

LEMMA UpdateDefinitionStep ==
    ASSUME Inv, NEW enabled \in BOOLEAN, NEW listed \in BOOLEAN, UpdateDefinition(enabled, listed)
    PROVE  Inv'
<1>0. cred \in CredentialRows /\ changes' \in Nat /\ requests \in [Requests -> RequestRows]
  BY DEF Inv, TypeOK, UpdateDefinition, Change
<1>u. UNCHANGED <<conn, prov, owner, client, consentVars, calls, upstream, history, kinds>>
  BY DEF UpdateDefinition
<1>c. coll' \in [enabled : BOOLEAN, listed : BOOLEAN]
  BY DEF UpdateDefinition
<1>1. /\ requests' \in [Requests -> RequestRows]
      /\ \A q \in Requests : /\ requests'[q].st = requests[q].st
                             /\ requests'[q].gen = requests[q].gen
                             /\ requests'[q].ver = requests[q].ver
  <2>1. CASE requests' = requests
    BY <1>0, <2>1
  <2>2. CASE requests' = [q \in Requests |-> [requests[q] EXCEPT !.void = requests[q].st # "none"]]
    <3>1. ASSUME NEW q \in Requests
          PROVE  /\ requests'[q] \in RequestRows /\ requests'[q].st = requests[q].st
                 /\ requests'[q].gen = requests[q].gen /\ requests'[q].ver = requests[q].ver
      <4>1. requests[q] \in RequestRows /\ (requests[q].st # "none") \in BOOLEAN
        BY <1>0
      <4> QED BY <2>2, <4>1 DEF RequestRows
    <3>2. requests' = [q \in Requests |-> requests'[q]]
      BY <2>2
    <3> QED BY <3>1, <3>2
  <2> QED BY <2>1, <2>2 DEF UpdateDefinition
<1>2. RequestsKept /\ RequestInv'
  BY <1>1 DEF RequestsKept, RequestInv, Inv
<1>3. CASE cred' = cred
  <2>1. TypeOK'
    BY <1>0, <1>c, <1>1, <1>3, <1>u DEF Inv, TypeOK, consentVars, history
  <2>2. ConsentInv'
    BY <1>3, <1>u DEF Inv, ConsentInv, ConsentOK, consentVars
  <2>3. conn'.gen >= conn.gen
    BY <1>u DEF Inv, TypeOK
  <2> QED BY <1>2, <1>3, <1>u, <2>1, <2>2, <2>3, QuietTables
<1>4. CASE cred' = [cred EXCEPT !.st = "revoked", !.claim = NoCall]
  <2>1. Stops
    BY <1>0, <1>4 DEF Stops, CredentialRows
  <2>2. TypeOK'
    BY <1>0, <1>c, <1>1, <1>u, <2>1 DEF Inv, TypeOK, Stops, consentVars, history
  <2> QED BY <1>2, <1>u, <2>1, <2>2, StopStep
<1> QED BY <1>3, <1>4 DEF UpdateDefinition

-----------------------------------------------------------------------------
(* Requests, consents and administration.                                  *)

(* A step that changes neither requests, consents, the credential, the     *)
(* provider nor a call.                                                    *)
LEMMA AdminStep ==
    ASSUME Inv, TypeOK', conn'.gen >= conn.gen,
           UNCHANGED <<cred, requests, consentVars, calls, upstream, history>>
    PROVE  Inv'
<1>1. RequestsKept /\ RequestInv'
  BY DEF RequestsKept, RequestInv, Inv
<1>2. ConsentInv'
  BY DEF Inv, ConsentInv, ConsentOK, consentVars
<1> QED BY <1>1, <1>2, QuietTables

LEMMA AdminSteps ==
    ASSUME Inv, NEW on \in BOOLEAN, NEW rescoped \in BOOLEAN,
           \/ PrepareOAuth2Reconnect \/ DeleteConnection
           \/ UpdateProvider(on) \/ UpdateClient(on, rescoped) \/ UpdateOwner(on)
    PROVE  Inv'
<1>1. changes' \in Nat /\ UNCHANGED <<coll, cred, requests, consentVars, calls, upstream, history, kinds>>
  BY DEF Inv, TypeOK, Change, PrepareOAuth2Reconnect, DeleteConnection, UpdateProvider,
         UpdateClient, UpdateOwner
<1>2. conn' \in [live : BOOLEAN, gen : Nat] /\ conn'.gen >= conn.gen
  <2>1. conn \in [live : BOOLEAN, gen : Nat]
    BY DEF Inv, TypeOK
  <2>2. \/ conn' = [conn EXCEPT !.gen = @ + 1] \/ conn' = [conn EXCEPT !.live = FALSE]
        \/ conn' = conn
    BY DEF PrepareOAuth2Reconnect, DeleteConnection, UpdateProvider, UpdateClient, UpdateOwner
  <2>3. CASE conn' = [conn EXCEPT !.gen = @ + 1]
    BY <2>1, <2>3
  <2>4. CASE conn' = [conn EXCEPT !.live = FALSE]
    <3>1. conn' \in [live : BOOLEAN, gen : Nat] /\ conn'.gen = conn.gen
      BY <2>1, <2>4
    <3> QED BY <2>1, <3>1
  <2>5. CASE conn' = conn
    BY <2>1, <2>5
  <2> QED BY <2>2, <2>3, <2>4, <2>5
<1>3. prov' \in [on : BOOLEAN, rev : Nat] /\ owner' \in BOOLEAN
  BY DEF Inv, TypeOK, PrepareOAuth2Reconnect, DeleteConnection, UpdateProvider,
         UpdateClient, UpdateOwner
<1>4. client' \in [on : BOOLEAN, gen : Nat]
  BY DEF Inv, TypeOK, PrepareOAuth2Reconnect, DeleteConnection, UpdateProvider,
         UpdateClient, UpdateOwner
<1>5. TypeOK'
  BY <1>1, <1>2, <1>3, <1>4 DEF Inv, TypeOK, consentVars, history
<1> QED BY <1>1, <1>2, <1>5, AdminStep

LEMMA RequestSteps ==
    ASSUME Inv, NEW q \in Requests, BeginOAuth2(q) \/ ExpireRequest(q)
    PROVE  Inv'
<1>u. UNCHANGED <<adminVars, cred, consentVars, calls, upstream, history, limits>>
  BY DEF BeginOAuth2, ExpireRequest
<1>0. requests \in [Requests -> RequestRows] /\ requests[q] \in RequestRows
  BY DEF Inv, TypeOK
<1>1. ASSUME NEW row \in RequestRows, requests' = [requests EXCEPT ![q] = row],
             row.ver <= MaxVersion,
             requests[q].st # "none" => /\ row.st = requests[q].st /\ row.gen = requests[q].gen
                                        /\ row.ver = requests[q].ver
      PROVE  Inv'
  <2>1. \A x \in Requests : requests'[x] = IF x = q THEN row ELSE requests[x]
    BY <1>0, <1>1
  <2>2. requests' \in [Requests -> RequestRows]
    BY <1>0, <1>1
  <2>3. TypeOK'
    BY <1>u, <2>2 DEF Inv, TypeOK, adminVars, consentVars, history, limits
  <2>4. RequestsKept
    BY <1>1, <2>1 DEF RequestsKept
  <2>5. RequestInv'
    BY <1>1, <2>1 DEF Inv, RequestInv
  <2>6. ConsentInv' /\ conn'.gen >= conn.gen
    BY <1>u DEF Inv, ConsentInv, ConsentOK, consentVars, adminVars, TypeOK
  <2> QED BY <1>u, <2>3, <2>4, <2>5, <2>6, QuietTables
<1>2. CASE BeginOAuth2(q)
  <2> DEFINE row == [st |-> "open", gen |-> conn.gen, ver |-> cred.ver + 1, rev |-> prov.rev,
                     void |-> FALSE]
  <2>1. row \in RequestRows /\ row.ver <= MaxVersion
    <3>1. conn.gen \in Nat /\ cred.ver + 1 \in Nat /\ prov.rev \in Nat
      BY SaasAssumption DEF Inv, TypeOK, CredentialRows
    <3> QED BY <1>2, <3>1 DEF RequestRows, BeginOAuth2
  <2>2. requests' = [requests EXCEPT ![q] = row] /\ requests[q].st = "none"
    BY <1>2 DEF BeginOAuth2
  <2> HIDE DEF row
  <2> QED BY <1>1, <2>1, <2>2
<1>3. CASE ExpireRequest(q)
  <2> DEFINE row == [requests[q] EXCEPT !.void = TRUE]
  <2>1. /\ row \in RequestRows /\ row.st = requests[q].st /\ row.gen = requests[q].gen
        /\ row.ver = requests[q].ver
    BY <1>0 DEF RequestRows
  <2>2. row.ver <= MaxVersion
    BY <2>1 DEF Inv, RequestInv
  <2>3. requests' = [requests EXCEPT ![q] = row]
    BY <1>3 DEF ExpireRequest
  <2> HIDE DEF row
  <2> QED BY <1>1, <2>1, <2>2, <2>3
<1> QED BY <1>2, <1>3

GrantStates == {"none", "live", "revoked"}
HandoffStates == {"none", "pending", "approved", "denied"}

(* A grant and the handoff are written with consents that fit the           *)
(* credential.                                                              *)
LEMMA ConsentStep ==
    ASSUME Inv, grants' \in [Grants -> ConsentRows(GrantStates)], handoff' \in ConsentRows(HandoffStates),
           ConsentOK(handoff'), \A g \in Grants : ConsentOK(grants'[g]), changes' \in Nat,
           UNCHANGED <<adminVars, cred, requests, calls, upstream, history, kinds>>
    PROVE  Inv'
<1>1. TypeOK'
  BY DEF Inv, TypeOK, adminVars, history, GrantStates, HandoffStates
<1>2. RequestsKept /\ RequestInv'
  BY DEF RequestsKept, RequestInv, Inv
<1>3. ConsentInv' /\ conn'.gen >= conn.gen
  BY DEF ConsentInv, ConsentOK, adminVars, Inv, TypeOK
<1> QED BY <1>1, <1>2, <1>3, QuietTables

(* One grant changes to a consent that fits. *)
LEMMA GrantStep ==
    ASSUME Inv, NEW g \in Grants, NEW row \in ConsentRows(GrantStates), ConsentOK(row),
           grants' = [grants EXCEPT ![g] = row]
    PROVE  /\ grants' \in [Grants -> ConsentRows(GrantStates)]
           /\ \A x \in Grants : ConsentOK(grants'[x])
<1>1. grants \in [Grants -> ConsentRows(GrantStates)] /\ \A x \in Grants : ConsentOK(grants[x])
  BY DEF Inv, TypeOK, ConsentInv, GrantStates
<1>2. grants' \in [Grants -> ConsentRows(GrantStates)]
  BY <1>1
<1>3. ASSUME NEW x \in Grants
      PROVE  ConsentOK(grants'[x])
  <2>1. grants'[x] = IF x = g THEN row ELSE grants[x]
    BY <1>1
  <2> QED BY <1>1, <2>1
<1> QED BY <1>2, <1>3

(* What a consent that is given now records. *)
LEMMA FreshConsent ==
    ASSUME Inv, NEW st, NEW ver \in Nat, NEW refresh \in BOOLEAN, cred.gen = conn.gen
    PROVE  /\ Consent(st, ver, refresh) \in ConsentRows({st})
           /\ ConsentOK(Consent(st, ver, refresh))
<1>1. conn.gen \in Nat /\ client.gen \in Nat /\ prov.rev \in Nat /\ cred.acct \in Accounts
  BY DEF Inv, TypeOK, CredentialRows
<1> QED BY <1>1 DEF Consent, ConsentRows, ConsentOK

LEMMA HandoffSteps ==
    ASSUME Inv, NEW refresh \in BOOLEAN, CreateUseHandoff(refresh) \/ DenyUseHandoff
    PROVE  Inv'
<1>u. /\ UNCHANGED <<adminVars, cred, requests, calls, upstream, history, kinds>> /\ changes' \in Nat
  BY DEF CreateUseHandoff, DenyUseHandoff, limits, Inv, TypeOK
<1>0. /\ handoff \in ConsentRows(HandoffStates) /\ ConsentOK(handoff)
      /\ grants \in [Grants -> ConsentRows(GrantStates)] /\ \A x \in Grants : ConsentOK(grants[x])
  BY DEF Inv, TypeOK, ConsentInv, GrantStates, HandoffStates
<1>2. CASE CreateUseHandoff(refresh)
  <2> DEFINE row == Consent("pending", cred.ver, refresh)
  <2>1. cred.gen = conn.gen /\ cred.ver \in Nat
    BY <1>2, SaasAssumption DEF CreateUseHandoff, UsePolicy, Inv, TypeOK, CredentialRows
  <2>2. row \in ConsentRows({"pending"}) /\ ConsentOK(row)
    BY <2>1, FreshConsent
  <2>3. row \in ConsentRows(HandoffStates)
    BY <2>2 DEF ConsentRows, HandoffStates
  <2>4. handoff' = row /\ grants' = grants
    BY <1>2 DEF CreateUseHandoff
  <2> HIDE DEF row
  <2> QED BY <1>0, <1>u, <2>2, <2>3, <2>4, ConsentStep
<1>4. CASE DenyUseHandoff
  <2> DEFINE kept == [handoff EXCEPT !.st = "denied"]
  <2>1. kept \in ConsentRows(HandoffStates) /\ kept.gen = handoff.gen /\ kept.acct = handoff.acct
    BY <1>0 DEF ConsentRows, HandoffStates
  <2>2. handoff' = kept /\ grants' = grants
    BY <1>4 DEF DenyUseHandoff
  <2> HIDE DEF kept
  <2>3. ConsentOK(kept)
    BY <1>0, <2>1 DEF ConsentOK
  <2> QED BY <1>0, <1>u, <2>1, <2>2, <2>3, ConsentStep
<1> QED BY <1>2, <1>4

LEMMA GrantSteps ==
    ASSUME Inv, NEW g \in Grants, NEW refresh \in BOOLEAN,
           CreateUseGrant(g, refresh) \/ ApproveUseHandoff(g) \/ RevokeUseGrant(g)
    PROVE  Inv'
<1>u. /\ UNCHANGED <<adminVars, cred, requests, calls, upstream, history, kinds>> /\ changes' \in Nat
  BY DEF CreateUseGrant, ApproveUseHandoff, RevokeUseGrant, Change, limits, Inv, TypeOK
<1>0. /\ grants[g] \in ConsentRows(GrantStates) /\ handoff \in ConsentRows(HandoffStates)
      /\ ConsentOK(grants[g]) /\ ConsentOK(handoff)
      /\ grants \in [Grants -> ConsentRows(GrantStates)] /\ \A x \in Grants : ConsentOK(grants[x])
  BY DEF Inv, TypeOK, ConsentInv, GrantStates, HandoffStates
<1>1. CASE CreateUseGrant(g, refresh)
  <2> DEFINE row == Consent("live", 0, refresh)
  <2>1. cred.gen = conn.gen
    BY <1>1 DEF CreateUseGrant, UsePolicy
  <2>2. row \in ConsentRows({"live"}) /\ ConsentOK(row)
    BY <2>1, FreshConsent
  <2>3. row \in ConsentRows(GrantStates)
    BY <2>2 DEF ConsentRows, GrantStates
  <2>4. grants' = [grants EXCEPT ![g] = row] /\ handoff' = handoff
    BY <1>1 DEF CreateUseGrant
  <2> HIDE DEF row
  <2>5. /\ grants' \in [Grants -> ConsentRows(GrantStates)] /\ \A x \in Grants : ConsentOK(grants'[x])
    BY <2>2, <2>3, <2>4, GrantStep
  <2> QED BY <1>0, <1>u, <2>4, <2>5, ConsentStep
<1>3. CASE ApproveUseHandoff(g)
  <2> DEFINE row == [handoff EXCEPT !.st = "live", !.ver = 0]
             kept == [handoff EXCEPT !.st = "approved"]
  <2>1. row \in ConsentRows(GrantStates) /\ row.gen = handoff.gen /\ row.acct = handoff.acct
    BY <1>0 DEF ConsentRows, GrantStates
  <2>2. kept \in ConsentRows(HandoffStates) /\ kept.gen = handoff.gen /\ kept.acct = handoff.acct
    BY <1>0 DEF ConsentRows, HandoffStates
  <2>3. grants' = [grants EXCEPT ![g] = row] /\ handoff' = kept
    BY <1>3 DEF ApproveUseHandoff
  <2> HIDE DEF row, kept
  <2>4. ConsentOK(row) /\ ConsentOK(kept)
    BY <1>0, <2>1, <2>2 DEF ConsentOK
  <2>5. /\ grants' \in [Grants -> ConsentRows(GrantStates)] /\ \A x \in Grants : ConsentOK(grants'[x])
    BY <2>1, <2>3, <2>4, GrantStep
  <2> QED BY <1>u, <2>2, <2>3, <2>4, <2>5, ConsentStep
<1>5. CASE RevokeUseGrant(g)
  <2> DEFINE row == [grants[g] EXCEPT !.st = "revoked"]
  <2>1. row \in ConsentRows(GrantStates) /\ row.gen = grants[g].gen /\ row.acct = grants[g].acct
    BY <1>0 DEF ConsentRows, GrantStates
  <2>2. grants' = [grants EXCEPT ![g] = row] /\ handoff' = handoff
    BY <1>5 DEF RevokeUseGrant
  <2> HIDE DEF row
  <2>3. ConsentOK(row)
    BY <1>0, <2>1 DEF ConsentOK
  <2>4. /\ grants' \in [Grants -> ConsentRows(GrantStates)] /\ \A x \in Grants : ConsentOK(grants'[x])
    BY <2>1, <2>2, <2>3, GrantStep
  <2> QED BY <1>0, <1>u, <2>2, <2>4, ConsentStep
<1> QED BY <1>1, <1>3, <1>5

-----------------------------------------------------------------------------
(* The inductive invariant.                                                *)

LEMMA InitInv == Init => Inv
<1> SUFFICES ASSUME Init
             PROVE  Inv
  OBVIOUS
<1>0. AnAccount \in Accounts
  BY SaasAssumption DEF AnAccount
<1>1. PICK s \in Scenarios :
        /\ cred = IF s.ready THEN [NoCredential EXCEPT !.st = "ready", !.gen = 1, !.ver = 1, !.tok = 1]
                  ELSE NoCredential
        /\ upstream = IF s.ready THEN [last |-> 1, valid |-> {1}, codes |-> {}]
                      ELSE [last |-> 0, valid |-> {}, codes |-> {}]
        /\ kinds = s.kinds /\ changes = s.changes
  BY DEF Init
<1>2. /\ conn = [live |-> TRUE, gen |-> 1] /\ coll = [enabled |-> TRUE, listed |-> TRUE]
      /\ prov = [on |-> TRUE, rev |-> 1] /\ owner = TRUE /\ client = [on |-> TRUE, gen |-> 1]
      /\ requests = [q \in Requests |-> NoRequest] /\ grants = [g \in Grants |-> NoConsent]
      /\ handoff = NoConsent /\ calls = [c \in Calls |-> Idle]
      /\ reused = FALSE /\ misled = {}
  BY DEF Init
<1>3. s.kinds \subseteq Kinds /\ s.changes \in Nat /\ s.ready \in BOOLEAN
  BY SaasAssumption
<1>4. /\ cred \in CredentialRows /\ cred.claim = NoCall /\ cred.st \in {"none", "ready"}
      /\ cred.gen \in {0, 1} /\ cred.acct = AnAccount /\ cred.gen <= 1
      /\ cred.st = "none" => cred.gen = 0 /\ cred.ver = 0
      /\ cred.st = "ready" => s.ready /\ cred.tok = 1
      /\ cred.st = "none" => cred.tok = 0
      /\ cred.st = "none" <=> ~s.ready
  <2>1. CASE s.ready
    <3>1. cred = [NoCredential EXCEPT !.st = "ready", !.gen = 1, !.ver = 1, !.tok = 1]
      BY <1>1, <2>1
    <3>2. NoCredential \in CredentialRows /\ 1 \in 0..MaxVersion
      BY <1>0, SaasAssumption DEF NoCredential, CredentialRows
    <3>3. cred \in CredentialRows
      BY <3>1, <3>2 DEF CredentialRows
    <3>4. /\ cred.st = "ready" /\ cred.gen = 1 /\ cred.tok = 1
          /\ cred.claim = NoCall /\ cred.acct = AnAccount
      BY <3>1 DEF NoCredential
    <3> QED BY <2>1, <3>3, <3>4
  <2>2. CASE ~s.ready
    BY <1>0, <1>1, <2>2, SaasAssumption DEF NoCredential, CredentialRows
  <2> QED BY <2>1, <2>2
<1>5. TypeOK
  <2>1. NoRequest \in RequestRows
    BY DEF NoRequest, RequestRows
  <2>2. \A states : "none" \in states => NoConsent \in ConsentRows(states)
    BY <1>0 DEF NoConsent, ConsentRows
  <2>3. calls \in [Calls -> CallRows]
    BY <1>2, IdleTyped
  <2>4. upstream \in [last : Nat, valid : SUBSET Nat, codes : SUBSET Requests]
    BY <1>1
  <2>5. requests \in [Requests -> RequestRows]
    BY <1>2, <2>1
  <2>6. /\ grants \in [Grants -> ConsentRows({"none", "live", "revoked"})]
        /\ handoff \in ConsentRows({"none", "pending", "approved", "denied"})
    BY <1>2, <2>2
  <2> QED BY <1>1, <1>2, <1>3, <1>4, <2>3, <2>4, <2>5, <2>6 DEF TypeOK
<1>6. CredInv
  BY <1>1, <1>2, <1>4 DEF CredInv
<1>7. UpstreamInv
  BY <1>1 DEF UpstreamInv
<1>8. RequestInv
  BY <1>2, SaasAssumption DEF RequestInv, NoRequest
<1>9. ConsentInv
  BY <1>2, <1>4 DEF ConsentInv, ConsentOK, NoConsent
<1>10. \A c \in Calls : calls[c].pc = "idle"
  BY <1>2 DEF Idle
<1>11. CallInv /\ ApartInv
  BY <1>10 DEF CallInv, CallOK, ApartInv, Apart, Connecting, Refreshing, Carrying
<1> QED BY <1>2, <1>5, <1>6, <1>7, <1>8, <1>9, <1>11 DEF Inv, NoSecretReuse, DeliveredAccountIsConsented

LEMMA StutterStep == ASSUME Inv, UNCHANGED vars PROVE Inv'
BY AdminStep DEF vars, adminVars, consentVars, history, limits, Inv, TypeOK

LEMMA CallNextStep ==
    ASSUME Inv, NEW c \in Calls, CallNext(c)
    PROVE  Inv'
<1>1. CASE \E q \in Requests : StartCallback(c, q)
  BY <1>1, StartCallbackStep
<1>2. CASE \E under \in {{}} \cup {{g} : g \in Grants} : StartRefresh(c, under)
  <2>1. PICK under \in {{}} \cup {{g} : g \in Grants} : StartRefresh(c, under)
    BY <1>2
  <2>2. under \in SUBSET Grants
    BY <2>1
  <2> QED BY <2>1, <2>2, StartRefreshStep
<1>3. CASE \E g \in Grants : StartDelivery(c, g)
  BY <1>3, StartDeliveryStep
<1>4. CASE Crash(c)
  BY <1>4, EndStep DEF Crash
<1> QED BY <1>1, <1>2, <1>3, <1>4, ConsumeStep, ExchangeCodeStep, InstallStep, ClaimStep,
           ExchangeRefreshStep, CompleteStep, MarkRefreshStep, LoadForDeliveryStep, DeliverStep,
           AuthorityLapsesStep DEF CallNext

LEMMA NextInv == Inv /\ [Next]_vars => Inv'
<1> SUFFICES ASSUME Inv, [Next]_vars
             PROVE  Inv'
  OBVIOUS
<1>1. CASE \E c \in Calls : CallNext(c)
  BY <1>1, CallNextStep
<1>2. CASE OwnerNext
  <2>1. CASE \E q \in Requests : BeginOAuth2(q) \/ ExpireRequest(q)
    BY <2>1, RequestSteps
  <2>2. CASE RevokeOAuth2
    BY <2>2, RevokeStep
  <2>3. CASE PrepareOAuth2Reconnect \/ DeleteConnection
    <3>1. TRUE \in BOOLEAN
      OBVIOUS
    <3> QED BY <2>3, <3>1, AdminSteps
  <2>4. CASE \E refresh \in BOOLEAN :
               CreateUseHandoff(refresh) \/ \E g \in Grants : CreateUseGrant(g, refresh)
    BY <2>4, HandoffSteps, GrantSteps
  <2>5. CASE \E g \in Grants : ApproveUseHandoff(g) \/ RevokeUseGrant(g)
    <3>1. TRUE \in BOOLEAN
      OBVIOUS
    <3> QED BY <2>5, <3>1, GrantSteps
  <2>6. CASE DenyUseHandoff
    <3>1. TRUE \in BOOLEAN
      OBVIOUS
    <3> QED BY <2>6, <3>1, HandoffSteps
  <2> QED BY <1>2, <2>1, <2>2, <2>3, <2>4, <2>5, <2>6 DEF OwnerNext
<1>3. CASE AdminNext
  BY <1>3, AdminSteps, UpdateDefinitionStep DEF AdminNext
<1>4. CASE UNCHANGED vars
  BY <1>4, StutterStep
<1> QED BY <1>1, <1>2, <1>3, <1>4 DEF Next

-----------------------------------------------------------------------------
(* The theorems.                                                           *)

LEMMA InvHolds == Spec => []Inv
BY InitInv, NextInv, PTL DEF Spec

(* Every row and call keeps its type, and the claim column is set exactly  *)
(* while the credential is refreshing (credential_store.go).               *)
THEOREM SaasTypeOK == Spec => []TypeOK
<1>1. Inv => TypeOK
  BY DEF Inv
<1> QED BY <1>1, InvHolds, PTL

(* However many refreshes, callbacks, crashes, lost answers and late       *)
(* commits there are, no replaced refresh token and no spent code is       *)
(* presented to the provider (refresh.go, authorization_store.go).         *)
THEOREM SecretsArePresentedOnce == Spec => []NoSecretReuse
<1>1. Inv => NoSecretReuse
  BY DEF Inv
<1> QED BY <1>1, InvHolds, PTL

(* A ready credential of the current generation holds a token that the     *)
(* provider accepts (Install and CompleteRefresh of credential_store.go).  *)
THEOREM ReadyCredentialWorks == Spec => []ReadyTokenIsLive
<1>1. Inv => ReadyTokenIsLive
  BY DEF Inv, CredInv, ReadyTokenIsLive
<1> QED BY <1>1, InvHolds, PTL

(* A delivery hands out tokens of the consented account only, through      *)
(* revocations, reconnections and consents under review                    *)
(* (oauth2_delivery.go, use_grant.go).                                     *)
THEOREM DeliveriesAreConsented == Spec => []DeliveredAccountIsConsented
<1>1. Inv => DeliveredAccountIsConsented
  BY DEF Inv
<1> QED BY <1>1, InvHolds, PTL

(* A step that takes a revoked credential out of that state. *)
Revival ==
    (cred.st = "revoked" /\ cred'.st # "revoked") =>
        /\ cred'.gen > cred.gen
        /\ \E q \in Requests : requests[q].st = "consumed" /\ requests[q].gen = cred'.gen

LEMMA RevivalStep ==
    ASSUME Inv, [Next]_vars
    PROVE  Revival
<1> SUFFICES ASSUME cred.st = "revoked", cred'.st # "revoked"
             PROVE  /\ cred'.gen > cred.gen
                    /\ \E q \in Requests : requests[q].st = "consumed" /\ requests[q].gen = cred'.gen
  BY DEF Revival
<1>0. cred \in CredentialRows
  BY DEF Inv, TypeOK
<1>1. ASSUME NEW c \in Calls, Install(c)
      PROVE  /\ cred'.gen > cred.gen
             /\ \E q \in Requests : requests[q].st = "consumed" /\ requests[q].gen = cred'.gen
  <2>1. /\ \A q \in calls[c].req : requests[q].st = "consumed"
        /\ ParentGuard(calls[c].gen) /\ Installable(calls[c].gen, calls[c].ver)
        /\ cred'.gen = calls[c].gen
    BY <1>1 DEF Install
  <2>2. conn.gen = calls[c].gen /\ cred.gen # calls[c].gen
    BY <2>1 DEF ParentGuard, Installable
  <2>3. cred.gen <= conn.gen /\ cred.gen \in Nat /\ conn.gen \in Nat
    BY <1>0 DEF Inv, TypeOK, CredInv, CredentialRows
  <2>4. PICK q \in Requests : calls[c].req = {q} /\ requests[q].gen = calls[c].gen
    <3>1. CallOK(c) /\ calls[c].pc = "install"
      BY <1>1 DEF Inv, CallInv, Install
    <3> QED BY <3>1 DEF CallOK, RequestOK, Connecting
  <2> QED BY <2>1, <2>2, <2>3, <2>4
<1>2. ASSUME NEW c \in Calls, CallNext(c)
      PROVE  Install(c)
  <2>1. cred' # cred
    OBVIOUS
  <2>2. ~ClaimRefresh(c) /\ ~MarkRefreshUncertain(c)
    BY <2>1 DEF ClaimRefresh, Claims, MarkRefreshUncertain, Held
  <2>3. ~CompleteRefresh(c) /\ ~LateCompletion(c)
    BY <2>1 DEF CompleteRefresh, LateCompletion, Completes, Held
  <2> QED BY <1>2, <2>1, <2>2, <2>3
          DEF CallNext, StartCallback, ConsumeAuthorization, ExchangeCode, StartRefresh,
              ExchangeRefresh, StartDelivery, LoadForDelivery, Deliver, Crash, AuthorityLapses
<1>3. ~OwnerNext
  <2>1. cred' # cred
    OBVIOUS
  <2> QED BY <2>1 DEF OwnerNext, BeginOAuth2, ExpireRequest, RevokeOAuth2, PrepareOAuth2Reconnect,
              DeleteConnection, CreateUseHandoff, CreateUseGrant, ApproveUseHandoff,
              RevokeUseGrant, DenyUseHandoff
<1>4. ~AdminNext
  <2>1. cred' # cred
    OBVIOUS
  <2>2. ASSUME NEW enabled \in BOOLEAN, NEW listed \in BOOLEAN, UpdateDefinition(enabled, listed)
        PROVE  FALSE
    <3>1. cred' = [cred EXCEPT !.st = "revoked", !.claim = NoCall]
      BY <2>1, <2>2 DEF UpdateDefinition
    <3>2. cred'.st = "revoked"
      BY <1>0, <3>1 DEF CredentialRows
    <3> QED BY <3>2
  <2> QED BY <2>1, <2>2 DEF AdminNext, UpdateProvider, UpdateClient, UpdateOwner
<1>5. cred' # cred
  OBVIOUS
<1> QED BY <1>1, <1>2, <1>3, <1>4, <1>5 DEF Next, vars

(* No refresh, callback, marker or late commit brings a revoked credential *)
(* back: only an authorization that was begun and consumed in a later      *)
(* generation does (Install and CompleteRefresh of credential_store.go).   *)
THEOREM RevocationIsFinal == Spec => RevokedStaysRevoked
<1>1. Inv /\ [Next]_vars => [Revival]_vars
  BY RevivalStep
<1>2. [][Revival]_vars => RevokedStaysRevoked
  BY DEF Revival, RevokedStaysRevoked
<1> QED BY <1>1, <1>2, InvHolds, PTL DEF Spec
===============================================================================
