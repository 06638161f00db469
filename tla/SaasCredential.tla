---------------------------- MODULE SaasCredential ----------------------------
(***************************************************************************)
(* The OAuth2 credential of one connection of a user to an external        *)
(* service (internal/saas, internal/authcollection): authorization,        *)
(* refresh with a single-use refresh token, revocation, reconnection, and  *)
(* the consent under which a consumer receives the access token.           *)
(*                                                                         *)
(* An HTTP call that talks to the provider between its statements is a     *)
(* process with one action per statement or exchange.  A call that reads   *)
(* and then writes under a guard that compares everything it read is one   *)
(* action: when the write applies, the values read are still the current   *)
(* ones.  One connection, one provider, one consumer client and one        *)
(* handoff stand for the tables; generations, versions and tokens are      *)
(* numbers in the order of their creation.                                 *)
(***************************************************************************)
EXTENDS Naturals, FiniteSets

CONSTANTS
    Calls,       \* HTTP calls in progress: callbacks, refreshes, deliveries
    NoCall,      \* SQL NULL of refresh_claim
    Requests,    \* rows of saas_authorization_requests
    Grants,      \* rows of saas_use_grants
    Accounts,    \* accounts at the provider
    MaxGrants,   \* live grants of a connection (32 in createUseGrant)
    MaxVersion,  \* bound on token_version
    Scenarios,   \* bounds: [ready, kinds, changes], whether a credential is
                 \* there, the kinds of calls that come, and how many changes
                 \* by administrators and the owner
    MaxTokens    \* bound on refresh tokens the provider issues

Kinds == {"connect", "refresh", "handoff", "grant"}

ASSUME SaasAssumption ==
    /\ NoCall \notin Calls
    /\ Accounts # {}
    /\ {MaxGrants, MaxVersion, MaxTokens} \subseteq Nat \ {0}
    /\ Scenarios \subseteq [ready : BOOLEAN, kinds : SUBSET Kinds, changes : Nat]

VARIABLES
    conn,      \* auth_collection_connections: [live, gen]
    coll,      \* auth_collection_definitions: [enabled, listed], listed: names the provider
    prov,      \* saas_providers: [on, rev]
    owner,     \* identity_users: the owner is active
    client,    \* connection_client_policies of the consumer: [on, gen]
    cred,      \* saas_connection_credentials
    requests,  \* saas_authorization_requests
    grants,    \* saas_use_grants
    handoff,   \* saas_use_handoffs
    calls,     \* calls in progress
    upstream,  \* the provider: refresh tokens issued and still valid, codes spent
    reused,    \* history: the provider saw a replaced token or a spent code
    misled,    \* history: grants under which a token of an account left that
               \* the owner had not consented to
    kinds,     \* the kinds of calls of this scenario
    changes    \* changes by administrators and the owner still to come

adminVars == <<conn, coll, prov, owner, client>>
consentVars == <<grants, handoff>>
limits == <<kinds, changes>>
history == <<reused, misled>>
vars == <<adminVars, cred, requests, consentVars, calls, upstream, history, limits>>

AnAccount == CHOOSE a \in Accounts : TRUE
NoCredential == [st |-> "none", gen |-> 0, ver |-> 0, claim |-> NoCall, tok |-> 0, acct |-> AnAccount]
NoRequest == [st |-> "none", gen |-> 0, ver |-> 0, rev |-> 0, void |-> FALSE]
NoConsent == [st |-> "none", gen |-> 0, cgen |-> 0, rev |-> 0, ver |-> 0,
              refresh |-> FALSE, acct |-> AnAccount]
(* A call: the binding it works on, the provider revision it is pinned to,  *)
(* the request or grants it acts under, and the token it carries.          *)
Idle == [pc |-> "idle", gen |-> 0, ver |-> 0, rev |-> 0, req |-> {}, under |-> {},
         tok |-> 0, acct |-> AnAccount, auth |-> TRUE]
Steps == {"idle", "consume", "exchangeCode", "install",
          "claim", "exchange", "complete", "mark", "late", "load", "deliver"}

CredentialRows == [st : {"none", "ready", "refreshing", "uncertain", "revoked"}, gen : Nat,
                   ver : 0..MaxVersion, claim : Calls \cup {NoCall}, tok : Nat, acct : Accounts]
RequestRows == [st : {"none", "open", "consumed"}, gen : Nat, ver : Nat, rev : Nat, void : BOOLEAN]
ConsentRows(states) == [st : states, gen : Nat, cgen : Nat, rev : Nat, ver : Nat,
                        refresh : BOOLEAN, acct : Accounts]
CallRows == [pc : Steps, gen : Nat, ver : Nat, rev : Nat, req : SUBSET Requests,
             under : SUBSET Grants, tok : Nat, acct : Accounts, auth : BOOLEAN]

(* Every row and every call has its type; a claim is held exactly while     *)
(* the credential is refreshing.                                            *)
TypeOK ==
    /\ conn \in [live : BOOLEAN, gen : Nat] /\ coll \in [enabled : BOOLEAN, listed : BOOLEAN]
    /\ prov \in [on : BOOLEAN, rev : Nat] /\ owner \in BOOLEAN
    /\ client \in [on : BOOLEAN, gen : Nat]
    /\ cred \in CredentialRows
    /\ (cred.st = "refreshing") = (cred.claim # NoCall)
    /\ requests \in [Requests -> RequestRows]
    /\ grants \in [Grants -> ConsentRows({"none", "live", "revoked"})]
    /\ handoff \in ConsentRows({"none", "pending", "approved", "denied"})
    /\ calls \in [Calls -> CallRows]
    /\ upstream \in [last : Nat, valid : SUBSET Nat, codes : SUBSET Requests]
    /\ reused \in BOOLEAN /\ misled \subseteq Grants
    /\ kinds \subseteq Kinds /\ changes \in Nat

Init ==
    \E s \in Scenarios :
    /\ conn = [live |-> TRUE, gen |-> 1]
    /\ coll = [enabled |-> TRUE, listed |-> TRUE]
    /\ prov = [on |-> TRUE, rev |-> 1]
    /\ owner = TRUE
    /\ client = [on |-> TRUE, gen |-> 1]
    /\ cred = IF s.ready THEN [NoCredential EXCEPT !.st = "ready", !.gen = 1, !.ver = 1, !.tok = 1]
              ELSE NoCredential
    /\ requests = [q \in Requests |-> NoRequest]
    /\ grants = [g \in Grants |-> NoConsent]
    /\ handoff = NoConsent
    /\ calls = [c \in Calls |-> Idle]
    /\ upstream = IF s.ready THEN [last |-> 1, valid |-> {1}, codes |-> {}]
                  ELSE [last |-> 0, valid |-> {}, codes |-> {}]
    /\ reused = FALSE /\ misled = {}
    /\ kinds = s.kinds /\ changes = s.changes

(***************************************************************************)
(* Guards that the statements carry.                                       *)
(***************************************************************************)

ParentGuard(gen) ==
    conn.live /\ conn.gen = gen /\ coll.enabled /\ coll.listed /\ owner

(* oauth2Provider: the exact revision read at the start of the call.       *)
ProviderGuard(rev) == prov.on /\ prov.rev = rev

(* Mutant: the revoked credential may be of the same generation. *)
InstallableInPlace(gen, ver) ==
    \/ ver = 1 /\ cred.st = "none"
    \/ cred.st = "revoked" /\ cred.ver + 1 = ver

(* A first credential, or the replacement of a revoked one of an earlier   *)
(* generation.                                                             *)
Installable(gen, ver) ==
    \/ ver = 1 /\ cred.st = "none"
    \/ cred.st = "revoked" /\ cred.gen # gen /\ cred.ver + 1 = ver

(* Neither expired nor invalidated.                                        *)
Usable(q) == ~requests[q].void

(* useStatePolicy: what a consent was given for is still what there is.    *)
UsePolicy(s, states) ==
    /\ conn.live /\ coll.enabled /\ coll.listed /\ owner
    /\ cred.st \in states /\ cred.gen = conn.gen
    /\ conn.gen = s.gen
    /\ client.on /\ client.gen = s.cgen
    /\ prov.on /\ prov.rev = s.rev

(* The authority of a call: its session or token, and for a delegated      *)
(* refresh the consent, both rebuilt at every statement.                   *)
Authority(c) ==
    /\ calls[c].auth
    /\ \A g \in calls[c].under :
         /\ grants[g].st = "live" /\ grants[g].refresh
         /\ UsePolicy(grants[g], {"ready", "refreshing"})

End(c) == calls' = [calls EXCEPT ![c] = Idle]
Goto(c, step) == calls' = [calls EXCEPT ![c] = [@ EXCEPT !.pc = step]]

(***************************************************************************)
(* Authorization: BeginOAuth2, then the callback.                          *)
(***************************************************************************)

BeginOAuth2(q) ==
    /\ "connect" \in kinds
    /\ requests[q].st = "none"
    /\ LET ver == cred.ver + 1 IN
       /\ ver <= MaxVersion
       /\ ParentGuard(conn.gen) /\ prov.on
       /\ Installable(conn.gen, ver)
       /\ requests' = [requests EXCEPT ![q] =
             [st |-> "open", gen |-> conn.gen, ver |-> ver, rev |-> prov.rev,
              void |-> FALSE]]
    /\ UNCHANGED <<adminVars, cred, consentVars, calls, upstream, history, limits>>

ExpireRequest(q) ==
    /\ requests[q].st # "none" /\ Usable(q)
    /\ requests' = [requests EXCEPT ![q].void = TRUE]
    /\ UNCHANGED <<adminVars, cred, consentVars, calls, upstream, history, limits>>

(* callbackAuthorization: the verifier of an open request, begun under the *)
(* provider's present revision.                                            *)
StartCallback(c, q) ==
    /\ calls[c].pc = "idle"
    /\ requests[q].st = "open" /\ Usable(q)
    /\ ProviderGuard(requests[q].rev) /\ ParentGuard(requests[q].gen)
    /\ calls' = [calls EXCEPT ![c] =
          [Idle EXCEPT !.pc = "consume", !.gen = requests[q].gen, !.ver = requests[q].ver,
                       !.rev = requests[q].rev, !.req = {q}]]
    /\ UNCHANGED <<adminVars, cred, requests, consentVars, upstream, history, limits>>

(* ConsumeAuthorization, before the code is exchanged.                     *)
ConsumeAuthorization(c) ==
    /\ calls[c].pc = "consume"
    /\ LET q == CHOOSE q \in Requests : q \in calls[c].req
           applies == /\ requests[q].st = "open" /\ Usable(q)
                      /\ ParentGuard(calls[c].gen) /\ ProviderGuard(calls[c].rev) /\ calls[c].auth
                      /\ Installable(calls[c].gen, calls[c].ver)
       IN  /\ requests' = IF applies THEN [requests EXCEPT ![q].st = "consumed"] ELSE requests
           /\ IF applies THEN Goto(c, "exchangeCode") ELSE End(c)
    /\ UNCHANGED <<adminVars, cred, consentVars, upstream, history, limits>>

(* The code exchange and the identity request; the tokens of a lost answer *)
(* stay unknown.                                                           *)
ExchangeCode(c) ==
    /\ calls[c].pc = "exchangeCode"
    /\ upstream.last < MaxTokens
    /\ LET tok == upstream.last + 1 IN
       /\ upstream' = [last |-> tok, valid |-> upstream.valid \cup {tok},
                       codes |-> upstream.codes \cup calls[c].req]
       /\ reused' = (reused \/ calls[c].req \cap upstream.codes # {})
       /\ \/ \E a \in Accounts :
               calls' = [calls EXCEPT ![c] = [@ EXCEPT !.pc = "install", !.tok = tok, !.acct = a]]
          \/ End(c)
    /\ UNCHANGED <<adminVars, cred, requests, consentVars, misled, limits>>

(* CompleteAuthorization: Install for exactly the consumed request.        *)
Install(c) ==
    /\ calls[c].pc = "install"
    /\ LET call == calls[c]
           applies == /\ \A q \in call.req : requests[q].st = "consumed" /\ Usable(q)
                      /\ ParentGuard(call.gen) /\ ProviderGuard(call.rev) /\ call.auth
                      /\ Installable(call.gen, call.ver)
       IN  cred' = IF applies
                   THEN [st |-> "ready", gen |-> call.gen, ver |-> call.ver, claim |-> NoCall,
                         tok |-> call.tok, acct |-> call.acct]
                   ELSE cred
    /\ End(c)
    /\ UNCHANGED <<adminVars, requests, consentVars, upstream, history, limits>>

(***************************************************************************)
(* Refresh: refreshCredential, for the owner (under = {}) or delegated to  *)
(* the consumer of a grant.                                                *)
(***************************************************************************)

StartRefresh(c, under) ==
    /\ calls[c].pc = "idle"
    /\ "refresh" \in kinds
    /\ cred.st = "ready" /\ cred.ver < MaxVersion
    /\ ParentGuard(cred.gen) /\ prov.on
    /\ \A g \in under : /\ grants[g].st = "live" /\ grants[g].refresh
                        /\ UsePolicy(grants[g], {"ready"})
    /\ calls' = [calls EXCEPT ![c] =
          [Idle EXCEPT !.pc = "claim", !.gen = cred.gen, !.ver = cred.ver, !.rev = prov.rev,
                       !.under = under, !.tok = cred.tok, !.acct = cred.acct]]
    /\ UNCHANGED <<adminVars, cred, requests, consentVars, upstream, history, limits>>

Binding(c) == cred.gen = calls[c].gen /\ cred.ver = calls[c].ver

(* Mutant: the claim does not ask for the state it read. *)
ClaimAnyState(c) ==
    /\ cred.st \in {"ready", "refreshing"} /\ Binding(c)
    /\ ParentGuard(calls[c].gen) /\ ProviderGuard(calls[c].rev) /\ Authority(c)

Claims(c) ==
    /\ cred.st = "ready" /\ Binding(c)
    /\ ParentGuard(calls[c].gen) /\ ProviderGuard(calls[c].rev) /\ Authority(c)

(* A claim whose answer is lost ends the call without an exchange.         *)
ClaimRefresh(c) ==
    /\ calls[c].pc = "claim"
    /\ \/ /\ Claims(c)
          /\ cred' = [cred EXCEPT !.st = "refreshing", !.claim = c]
          /\ Goto(c, "exchange") \/ End(c)
       \/ /\ ~Claims(c)
          /\ End(c)
          /\ UNCHANGED cred
    /\ UNCHANGED <<adminVars, requests, consentVars, upstream, history, limits>>

(* The provider answers with a new refresh token, keeps the old one, or    *)
(* does either and the answer is lost or refused (another account, a       *)
(* wrong scope, an expired token).                                         *)
ExchangeRefresh(c) ==
    /\ calls[c].pc = "exchange"
    /\ LET old == calls[c].tok
           new == upstream.last + 1
       IN  /\ reused' = (reused \/ old \notin upstream.valid)
           /\ \/ /\ old \in upstream.valid /\ upstream.last < MaxTokens
                 /\ upstream' = [last |-> new, valid |-> (upstream.valid \ {old}) \cup {new},
                                 codes |-> upstream.codes]
                 /\ \/ calls' = [calls EXCEPT ![c] = [@ EXCEPT !.pc = "complete", !.tok = new]]
                    \/ Goto(c, "mark")
              \/ /\ old \in upstream.valid
                 /\ UNCHANGED upstream
                 /\ Goto(c, "complete") \/ Goto(c, "mark")
              \/ /\ old \notin upstream.valid
                 /\ UNCHANGED upstream
                 /\ Goto(c, "mark")
    /\ UNCHANGED <<adminVars, cred, requests, consentVars, misled, limits>>

Held(c) == cred.st = "refreshing" /\ cred.claim = c /\ Binding(c)

(* Mutant: the completion does not ask for the claim. *)
CompletesUnclaimed(c) ==
    /\ Binding(c)
    /\ ParentGuard(calls[c].gen) /\ ProviderGuard(calls[c].rev) /\ Authority(c)

Completes(c) ==
    /\ Held(c)
    /\ ParentGuard(calls[c].gen) /\ ProviderGuard(calls[c].rev) /\ Authority(c)

Rotated(c) ==
    [cred EXCEPT !.st = "ready", !.claim = NoCall, !.ver = @ + 1, !.tok = calls[c].tok]

(* CompleteRefresh; when its outcome is unknown the batch may still be on  *)
(* its way while the call goes on to the marker.                           *)
CompleteRefresh(c) ==
    /\ calls[c].pc = "complete"
    /\ \/ Completes(c) /\ cred' = Rotated(c) /\ End(c)
       \/ Completes(c) /\ cred' = Rotated(c) /\ Goto(c, "mark")
       \/ ~Completes(c) /\ Goto(c, "mark") /\ UNCHANGED cred
       \/ Goto(c, "late") /\ UNCHANGED cred
    /\ UNCHANGED <<adminVars, requests, consentVars, upstream, history, limits>>

(* A delayed completion commits, or never does.                            *)
LateCompletion(c) ==
    /\ calls[c].pc = "late"
    /\ \/ cred' = IF Completes(c) THEN Rotated(c) ELSE cred
       \/ UNCHANGED cred
    /\ End(c)
    /\ UNCHANGED <<adminVars, requests, consentVars, upstream, history, limits>>

(* Mutant: a failed refresh gives the credential back. *)
MarkRefreshReady(c) ==
    /\ calls[c].pc \in {"mark", "late"}
    /\ Held(c) /\ ParentGuard(calls[c].gen)
    /\ cred' = [cred EXCEPT !.st = "ready", !.claim = NoCall]
    /\ IF calls[c].pc = "mark" THEN End(c) ELSE UNCHANGED calls
    /\ UNCHANGED <<adminVars, requests, consentVars, upstream, history, limits>>

(* MarkRefreshUncertain; a marker that fails leaves the claim in place.    *)
MarkRefreshUncertain(c) ==
    /\ calls[c].pc \in {"mark", "late"}
    /\ Held(c) /\ ParentGuard(calls[c].gen)
    /\ cred' = [cred EXCEPT !.st = "uncertain", !.claim = NoCall]
    /\ IF calls[c].pc = "mark" THEN End(c) ELSE UNCHANGED calls
    /\ UNCHANGED <<adminVars, requests, consentVars, upstream, history, limits>>

(* A call dies, or gives up after a marker that did not apply.             *)
Crash(c) ==
    /\ calls[c].pc \notin {"idle", "late"}
    /\ End(c)
    /\ UNCHANGED <<adminVars, cred, requests, consentVars, upstream, history, limits>>

(* The session or the token behind a call runs out during an exchange.     *)
AuthorityLapses(c) ==
    /\ calls[c].pc \in {"exchangeCode", "install", "exchange", "complete"}
    /\ calls[c].auth
    /\ calls' = [calls EXCEPT ![c] = [@ EXCEPT !.auth = FALSE]]
    /\ UNCHANGED <<adminVars, cred, requests, consentVars, upstream, history, limits>>

(***************************************************************************)
(* Revocation and reconnection by the owner.                               *)
(***************************************************************************)

Change == changes > 0 /\ changes' = changes - 1

RevokeOAuth2 ==
    /\ Change
    /\ conn.live /\ owner
    /\ cred.gen = conn.gen /\ cred.st \in {"ready", "refreshing", "uncertain"}
    /\ cred' = [cred EXCEPT !.st = "revoked", !.claim = NoCall]
    /\ UNCHANGED <<adminVars, requests, consentVars, calls, upstream, history, kinds>>

(* A new generation fences callbacks and refreshes of the old one.         *)
PrepareOAuth2Reconnect ==
    /\ Change
    /\ conn.live /\ owner /\ coll.enabled
    /\ cred.st = "revoked" /\ cred.gen = conn.gen
    /\ conn' = [conn EXCEPT !.gen = @ + 1]
    /\ UNCHANGED <<coll, prov, owner, client, cred, requests, consentVars, calls, upstream, history, kinds>>

(***************************************************************************)
(* Consent and delivery.                                                   *)
(***************************************************************************)

LiveGrants == {g \in Grants : grants[g].st = "live"}

(* What a consent records; a handoff also pins the version under review.   *)
Consent(st, ver, refresh) ==
    [st |-> st, gen |-> conn.gen, cgen |-> client.gen, rev |-> prov.rev, ver |-> ver,
     refresh |-> refresh, acct |-> cred.acct]

(* The owner consents directly, to the account the connection has.         *)
CreateUseGrant(g, refresh) ==
    /\ "grant" \in kinds
    /\ grants[g].st = "none"
    /\ UsePolicy(Consent("live", 0, refresh), {"ready"})
    /\ Cardinality(LiveGrants) < MaxGrants
    /\ grants' = [grants EXCEPT ![g] = Consent("live", 0, refresh)]
    /\ UNCHANGED <<adminVars, cred, requests, handoff, calls, upstream, history, limits>>

(* A client proposes a consent for the owner to review.                    *)
CreateUseHandoff(refresh) ==
    /\ "handoff" \in kinds
    /\ handoff.st = "none"
    /\ UsePolicy(Consent("pending", cred.ver, refresh), {"ready"})
    /\ handoff' = Consent("pending", cred.ver, refresh)
    /\ UNCHANGED <<adminVars, cred, requests, grants, calls, upstream, history, limits>>

(* handoffAuthority: pending, and the credential is the one reviewed.      *)
HandoffAuthority ==
    /\ handoff.st = "pending"
    /\ UsePolicy(handoff, {"ready"}) /\ cred.ver = handoff.ver

ApproveUseHandoff(g) ==
    /\ HandoffAuthority
    /\ grants[g].st = "none"
    /\ Cardinality(LiveGrants) < MaxGrants
    /\ grants' = [grants EXCEPT ![g] = [handoff EXCEPT !.st = "live", !.ver = 0]]
    /\ handoff' = [handoff EXCEPT !.st = "approved"]
    /\ UNCHANGED <<adminVars, cred, requests, calls, upstream, history, limits>>

DenyUseHandoff ==
    /\ HandoffAuthority
    /\ handoff' = [handoff EXCEPT !.st = "denied"]
    /\ UNCHANGED <<adminVars, cred, requests, grants, calls, upstream, history, limits>>

(* The owner revokes a grant, or it expires.                               *)
RevokeUseGrant(g) ==
    /\ Change
    /\ grants[g].st = "live"
    /\ grants' = [grants EXCEPT ![g].st = "revoked"]
    /\ UNCHANGED <<adminVars, cred, requests, handoff, calls, upstream, history, kinds>>

UseGuard(c) ==
    /\ calls[c].auth
    /\ \A g \in calls[c].under :
         grants[g].st = "live" /\ UsePolicy(grants[g], {"ready"})
    /\ cred.ver = calls[c].ver

(* DeliverOAuth2: the consent and the version, then the credential, then   *)
(* the guard once more before the token leaves.                            *)
StartDelivery(c, g) ==
    /\ calls[c].pc = "idle"
    /\ grants[g].st = "live" /\ UsePolicy(grants[g], {"ready"})
    /\ calls' = [calls EXCEPT ![c] =
          [Idle EXCEPT !.pc = "load", !.under = {g}, !.gen = grants[g].gen, !.ver = cred.ver]]
    /\ UNCHANGED <<adminVars, cred, requests, consentVars, upstream, history, limits>>

LoadForDelivery(c) ==
    /\ calls[c].pc = "load"
    /\ IF UseGuard(c) /\ Binding(c)
       THEN calls' = [calls EXCEPT ![c] = [@ EXCEPT !.pc = "deliver", !.acct = cred.acct]]
       ELSE End(c)
    /\ UNCHANGED <<adminVars, cred, requests, consentVars, upstream, history, limits>>

Deliver(c) ==
    /\ calls[c].pc = "deliver"
    /\ misled' = IF UseGuard(c)
                 THEN misled \cup {g \in calls[c].under : grants[g].acct # calls[c].acct}
                 ELSE misled
    /\ End(c)
    /\ UNCHANGED <<adminVars, cred, requests, consentVars, upstream, reused, limits>>

(***************************************************************************)
(* Administration.                                                         *)
(***************************************************************************)

(* UpdateDefinition, with the triggers that revoke the credential and      *)
(* invalidate the requests of a provider that is no longer listed.         *)
UpdateDefinition(enabled, listed) ==
    /\ Change
    /\ coll' = [enabled |-> enabled, listed |-> listed] /\ coll' # coll
    /\ cred' = IF listed \/ cred.st = "none" THEN cred
               ELSE [cred EXCEPT !.st = "revoked", !.claim = NoCall]
    /\ requests' = IF listed THEN requests
                   ELSE [q \in Requests |-> [requests[q] EXCEPT !.void = requests[q].st # "none"]]
    /\ UNCHANGED <<conn, prov, owner, client, consentVars, calls, upstream, history, kinds>>

(* A provider changes, or is deleted, only while no collection lists it.   *)
UpdateProvider(on) ==
    /\ Change
    /\ ~coll.listed
    /\ prov' = [on |-> on, rev |-> prov.rev + 1]
    /\ UNCHANGED <<conn, coll, owner, client, cred, requests, consentVars, calls, upstream, history, kinds>>

(* Disabling the consumer moves its generation, and so do new audiences or *)
(* confidentiality (rescoped); no other update matters here.               *)
UpdateClient(on, rescoped) ==
    /\ Change
    /\ rescoped \/ on # client.on
    /\ client' = [on |-> on, gen |-> IF rescoped \/ (client.on /\ ~on) THEN client.gen + 1 ELSE client.gen]
    /\ UNCHANGED <<conn, coll, prov, owner, cred, requests, consentVars, calls, upstream, history, kinds>>

UpdateOwner(active) ==
    /\ Change
    /\ owner' = active /\ active # owner
    /\ UNCHANGED <<conn, coll, prov, client, cred, requests, consentVars, calls, upstream, history, kinds>>

(* The credential row stays behind; a new connection has a new id.         *)
DeleteConnection ==
    /\ Change
    /\ conn.live /\ owner
    /\ conn' = [conn EXCEPT !.live = FALSE]
    /\ UNCHANGED <<coll, prov, owner, client, cred, requests, consentVars, calls, upstream, history, kinds>>

(***************************************************************************)
(* The specification.                                                      *)
(***************************************************************************)

CallNext(c) ==
    \/ \E q \in Requests : StartCallback(c, q)
    \/ ConsumeAuthorization(c) \/ ExchangeCode(c) \/ Install(c)
    \/ \E under \in {{}} \cup {{g} : g \in Grants} : StartRefresh(c, under)
    \/ ClaimRefresh(c) \/ ExchangeRefresh(c) \/ CompleteRefresh(c)
    \/ LateCompletion(c) \/ MarkRefreshUncertain(c)
    \/ \E g \in Grants : StartDelivery(c, g)
    \/ LoadForDelivery(c) \/ Deliver(c)
    \/ Crash(c) \/ AuthorityLapses(c)

OwnerNext ==
    \/ \E q \in Requests : BeginOAuth2(q) \/ ExpireRequest(q)
    \/ RevokeOAuth2 \/ PrepareOAuth2Reconnect \/ DeleteConnection
    \/ \E refresh \in BOOLEAN :
          CreateUseHandoff(refresh) \/ \E g \in Grants : CreateUseGrant(g, refresh)
    \/ \E g \in Grants : ApproveUseHandoff(g) \/ RevokeUseGrant(g)
    \/ DenyUseHandoff

AdminNext ==
    \/ \E enabled, listed \in BOOLEAN : UpdateDefinition(enabled, listed)
    \/ \E on \in BOOLEAN : UpdateProvider(on) \/ UpdateOwner(on)
    \/ \E on, rescoped \in BOOLEAN : UpdateClient(on, rescoped)

Next ==
    \/ \E c \in Calls : CallNext(c)
    \/ OwnerNext
    \/ AdminNext

Spec == Init /\ [][Next]_vars

(***************************************************************************)
(* Properties.                                                             *)
(***************************************************************************)

(* Neither a refresh token that the provider has replaced nor a spent      *)
(* authorization code is ever presented again, whatever was lost or died   *)
(* around the exchange: refresh.go "forbids another exchange".             *)
NoSecretReuse == ~reused

(* A credential that is offered for use (ready, in the connection's        *)
(* generation) holds a refresh token that the provider still accepts.      *)
ReadyTokenIsLive ==
    (cred.st = "ready" /\ cred.gen = conn.gen) => cred.tok \in upstream.valid

(* A revoked credential comes back only by a new authorization in a later  *)
(* generation; no refresh, callback or late commit revives it.             *)
RevokedStaysRevoked ==
    [][(cred.st = "revoked" /\ cred'.st # "revoked") =>
          /\ cred'.gen > cred.gen
          /\ \E q \in Requests : requests[q].st = "consumed" /\ requests[q].gen = cred'.gen]_vars

(* A consumer is only given tokens of the account the owner consented to,  *)
(* although the connection may be revoked and reconnected to another one.  *)
DeliveredAccountIsConsented ==
    misled = {}
===============================================================================
