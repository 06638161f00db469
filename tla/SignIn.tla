------------------------------- MODULE SignIn -------------------------------
(***************************************************************************)
(* Signing in (internal/login, internal/browser, internal/passkey,         *)
(* internal/recovery/otp.go, internal/identity).  A browser holds an init  *)
(* session with one or more interactions; an interaction continues either  *)
(* an authorization request of a client or a review that asks the user of  *)
(* the session Parent to authenticate again.  A call is one HTTP request:  *)
(* it proves a factor, consumes the interaction and replaces the session.  *)
(* Every replicated batch of a call, and every read that a later step      *)
(* relies on, is a step of its own; reads that finishAuthentication makes  *)
(* again are merged.  A call that never takes its next step is a crashed   *)
(* one.  Passwords, authentication modes, passkeys, the client's policy    *)
(* and the sessions change meanwhile.                                      *)
(***************************************************************************)
EXTENDS Integers, FiniteSets

CONSTANTS
    Users, Calls, Interactions, Inits,
    Owner,          \* the user of Parent
    Parent,         \* the session a review asks to authenticate again
    Upstreams,      \* upstream sessions (issuer, client, sid)
    None,
    OTPLimit,       \* otpRateLimit
    MaxChanges      \* bound on account, policy and logout changes

ASSUME SignInAssumption ==
    /\ None \notin Users \cup Calls \cup Interactions \cup Inits \cup Upstreams \cup {Parent}
    /\ Inits \cap Calls = {} /\ Parent \notin Inits \cup Calls
    /\ Owner \in Users
    /\ OTPLimit \in Nat /\ MaxChanges \in Nat

VARIABLES
    scenario,       \* the init session of each interaction, whether they
                    \* continue a review of Parent, the upstream session of
                    \* Parent
    force,          \* ForceMFA of the client
    account,        \* password generation, mode, its generation, passkey version
    sessions,       \* browser_sessions and browser_upstream_session_bindings;
                    \* the session a call creates is named after the call.
                    \* revoked_at is set in "replaced" and in "revoked": which
                    \* of the two is history, what ended the session first
    consumer,       \* consumed_attempt of each interaction
    otp,            \* identity_email_otp, named after the call that sent it
    binding,        \* identity_email_otp_interactions, per init session
    ceremony,       \* identity_webauthn_ceremonies, named after their call
    call,           \* per call: where it is and what it has read
    doomed,         \* history: sessions an upstream logout applied to
    changes

vars == <<scenario, force, account, sessions, consumer, otp, binding, ceremony,
          call, doomed, changes>>
loginVars == <<otp, binding, ceremony>>

NoProof == [pw |-> 0, mode |-> 0]
NoSession == [state |-> "none", user |-> None, method |-> "", proof |-> NoProof,
              born |-> NoProof, bind |-> None, origin |-> None, from |-> None,
              inter |-> None, via |-> None, rp |-> FALSE, told |-> FALSE]
NoCode == [user |-> None, state |-> "none"]
NoBinding == [user |-> None, inter |-> None, proof |-> NoProof]
NoCeremony == [user |-> None, inter |-> None, method |-> "", state |-> "none"]
Idle == [pc |-> "idle", user |-> None, inter |-> None, proof |-> NoProof,
         method |-> "", bind |-> None, version |-> 0, via |-> None, forced |-> FALSE]
Steps == {"idle", "password", "otp", "bind", "save", "assert", "verify", "finish",
          "consume", "create", "record", "retire", "done"}
Sessions == Inits \cup Calls \cup {Parent}
Proofs == [pw : 0..(MaxChanges + 2), mode : 0..(MaxChanges + 2)]

Scenarios == [sess : [Interactions -> Inits], review : BOOLEAN, upstream : Upstreams \cup {None}]

Methods == {"", "pwd", "mfa", "webauthn", "external"}
AccountRows == [pw : Nat, gen : Nat, mode : {"password", "passkey"}, key : Nat]
SessionRows ==
    [state : {"none", "init", "live", "replaced", "revoked"}, user : Users \cup {None},
     method : Methods, proof : Proofs, born : Proofs,
     bind : Upstreams \cup {None}, origin : Upstreams \cup {None},
     from : {Parent, None}, inter : Interactions \cup {None},
     via : Calls \cup {None}, rp : BOOLEAN, told : BOOLEAN]
OTPRows == [user : Users \cup {None}, state : {"none", "sent", "used"}]
BindingRows == [user : Users \cup {None}, inter : Interactions \cup {None}, proof : Proofs]
CeremonyRows == [user : Users \cup {None}, inter : Interactions \cup {None},
                 method : {"", "mfa", "webauthn"}, state : {"none", "open", "used", "deleted"}]
CallRows ==
    [pc : Steps, user : Users \cup {None}, inter : Interactions \cup {None}, proof : Proofs,
     method : Methods, bind : Upstreams \cup {None}, version : Nat, via : Calls \cup {None},
     forced : BOOLEAN]

(* The tables and the calls have their types.                              *)
TypeOK ==
    /\ scenario \in Scenarios
    /\ force \in BOOLEAN
    /\ account \in [Users -> AccountRows]
    /\ sessions \in [Sessions -> SessionRows]
    /\ consumer \in [Interactions -> Calls \cup {None}]
    /\ otp \in [Calls -> OTPRows]
    /\ binding \in [Inits -> BindingRows]
    /\ ceremony \in [Calls -> CeremonyRows]
    /\ call \in [Calls -> CallRows]
    /\ doomed \subseteq Sessions
    /\ changes \in 0..MaxChanges

(* The interactions of an authorization request may share an init session; *)
(* every review gets one of its own (createLoginInteraction).  The parent  *)
(* of a review signed in locally or at an upstream provider, and any user  *)
(* may answer the review.                                                  *)
Start ==
    {sc \in Scenarios :
        IF sc.review
        THEN \A i, j \in Interactions : sc.sess[i] = sc.sess[j] => i = j
        ELSE sc.upstream = None}
Account(pw, gen, mode, key) == [pw |-> pw, gen |-> gen, mode |-> mode, key |-> key]
Accounts == {Account(1, 1, "password", 0), Account(1, 1, "password", 1), Account(2, 2, "passkey", 1)}
Init ==
    /\ scenario \in Start
    /\ account \in [Users -> Accounts]
    /\ \A u \in Users \ {Owner} : account[u].key = 0
    /\ sessions = [s \in Sessions |->
             CASE s = Parent /\ scenario.review ->
                    [NoSession EXCEPT !.state = "live", !.user = Owner,
                        !.bind = scenario.upstream, !.origin = scenario.upstream,
                        !.method = IF scenario.upstream = None THEN "webauthn" ELSE "external"]
               [] s \in {scenario.sess[i] : i \in Interactions} -> [NoSession EXCEPT !.state = "init"]
               [] OTHER -> NoSession]
    /\ force \in BOOLEAN /\ (scenario.review => force)
    /\ consumer = [i \in Interactions |-> None]
    /\ otp = [c \in Calls |-> NoCode]
    /\ binding = [s \in Inits |-> NoBinding]
    /\ ceremony = [c \in Calls |-> NoCeremony]
    /\ call = [c \in Calls |-> Idle]
    /\ doomed = {}
    /\ changes = 0

-----------------------------------------------------------------------------
(* What a call reads.                                                      *)
Of(i) == scenario.sess[i]
Live(s) == sessions[s].state = "live"

(* LoadAuthorizationInteractionReadOnly: unconsumed, in a live init session.*)
Usable(i) == consumer[i] = None /\ sessions[Of(i)].state = "init"

(* resolveAuthenticationRequest: a review needs its parent.                *)
Resolvable(i) == scenario.review => Live(Parent)
ForceMFA(i) == scenario.review \/ force
AcceptsSubject(i, u) == scenario.review => sessions[Parent].user = u

Current(u) == [pw |-> account[u].pw, mode |-> account[u].gen]
ProofHolds(u, proof) == account[u].mode = "password" /\ proof = Current(u)

Goto(c, step) == call' = [call EXCEPT ![c].pc = step]
Enter(c, step, u, i, changed) ==
    /\ call[c].pc = "idle"
    /\ call' = [call EXCEPT ![c] = [changed EXCEPT !.pc = step, !.user = u, !.inter = i, !.forced = ForceMFA(i)]]
Stored == UNCHANGED <<scenario, force, account, doomed, changes>>

-----------------------------------------------------------------------------
(* The password form.  The generations are those of the row the password   *)
(* was verified against.                                                   *)
AuthenticatePassword(c, i, u) ==
    /\ sessions[Of(i)].state = "init"
    /\ account[u].mode = "password"
    /\ Enter(c, "password", u, i, [Idle EXCEPT !.proof = Current(u)])
    /\ UNCHANGED <<sessions, consumer, loginVars>> /\ Stored

(* The rest of loginPassword: an MFA policy asks for a passkey, or for a    *)
(* mailed code when the user has none.  The interaction, the request and   *)
(* the passkeys are read in one step.                                      *)
LoginPassword(c) ==
    LET me == call[c] IN
    /\ me.pc = "password"
    /\ call' = [call EXCEPT ![c] =
         IF ~(Usable(me.inter) /\ Resolvable(me.inter) /\ AcceptsSubject(me.inter, me.user))
         THEN [me EXCEPT !.pc = "done"]
         ELSE IF ~ForceMFA(me.inter) THEN [me EXCEPT !.pc = "finish", !.method = "pwd"]
         ELSE IF account[me.user].key # 0 THEN [me EXCEPT !.pc = "save", !.method = "mfa"]
         ELSE [me EXCEPT !.pc = "otp"]]
    /\ UNCHANGED <<sessions, consumer, loginVars>> /\ Stored

(* GenerateOTP, at most OTPLimit codes in the rate window.                  *)
SendOTP(c) ==
    LET u == call[c].user
        allowed == Cardinality({k \in Calls : otp[k].user = u}) < OTPLimit IN
    /\ call[c].pc = "otp"
    /\ otp' = IF allowed THEN [otp EXCEPT ![c] = [user |-> u, state |-> "sent"]] ELSE otp
    /\ Goto(c, IF allowed THEN "bind" ELSE "done")
    /\ UNCHANGED <<sessions, consumer, binding, ceremony>> /\ Stored

(* StoreInteraction replaces the binding of the init session.              *)
BindOTP(c) ==
    LET me == call[c] IN
    /\ me.pc = "bind"
    /\ binding' = [binding EXCEPT ![Of(me.inter)] =
                     [user |-> me.user, inter |-> me.inter, proof |-> me.proof]]
    /\ Goto(c, "done")
    /\ UNCHANGED <<sessions, consumer, otp, ceremony>> /\ Stored

-----------------------------------------------------------------------------
(* Passkeys.  Without the passwordless cookie only a passkey-only account  *)
(* is looked up, and it always proves user verification.                   *)
WebAuthnStart(c, i, u, fresh) ==
    /\ Usable(i) /\ Resolvable(i) /\ AcceptsSubject(i, u)
    /\ fresh => account[u].mode = "passkey"
    /\ account[u].key # 0
    /\ Enter(c, "save", u, i, [Idle EXCEPT !.method = IF fresh \/ ForceMFA(i) THEN "mfa" ELSE "webauthn"])
    /\ UNCHANGED <<sessions, consumer, loginVars>> /\ Stored

SaveCeremony(c) ==
    LET me == call[c] IN
    /\ me.pc = "save"
    /\ ceremony' = [ceremony EXCEPT ![c] =
                      [user |-> me.user, inter |-> me.inter, method |-> me.method, state |-> "open"]]
    /\ Goto(c, "done")
    /\ UNCHANGED <<sessions, consumer, otp, binding>> /\ Stored

(* WebAuthnFinish reads the ceremony and the passkey it will compare with. *)
LoadCeremony(c, k) ==
    LET cer == ceremony[k] IN
    /\ cer.state = "open" /\ sessions[Of(cer.inter)].state = "init"
    /\ account[cer.user].key # 0
    /\ Enter(c, "assert", cer.user, cer.inter,
             [Idle EXCEPT !.method = cer.method, !.via = k, !.version = account[cer.user].key])
    /\ UNCHANGED <<sessions, consumer, loginVars>> /\ Stored

(* loginFinishStatements: ceremony and passkey advance in one batch.       *)
AssertionApplies(c) ==
    ceremony[call[c].via].state = "open" /\ account[call[c].user].key = call[c].version
FinishLogin(c) ==
    LET me == call[c]
        wins == AssertionApplies(c) IN
    /\ me.pc = "assert"
    /\ ceremony' = IF wins THEN [ceremony EXCEPT ![me.via].state = "used"] ELSE ceremony
    /\ account' = IF wins THEN [account EXCEPT ![me.user].key = @ + 1] ELSE account
    /\ Goto(c, IF wins THEN "finish" ELSE "done")
    /\ UNCHANGED <<scenario, force, sessions, consumer, otp, binding, doomed, changes>>

-----------------------------------------------------------------------------
(* OTPVerify reads the binding of the init session; the batch then compares *)
(* the binding it finds, which another password step may have replaced.    *)
LoadOTP(c, s) ==
    /\ sessions[s].state = "init" /\ binding[s] # NoBinding
    /\ Enter(c, "verify", binding[s].user, binding[s].inter, [Idle EXCEPT !.proof = binding[s].proof])
    /\ UNCHANGED <<sessions, consumer, loginVars>> /\ Stored

BindingApplies(c) ==
    LET b == binding[Of(call[c].inter)] IN
    b.user = call[c].user /\ b.inter = call[c].inter /\ ProofHolds(b.user, b.proof)
VerifyOTP(c, k) ==
    LET me == call[c]
        wins == otp[k].state = "sent" /\ BindingApplies(c) IN
    /\ me.pc = "verify" /\ otp[k].user = me.user
    /\ otp' = IF wins THEN [otp EXCEPT ![k].state = "used"] ELSE otp
    /\ binding' = IF wins THEN [binding EXCEPT ![Of(me.inter)] = NoBinding] ELSE binding
    /\ call' = [call EXCEPT ![c] = [me EXCEPT !.pc = IF wins THEN "finish" ELSE "done",
                                             !.method = "mfa", !.via = k]]
    /\ UNCHANGED <<sessions, consumer, ceremony>> /\ Stored

-----------------------------------------------------------------------------
(* completeExternalAuthentication decides on the policy it reads here and  *)
(* goes on to consume the interaction.  A provider without OIDC sessions   *)
(* leaves no binding, and cannot answer a review, which needs the claims   *)
(* of an ID token; how recent auth_time must be is left out.               *)
CompleteExternal(c, i, u, x, passed) ==
    /\ Usable(i) /\ Resolvable(i) /\ (ForceMFA(i) => passed)
    /\ x = None => ~passed /\ ~scenario.review
    /\ Enter(c, "consume", u, i, [Idle EXCEPT !.bind = x, !.method = IF passed THEN "mfa" ELSE "external"])
    /\ UNCHANGED <<sessions, consumer, loginVars>> /\ Stored

(* Mutant: the policy read when the ceremony began decides.                *)
AdmitsByCeremony(c) ==
    (call[c].method # "pwd" => Usable(call[c].inter)) /\ Resolvable(call[c].inter)

(* finishAuthentication resolves the request again before it consumes.     *)
Admits(c) ==
    LET me == call[c] IN
    /\ me.method # "pwd" => Usable(me.inter)
    /\ Resolvable(me.inter)
    /\ ForceMFA(me.inter) => me.method = "mfa"
FinishAuthentication(c) ==
    /\ call[c].pc = "finish"
    /\ Goto(c, IF Admits(c) THEN "consume" ELSE "done")
    /\ UNCHANGED <<sessions, consumer, loginVars>> /\ Stored

(* Mutant: the batch forgets consumed_attempt IS NULL.                     *)
ConsumableAgain(i, u) == sessions[Of(i)].state = "init" /\ AcceptsSubject(i, u) /\ Resolvable(i)

(* consumeAuthenticationRequest; a review also needs its parent.           *)
Consumable(i, u) == Usable(i) /\ AcceptsSubject(i, u) /\ Resolvable(i)
ConsumeInteraction(c) ==
    LET me == call[c]
        wins == Consumable(me.inter, me.user) IN
    /\ me.pc = "consume"
    /\ consumer' = IF wins THEN [consumer EXCEPT ![me.inter] = c] ELSE consumer
    /\ Goto(c, IF wins THEN "create" ELSE "done")
    /\ UNCHANGED <<sessions, loginVars>> /\ Stored

-----------------------------------------------------------------------------
(* rotateBrowserSessionWithParent.                                         *)
NewSession(c, bind, origin, from) ==
    LET me == call[c] IN
    [state |-> "live", user |-> me.user, method |-> me.method, proof |-> me.proof,
     born |-> Current(me.user), bind |-> bind, origin |-> origin, from |-> from,
     inter |-> me.inter, via |-> me.via, rp |-> FALSE, told |-> FALSE]

(* Mutant: the session only asks for the password mode.                    *)
PasswordGuardByMode(c) == account[call[c].user].mode = "password"

(* createPasswordAuthenticationSession: the password proof still holds and *)
(* the init session is retired in the same batch.                          *)
PasswordGuard(c) == ProofHolds(call[c].user, call[c].proof)
CreatePasswordSession(c) ==
    LET me == call[c]
        wins == PasswordGuard(c) /\ sessions[Of(me.inter)].state = "init" IN
    /\ me.pc = "create" /\ ~scenario.review /\ me.proof # NoProof
    /\ sessions' = IF wins THEN [sessions EXCEPT ![c] = NewSession(c, None, None, None),
                                                 ![Of(me.inter)].state = "revoked"]
                   ELSE sessions
    /\ Goto(c, "done")
    /\ UNCHANGED <<consumer, loginVars>> /\ Stored

(* CreateSession and CreateUpstreamSession.                                *)
CreateSession(c) ==
    LET me == call[c] IN
    /\ me.pc = "create" /\ ~scenario.review /\ me.proof = NoProof
    /\ sessions' = [sessions EXCEPT ![c] = NewSession(c, me.bind, me.bind, None)]
    /\ Goto(c, "record")
    /\ UNCHANGED <<consumer, loginVars>> /\ Stored

(* createSessionWithParentAndProof: one batch replaces a live parent and   *)
(* copies its upstream binding when the new proof is local.  Live(Parent)  *)
(* is the session guard of the batch, and its retirement of one row.       *)
(* Mutant: a parent that was logged out meanwhile is replaced too.         *)
ReplaceableAnyway(c) ==
    LET me == call[c] IN
    /\ sessions[Parent].user = me.user /\ me.method = "mfa"
    /\ me.proof # NoProof => PasswordGuard(c)

Replaceable(c) ==
    LET me == call[c] IN
    /\ Live(Parent) /\ sessions[Parent].user = me.user /\ me.method = "mfa"
    /\ me.proof # NoProof => PasswordGuard(c)

(* Mutant: a local proof drops the upstream binding of the parent.         *)
OwnBinding(c) == call[c].bind

(* The parent is retired WHERE revoked_at IS NULL.                         *)
Retire(row) == IF row.state = "live" THEN [row EXCEPT !.state = "replaced"] ELSE row
KeptBinding(c) == IF call[c].bind # None THEN call[c].bind ELSE sessions[Parent].bind
CreateReauthenticatedSession(c) ==
    LET me == call[c]
        wins == Replaceable(c)
        origin == IF me.bind # None THEN me.bind ELSE sessions[Parent].origin IN
    /\ me.pc = "create" /\ scenario.review
    /\ sessions' = IF wins THEN [sessions EXCEPT ![c] = NewSession(c, KeptBinding(c), origin, Parent),
                                                 ![Parent] = Retire(@)]
                   ELSE sessions
    /\ Goto(c, IF wins THEN "record" ELSE "done")
    /\ UNCHANGED <<consumer, loginVars>> /\ Stored

Revoke(S) == [s \in Sessions |-> IF s \in S /\ Live(s) THEN [sessions[s] EXCEPT !.state = "revoked"]
                                 ELSE sessions[s]]

(* RecordLoginForSession needs the new session; when it fails, for whatever *)
(* reason, the call tries to revoke the session and gives up.              *)
RecordLogin(c) ==
    /\ call[c].pc = "record"
    /\ \/ Live(c) /\ Goto(c, "retire") /\ UNCHANGED sessions
       \/ sessions' \in {sessions, Revoke({c})} /\ Goto(c, "done")
    /\ UNCHANGED <<consumer, loginVars>> /\ Stored

(* The init session is revoked in a batch of its own.                      *)
RetireInit(c) ==
    /\ call[c].pc = "retire"
    /\ sessions' = [sessions EXCEPT ![Of(call[c].inter)].state = "revoked"]
    /\ Goto(c, "done")
    /\ UNCHANGED <<consumer, loginVars>> /\ Stored

-----------------------------------------------------------------------------
(* What changes meanwhile.                                                 *)
Change == changes < MaxChanges /\ changes' = changes + 1
Owned(u) == {s \in Sessions : sessions[s].user = u}
WithoutCeremonies(u) ==
    [c \in Calls |-> IF ceremony[c].user = u /\ ceremony[c].state # "none"
                     THEN [ceremony[c] EXCEPT !.state = "deleted"] ELSE ceremony[c]]
CallsUnchanged == UNCHANGED <<scenario, consumer, call>>

ChangePassword(u) ==
    /\ Change /\ account[u].mode = "password"
    /\ account' = [account EXCEPT ![u].pw = @ + 1]
    /\ CallsUnchanged /\ UNCHANGED <<force, sessions, loginVars, doomed>>

ResetPassword(u) ==
    /\ Change /\ account[u].mode = "password"
    /\ account' = [account EXCEPT ![u].pw = @ + 1]
    /\ sessions' = Revoke(Owned(u))
    /\ CallsUnchanged /\ UNCHANGED <<force, loginVars, doomed>>

ConvertToPasskeyOnly(u) ==
    /\ Change /\ account[u].mode = "password" /\ account[u].key # 0
    /\ account' = [account EXCEPT ![u] = Account(@.pw + 1, @.gen + 1, "passkey", @.key)]
    /\ ceremony' = WithoutCeremonies(u)
    /\ binding' = [s \in Inits |-> IF binding[s].user = u THEN NoBinding ELSE binding[s]]
    /\ CallsUnchanged /\ UNCHANGED <<force, sessions, otp, doomed>>

SetPassword(u) ==
    /\ Change /\ account[u].mode = "passkey"
    /\ account' = [account EXCEPT ![u] = Account(@.pw + 1, @.gen + 1, "password", @.key)]
    /\ ceremony' = WithoutCeremonies(u)
    /\ CallsUnchanged /\ UNCHANGED <<force, sessions, otp, binding, doomed>>

(* The only passkey of u: a user deletes it in password mode only, an      *)
(* administrator in either mode.                                           *)
DeletePasskey(u) ==
    /\ Change /\ account[u].key # 0
    /\ account' = [account EXCEPT ![u].key = 0]
    /\ CallsUnchanged /\ UNCHANGED <<force, sessions, loginVars, doomed>>

(* An administrator changes the policy of the client; a review demands MFA *)
(* in any case.                                                            *)
UpdateClient ==
    /\ Change /\ ~scenario.review
    /\ force' = ~force
    /\ call' = [c \in Calls |-> [call[c] EXCEPT !.forced = @ /\ force']]
    /\ UNCHANGED <<scenario, account, sessions, consumer, loginVars, doomed>>

Logout(s) ==
    /\ Change /\ Live(s)
    /\ sessions' = Revoke({s})
    /\ CallsUnchanged /\ UNCHANGED <<force, account, loginVars, doomed>>

(* A code of the session is exchanged and its relying party is associated; *)
(* only sessions an upstream logout can reach matter here.                 *)
Associate(s) ==
    /\ Live(s) /\ ~sessions[s].rp /\ sessions[s].origin # None
    /\ sessions' = [sessions EXCEPT ![s].rp = TRUE]
    /\ CallsUnchanged /\ UNCHANGED <<force, account, loginVars, doomed, changes>>

(* upstreamLogoutStatements: sessions bound to x, replaced ones included.  *)
Bound(x) == {s \in Sessions : sessions[s].bind = x}
UpstreamLogout(x) ==
    /\ Change
    /\ sessions' = [s \in Sessions |-> IF s \in Bound(x) THEN [Revoke(Bound(x))[s] EXCEPT !.told = @ \/ sessions[s].rp]
                                       ELSE sessions[s]]
    /\ doomed' = doomed \cup {s \in Sessions : sessions[s].origin = x}
    /\ CallsUnchanged /\ UNCHANGED <<force, account, loginVars>>

-----------------------------------------------------------------------------
(* Anybody may answer; an authorization request, which has no subject, is  *)
(* answered by Owner alone here (a bound).                                 *)
Signers == IF scenario.review THEN Users ELSE {Owner}
PasswordNext(c) ==
    \/ \E i \in Interactions, u \in Signers : AuthenticatePassword(c, i, u)
    \/ LoginPassword(c) \/ SendOTP(c) \/ BindOTP(c)
    \/ \E s \in Inits : LoadOTP(c, s)
    \/ \E k \in Calls : VerifyOTP(c, k)
PasskeyNext(c) ==
    \/ \E i \in Interactions, u \in Signers, fresh \in BOOLEAN : WebAuthnStart(c, i, u, fresh)
    \/ SaveCeremony(c) \/ FinishLogin(c)
    \/ \E k \in Calls : LoadCeremony(c, k)
CompletionNext(c) ==
    \/ \E i \in Interactions, u \in Signers, x \in Upstreams \cup {None}, passed \in BOOLEAN :
           CompleteExternal(c, i, u, x, passed)
    \/ FinishAuthentication(c) \/ ConsumeInteraction(c)
    \/ CreatePasswordSession(c) \/ CreateSession(c) \/ CreateReauthenticatedSession(c)
    \/ RecordLogin(c) \/ RetireInit(c)
ChangeNext ==
    \/ ChangePassword(Owner) \/ ResetPassword(Owner)
    \/ ConvertToPasskeyOnly(Owner) \/ SetPassword(Owner) \/ DeletePasskey(Owner)
    \/ UpdateClient
    \/ \E s \in Calls \cup {Parent} : Logout(s) \/ Associate(s)
    \/ \E x \in Upstreams : UpstreamLogout(x)
Next == (\E c \in Calls : PasswordNext(c) \/ PasskeyNext(c) \/ CompletionNext(c)) \/ ChangeNext
Spec == Init /\ [][Next]_vars

-----------------------------------------------------------------------------
Created == {c \in Calls : sessions[c].state # "none"}

(* A session that rests on a password was created while that password and  *)
(* the password mode were the account's, however long ago the password was *)
(* typed: not after a change, a reset or a conversion to passkeys.         *)
FactorsAreCurrent ==
    \A c \in Created : sessions[c].proof # NoProof => sessions[c].proof = sessions[c].born

(* An interaction, a mailed code and a passkey ceremony each lead to at    *)
(* most one session, and Parent is replaced at most once.                  *)
OneSessionPerProof ==
    \A c, d \in Created :
        \/ sessions[c].inter = sessions[d].inter
        \/ sessions[c].via = sessions[d].via /\ sessions[c].via # None
        \/ sessions[c].from = sessions[d].from /\ sessions[c].from # None
        => c = d

(* A call during which the policy demanded MFA throughout creates no       *)
(* session that lacks it, even when its ceremony began under a weaker one. *)
ForcedMFA == \A c \in Created : call[c].forced => sessions[c].method = "mfa"

(* Logouts and replacements do not pass each other: a session that a       *)
(* logout, a reset or an upstream logout ended is never replaced, however  *)
(* far the review had come, and an upstream logout that comes after the    *)
(* replacement revokes every session that goes back to it and tells their  *)
(* relying parties.                                                        *)
LogoutFollowsReplacement ==
    /\ \A c \in Created : sessions[c].from = Parent => sessions[Parent].state = "replaced"
    /\ \A s \in doomed : ~Live(s) /\ (sessions[s].rp => sessions[s].told)
=============================================================================
