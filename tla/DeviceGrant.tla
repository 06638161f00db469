----------------------------- MODULE DeviceGrant -----------------------------
(***************************************************************************)
(* The device authorization grant (internal/device and the device handler  *)
(* of internal/oauth).  A device polls with its code; a signed-in user     *)
(* approves or denies the user code in a browser; one poll claims the      *)
(* approved grant under a short lease and exchanges it for tokens.         *)
(*                                                                         *)
(* A call is one request of the token endpoint; it stands for the random   *)
(* claim token it generates.  Every conditional UPDATE and every token     *)
(* batch is one action, everything a call reads beforehand an earlier one. *)
(* Polls of a grant that is not approved only move the polling interval,   *)
(* which is not modelled.                                                  *)
(***************************************************************************)
EXTENDS Integers, FiniteSets

CONSTANTS
    Devices,      \* device codes
    Sessions,     \* browser sessions of approvers
    Subjects,     \* users
    Calls,        \* polls of the token endpoint
    NoCall,       \* SQL NULL of claim_token_digest
    NoSubject,    \* SQL NULL of subject
    SubjectOf,    \* the user of a session
    MfaSessions,  \* sessions whose authentication method is "mfa"
    MaxRevision   \* bound on the revisions of users and of the client

ASSUME DeviceAssumption ==
    /\ SubjectOf \in [Sessions -> Subjects]
    /\ MfaSessions \subseteq Sessions
    /\ NoCall \notin Calls
    /\ NoSubject \notin Subjects
    /\ MaxRevision \in Nat

VARIABLES
    state,     \* oauth_device_grants.state
    subject,   \* ... subject
    mfa,       \* ... mfa_verified
    gen,       \* ... managed_client_generation
    claim,     \* ... claim_token_digest
    lapsed,    \* rows whose claim_until_unix_ms has passed
    expired,   \* rows whose expires_at_unix_ms has passed
    family,    \* access and refresh tokens issued for a device
    sess,      \* browser_sessions
    user,      \* identity_users.disabled, rbac_principal_versions
    client,    \* the managed client the devices belong to
    pc, of, tokenSubject, snapUser, snapClient,  \* a call
    minted,    \* history: calls whose batch wrote tokens
    cut        \* history: decided grants of a user at a subject-wide logout

rowVars == <<state, subject, mfa, gen, claim, lapsed, expired>>
callVars == <<pc, of, tokenSubject, snapUser, snapClient>>
vars == <<rowVars, family, sess, user, client, callVars, minted, cut>>

States == {"absent", "pending", "approved", "denied", "consumed", "deleted"}
Families == {"none", "live", "dead"}
PcStates == {"idle", "claiming", "reading", "claimed", "issuing", "release",
             "sent", "committed", "delivered", "failed"}
Revisions == 0..MaxRevision
Users == [state : {"enabled", "disabled", "deleted"}, rev : Revisions]
ClientRows == [enabled : BOOLEAN, forceMfa : BOOLEAN, gen : Revisions, rev : Revisions]

(* Every device row, token family, session and poll has its type. *)
TypeOK ==
    /\ state \in [Devices -> States]
    /\ subject \in [Devices -> Subjects \cup {NoSubject}]
    /\ mfa \subseteq Devices
    /\ gen \in [Devices -> Revisions]
    /\ claim \in [Devices -> Calls \cup {NoCall}]
    /\ lapsed \subseteq Devices
    /\ expired \subseteq Devices
    /\ family \in [Devices -> Families]
    /\ sess \in [Sessions -> {"live", "revoked"}]
    /\ user \in [Subjects -> Users]
    /\ client \in ClientRows
    /\ pc \in [Calls -> PcStates]
    /\ of \in [Calls -> Devices]
    /\ tokenSubject \in [Calls -> Subjects \cup {NoSubject}]
    /\ snapUser \in [Calls -> Revisions]
    /\ snapClient \in [Calls -> ClientRows]
    /\ minted \subseteq Calls
    /\ cut \subseteq Devices

Init ==
    /\ state = [d \in Devices |-> "absent"]
    /\ subject = [d \in Devices |-> NoSubject]
    /\ mfa = {} /\ lapsed = {} /\ expired = {}
    /\ gen = [d \in Devices |-> 0]
    /\ claim = [d \in Devices |-> NoCall]
    /\ family = [d \in Devices |-> "none"]
    /\ sess = [s \in Sessions |-> "live"]
    /\ user = [u \in Subjects |-> [state |-> "enabled", rev |-> 0]]
    /\ client \in {[enabled |-> TRUE, forceMfa |-> f, gen |-> 0, rev |-> 0] : f \in BOOLEAN}
    /\ pc = [c \in Calls |-> "idle"]
    /\ of \in [Calls -> Devices]
    /\ tokenSubject = [c \in Calls |-> NoSubject]
    /\ snapUser = [c \in Calls |-> 0]
    /\ snapClient = [c \in Calls |-> client]
    /\ minted = {} /\ cut = {}

(***************************************************************************)
(* The device endpoint and the verification page.                          *)
(***************************************************************************)
Create(d) ==
    /\ state[d] = "absent"
    /\ client.enabled
    /\ state' = [state EXCEPT ![d] = "pending"]
    /\ gen' = [gen EXCEPT ![d] = client.gen]
    /\ UNCHANGED <<subject, mfa, claim, lapsed, expired, family, sess, user, client, callVars, minted, cut>>

(* The browser session is checked by the UPDATE that decides. *)
SessionGuard(s) == sess[s] = "live" /\ user[SubjectOf[s]].state = "enabled"

DecideAgain(s, d) ==  \* Mutant: a decided row is decided again.
    state[d] \notin {"absent", "deleted"} /\ d \notin expired /\ SessionGuard(s)

Decidable(s, d) == state[d] = "pending" /\ d \notin expired /\ SessionGuard(s)

Approve(s, d) ==
    /\ Decidable(s, d)
    /\ s \in MfaSessions \/ ~client.forceMfa
    /\ state' = [state EXCEPT ![d] = "approved"]
    /\ subject' = [subject EXCEPT ![d] = SubjectOf[s]]
    /\ mfa' = IF s \in MfaSessions THEN mfa \cup {d} ELSE mfa \ {d}
    /\ claim' = [claim EXCEPT ![d] = NoCall]
    /\ lapsed' = lapsed \ {d}
    /\ UNCHANGED <<gen, expired, family, sess, user, client, callVars, minted, cut>>

Deny(s, d) ==
    /\ Decidable(s, d)
    /\ state' = [state EXCEPT ![d] = "denied"]
    /\ subject' = [subject EXCEPT ![d] = NoSubject]
    /\ mfa' = mfa \ {d}
    /\ claim' = [claim EXCEPT ![d] = NoCall]
    /\ lapsed' = lapsed \ {d}
    /\ UNCHANGED <<gen, expired, family, sess, user, client, callVars, minted, cut>>

(***************************************************************************)
(* Time.                                                                   *)
(***************************************************************************)
Expire(d) ==
    /\ state[d] # "absent" /\ d \notin expired
    /\ expired' = expired \cup {d}
    /\ UNCHANGED <<state, subject, mfa, gen, claim, lapsed, family, sess, user, client, callVars, minted, cut>>

ClaimLapses(d) ==
    /\ claim[d] # NoCall /\ d \notin lapsed
    /\ lapsed' = lapsed \cup {d}
    /\ UNCHANGED <<state, subject, mfa, gen, claim, expired, family, sess, user, client, callVars, minted, cut>>

(***************************************************************************)
(* The token endpoint.                                                     *)
(***************************************************************************)
Claimable(d) == state[d] = "approved" /\ (claim[d] = NoCall \/ d \in lapsed)

(* The client is authenticated, then Poll loads an approved row. *)
LoadApproved(c, d) ==
    /\ pc[c] = "idle"
    /\ Claimable(d) /\ d \notin expired
    /\ client.enabled
    /\ pc' = [pc EXCEPT ![c] = "claiming"]
    /\ of' = [of EXCEPT ![c] = d]
    /\ snapClient' = [snapClient EXCEPT ![c] = client]
    /\ UNCHANGED <<rowVars, family, sess, user, client, tokenSubject, snapUser, minted, cut>>

(* The UPDATE compares the lease and the expiry with the time the poll     *)
(* began, so it may miss a lease that lapsed since, and its answer may be  *)
(* lost.                                                                   *)
Claim(c) ==
    LET d == of[c] IN
    /\ pc[c] = "claiming"
    /\ \/ /\ Claimable(d)
          /\ claim' = [claim EXCEPT ![d] = c]
          /\ lapsed' = lapsed \ {d}
       \/ UNCHANGED <<claim, lapsed>>
    /\ \E next \in {"reading", "failed"} : pc' = [pc EXCEPT ![c] = next]
    /\ UNCHANGED <<state, subject, mfa, gen, expired, family, sess, user, client,
                   of, tokenSubject, snapUser, snapClient, minted, cut>>

(* The linearizable read that proves the claim, and what the handler       *)
(* refuses with the client it has authenticated.                           *)
ReadClaim(c) ==
    LET d == of[c]
        refused == (snapClient[c].forceMfa /\ d \notin mfa) \/ snapClient[c].gen # gen[d]
    IN
    /\ pc[c] = "reading"
    /\ IF state[d] # "deleted" /\ claim[d] = c
       THEN /\ pc' = [pc EXCEPT ![c] = IF refused THEN "release" ELSE "claimed"]
            /\ tokenSubject' = [tokenSubject EXCEPT ![c] = subject[d]]
       ELSE pc' = [pc EXCEPT ![c] = "failed"] /\ UNCHANGED tokenSubject
    /\ UNCHANGED <<rowVars, family, sess, user, client, of, snapUser, snapClient, minted, cut>>

(* The principal the claims are computed from. *)
ReadPrincipal(c) ==
    LET u == user[tokenSubject[c]] IN
    /\ pc[c] = "claimed"
    /\ pc' = [pc EXCEPT ![c] = IF u.state = "enabled" THEN "issuing" ELSE "release"]
    /\ snapUser' = [snapUser EXCEPT ![c] = u.rev]
    /\ UNCHANGED <<rowVars, family, sess, user, client, of, tokenSubject, snapClient, minted, cut>>

(* Any refusal before the batch is sent: a DPoP challenge, a key error ... *)
Reject(c) ==
    /\ pc[c] \in {"claimed", "issuing"}
    /\ pc' = [pc EXCEPT ![c] = "release"]
    /\ UNCHANGED <<rowVars, family, sess, user, client, of, tokenSubject, snapUser, snapClient, minted, cut>>

(* Complete(false): gives the claim back while it is still one's own. *)
Complete(c) ==
    LET d == of[c] IN
    /\ pc[c] = "release"
    /\ pc' = [pc EXCEPT ![c] = "failed"]
    /\ \/ /\ claim[d] = c /\ d \notin lapsed /\ state[d] = "approved"
          /\ claim' = [claim EXCEPT ![d] = NoCall]
       \/ UNCHANGED claim
    /\ UNCHANGED <<state, subject, mfa, gen, lapsed, expired, family, sess, user, client,
                   of, tokenSubject, snapUser, snapClient, minted, cut>>

(* Commit reads the clock that the lease and the expiry are compared with, *)
(* and only then sends the batch.                                          *)
SendBatch(c) ==
    /\ pc[c] = "issuing"
    /\ pc' = [pc EXCEPT ![c] = IF of[c] \in lapsed \cup expired THEN "failed" ELSE "sent"]
    /\ UNCHANGED <<rowVars, family, sess, user, client, of, tokenSubject, snapUser, snapClient, minted, cut>>

(* deviceGuard with the principal and client guards, where the batch       *)
(* commits.                                                                *)
DeviceGuardAnyClaim(c) ==  \* Mutant: the claim token is not compared.
    LET d == of[c] IN
    /\ state[d] \in {"approved", "consumed"}
    /\ user[subject[d]] = [state |-> "enabled", rev |-> snapUser[c]]
    /\ client.enabled /\ client.gen = gen[d] /\ client.rev = snapClient[c].rev
    /\ ~client.forceMfa \/ d \in mfa

DeviceGuard(c) ==
    LET d == of[c] IN
    /\ state[d] = "approved" /\ claim[d] = c
    /\ user[subject[d]] = [state |-> "enabled", rev |-> snapUser[c]]
    /\ client.enabled /\ client.gen = gen[d] /\ client.rev = snapClient[c].rev
    /\ ~client.forceMfa \/ d \in mfa

(* One batch writes the tokens and marks the row consumed, or rolls back;  *)
(* the answer of a batch that did commit may be lost.                      *)
Commit(c) ==
    LET d == of[c] IN
    /\ pc[c] = "sent"
    /\ \/ /\ DeviceGuard(c)
          /\ state' = [state EXCEPT ![d] = "consumed"]
          /\ lapsed' = lapsed \cup {d}
          /\ family' = [family EXCEPT ![d] = "live"]
          /\ minted' = minted \cup {c}
          /\ \E next \in {"committed", "failed"} : pc' = [pc EXCEPT ![c] = next]
       \/ /\ pc' = [pc EXCEPT ![c] = "failed"]
          /\ UNCHANGED <<state, lapsed, family, minted>>
    /\ UNCHANGED <<subject, mfa, gen, claim, expired, sess, user, client,
                   of, tokenSubject, snapUser, snapClient, cut>>

(* The consumed marker must carry this call's claim. *)
VerifyCommit(c) ==
    /\ pc[c] = "committed"
    /\ pc' = [pc EXCEPT ![c] = IF state[of[c]] = "consumed" /\ claim[of[c]] = c THEN "delivered" ELSE "failed"]
    /\ UNCHANGED <<rowVars, family, sess, user, client, of, tokenSubject, snapUser, snapClient, minted, cut>>

(***************************************************************************)
(* What ends sessions, users and tokens.                                   *)
(***************************************************************************)
DevicesOf(u) == {d \in Devices : subject[d] = u /\ state[d] \notin {"absent", "deleted"}}
KillFamilies(D) == [d \in Devices |-> IF d \in D /\ family[d] = "live" THEN "dead" ELSE family[d]]

SubjectLogoutKeepingDevices(u) ==  \* Mutant: approved grants are forgotten.
    /\ sess' = [s \in Sessions |-> IF SubjectOf[s] = u THEN "revoked" ELSE sess[s]]
    /\ family' = KillFamilies(DevicesOf(u))
    /\ cut' = cut \cup DevicesOf(u)
    /\ UNCHANGED <<state, subject, mfa, gen, claim, lapsed, expired, client, callVars, minted>>

(* The run of statements a forced logout, a login revocation, an account's *)
(* expiry, a password reset and a disable share.                           *)
SubjectLogout(u) ==
    LET open == {d \in DevicesOf(u) : state[d] \in {"pending", "approved"}} IN
    /\ sess' = [s \in Sessions |-> IF SubjectOf[s] = u THEN "revoked" ELSE sess[s]]
    /\ state' = [d \in Devices |-> IF d \in open THEN "denied" ELSE state[d]]
    /\ claim' = [d \in Devices |-> IF d \in open THEN NoCall ELSE claim[d]]
    /\ lapsed' = lapsed \ open
    /\ family' = KillFamilies(DevicesOf(u))
    /\ cut' = cut \cup DevicesOf(u)
    /\ UNCHANGED <<subject, mfa, gen, expired, client, callVars, minted>>

ForceLogout(u) ==
    /\ user[u].state # "deleted"
    /\ SubjectLogout(u)
    /\ UNCHANGED user

DeleteUser(u) ==
    /\ user[u].state # "deleted"
    /\ user' = [user EXCEPT ![u] = [state |-> "deleted", rev |-> @.rev]]
    /\ sess' = [s \in Sessions |-> IF SubjectOf[s] = u THEN "revoked" ELSE sess[s]]
    /\ state' = [d \in Devices |-> IF d \in DevicesOf(u) THEN "deleted" ELSE state[d]]
    /\ family' = KillFamilies(DevicesOf(u))
    /\ cut' = cut \cup DevicesOf(u)
    /\ UNCHANGED <<subject, mfa, gen, claim, lapsed, expired, client, callVars, minted>>

(* The administrator's update: a disable logs the user out everywhere, a   *)
(* new e-mail address ends the sessions, new roles move the revision.      *)
UpdateUser(u, enabled, newEmail, newRoles) ==
    /\ user[u].state # "deleted"
    /\ newRoles => user[u].rev < MaxRevision
    /\ user' = [user EXCEPT ![u] = [state |-> IF enabled THEN "enabled" ELSE "disabled",
                                    rev |-> IF newRoles THEN @.rev + 1 ELSE @.rev]]
    /\ IF enabled
       THEN /\ sess' = [s \in Sessions |-> IF newEmail /\ SubjectOf[s] = u THEN "revoked" ELSE sess[s]]
            /\ UNCHANGED <<rowVars, family, client, callVars, minted, cut>>
       ELSE SubjectLogout(u)

(* Sessions end one by one without touching devices ... *)
LogoutSession(s) ==
    /\ sess[s] = "live"
    /\ sess' = [sess EXCEPT ![s] = "revoked"]
    /\ UNCHANGED <<rowVars, family, user, client, callVars, minted, cut>>

(* ... and the global logout ends tokens too, but no device decision. *)
LogoutAllSessions ==
    /\ sess' = [s \in Sessions |-> "revoked"]
    /\ family' = KillFamilies(Devices)
    /\ UNCHANGED <<rowVars, user, client, callVars, minted, cut>>

(* The owner's revocation of one device. *)
RevokeUserSession(d) ==
    /\ state[d] = "consumed"
    /\ family' = KillFamilies({d})
    /\ UNCHANGED <<rowVars, sess, user, client, callVars, minted, cut>>

(* A disable, or new audiences or confidentiality (rescoped), also moves   *)
(* the generation.                                                         *)
UpdateClient(enabled, forceMfa, rescoped) ==
    /\ client.rev < MaxRevision
    /\ client' = [enabled |-> enabled, forceMfa |-> forceMfa, rev |-> client.rev + 1,
                  gen |-> IF rescoped \/ (client.enabled /\ ~enabled) THEN client.gen + 1 ELSE client.gen]
    /\ UNCHANGED <<rowVars, family, sess, user, callVars, minted, cut>>

Next ==
    \/ \E d \in Devices :
          \/ Create(d) \/ Expire(d) \/ ClaimLapses(d) \/ RevokeUserSession(d)
          \/ \E s \in Sessions : Approve(s, d) \/ Deny(s, d)
          \/ \E c \in Calls : LoadApproved(c, d)
    \/ \E c \in Calls : \/ Claim(c) \/ ReadClaim(c) \/ ReadPrincipal(c) \/ Reject(c)
                        \/ Complete(c) \/ SendBatch(c) \/ Commit(c) \/ VerifyCommit(c)
    \/ \E u \in Subjects : \/ ForceLogout(u) \/ DeleteUser(u)
                           \/ \E enabled, newEmail, newRoles \in BOOLEAN :
                                 UpdateUser(u, enabled, newEmail, newRoles)
    \/ \E s \in Sessions : LogoutSession(s)
    \/ LogoutAllSessions
    \/ \E enabled, forceMfa, rescoped \in BOOLEAN : UpdateClient(enabled, forceMfa, rescoped)

Spec == Init /\ [][Next]_vars

(***************************************************************************)
(* Properties.                                                             *)
(***************************************************************************)
(* One approval yields one set of tokens: however many polls claim the     *)
(* grant after each other's leases, however many answers are lost, only    *)
(* one batch of Commit ever writes tokens for a device code.               *)
MintOnce == \A b, c \in minted : of[b] = of[c] => b = c

(* A subject-wide logout reaches devices: a grant its user had approved,   *)
(* claimed or redeemed before it never holds live tokens afterwards, even  *)
(* when a claim was about to commit.                                       *)
LogoutStopsDevices ==
    \A d \in cut : state[d] \in {"denied", "consumed", "deleted"} /\ family[d] # "live"

(* Tokens name the approver: the subject a poll read with its claim is     *)
(* still the subject of the row when its batch commits.                    *)
TokenNamesApprover ==
    \A c \in minted : tokenSubject[c] = subject[of[c]] /\ tokenSubject[c] # NoSubject
=============================================================================
