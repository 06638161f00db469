---------------------------- MODULE OAuthGrants ----------------------------
(***************************************************************************)
(* Browser sessions, authorization codes, PKCE rows, access and refresh    *)
(* tokens of the authorization-code grant, as internal/oauth keeps them in *)
(* the replicated database, and every revocation that cuts across them.    *)
(*                                                                         *)
(* One storage.Execute is one atomic batch of SQL statements, so a batch   *)
(* is one action; what a request reads BEFORE its batch commits is an      *)
(* earlier action, and the linearizable query Commit makes AFTERWARDS is a *)
(* later one.  A request that is lost, crashes or stays ambiguous simply   *)
(* takes no further step; its batch may still commit at any later time.    *)
(*                                                                         *)
(* Names of rows.  A grant is one authorization request: its code and its  *)
(* fosite request ID.  An attempt is one call of the token or revocation   *)
(* endpoint; the access and refresh tokens it mints carry its name.        *)
(***************************************************************************)
EXTENDS Integers, FiniteSets

CONSTANTS
    Sessions,      \* browser session digests, the sid of OIDC
    Subjects,      \* users
    Clients,       \* managed OAuth clients
    Grants,        \* authorization requests (code signature and request_id)
    Attempts,      \* calls of the token and revocation endpoints
    NoAttempt,     \* SQL NULL of used_attempt and rotated_attempt
    SubjectOf,     \* the user of a session
    SidOf,         \* the session an authorization request runs in
    ClientOf,      \* the client an authorization request names
    MaxRevision,   \* bound on principal and client revisions
    MaxExpiries    \* bound on the rows that pass their expires_at_unix_ms

ASSUME ConstantsAssumption ==
    /\ SubjectOf \in [Sessions -> Subjects]
    /\ SidOf \in [Grants -> Sessions]
    /\ ClientOf \in [Grants -> Clients]
    /\ Grants # {}
    /\ NoAttempt \notin Attempts
    /\ MaxRevision \in Nat
    /\ MaxExpiries \in Nat

VARIABLES
    sess,          \* browser_sessions: state of a row
    user,          \* identity_users.disabled and rbac_principal_versions
    client,        \* managed_oauth_clients: state, generation, revision
    code,          \* oauth_authorize_codes: state of a row
    codeGen,       \* the client generation request_json was written with
    used,          \* oauth_authorize_codes.used_attempt
    pkce,          \* oauth_pkce_requests
    access,        \* oauth_access_tokens
    tokenReq,      \* oauth_token_requests
    refresh,       \* oauth_refresh_tokens: state of a row
    rotated,       \* oauth_refresh_tokens.rotated_attempt
    sessClients,   \* oidc_session_clients
    userClients,   \* oidc_user_clients
    deliveries,    \* oidc_backchannel_deliveries ever enqueued, by sid
    userDeliveries,\* oidc_backchannel_deliveries ever enqueued, by subject
    receipts,      \* fixed request IDs the database has already executed
    expired,       \* rows past expires_at_unix_ms
    pc, grantOf, presented, snapUser, snapClient,  \* an endpoint call
    ended,         \* history: sessions an OAuth revocation batch ran for
    announced,     \* history: ... while their row was not yet revoked
    minted         \* history: attempts whose batch wrote a refresh row

dbVars == <<code, codeGen, used, pkce, access, tokenReq, refresh, rotated>>
rpVars == <<sessClients, userClients, deliveries, userDeliveries>>
callVars == <<pc, grantOf, presented, snapUser, snapClient>>
histVars == <<ended, announced, minted>>
vars == <<sess, user, client, dbVars, rpVars, receipts, expired, callVars, histVars>>

UserOf(g) == SubjectOf[SidOf[g]]

(***************************************************************************)
(* Types.                                                                  *)
(***************************************************************************)
SessStates == {"absent", "live", "expired", "revoked", "deleted"}
CodeStates == {"unissued", "live", "invalid", "deleted"}
RefreshStates == {"none", "active", "inactive"}
Revisions == 0..MaxRevision
PcStates == {"idle", "code", "refresh", "reuse", "codeReuse", "codeReuse2",
             "revoke", "revoke2", "revoke2e", "committed", "verified", "delivered",
             "revoked", "failed"}
Users == [state : {"enabled", "disabled", "deleted"}, rev : Revisions]
ClientRows == {r \in [state : {"enabled", "disabled", "deleted"}, gen : Revisions, rev : Revisions] :
                  r.gen <= r.rev}
Receipts == [op : {"oauth-revoke-access", "oauth-revoke-refresh"}, on : Grants]
            \cup [op : {"oauth-refresh-reuse"}, on : Attempts]

(* Every row and every endpoint call of internal/oauth's store has its type. *)
TypeOK ==
    /\ sess \in [Sessions -> SessStates]
    /\ user \in [Subjects -> Users]
    /\ client \in [Clients -> ClientRows]
    /\ code \in [Grants -> CodeStates]
    /\ codeGen \in [Grants -> Revisions]
    /\ used \in [Grants -> Attempts \cup {NoAttempt}]
    /\ pkce \subseteq Grants
    /\ access \subseteq Attempts
    /\ tokenReq \subseteq Attempts
    /\ refresh \in [Attempts -> RefreshStates]
    /\ rotated \in [Attempts -> Attempts \cup {NoAttempt}]
    /\ sessClients \subseteq Sessions \X Clients
    /\ userClients \subseteq Subjects \X Clients
    /\ deliveries \subseteq Sessions \X Clients
    /\ userDeliveries \subseteq Subjects \X Clients
    /\ receipts \subseteq Receipts
    /\ expired \in [codes : SUBSET Grants, access : SUBSET Attempts, refresh : SUBSET Attempts]
    /\ pc \in [Attempts -> PcStates]
    /\ grantOf \in [Attempts -> Grants]
    /\ presented \in [Attempts -> Attempts \cup {NoAttempt}]
    /\ snapUser \in [Attempts -> Revisions]
    /\ snapClient \in [Attempts -> Revisions]
    /\ ended \subseteq Sessions
    /\ announced \subseteq Sessions
    /\ minted \subseteq Attempts

Init ==
    /\ sess = [s \in Sessions |-> "absent"]
    /\ user = [u \in Subjects |-> [state |-> "enabled", rev |-> 0]]
    /\ client = [c \in Clients |-> [state |-> "enabled", gen |-> 0, rev |-> 0]]
    /\ code = [g \in Grants |-> "unissued"]
    /\ codeGen = [g \in Grants |-> 0]
    /\ used = [g \in Grants |-> NoAttempt]
    /\ pkce = {} /\ access = {} /\ tokenReq = {}
    /\ refresh = [a \in Attempts |-> "none"]
    /\ rotated = [a \in Attempts |-> NoAttempt]
    /\ sessClients = {} /\ userClients = {} /\ deliveries = {} /\ userDeliveries = {}
    /\ receipts = {}
    /\ expired = [codes |-> {}, access |-> {}, refresh |-> {}]
    /\ pc = [a \in Attempts |-> "idle"]
    /\ grantOf = [a \in Attempts |-> CHOOSE g \in Grants : TRUE]
    /\ presented = [a \in Attempts |-> NoAttempt]
    /\ snapUser = [a \in Attempts |-> 0]
    /\ snapClient = [a \in Attempts |-> 0]
    /\ ended = {} /\ announced = {} /\ minted = {}

(***************************************************************************)
(* Browser sessions.  A row is unrevoked until some batch stamps           *)
(* revoked_at_unix_ms; an expired row stays until the sweep removes it.    *)
(***************************************************************************)
Unrevoked == {s \in Sessions : sess[s] \in {"live", "expired"}}
HasRow == {s \in Sessions : sess[s] \in {"live", "expired", "revoked"}}

(* revoked_at_unix_ms = COALESCE(revoked_at_unix_ms, now) on the rows of S. *)
Revoked(S) == [s \in Sessions |-> IF s \in S \cap Unrevoked THEN "revoked" ELSE sess[s]]

CreateSession(s) ==
    /\ sess[s] = "absent"
    /\ user[SubjectOf[s]].state = "enabled"
    /\ sess' = [sess EXCEPT ![s] = "live"]
    /\ UNCHANGED <<user, client, dbVars, rpVars, receipts, expired, callVars, histVars>>

(* Reauthentication replaces a live parent: its row is revoked, the OAuth  *)
(* rows and the back-channel associations of the parent stay untouched.    *)
CreateReauthenticatedSession(parent, s) ==
    /\ sess[s] = "absent"
    /\ sess[parent] = "live"
    /\ SubjectOf[parent] = SubjectOf[s]
    /\ user[SubjectOf[s]].state = "enabled"
    /\ sess' = [sess EXCEPT ![s] = "live", ![parent] = "revoked"]
    /\ UNCHANGED <<user, client, dbVars, rpVars, receipts, expired, callVars, histVars>>

(* Absolute or idle expiry: the row stops authorizing codes. *)
ExpireSession(s) ==
    /\ sess[s] = "live"
    /\ sess' = [sess EXCEPT ![s] = "expired"]
    /\ UNCHANGED <<user, client, dbVars, rpVars, receipts, expired, callVars, histVars>>

SweepSession(s) ==
    /\ sess[s] \in {"expired", "revoked"}
    /\ sess' = [sess EXCEPT ![s] = "deleted"]
    /\ UNCHANGED <<user, client, dbVars, rpVars, receipts, expired, callVars, histVars>>

(***************************************************************************)
(* Revocation batches.  RevokeArtifacts is the run of statements they all  *)
(* share: codes invalidated, their PKCE rows deleted, refresh tokens       *)
(* inactive, access tokens and token requests deleted.                     *)
(***************************************************************************)
TokensOf(G) == {a \in Attempts : grantOf[a] \in G}
GrantsOfSessions(S) == {g \in Grants : SidOf[g] \in S}
GrantsOfUser(u) == {g \in Grants : UserOf(g) = u}
SessionsOf(u) == {s \in Sessions : SubjectOf[s] = u}

Inactive(T) == [a \in Attempts |-> IF a \in T /\ refresh[a] = "active" THEN "inactive" ELSE refresh[a]]

RevokeArtifacts(G) ==
    /\ code' = [g \in Grants |-> IF g \in G /\ code[g] = "live" THEN "invalid" ELSE code[g]]
    /\ pkce' = pkce \ {g \in G : code[g] \in {"live", "invalid"}}
    /\ refresh' = Inactive(TokensOf(G))
    /\ access' = access \ (tokenReq \cap TokensOf(G))
    /\ tokenReq' = tokenReq \ TokensOf(G)
    /\ UNCHANGED <<codeGen, used, rotated>>

(* The deliveries of a logout by sid: one per recorded client, and none    *)
(* once the row is gone or already revoked.                                *)
SidDeliveriesAfterRevoke(s) == {}  \* Mutant: the row is stamped first.
SidDeliveries(s) == {sc \in sessClients : sc[1] = s /\ s \in Unrevoked}

SessionRevocationStatements(s) ==
    /\ deliveries' = deliveries \cup SidDeliveries(s)
    /\ RevokeArtifacts(GrantsOfSessions({s}))
    /\ sessClients' = {sc \in sessClients : sc[1] # s}
    /\ ended' = ended \cup {s}
    /\ announced' = announced \cup ({s} \cap Unrevoked)
    /\ UNCHANGED <<user, client, userClients, userDeliveries, receipts, expired, callVars, minted>>

RevokeOIDCSession(s) ==
    /\ sess[s] # "absent"
    /\ sess' = Revoked({s})
    /\ SessionRevocationStatements(s)

(* Administrator deletion: the same batch, then the row itself. *)
DeleteSession(s) ==
    /\ s \in HasRow
    /\ sess' = [sess EXCEPT ![s] = "deleted"]
    /\ SessionRevocationStatements(s)

(* What the subject-wide batches share: deliveries come from                *)
(* oidc_user_clients and name no session.                                   *)
SubjectLogout(u) ==
    /\ userDeliveries' = userDeliveries \cup {uc \in userClients : uc[1] = u}
    /\ userClients' = {uc \in userClients : uc[1] # u}
    /\ sessClients' = {sc \in sessClients : sc[1] \notin (SessionsOf(u) \cap HasRow)}
    /\ ended' = ended \cup {s \in SessionsOf(u) : sess[s] # "absent"}
    /\ announced' = announced \cup (SessionsOf(u) \cap Unrevoked)
    /\ UNCHANGED <<client, deliveries, receipts, expired, callVars, minted>>

(* An administrator's forced logout; RevokeLogin runs the same batch. *)
ForceLogout(u) ==
    /\ sess' = Revoked(SessionsOf(u))
    /\ RevokeArtifacts(GrantsOfUser(u))
    /\ SubjectLogout(u)
    /\ UNCHANGED user

(* ExpireUsers: the account passed its expiry, is logged out and disabled. *)
ExpireAccount(u) ==
    /\ user[u].state = "enabled"
    /\ user' = [user EXCEPT ![u] = [state |-> "disabled", rev |-> @.rev]]
    /\ sess' = Revoked(SessionsOf(u))
    /\ RevokeArtifacts(GrantsOfUser(u))
    /\ SubjectLogout(u)

(* DeleteUser removes the rows themselves. *)
DeleteUser(u) ==
    LET G == GrantsOfUser(u) IN
    /\ user[u].state # "deleted"
    /\ user' = [user EXCEPT ![u] = [state |-> "deleted", rev |-> @.rev]]
    /\ sess' = [s \in Sessions |-> IF s \in SessionsOf(u) \cap HasRow THEN "deleted" ELSE sess[s]]
    /\ code' = [g \in Grants |-> IF g \in G /\ code[g] # "unissued" THEN "deleted" ELSE code[g]]
    /\ pkce' = pkce \ {g \in G : code[g] \in {"live", "invalid"}}
    /\ refresh' = [a \in Attempts |-> IF a \in TokensOf(G) THEN "none" ELSE refresh[a]]
    /\ access' = access \ (tokenReq \cap TokensOf(G))
    /\ tokenReq' = tokenReq \ TokensOf(G)
    /\ SubjectLogout(u)
    /\ UNCHANGED <<codeGen, used, rotated>>

(* A verified logout token of an upstream provider ends the sessions bound *)
(* to it.  Unlike a local logout it also tells the clients of a session    *)
(* whose row was already revoked, by reauthentication for instance.        *)
UpstreamLogout(S) ==
    /\ S # {} /\ S \subseteq HasRow
    /\ deliveries' = deliveries \cup {sc \in sessClients : sc[1] \in S}
    /\ sess' = Revoked(S)
    /\ RevokeArtifacts(GrantsOfSessions(S))
    /\ sessClients' = {sc \in sessClients : sc[1] \notin S}
    /\ ended' = ended \cup S
    /\ announced' = announced \cup (S \ ended)
    /\ UNCHANGED <<user, client, userClients, userDeliveries, receipts, expired, callVars, minted>>

LogoutAllSessions ==
    /\ sess' = Revoked(Sessions)
    /\ RevokeArtifacts(Grants)
    /\ userDeliveries' = userDeliveries \cup userClients
    /\ userClients' = {}
    /\ sessClients' = {}
    /\ ended' = ended \cup {s \in Sessions : sess[s] # "absent"}
    /\ announced' = announced \cup Unrevoked
    /\ UNCHANGED <<user, client, deliveries, receipts, expired, callVars, minted>>

(* A consumed password reset: deliveries by session, revoked rows included; *)
(* oidc_user_clients is kept.                                               *)
ResetPassword(u) ==
    /\ user[u].state = "enabled"
    /\ sess' = Revoked(SessionsOf(u))
    /\ RevokeArtifacts(GrantsOfUser(u))
    /\ deliveries' = deliveries \cup {sc \in sessClients : sc[1] \in SessionsOf(u) \cap HasRow}
    /\ sessClients' = {sc \in sessClients : sc[1] \notin (SessionsOf(u) \cap HasRow)}
    /\ ended' = ended \cup {s \in SessionsOf(u) : sess[s] # "absent"}
    /\ announced' = announced \cup (SessionsOf(u) \cap Unrevoked)
    /\ UNCHANGED <<user, client, userClients, userDeliveries, receipts, expired, callVars, minted>>

(***************************************************************************)
(* Administrator updates of users and clients.                             *)
(***************************************************************************)
(* UpdateUserWithGuard: one batch writes the flags, the address and the     *)
(* roles.  A disabled user or a new e-mail address revokes the sessions; a  *)
(* disabled user also loses its OAuth rows, and nothing is enqueued.        *)
UpdateUser(u, enabled, newEmail, newRoles) ==
    /\ user[u].state # "deleted"
    /\ newRoles => user[u].rev < MaxRevision
    /\ user' = [user EXCEPT ![u] = [state |-> IF enabled THEN "enabled" ELSE "disabled",
                                    rev |-> IF newRoles THEN @.rev + 1 ELSE @.rev]]
    /\ sess' = IF newEmail \/ ~enabled THEN Revoked(SessionsOf(u)) ELSE sess
    /\ IF enabled
       THEN UNCHANGED <<dbVars, ended>>
       ELSE /\ RevokeArtifacts(GrantsOfUser(u))
            /\ ended' = ended \cup {s \in SessionsOf(u) : sess[s] # "absent"}
    /\ UNCHANGED <<client, rpVars, receipts, expired, callVars, announced, minted>>

(* A metadata update or secret rotation moves the revision; a disable, or  *)
(* new audiences or confidentiality (rescoped), also the generation, which *)
(* a later enable keeps.                                                   *)
UpdateClientKeepingRevision(c, state, rescoped) ==  \* Mutant: the revision does not move.
    /\ client[c].state # "deleted"
    /\ client[c].rev < MaxRevision
    /\ client' = [client EXCEPT ![c] =
          [state |-> state, rev |-> @.rev,
           gen |-> IF rescoped \/ (@.state = "enabled" /\ state = "disabled") THEN @.gen + 1 ELSE @.gen]]
    /\ UNCHANGED <<sess, user, dbVars, rpVars, receipts, expired, callVars, histVars>>

UpdateClient(c, state, rescoped) ==
    /\ client[c].state # "deleted"
    /\ client[c].rev < MaxRevision
    /\ client' = [client EXCEPT ![c] =
          [state |-> state, rev |-> @.rev + 1,
           gen |-> IF rescoped \/ (@.state = "enabled" /\ state = "disabled") THEN @.gen + 1 ELSE @.gen]]
    /\ UNCHANGED <<sess, user, dbVars, rpVars, receipts, expired, callVars, histVars>>

DeleteClient(c) ==
    /\ client[c].state # "deleted"
    /\ client[c].rev < MaxRevision
    /\ client' = [client EXCEPT ![c] = [state |-> "deleted", gen |-> @.gen, rev |-> @.rev + 1]]
    /\ sessClients' = {sc \in sessClients : sc[2] # c}
    /\ userClients' = {uc \in userClients : uc[2] # c}
    /\ UNCHANGED <<sess, user, dbVars, deliveries, userDeliveries, receipts, expired, callVars, histVars>>

(***************************************************************************)
(* Expiry.  The batches carry the clock of the moment they were built, so  *)
(* a clean-up removes some of the rows that have expired by its commit.    *)
(***************************************************************************)
Expiries == Cardinality(expired.codes) + Cardinality(expired.access) + Cardinality(expired.refresh)

Expire ==
    /\ Expiries < MaxExpiries
    /\ \/ \E g \in Grants \ expired.codes :
             /\ code[g] \in {"live", "invalid"}
             /\ expired' = [expired EXCEPT !.codes = @ \cup {g}]
       \/ \E a \in access \ expired.access : expired' = [expired EXCEPT !.access = @ \cup {a}]
       \/ \E a \in Attempts \ expired.refresh :
             /\ refresh[a] # "none"
             /\ expired' = [expired EXCEPT !.refresh = @ \cup {a}]
    /\ UNCHANGED <<sess, user, client, dbVars, rpVars, receipts, callVars, histVars>>

(***************************************************************************)
(* The "issue" transaction.  Expired codes and PKCE rows are deleted in    *)
(* any case; both inserts carry the browser-session, account and client    *)
(* guards, evaluated at commit.                                            *)
(***************************************************************************)
IssueGuardWithoutSession(g) ==  \* Mutant: the browser session is not re-checked.
    /\ user[UserOf(g)].state = "enabled"
    /\ client[ClientOf[g]].state = "enabled"

IssueGuard(g) ==
    /\ sess[SidOf[g]] = "live"
    /\ user[UserOf(g)].state = "enabled"
    /\ client[ClientOf[g]].state = "enabled"

IssueCode(g) ==
    /\ code[g] = "unissued"
    /\ \E dead \in SUBSET expired.codes :
          /\ code' = [h \in Grants |-> CASE h = g /\ IssueGuard(g) -> "live"
                                         [] h \in dead             -> "deleted"
                                         [] OTHER                  -> code[h]]
          /\ pkce' = (pkce \ dead) \cup (IF IssueGuard(g) THEN {g} ELSE {})
    /\ codeGen' = [codeGen EXCEPT ![g] = IF IssueGuard(g) THEN client[ClientOf[g]].gen ELSE @]
    /\ UNCHANGED <<sess, user, client, used, access, tokenReq, refresh, rotated,
                   rpVars, receipts, expired, callVars, histVars>>

(***************************************************************************)
(* The token endpoint reads: the grant row, the principal's revision, the  *)
(* account and the client.  decodeRequest refuses a grant written for      *)
(* another generation of the client.                                       *)
(***************************************************************************)
Decodes(g) ==
    /\ client[ClientOf[g]].state = "enabled"
    /\ client[ClientOf[g]].gen = codeGen[g]

Begin(a, g, r, next) ==
    /\ pc' = [pc EXCEPT ![a] = next]
    /\ grantOf' = [grantOf EXCEPT ![a] = g]
    /\ presented' = [presented EXCEPT ![a] = r]
    /\ snapUser' = [snapUser EXCEPT ![a] = user[UserOf(g)].rev]
    /\ snapClient' = [snapClient EXCEPT ![a] = client[ClientOf[g]].rev]
    /\ UNCHANGED <<sess, user, client, dbVars, rpVars, receipts, expired, histVars>>

(* GetAuthorizeCodeSession: an invalidated code starts the reuse path. *)
BeginCode(a, g) ==
    /\ pc[a] = "idle"
    /\ Decodes(g)
    /\ \/ /\ code[g] = "live"
          /\ g \notin expired.codes
          /\ g \in pkce
          /\ user[UserOf(g)].state = "enabled"
          /\ Begin(a, g, NoAttempt, "code")
       \/ /\ code[g] = "invalid"
          /\ Begin(a, g, NoAttempt, "codeReuse")

(* GetRefreshTokenSession: an inactive token starts the reuse path. *)
BeginRefresh(a, r) ==
    /\ pc[a] = "idle"
    /\ Decodes(grantOf[r])
    /\ \/ /\ refresh[r] = "active"
          /\ r \notin expired.refresh
          /\ user[UserOf(grantOf[r])].state = "enabled"
          /\ Begin(a, grantOf[r], r, "refresh")
       \/ /\ refresh[r] = "inactive"
          /\ Begin(a, grantOf[r], r, "reuse")

(* The revocation endpoint finds an active refresh token or an access token. *)
BeginRevoke(a, r) ==
    /\ pc[a] = "idle"
    /\ Decodes(grantOf[r])
    /\ refresh[r] = "active" \/ r \in tokenReq
    /\ Begin(a, grantOf[r], r, "revoke")

(***************************************************************************)
(* Guards every statement of a code or refresh batch repeats at commit.    *)
(***************************************************************************)
PrincipalGuardWithoutRevision(a) == user[UserOf(grantOf[a])].state = "enabled"  \* Mutant.
PrincipalGuard(a) ==
    LET u == user[UserOf(grantOf[a])]
    IN  u.state = "enabled" /\ u.rev = snapUser[a]

ManagedGuard(a) ==
    LET c == client[ClientOf[grantOf[a]]]
    IN  c.state = "enabled" /\ c.gen = codeGen[grantOf[a]] /\ c.rev = snapClient[a]

(* Statements that do not depend on the grant row: expired rows go. *)
CleanUp(a, deadAccess, deadRefresh) ==
    /\ access' = IF PrincipalGuard(a) THEN access \ deadAccess ELSE access
    /\ tokenReq' = IF PrincipalGuard(a) THEN tokenReq \cap access' ELSE tokenReq
    /\ refresh' = [b \in Attempts |-> IF PrincipalGuard(a) /\ b \in deadRefresh THEN "none" ELSE refresh[b]]
    /\ UNCHANGED <<code, used, pkce, rotated, sessClients, userClients, minted>>

(* InvalidateAuthorizeCodeSession, CreateAccessTokenSession and            *)
(* CreateRefreshTokenSession in one batch: only the attempt that marks the *)
(* code inserts rows.                                                      *)
CodeWinsTwice(a) == code[grantOf[a]] # "deleted" /\ PrincipalGuard(a) /\ ManagedGuard(a)  \* Mutant.
CodeWins(a) == code[grantOf[a]] = "live" /\ PrincipalGuard(a) /\ ManagedGuard(a)

CommitCode(a) ==
    LET g == grantOf[a] IN
    /\ pc[a] = "code"
    /\ pc' = [pc EXCEPT ![a] = "committed"]
    /\ \E deadAccess \in SUBSET expired.access, deadRefresh \in SUBSET expired.refresh :
          IF CodeWins(a)
          THEN /\ code' = [code EXCEPT ![g] = "invalid"]
               /\ used' = [used EXCEPT ![g] = a]
               /\ pkce' = pkce \ {g}
               /\ access' = (access \ deadAccess) \cup {a}
               /\ tokenReq' = (tokenReq \cap (access \ deadAccess)) \cup {a}
               /\ refresh' = [b \in Attempts |-> CASE b = a             -> "active"
                                                   [] b \in deadRefresh -> "none"
                                                   [] OTHER             -> refresh[b]]
               /\ sessClients' = sessClients \cup {<<SidOf[g], ClientOf[g]>>}
               /\ userClients' = userClients \cup {<<UserOf(g), ClientOf[g]>>}
               /\ minted' = minted \cup {a}
               /\ UNCHANGED rotated
          ELSE CleanUp(a, deadAccess, deadRefresh)
    /\ UNCHANGED <<sess, user, client, codeGen, deliveries, userDeliveries, receipts, expired,
                   grantOf, presented, snapUser, snapClient, ended, announced>>

(* RotateRefreshToken and the two creations.  When the presented token     *)
(* itself expires before the batch is built, its row is gone by the time   *)
(* the new refresh token's guard looks for it.                             *)
RefreshWinsInactive(a) == refresh[presented[a]] # "none" /\ PrincipalGuard(a) /\ ManagedGuard(a)  \* Mutant.
RefreshWins(a) == refresh[presented[a]] = "active" /\ PrincipalGuard(a) /\ ManagedGuard(a)

CommitRefresh(a) ==
    LET g == grantOf[a]
        r == presented[a]
    IN
    /\ pc[a] = "refresh"
    /\ pc' = [pc EXCEPT ![a] = "committed"]
    /\ \E deadAccess \in SUBSET expired.access, deadRefresh \in SUBSET expired.refresh :
          IF RefreshWins(a)
          THEN LET kept == (access \ TokensOf({g})) \ deadAccess IN
               /\ rotated' = [rotated EXCEPT ![r] = a]
               /\ access' = kept \cup {a}
               /\ tokenReq' = (tokenReq \cap kept) \cup {a}
               /\ refresh' = [b \in Attempts |-> CASE b = a /\ r \notin deadRefresh -> "active"
                                                   [] b # a /\ b \in deadRefresh    -> "none"
                                                   [] OTHER                         -> Inactive(TokensOf({g}))[b]]
               /\ minted' = IF r \in deadRefresh THEN minted ELSE minted \cup {a}
               /\ UNCHANGED <<code, used, pkce, sessClients, userClients>>
          ELSE CleanUp(a, deadAccess, deadRefresh)
    /\ UNCHANGED <<sess, user, client, codeGen, deliveries, userDeliveries, receipts, expired,
                   grantOf, presented, snapUser, snapClient, ended, announced>>

(* Commit's linearizable query: is the consumed row marked by this attempt? *)
MarkedBySomebody(a) ==  \* Mutant: any consumed row passes for one's own.
    IF presented[a] = NoAttempt
    THEN used[grantOf[a]] # NoAttempt
    ELSE rotated[presented[a]] # NoAttempt
MarkedBy(a) ==
    IF presented[a] = NoAttempt
    THEN code[grantOf[a]] # "deleted" /\ used[grantOf[a]] = a
    ELSE refresh[presented[a]] # "none" /\ rotated[presented[a]] = a

VerifyCommit(a) ==
    /\ pc[a] = "committed"
    /\ pc' = [pc EXCEPT ![a] = IF MarkedBy(a) THEN "verified" ELSE "failed"]
    /\ UNCHANGED <<sess, user, client, dbVars, rpVars, receipts, expired,
                   grantOf, presented, snapUser, snapClient, histVars>>

(* validateIssuanceAccounts, then the response bytes. *)
Respond(a) ==
    /\ pc[a] = "verified"
    /\ pc' = [pc EXCEPT ![a] = IF user[UserOf(grantOf[a])].state = "enabled" THEN "delivered" ELSE "failed"]
    /\ UNCHANGED <<sess, user, client, dbVars, rpVars, receipts, expired,
                   grantOf, presented, snapUser, snapClient, histVars>>

(***************************************************************************)
(* Revocations by request_id.  Their request IDs are fixed per grant or    *)
(* per token, and the database executes a request ID once: a second call   *)
(* replays the stored receipt and changes nothing.                         *)
(***************************************************************************)
Finish(a, next) ==
    /\ pc' = [pc EXCEPT ![a] = next]
    /\ UNCHANGED <<sess, user, client, rpVars, expired,
                   grantOf, presented, snapUser, snapClient, histVars>>

Untouched == UNCHANGED <<dbVars, receipts>>

RevokeRefreshToken(g) ==
    LET id == [op |-> "oauth-revoke-refresh", on |-> g] IN
    IF id \in receipts
    THEN Untouched
    ELSE /\ receipts' = receipts \cup {id}
         /\ refresh' = Inactive(TokensOf({g}))
         /\ UNCHANGED <<code, codeGen, used, pkce, access, tokenReq, rotated>>

RevokeAccessTokenOnly(g) ==  \* Mutant: orphaned token requests stay.
    LET id == [op |-> "oauth-revoke-access", on |-> g] IN
    IF id \in receipts
    THEN Untouched
    ELSE /\ receipts' = receipts \cup {id}
         /\ access' = access \ TokensOf({g})
         /\ refresh' = Inactive(TokensOf({g}))
         /\ UNCHANGED <<code, codeGen, used, pkce, tokenReq, rotated>>

RevokeAccessToken(g) ==
    LET id == [op |-> "oauth-revoke-access", on |-> g] IN
    IF id \in receipts
    THEN Untouched
    ELSE /\ receipts' = receipts \cup {id}
         /\ access' = access \ TokensOf({g})
         /\ tokenReq' = tokenReq \cap access'
         /\ refresh' = Inactive(TokensOf({g}))
         /\ UNCHANGED <<code, codeGen, used, pkce, rotated>>

(* fosite on an invalidated code: revoke access, then refresh; an error of *)
(* the first call does not stop the second.                                *)
CodeReuseRevokesAccess(a) ==
    /\ pc[a] = "codeReuse"
    /\ Finish(a, "codeReuse2")
    /\ RevokeAccessToken(grantOf[a]) \/ Untouched

CodeReuseRevokesRefresh(a) ==
    /\ pc[a] = "codeReuse2"
    /\ Finish(a, "failed")
    /\ RevokeRefreshToken(grantOf[a]) \/ Untouched

(* fosite on an inactive refresh token: one "reuse" transaction deletes the *)
(* row and revokes the family.                                              *)
CommitReuse(a) ==
    LET g == grantOf[a]
        r == presented[a]
        id == [op |-> "oauth-refresh-reuse", on |-> r]
    IN
    /\ pc[a] = "reuse"
    /\ Finish(a, "failed")
    /\ IF id \in receipts
       THEN Untouched
       ELSE /\ receipts' = receipts \cup {id}
            /\ refresh' = [Inactive(TokensOf({g})) EXCEPT ![r] = "none"]
            /\ access' = access \ TokensOf({g})
            /\ tokenReq' = tokenReq \cap access'
            /\ UNCHANGED <<code, codeGen, used, pkce, rotated>>

(* The revocation endpoint: refresh first, then access; success is answered *)
(* only when neither call failed.                                           *)
RevokeEndpointRefresh(a) ==
    /\ pc[a] = "revoke"
    /\ \/ RevokeRefreshToken(grantOf[a]) /\ Finish(a, "revoke2")
       \/ Untouched /\ Finish(a, "revoke2e")

RevokeEndpointAccess(a) ==
    /\ pc[a] \in {"revoke2", "revoke2e"}
    /\ \/ /\ RevokeAccessToken(grantOf[a])
          /\ Finish(a, IF pc[a] = "revoke2" THEN "revoked" ELSE "failed")
       \/ Untouched /\ Finish(a, "failed")

(***************************************************************************)
(* The system.                                                             *)
(***************************************************************************)
SessionNext(s) ==
    \/ CreateSession(s)
    \/ \E p \in Sessions : CreateReauthenticatedSession(p, s)
    \/ ExpireSession(s)
    \/ SweepSession(s)
    \/ RevokeOIDCSession(s)
    \/ DeleteSession(s)

UserNext(u) ==
    \/ ForceLogout(u)
    \/ ExpireAccount(u)
    \/ DeleteUser(u)
    \/ ResetPassword(u)
    \/ \E enabled, newEmail, newRoles \in BOOLEAN : UpdateUser(u, enabled, newEmail, newRoles)

ClientNext(c) ==
    \/ \E state \in {"enabled", "disabled"}, rescoped \in BOOLEAN : UpdateClient(c, state, rescoped)
    \/ DeleteClient(c)

CallNext(a) ==
    \/ \E g \in Grants : BeginCode(a, g)
    \/ \E r \in Attempts : BeginRefresh(a, r)
    \/ \E r \in Attempts : BeginRevoke(a, r)
    \/ CommitCode(a)
    \/ CommitRefresh(a)
    \/ VerifyCommit(a)
    \/ Respond(a)
    \/ CodeReuseRevokesAccess(a)
    \/ CodeReuseRevokesRefresh(a)
    \/ CommitReuse(a)
    \/ RevokeEndpointRefresh(a)
    \/ RevokeEndpointAccess(a)

Next ==
    \/ \E s \in Sessions : SessionNext(s)
    \/ LogoutAllSessions
    \/ \E S \in SUBSET Sessions : UpstreamLogout(S)
    \/ \E u \in Subjects : UserNext(u)
    \/ \E c \in Clients : ClientNext(c)
    \/ Expire
    \/ \E g \in Grants : IssueCode(g)
    \/ \E a \in Attempts : CallNext(a)

Spec == Init /\ [][Next]_vars

(***************************************************************************)
(* Properties.                                                             *)
(***************************************************************************)
Dead(g) ==
    /\ code[g] \notin {"unissued", "live"}
    /\ \A a \in TokensOf({g}) : refresh[a] # "active" /\ a \notin access /\ a \notin tokenReq

(* Logout is final.  Once RevokeOIDCSession, DeleteSession, ForceLogout,   *)
(* LogoutAllSessions, a password reset or a disable has run for a session, *)
(* no code of it can be redeemed, none of its refresh tokens is active and *)
(* none of its access tokens is stored, whatever exchange or rotation was  *)
(* in flight.                                                              *)
LogoutIsFinal ==
    \A s \in ended : \A g \in GrantsOfSessions({s}) :
        code[g] # "live" /\ (code[g] = "unissued" \/ Dead(g))

(* A family revoked by request_id stays revoked.  The request IDs are      *)
(* fixed, so a token of the family written after the first revocation      *)
(* could never be revoked again; reuse of a rotated refresh token revokes  *)
(* its family the same way, and so does an acknowledged revocation call.   *)
RevocationIsFinal ==
    /\ \A g \in Grants : [op |-> "oauth-revoke-access", on |-> g] \in receipts => Dead(g)
    /\ \A r \in Attempts : [op |-> "oauth-refresh-reuse", on |-> r] \in receipts => Dead(grantOf[r])
    /\ \A a \in Attempts : pc[a] = "revoked" => Dead(grantOf[a])

(* Refresh rotation keeps one chain: a grant never has two active refresh  *)
(* tokens nor two stored access tokens, and the two belong together.       *)
OneChain ==
    \A a, b \in Attempts :
        /\ grantOf[a] = grantOf[b]
        /\ refresh[a] = "active" \/ a \in access
        /\ refresh[b] = "active" \/ b \in access
        => a = b

(* A code and a refresh token are each answered at most once, and an       *)
(* answered call is one whose batch really wrote its tokens: Commit's      *)
(* verification query cannot mistake another attempt's work for its own.   *)
Answered(a) == pc[a] \in {"verified", "delivered"}
SingleUse ==
    /\ \A a \in Attempts : Answered(a) => a \in minted
    /\ \A a, b \in Attempts :
          Answered(a) /\ Answered(b) /\ a # b
          => \/ presented[a] # presented[b]
             \/ presented[a] = NoAttempt /\ grantOf[a] # grantOf[b]

(* GetAccessTokenSession accepts a token by its oauth_token_requests row   *)
(* alone; revocations find tokens by oauth_access_tokens.  The two tables  *)
(* agree after every batch, so no revoked token is still accepted.         *)
TokenTablesAgree == tokenReq = access

(* Every client that redeemed a code in a session is told of the logout of *)
(* that session, by sid or by subject, unless the client was deleted: no   *)
(* exchange slips between the enqueueing and the end of the session.       *)
EveryRPNotified ==
    \A g \in Grants :
        SidOf[g] \in announced /\ used[g] # NoAttempt
        => \/ <<SidOf[g], ClientOf[g]>> \in deliveries
           \/ <<UserOf(g), ClientOf[g]>> \in userDeliveries
           \/ client[ClientOf[g]].state = "deleted"

(* Tokens are written only under the policy current at commit: the         *)
(* principal's revision and the client's revision the claims were computed *)
(* from are still current, the user and the client are enabled, and the    *)
(* client is the incarnation that obtained the code.                       *)
MintUnderCurrentPolicy ==
    [][\A a \in Attempts :
          (a \in access' \ access \/ (refresh[a] # "active" /\ refresh'[a] = "active"))
          => /\ user[UserOf(grantOf[a])] = [state |-> "enabled", rev |-> snapUser[a]]
             /\ client[ClientOf[grantOf[a]]] =
                   [state |-> "enabled", gen |-> codeGen[grantOf[a]], rev |-> snapClient[a]]]_vars

(***************************************************************************)
(* Refinement.  A grant is in the hands of the attempt whose tokens are    *)
(* stored and usable; OneChain says there is at most one.                  *)
(***************************************************************************)
Holders(g) == {a \in TokensOf({g}) : refresh[a] = "active" \/ a \in access}

Phase == [g \in Grants |-> CASE code[g] = "unissued" -> "new"
                             [] Holders(g) # {}      -> "held"
                             [] code[g] = "live"     -> "code"
                             [] OTHER                -> "dead"]
Holder == [g \in Grants |-> IF Holders(g) = {} THEN NoAttempt ELSE CHOOSE a \in Holders(g) : TRUE]
Spent == {a \in Attempts : pc[a] \notin {"idle", "code", "refresh"}}

Lifecycle == INSTANCE GrantLifecycle WITH phase <- Phase, holder <- Holder, spent <- Spent

(* The store implements the life of a grant: issued, redeemed once, then   *)
(* handed from one attempt to a fresh one, and never revived after it died. *)
ImplementsLifecycle == Lifecycle!Spec
=============================================================================
