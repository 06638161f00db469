-------------------------- MODULE OAuthGrantsProofs --------------------------
(***************************************************************************)
(* Proofs about OAuthGrants, for any sets of sessions, users, clients,     *)
(* grants and endpoint calls.                                              *)
(***************************************************************************)
EXTENDS OAuthGrants, TLAPS

(***************************************************************************)
(* The inductive invariant.  LogoutIsFinal, RevocationIsFinal, OneChain    *)
(* and TokenTablesAgree are not inductive: a commit is harmless only       *)
(* because of what the call read earlier and of what its own name has not  *)
(* been used for yet.                                                      *)
(***************************************************************************)
BeforeCommit == {"idle", "code", "refresh", "reuse", "codeReuse", "codeReuse2",
                 "revoke", "revoke2", "revoke2e", "revoked"}

(* A call that has not committed a grant batch owns no row. *)
FreshCalls ==
    \A a \in Attempts : pc[a] \in BeforeCommit =>
        /\ a \notin access /\ a \notin tokenReq /\ refresh[a] = "none"
        /\ \A g \in Grants : used[g] # a
        /\ \A b \in Attempts : rotated[b] # a

Consumed(g) == code[g] \in {"invalid", "deleted"}

(* A stored token belongs to a grant whose code was consumed. *)
TokensFollowCode ==
    \A a \in Attempts : refresh[a] # "none" \/ a \in access => Consumed(grantOf[a])

(* What a call relies on after its read: the grant of the presented token, *)
(* and that a code it found invalid, or behind a token, is consumed.       *)
CallsKnow ==
    \A a \in Attempts :
        /\ pc[a] \in {"refresh", "reuse"} =>
              /\ presented[a] \in Attempts
              /\ pc[presented[a]] # "idle"
              /\ grantOf[presented[a]] = grantOf[a]
        /\ pc[a] \in BeforeCommit \ {"idle", "code"} => Consumed(grantOf[a])

(* Ended sessions can authorize no further code. *)
EndedStaysEnded == \A s \in ended : sess[s] \in {"revoked", "deleted"}

(* A reuse receipt names a token that was issued. *)
ReceiptsNameTokens ==
    \A r \in Attempts : [op |-> "oauth-refresh-reuse", on |-> r] \in receipts => pc[r] # "idle"

Structure == FreshCalls /\ TokensFollowCode /\ CallsKnow /\ EndedStaysEnded /\ ReceiptsNameTokens

IInv == TypeOK /\ Structure /\ TokenTablesAgree /\ OneChain /\ LogoutIsFinal /\ RevocationIsFinal

(* The calls of a refresh token name it; TypeOK needs this to be inductive. *)
TokenCalls == \A a \in Attempts : pc[a] \in {"refresh", "reuse"} => presented[a] \in Attempts

-----------------------------------------------------------------------------
(* Every reachable state is well typed: Init, and one case per action. *)
LEMMA InitType == Init => TypeOK
  <1> SUFFICES ASSUME Init PROVE TypeOK
    OBVIOUS
  <1>1. (CHOOSE g \in Grants : TRUE) \in Grants
    BY ConstantsAssumption
  <1> QED
    BY <1>1, ConstantsAssumption DEF Init, TypeOK, SessStates, Users, ClientRows, CodeStates,
       RefreshStates, Revisions, PcStates

LEMMA SessionType ==
  ASSUME TypeOK, NEW s \in Sessions, SessionNext(s)
  PROVE  TypeOK'
  <1>1. CASE CreateSession(s) \/ ExpireSession(s) \/ SweepSession(s)
             \/ (\E p \in Sessions : CreateReauthenticatedSession(p, s))
    BY <1>1 DEF TypeOK, CreateSession, ExpireSession, SweepSession, CreateReauthenticatedSession,
       SessStates, dbVars, rpVars, callVars, histVars
  <1>2. CASE RevokeOIDCSession(s) \/ DeleteSession(s)
    BY <1>2 DEF TypeOK, RevokeOIDCSession, DeleteSession, SessionRevocationStatements, SidDeliveries,
       RevokeArtifacts, Inactive, TokensOf, Revoked, Unrevoked, SessStates, CodeStates, RefreshStates,
       callVars
  <1> QED
    BY <1>1, <1>2 DEF SessionNext

LEMMA UserType ==
  ASSUME TypeOK, NEW u \in Subjects, UserNext(u)
  PROVE  TypeOK'
  <1>1. ASSUME NEW enabled \in BOOLEAN, NEW newEmail \in BOOLEAN, NEW newRoles \in BOOLEAN,
               UpdateUser(u, enabled, newEmail, newRoles)
        PROVE  TypeOK'
    <2>1. user' \in [Subjects -> Users]
      <3>1. (IF newRoles THEN user[u].rev + 1 ELSE user[u].rev) \in Revisions
        BY <1>1, ConstantsAssumption DEF TypeOK, UpdateUser, Users, Revisions
      <3> QED
        BY <1>1, <3>1 DEF TypeOK, UpdateUser, Users
    <2>2. sess' \in [Sessions -> SessStates]
      BY <1>1 DEF TypeOK, UpdateUser, Revoked, SessStates
    <2>3. CASE enabled
      BY <1>1, <2>1, <2>2, <2>3 DEF TypeOK, UpdateUser, dbVars, rpVars, callVars
    <2>4. CASE ~enabled
      BY <1>1, <2>1, <2>2, <2>4 DEF TypeOK, UpdateUser, RevokeArtifacts, Inactive,
         SessionsOf, CodeStates, RefreshStates, callVars, rpVars
    <2> QED
      BY <2>3, <2>4
  <1>2. CASE ForceLogout(u) \/ ResetPassword(u)
    BY <1>2 DEF TypeOK, ForceLogout, ResetPassword, SubjectLogout, RevokeArtifacts, Inactive, TokensOf,
       Revoked, Unrevoked, SessionsOf, SessStates, CodeStates, RefreshStates, callVars
  <1>3. CASE ExpireAccount(u)
    <2>1. user' \in [Subjects -> Users]
      BY <1>3 DEF TypeOK, ExpireAccount, Users
    <2> QED
      BY <1>3, <2>1 DEF TypeOK, ExpireAccount, SubjectLogout, RevokeArtifacts, Inactive, Revoked,
         SessionsOf, SessStates, CodeStates, RefreshStates, callVars
  <1>5. CASE DeleteUser(u)
    BY <1>5 DEF TypeOK, DeleteUser, SubjectLogout, TokensOf, Unrevoked, SessionsOf, SessStates, CodeStates,
       RefreshStates, Users, callVars
  <1> QED
    BY <1>1, <1>2, <1>3, <1>5 DEF UserNext

LEMMA ClientType ==
  ASSUME TypeOK, NEW c \in Clients, ClientNext(c)
  PROVE  TypeOK'
  <1>1. ASSUME NEW state \in {"enabled", "disabled"}, NEW rescoped \in BOOLEAN, UpdateClient(c, state, rescoped)
        PROVE  TypeOK'
    BY <1>1, ConstantsAssumption DEF TypeOK, UpdateClient, ClientRows, Revisions,
       dbVars, rpVars, callVars, histVars
  <1>2. CASE DeleteClient(c)
    BY <1>2, ConstantsAssumption DEF TypeOK, DeleteClient, ClientRows, Revisions,
       dbVars, callVars, histVars
  <1> QED
    BY <1>1, <1>2 DEF ClientNext

LEMMA IssueAndExpireType ==
  ASSUME TypeOK, \/ Expire \/ LogoutAllSessions \/ (\E S \in SUBSET Sessions : UpstreamLogout(S))
                 \/ (\E g \in Grants : IssueCode(g))
  PROVE  TypeOK'
  <1>1. CASE Expire
    BY <1>1 DEF TypeOK, Expire, dbVars, rpVars, callVars, histVars
  <1>2. CASE LogoutAllSessions \/ (\E S \in SUBSET Sessions : UpstreamLogout(S))
    BY <1>2 DEF TypeOK, LogoutAllSessions, UpstreamLogout, RevokeArtifacts, Inactive, TokensOf, Revoked, Unrevoked,
       SessStates, CodeStates, RefreshStates, callVars
  <1>3. ASSUME NEW g \in Grants, IssueCode(g)
        PROVE  TypeOK'
    <2>1. code' \in [Grants -> CodeStates] /\ pkce' \subseteq Grants
      BY <1>3 DEF TypeOK, IssueCode, CodeStates
    <2>2. client[ClientOf[g]].gen \in Revisions
      BY ConstantsAssumption DEF TypeOK, ClientRows
    <2>3. codeGen' \in [Grants -> Revisions]
      BY <1>3, <2>2 DEF TypeOK, IssueCode
    <2> QED
      BY <1>3, <2>1, <2>3 DEF TypeOK, IssueCode, rpVars, callVars, histVars
  <1> QED
    BY <1>1, <1>2, <1>3

LEMMA BeginType ==
  ASSUME TypeOK, NEW a \in Attempts,
         \/ \E g \in Grants : BeginCode(a, g)
         \/ \E r \in Attempts : BeginRefresh(a, r) \/ BeginRevoke(a, r)
  PROVE  TypeOK'
  <1>1. ASSUME NEW g \in Grants, NEW r \in Attempts \cup {NoAttempt}, NEW next \in PcStates,
               Begin(a, g, r, next)
        PROVE  TypeOK'
    BY <1>1, ConstantsAssumption DEF TypeOK, Begin, UserOf, Users, ClientRows, dbVars, rpVars, histVars
  <1>2. {"code", "codeReuse", "refresh", "reuse", "revoke"} \subseteq PcStates
    BY DEF PcStates
  <1>3. ASSUME NEW r \in Attempts PROVE grantOf[r] \in Grants
    BY DEF TypeOK
  <1> QED
    BY <1>1, <1>2, <1>3 DEF BeginCode, BeginRefresh, BeginRevoke

LEMMA CommitType ==
  ASSUME TypeOK, NEW a \in Attempts, CommitCode(a) \/ CommitRefresh(a)
  PROVE  TypeOK'
  <1>1. CASE CommitCode(a)
    BY <1>1, ConstantsAssumption DEF TypeOK, CommitCode, CleanUp, UserOf, PcStates, CodeStates, RefreshStates
  <1>2. CASE CommitRefresh(a)
    BY <1>2, ConstantsAssumption DEF TypeOK, CommitRefresh, CleanUp, Inactive, PcStates, RefreshStates,
       RefreshWins
  <1> QED
    BY <1>1, <1>2

LEMMA RevokeType ==
  ASSUME TypeOK, TokenCalls, NEW a \in Attempts,
         \/ VerifyCommit(a) \/ Respond(a)
         \/ CodeReuseRevokesAccess(a) \/ CodeReuseRevokesRefresh(a) \/ CommitReuse(a)
         \/ RevokeEndpointRefresh(a) \/ RevokeEndpointAccess(a)
  PROVE  TypeOK'
  <1>1. CASE VerifyCommit(a) \/ Respond(a)
    BY <1>1 DEF TypeOK, VerifyCommit, Respond, PcStates, dbVars, rpVars, histVars
  <1>2. CASE CodeReuseRevokesAccess(a) \/ CodeReuseRevokesRefresh(a)
             \/ RevokeEndpointRefresh(a) \/ RevokeEndpointAccess(a)
    BY <1>2 DEF TypeOK, CodeReuseRevokesAccess, CodeReuseRevokesRefresh, RevokeEndpointRefresh,
       RevokeEndpointAccess, RevokeAccessToken, RevokeRefreshToken, Untouched, Finish, Inactive,
       Receipts, PcStates, RefreshStates, dbVars, rpVars, histVars
  <1>3. CASE CommitReuse(a)
    <2>1. presented[a] \in Attempts
      BY <1>3 DEF CommitReuse, TokenCalls
    <2>2. Inactive(TokensOf({grantOf[a]})) \in [Attempts -> RefreshStates]
      BY DEF TypeOK, Inactive, RefreshStates
    <2>3. [op |-> "oauth-refresh-reuse", on |-> presented[a]] \in Receipts
      BY <2>1 DEF Receipts
    <2>4. refresh' \in [Attempts -> RefreshStates] /\ receipts' \subseteq Receipts
      <3>1. CASE Untouched
        BY <3>1 DEF TypeOK, Untouched, dbVars
      <3>2. CASE /\ receipts' = receipts \cup {[op |-> "oauth-refresh-reuse", on |-> presented[a]]}
                 /\ refresh' = [Inactive(TokensOf({grantOf[a]})) EXCEPT ![presented[a]] = "none"]
        BY <3>2, <2>2, <2>3 DEF TypeOK, RefreshStates
      <3> QED
        BY <1>3, <3>1, <3>2 DEF CommitReuse
    <2>5. pc' \in [Attempts -> PcStates] /\ access' \subseteq Attempts /\ tokenReq' \subseteq Attempts
      BY <1>3 DEF TypeOK, CommitReuse, Untouched, Finish, PcStates, dbVars
    <2> QED
      BY <1>3, <2>4, <2>5 DEF TypeOK, CommitReuse, Untouched, Finish, dbVars, rpVars, histVars
  <1> QED
    BY <1>1, <1>2, <1>3

LEMMA NextType == TypeOK /\ TokenCalls /\ [Next]_vars => TypeOK'
  <1> SUFFICES ASSUME TypeOK, TokenCalls, [Next]_vars PROVE TypeOK'
    OBVIOUS
  <1>1. CASE UNCHANGED vars
    BY <1>1 DEF TypeOK, vars, dbVars, rpVars, callVars, histVars
  <1>2. CASE Next
    BY <1>2, SessionType, UserType, ClientType, IssueAndExpireType, BeginType, CommitType, RevokeType
       DEF Next, CallNext
  <1> QED
    BY <1>1, <1>2


-----------------------------------------------------------------------------
(***************************************************************************)
(* Steps that only take rights away.  Every action but the four that issue *)
(* a code, read for a new call, or write tokens is of this kind.           *)
(***************************************************************************)
Shrinks ==
    /\ \A b \in Attempts : /\ refresh'[b] = "active" => refresh[b] = "active"
                           /\ refresh[b] = "none" => refresh'[b] = "none"
    /\ access' \subseteq access
    /\ tokenReq' = access'
    /\ \A g \in Grants : code'[g] = code[g] \/ (code[g] # "unissued" /\ code'[g] \in {"invalid", "deleted"})
    /\ UNCHANGED <<used, rotated, grantOf, presented>>

(* A call under way moves on; it cannot become a call that has yet to commit. *)
CallsMove ==
    \A a \in Attempts :
        \/ pc'[a] = pc[a]
        \/ /\ pc[a] # "idle"
           /\ pc'[a] \notin {"idle", "code", "refresh", "reuse"}
           /\ pc'[a] \in BeforeCommit => pc[a] \in BeforeCommit \ {"idle", "code"}

(* Such a step, whatever its batch was. *)
Loses == Shrinks /\ CallsMove

(* What a step ends or revokes, it leaves dead. *)
EndsAreDead ==
    \A s \in ended' : s \in ended \/ \A g \in GrantsOfSessions({s}) :
        code'[g] # "live" /\ (code'[g] = "unissued" \/ Dead(g)')

RevocationsAreDead ==
    /\ \A g \in Grants : LET id == [op |-> "oauth-revoke-access", on |-> g]
                         IN  id \in receipts' => id \in receipts \/ Dead(g)'
    /\ \A r \in Attempts : LET id == [op |-> "oauth-refresh-reuse", on |-> r]
                           IN  id \in receipts' => id \in receipts \/ (pc[r] # "idle" /\ Dead(grantOf[r])')
    /\ \A a \in Attempts : pc'[a] = "revoked" => pc[a] = "revoked" \/ Dead(grantOf[a])'

LEMMA ShrinkKeepsDead ==
  ASSUME TypeOK, TokenTablesAgree, Shrinks, NEW g \in Grants, Dead(g)
  PROVE  Dead(g)'
  BY DEF TypeOK, TokenTablesAgree, Shrinks, Dead, TokensOf, CodeStates

LEMMA ShrinkStep ==
  ASSUME IInv, TypeOK', Shrinks, CallsMove, EndsAreDead, RevocationsAreDead, EndedStaysEnded'
  PROVE  IInv'
  <1>1. FreshCalls'
    BY DEF IInv, Structure, TypeOK, FreshCalls, Shrinks, CallsMove
  <1>2. TokensFollowCode'
    BY DEF IInv, Structure, TypeOK, TokensFollowCode, Consumed, Shrinks
  <1>3. CallsKnow'
    BY DEF IInv, Structure, TypeOK, CallsKnow, Consumed, Shrinks, CallsMove, BeforeCommit
  <1>4. ReceiptsNameTokens'
    BY DEF IInv, Structure, ReceiptsNameTokens, RevocationsAreDead, CallsMove
  <1>5. TokenTablesAgree'
    BY DEF TokenTablesAgree, Shrinks
  <1>6. OneChain'
    BY DEF IInv, OneChain, TypeOK, Shrinks
  <1>7. LogoutIsFinal'
    <2> SUFFICES ASSUME NEW s \in ended', NEW g \in Grants, SidOf[g] = s
                 PROVE  code'[g] # "live" /\ (code'[g] = "unissued" \/ Dead(g)')
      BY DEF LogoutIsFinal, GrantsOfSessions
    <2>1. CASE s \in ended
      <3>1. code[g] # "live" /\ (code[g] = "unissued" \/ Dead(g))
        BY <2>1 DEF IInv, LogoutIsFinal, GrantsOfSessions
      <3>2. code'[g] # "live" /\ (code[g] = "unissued" => code'[g] = "unissued")
        BY <3>1 DEF Shrinks
      <3> QED
        BY <3>1, <3>2, ShrinkKeepsDead DEF IInv
    <2>2. CASE s \notin ended
      BY <2>2 DEF EndsAreDead, GrantsOfSessions
    <2> QED
      BY <2>1, <2>2
  <1>8. RevocationIsFinal'
    <2>0. \A a \in Attempts : grantOf[a] \in Grants /\ grantOf'[a] = grantOf[a]
      BY DEF IInv, TypeOK, Shrinks
    <2>1. ASSUME NEW g \in Grants, [op |-> "oauth-revoke-access", on |-> g] \in receipts'
          PROVE  Dead(g)'
      BY <2>1, ShrinkKeepsDead DEF IInv, RevocationIsFinal, RevocationsAreDead
    <2>2. ASSUME NEW r \in Attempts, [op |-> "oauth-refresh-reuse", on |-> r] \in receipts'
          PROVE  Dead(grantOf[r])'
      <3>1. CASE Dead(grantOf[r])
        BY <3>1, <2>0, ShrinkKeepsDead DEF IInv, Dead, TokensOf
      <3> QED
        BY <2>2, <3>1 DEF IInv, RevocationIsFinal, RevocationsAreDead
    <2>3. ASSUME NEW a \in Attempts, pc'[a] = "revoked"
          PROVE  Dead(grantOf[a])'
      <3>1. CASE Dead(grantOf[a])
        BY <3>1, <2>0, ShrinkKeepsDead DEF IInv, Dead, TokensOf
      <3> QED
        BY <2>3, <3>1 DEF IInv, RevocationIsFinal, RevocationsAreDead
    <2> QED
      BY <2>1, <2>2, <2>3 DEF RevocationIsFinal
  <1> QED
    BY <1>1, <1>2, <1>3, <1>4, <1>5, <1>6, <1>7, <1>8 DEF IInv, Structure

-----------------------------------------------------------------------------
(* Steps that leave the OAuth rows and the calls alone. *)
LEMMA QuietStep ==
  ASSUME IInv, TypeOK', UNCHANGED <<dbVars, receipts, callVars, ended>>,
         \A s \in Sessions : sess[s] \in {"revoked", "deleted"} => sess'[s] \in {"revoked", "deleted"}
  PROVE  IInv' /\ Loses
  <1>1. Shrinks
    BY DEF IInv, TokenTablesAgree, Shrinks, dbVars, callVars
  <1>2. CallsMove /\ EndsAreDead /\ RevocationsAreDead
    BY DEF CallsMove, EndsAreDead, RevocationsAreDead, callVars
  <1>3. EndedStaysEnded'
    BY DEF IInv, TypeOK, Structure, EndedStaysEnded
  <1> QED
    BY <1>1, <1>2, <1>3, ShrinkStep DEF Loses

(* A revocation batch over the grants G, ending sessions whose grants it covers. *)
LEMMA KillStep ==
  ASSUME IInv, TypeOK', NEW G \in SUBSET Grants, RevokeArtifacts(G), UNCHANGED <<receipts, callVars>>,
         \A s \in ended' : s \in ended \/ GrantsOfSessions({s}) \subseteq G,
         EndedStaysEnded'
  PROVE  IInv' /\ Loses
  <1>1. Shrinks
    BY DEF IInv, TypeOK, TokenTablesAgree, Shrinks, RevokeArtifacts, Inactive, callVars
  <1>2. CallsMove /\ RevocationsAreDead
    BY DEF CallsMove, RevocationsAreDead, callVars
  <1>3. EndsAreDead
    <2> SUFFICES ASSUME NEW g \in G
                 PROVE  code'[g] # "live" /\ (code'[g] = "unissued" \/ Dead(g)')
      BY DEF EndsAreDead
    <2>1. code'[g] # "live"
      BY DEF RevokeArtifacts
    <2>2. \A a \in Attempts : grantOf'[a] = g =>
              refresh'[a] # "active" /\ a \notin access' /\ a \notin tokenReq'
      BY DEF IInv, TokenTablesAgree, RevokeArtifacts, Inactive, TokensOf, callVars
    <2> QED
      BY <2>1, <2>2 DEF Dead, TokensOf
  <1> QED
    BY <1>1, <1>2, <1>3, ShrinkStep DEF Loses

LEMMA SessionStep ==
  ASSUME IInv, TypeOK', NEW s \in Sessions, SessionNext(s)
  PROVE  IInv' /\ Loses
  <1>0. /\ TypeOK /\ EndedStaysEnded
        /\ \A t \in ended : sess[t] \in {"revoked", "deleted"}
    BY DEF IInv, Structure, EndedStaysEnded
  <1>1. CASE CreateSession(s) \/ ExpireSession(s) \/ SweepSession(s)
             \/ (\E p \in Sessions : CreateReauthenticatedSession(p, s))
    <2>1. \A t \in Sessions : sess[t] \in {"revoked", "deleted"} => sess'[t] \in {"revoked", "deleted"}
      BY <1>0, <1>1 DEF TypeOK, CreateSession, ExpireSession, SweepSession, CreateReauthenticatedSession
    <2>2. UNCHANGED <<dbVars, receipts, callVars, ended>>
      BY <1>1 DEF CreateSession, ExpireSession, SweepSession, CreateReauthenticatedSession, histVars
    <2> QED
      BY <2>1, <2>2, QuietStep
  <1>2. CASE RevokeOIDCSession(s) \/ DeleteSession(s)
    <2> DEFINE G == GrantsOfSessions({s})
    <2>1. G \in SUBSET Grants /\ RevokeArtifacts(G) /\ UNCHANGED <<receipts, callVars>>
      BY <1>2 DEF RevokeOIDCSession, DeleteSession, SessionRevocationStatements, GrantsOfSessions
    <2>2. ended' = ended \cup {s}
      BY <1>2 DEF RevokeOIDCSession, DeleteSession, SessionRevocationStatements
    <2>3. EndedStaysEnded'
      BY <1>0, <1>2, <2>2 DEF TypeOK, SessStates, EndedStaysEnded, RevokeOIDCSession, DeleteSession, Revoked,
         Unrevoked
    <2> QED
      BY <2>1, <2>2, <2>3, KillStep
  <1> QED
    BY <1>1, <1>2 DEF SessionNext

LEMMA UserStep ==
  ASSUME IInv, TypeOK', NEW u \in Subjects, UserNext(u)
  PROVE  IInv' /\ Loses
  <1>0. /\ TypeOK /\ EndedStaysEnded
        /\ \A t \in ended : sess[t] \in {"revoked", "deleted"}
    BY DEF IInv, Structure, EndedStaysEnded
  <1>1. ASSUME NEW newEmail \in BOOLEAN, NEW newRoles \in BOOLEAN,
               UpdateUser(u, TRUE, newEmail, newRoles)
        PROVE  IInv' /\ Loses
    <2>1. \A t \in Sessions : sess[t] \in {"revoked", "deleted"} => sess'[t] \in {"revoked", "deleted"}
      BY <1>0, <1>1 DEF TypeOK, UpdateUser, Revoked
    <2>2. UNCHANGED <<dbVars, receipts, callVars, ended>>
      BY <1>1 DEF UpdateUser
    <2> QED
      BY <2>1, <2>2, QuietStep
  <1>2. CASE \/ ForceLogout(u) \/ ResetPassword(u) \/ ExpireAccount(u)
             \/ \E newEmail, newRoles \in BOOLEAN : UpdateUser(u, FALSE, newEmail, newRoles)
    <2> DEFINE G == GrantsOfUser(u)
    <2>1. G \in SUBSET Grants /\ RevokeArtifacts(G) /\ UNCHANGED <<receipts, callVars>>
      BY <1>2 DEF ForceLogout, ResetPassword, UpdateUser, ExpireAccount, SubjectLogout, GrantsOfUser
    <2>2. /\ ended' = ended \cup {s \in SessionsOf(u) : sess[s] # "absent"}
          /\ sess' = Revoked(SessionsOf(u))
      BY <1>2 DEF ForceLogout, ResetPassword, UpdateUser, ExpireAccount, SubjectLogout
    <2>3. \A s \in ended' : s \in ended \/ GrantsOfSessions({s}) \subseteq G
      BY <2>2 DEF GrantsOfSessions, GrantsOfUser, UserOf, SessionsOf
    <2>4. EndedStaysEnded'
      BY <1>0, <2>2 DEF TypeOK, SessStates, EndedStaysEnded, SessionsOf, Revoked, Unrevoked
    <2> QED
      BY <2>1, <2>3, <2>4, KillStep
  <1>3. CASE DeleteUser(u)
    <2>1. Shrinks
      BY <1>0, <1>3 DEF IInv, TypeOK, TokenTablesAgree, Shrinks, DeleteUser, SubjectLogout, callVars
    <2>2. CallsMove /\ RevocationsAreDead
      BY <1>3 DEF CallsMove, RevocationsAreDead, DeleteUser, SubjectLogout, callVars
    <2>3. ended' = ended \cup {s \in SessionsOf(u) : sess[s] # "absent"}
      BY <1>3 DEF DeleteUser, SubjectLogout
    <2>4. EndedStaysEnded'
      BY <1>0, <1>3, <2>3 DEF TypeOK, SessStates, EndedStaysEnded, DeleteUser, SessionsOf, HasRow
    <2>5. ASSUME NEW g \in GrantsOfUser(u)
          PROVE  code'[g] # "live" /\ (code'[g] = "unissued" \/ Dead(g)')
      <3>1. code'[g] \in {"unissued", "deleted"}
        BY <1>0, <1>3 DEF TypeOK, CodeStates, DeleteUser, GrantsOfUser
      <3>2. \A a \in Attempts : grantOf'[a] = g => refresh'[a] = "none" /\ a \notin access' /\ a \notin tokenReq'
        BY <1>3 DEF IInv, TokenTablesAgree, DeleteUser, SubjectLogout, TokensOf, callVars
      <3> QED
        BY <3>1, <3>2 DEF Dead, TokensOf
    <2>6. EndsAreDead
      BY <2>3, <2>5 DEF EndsAreDead, GrantsOfSessions, GrantsOfUser, UserOf, SessionsOf
    <2> QED
      BY <2>1, <2>2, <2>4, <2>6, ShrinkStep DEF Loses
  <1> QED
    BY <1>1, <1>2, <1>3 DEF UserNext

LEMMA ClientStep ==
  ASSUME IInv, TypeOK', NEW c \in Clients, ClientNext(c)
  PROVE  IInv' /\ Loses
  <1>1. UNCHANGED <<sess, dbVars, receipts, callVars, ended>>
    BY DEF ClientNext, UpdateClient, DeleteClient, histVars
  <1> QED
    BY <1>1, QuietStep

LEMMA LogoutAllStep ==
  ASSUME IInv, TypeOK', LogoutAllSessions \/ (\E S \in SUBSET Sessions : UpstreamLogout(S))
  PROVE  IInv' /\ Loses
  <1>0. /\ TypeOK /\ \A t \in ended : sess[t] \in {"revoked", "deleted"}
    BY DEF IInv, Structure, EndedStaysEnded
  <1>1. CASE LogoutAllSessions
    <2>1. Grants \in SUBSET Grants /\ RevokeArtifacts(Grants) /\ UNCHANGED <<receipts, callVars>>
      BY <1>1 DEF LogoutAllSessions
    <2>2. \A s \in ended' : s \in ended \/ GrantsOfSessions({s}) \subseteq Grants
      BY DEF GrantsOfSessions
    <2>3. EndedStaysEnded'
      BY <1>0, <1>1 DEF TypeOK, SessStates, EndedStaysEnded, LogoutAllSessions, Revoked, Unrevoked
    <2> QED
      BY <2>1, <2>2, <2>3, KillStep
  <1>2. ASSUME NEW S \in SUBSET Sessions, UpstreamLogout(S)
        PROVE  IInv' /\ Loses
    <2> DEFINE G == GrantsOfSessions(S)
    <2>1. G \in SUBSET Grants /\ RevokeArtifacts(G) /\ UNCHANGED <<receipts, callVars>>
      BY <1>2 DEF UpstreamLogout, GrantsOfSessions
    <2>2. \A s \in ended' : s \in ended \/ GrantsOfSessions({s}) \subseteq G
      BY <1>2 DEF UpstreamLogout, GrantsOfSessions
    <2>3. EndedStaysEnded'
      BY <1>0, <1>2 DEF TypeOK, EndedStaysEnded, UpstreamLogout, Revoked, Unrevoked, HasRow
    <2> QED
      BY <2>1, <2>2, <2>3, KillStep
  <1> QED
    BY <1>1, <1>2

(***************************************************************************)
(* The four steps that grow something: each needs a fact of Structure.     *)
(***************************************************************************)
(* A code is issued only under a live session, which no revocation ended. *)
LEMMA IssueStep ==
  ASSUME IInv, TypeOK', NEW g \in Grants, IssueCode(g)
  PROVE  IInv'
  <1>0. TypeOK
    BY DEF IInv
  <1>1. /\ UNCHANGED <<sess, used, access, tokenReq, refresh, rotated, receipts, ended>>
        /\ UNCHANGED <<pc, grantOf, presented>>
    BY DEF IssueCode, callVars, histVars
  <1>2. \A h \in Grants :
          \/ code'[h] = code[h]
          \/ code'[h] = "deleted"
          \/ h = g /\ code[h] = "unissued" /\ code'[h] = "live" /\ sess[SidOf[h]] = "live"
    <2>1. IssueGuard(g) => sess[SidOf[g]] = "live"
      BY DEF IssueGuard
    <2> QED
      BY <2>1 DEF IssueCode
  <1>3. \A h \in Grants : Consumed(h) => Consumed(h)'
    BY <1>2 DEF Consumed
  <1>4. \A h \in Grants : ~Consumed(h) => \A a \in Attempts : grantOf[a] = h =>
            refresh[a] = "none" /\ a \notin access /\ a \notin tokenReq
    BY DEF IInv, Structure, TokensFollowCode, TokenTablesAgree
  <1>5. \A h \in Grants : Dead(h) => Dead(h)'
    BY <1>0, <1>1, <1>2 DEF Dead, TokensOf, TypeOK, CodeStates
  <1>6. FreshCalls' /\ OneChain' /\ TokenTablesAgree' /\ EndedStaysEnded' /\ ReceiptsNameTokens'
    BY <1>1 DEF IInv, Structure, FreshCalls, OneChain, TokenTablesAgree, EndedStaysEnded, ReceiptsNameTokens
  <1>7. TokensFollowCode' /\ CallsKnow'
    BY <1>0, <1>1, <1>3 DEF IInv, Structure, TypeOK, TokensFollowCode, CallsKnow
  <1>8. LogoutIsFinal'
    <2> SUFFICES ASSUME NEW s \in ended, NEW h \in Grants, SidOf[h] = s
                 PROVE  code'[h] # "live" /\ (code'[h] = "unissued" \/ Dead(h)')
      BY <1>1 DEF LogoutIsFinal, GrantsOfSessions
    <2>1. sess[s] # "live"
      BY DEF IInv, Structure, EndedStaysEnded
    <2>2. code[h] # "live" /\ (code[h] = "unissued" \/ Dead(h))
      BY DEF IInv, LogoutIsFinal, GrantsOfSessions
    <2>3. CASE code'[h] = code[h]
      BY <1>5, <2>2, <2>3
    <2>4. CASE code[h] = "unissued" /\ code'[h] = "deleted"
      BY <1>1, <1>4, <2>4 DEF Dead, TokensOf, Consumed
    <2>5. CASE code[h] # "unissued" /\ code'[h] = "deleted"
      BY <1>5, <2>2, <2>5
    <2> QED
      BY <1>2, <2>1, <2>3, <2>4, <2>5
  <1>9. RevocationIsFinal'
    <2>1. \A a \in Attempts : grantOf[a] \in Grants /\ (Dead(grantOf[a]) => Dead(grantOf[a])')
      BY <1>0, <1>1, <1>5 DEF TypeOK, Dead, TokensOf
    <2> QED
      BY <1>1, <1>5, <2>1 DEF IInv, RevocationIsFinal
  <1> QED
    BY <1>6, <1>7, <1>8, <1>9 DEF IInv, Structure

(* A new call owns no row, so the grant it reads for changes nothing. *)
LEMMA BeginStep ==
  ASSUME IInv, TypeOK', NEW a \in Attempts,
         \/ \E g \in Grants : BeginCode(a, g)
         \/ \E r \in Attempts : BeginRefresh(a, r) \/ BeginRevoke(a, r)
  PROVE  IInv'
  <1>0. TypeOK /\ pc[a] = "idle"
    BY DEF IInv, BeginCode, BeginRefresh, BeginRevoke
  <1>1. PICK g \in Grants, r \in Attempts \cup {NoAttempt}, next \in {"code", "codeReuse", "refresh", "reuse", "revoke"} :
          /\ Begin(a, g, r, next)
          /\ next \in {"refresh", "reuse"} => r \in Attempts /\ refresh[r] # "none" /\ g = grantOf[r]
          /\ next # "code" => Consumed(g)
    <2>1. \A r \in Attempts : grantOf[r] \in Grants
      BY <1>0 DEF TypeOK
    <2>2. \A r \in Attempts : refresh[r] # "none" \/ r \in tokenReq => Consumed(grantOf[r])
      BY DEF IInv, Structure, TokensFollowCode, TokenTablesAgree
    <2>3. CASE \E g \in Grants : BeginCode(a, g)
      BY <2>3 DEF BeginCode, Consumed
    <2>4. CASE \E r \in Attempts : BeginRefresh(a, r)
      BY <2>1, <2>2, <2>4 DEF BeginRefresh
    <2>5. CASE \E r \in Attempts : BeginRevoke(a, r)
      BY <2>1, <2>2, <2>5 DEF BeginRevoke
    <2> QED
      BY <2>3, <2>4, <2>5
  <1>2. UNCHANGED <<sess, code, used, access, tokenReq, refresh, rotated, receipts, ended>>
    BY <1>1 DEF Begin, dbVars, histVars
  <1>3. /\ pc'[a] = next /\ grantOf'[a] = g /\ presented'[a] = r
        /\ \A b \in Attempts : b # a => pc'[b] = pc[b] /\ grantOf'[b] = grantOf[b] /\ presented'[b] = presented[b]
    BY <1>0, <1>1 DEF TypeOK, Begin
  <1>4. refresh[a] = "none" /\ a \notin access /\ a \notin tokenReq
    BY <1>0 DEF IInv, Structure, FreshCalls, BeforeCommit
  <1>5. \A h \in Grants : Dead(h) => Dead(h)'
    BY <1>2, <1>3, <1>4 DEF Dead, TokensOf
  <1>6. FreshCalls'
    BY <1>0, <1>2, <1>3 DEF IInv, Structure, FreshCalls, BeforeCommit
  <1>7. TokensFollowCode' /\ OneChain' /\ TokenTablesAgree' /\ EndedStaysEnded'
    BY <1>2, <1>3, <1>4 DEF IInv, Structure, TokensFollowCode, Consumed, OneChain, TokenTablesAgree, EndedStaysEnded
  <1>8. ReceiptsNameTokens'
    BY <1>0, <1>2, <1>3 DEF IInv, Structure, ReceiptsNameTokens
  <1>9. CallsKnow'
    <2>1. next \in {"refresh", "reuse"} => r \in Attempts /\ pc[r] # "idle" /\ r # a /\ grantOf[r] = g
      BY <1>0, <1>1, <1>4 DEF IInv, Structure, FreshCalls, BeforeCommit
    <2>2. \A b \in Attempts : b # a /\ pc[b] \in {"refresh", "reuse"} => presented[b] # a
      BY <1>0 DEF IInv, Structure, CallsKnow
    <2> SUFFICES ASSUME NEW b \in Attempts
                 PROVE  /\ pc'[b] \in {"refresh", "reuse"} =>
                              /\ presented'[b] \in Attempts
                              /\ pc'[presented'[b]] # "idle"
                              /\ grantOf'[presented'[b]] = grantOf'[b]
                        /\ pc'[b] \in BeforeCommit \ {"idle", "code"} => code'[grantOf'[b]] \in {"invalid", "deleted"}
      BY DEF CallsKnow, Consumed
    <2>3. CASE b = a
      BY <1>1, <1>2, <1>3, <2>1, <2>3 DEF Consumed
    <2>4. CASE b # a
      BY <1>2, <1>3, <2>2, <2>4 DEF IInv, Structure, CallsKnow, Consumed
    <2> QED
      BY <2>3, <2>4
  <1>10. LogoutIsFinal'
    BY <1>2, <1>5 DEF IInv, LogoutIsFinal, GrantsOfSessions
  <1>11. RevocationIsFinal'
    <2>1. \A b \in Attempts : b # a => grantOf[b] \in Grants /\ (Dead(grantOf[b]) => Dead(grantOf[b])')
      BY <1>0, <1>3, <1>5 DEF TypeOK, Dead, TokensOf
    <2>2. pc'[a] # "revoked" /\ [op |-> "oauth-refresh-reuse", on |-> a] \notin receipts
      BY <1>0, <1>1, <1>3 DEF IInv, Structure, ReceiptsNameTokens
    <2> QED
      BY <1>2, <1>3, <1>5, <2>1, <2>2 DEF IInv, RevocationIsFinal
  <1> QED
    BY <1>6, <1>7, <1>8, <1>9, <1>10, <1>11 DEF IInv, Structure

(* A batch that loses its guard only drops expired rows. *)
LEMMA LosingStep ==
  ASSUME IInv, TypeOK', NEW a \in Attempts, Shrinks,
         pc[a] \in {"code", "refresh"}, pc' = [pc EXCEPT ![a] = "committed"],
         sess' = sess, receipts' = receipts, ended' = ended
  PROVE  IInv' /\ Loses
  <1>2. CallsMove
    BY DEF IInv, TypeOK, CallsMove, BeforeCommit
  <1>3. EndsAreDead /\ RevocationsAreDead /\ EndedStaysEnded'
    BY DEF IInv, TypeOK, Structure, EndsAreDead, RevocationsAreDead, EndedStaysEnded
  <1> QED
    BY <1>2, <1>3, ShrinkStep DEF Loses

(***************************************************************************)
(* A batch that writes the tokens of call a for grant g: what it finds is  *)
(* not dead, and what it leaves of g is a alone.                           *)
(***************************************************************************)
Mints(a, g) ==
    /\ g = grantOf[a]
    /\ pc[a] \in {"code", "refresh"}
    /\ pc' = [pc EXCEPT ![a] = "committed"]
    /\ sess' = sess /\ receipts' = receipts /\ grantOf' = grantOf /\ presented' = presented /\ ended' = ended
    /\ ~Dead(g) /\ code[g] # "unissued" /\ SidOf[g] \notin ended
    /\ PrincipalGuard(a) /\ ManagedGuard(a)
    /\ code'[g] \in {"invalid", "deleted"}
    /\ \A h \in Grants : h # g => code'[h] = code[h]
    /\ \A h \in Grants : used'[h] \in {used[h], a}
    /\ \A b \in Attempts : rotated'[b] \in {rotated[b], a}
    /\ tokenReq' = access' /\ access' \subseteq access \cup {a} /\ a \in access'
    /\ \A b \in Attempts : b # a => (refresh'[b] = "active" => refresh[b] = "active")
    /\ \A b \in Attempts : b # a => (refresh[b] = "none" => refresh'[b] = "none")
    /\ \A b \in Attempts : b # a /\ grantOf[b] = g => b \notin access' /\ refresh'[b] # "active"

LEMMA MintStep ==
  ASSUME IInv, TypeOK', NEW a \in Attempts, NEW g \in Grants, Mints(a, g)
  PROVE  IInv'
  <1>0. /\ TypeOK /\ pc'[a] = "committed"
        /\ \A b \in Attempts : b # a => pc'[b] = pc[b]
    BY DEF Mints, IInv, TypeOK
  <1>1. FreshCalls'
    BY <1>0 DEF Mints, IInv, Structure, FreshCalls, BeforeCommit
  <1>2. TokensFollowCode'
    BY <1>0 DEF Mints, IInv, Structure, TypeOK, TokensFollowCode, Consumed
  <1>3. CallsKnow'
    BY <1>0 DEF Mints, IInv, Structure, TypeOK, CallsKnow, Consumed, BeforeCommit
  <1>4. ReceiptsNameTokens' /\ EndedStaysEnded' /\ TokenTablesAgree'
    BY <1>0 DEF Mints, IInv, Structure, ReceiptsNameTokens, EndedStaysEnded, TokenTablesAgree
  <1>5. OneChain'
    BY <1>0 DEF Mints, IInv, TypeOK, OneChain
  <1>6. ASSUME NEW h \in Grants, Dead(h)
        PROVE  Dead(h)'
    BY <1>0, <1>6 DEF Mints, IInv, TokenTablesAgree, Dead, TokensOf
  <1>7. LogoutIsFinal'
    BY <1>6 DEF Mints, IInv, LogoutIsFinal, GrantsOfSessions
  <1>8. RevocationIsFinal'
    <2>1. \A b \in Attempts : grantOf[b] \in Grants /\ (Dead(grantOf[b]) => Dead(grantOf[b])')
      BY <1>0, <1>6 DEF Mints, TypeOK, Dead, TokensOf
    <2> QED
      BY <1>0, <1>6, <2>1 DEF Mints, IInv, RevocationIsFinal
  <1> QED
    BY <1>1, <1>2, <1>3, <1>4, <1>5, <1>7, <1>8 DEF Mints, IInv, Structure

LEMMA CommitCodeStep ==
  ASSUME IInv, TypeOK', NEW a \in Attempts, CommitCode(a)
  PROVE  IInv' /\ (Loses \/ Mints(a, grantOf[a]))
  <1>g. PICK g \in Grants : g = grantOf[a]
    BY DEF IInv, TypeOK
  <1>0. /\ TypeOK /\ g \in Grants /\ pc[a] = "code" /\ pc' = [pc EXCEPT ![a] = "committed"]
        /\ sess' = sess /\ receipts' = receipts /\ grantOf' = grantOf /\ presented' = presented /\ ended' = ended
    BY DEF IInv, TypeOK, CommitCode
  <1>1. CASE CodeWins(a)
    <2>1. PICK deadAccess, deadRefresh :
            /\ code' = [code EXCEPT ![g] = "invalid"]
            /\ used' = [used EXCEPT ![g] = a]
            /\ access' = (access \ deadAccess) \cup {a}
            /\ tokenReq' = (tokenReq \cap (access \ deadAccess)) \cup {a}
            /\ refresh' = [b \in Attempts |-> CASE b = a             -> "active"
                                                [] b \in deadRefresh -> "none"
                                                [] OTHER             -> refresh[b]]
            /\ UNCHANGED rotated
      BY <1>g, <1>1 DEF CommitCode
    <2>2. code[g] = "live" /\ code[g] # "unissued" /\ pc[a] \in {"code", "refresh"}
      BY <1>g, <1>0, <1>1 DEF CodeWins
    <2>3. ~Dead(g) /\ SidOf[g] \notin ended
      BY <1>0, <2>2 DEF Dead, IInv, LogoutIsFinal, GrantsOfSessions
    <2>4. \A b \in Attempts : grantOf[b] = g => b \notin access /\ refresh[b] = "none"
      BY <2>2 DEF IInv, Structure, TokensFollowCode, Consumed
    <2>5. tokenReq' = access' /\ access' \subseteq access \cup {a} /\ a \in access'
      BY <2>1 DEF IInv, TokenTablesAgree
    <2>6. code'[g] \in {"invalid", "deleted"} /\ \A h \in Grants : h # g => code'[h] = code[h]
      BY <1>0, <2>1 DEF TypeOK, Consumed
    <2>7. /\ \A h \in Grants : used'[h] \in {used[h], a}
          /\ \A b \in Attempts : rotated'[b] \in {rotated[b], a}
      BY <1>0, <2>1 DEF TypeOK
    <2>8. \A b \in Attempts : b # a => /\ refresh'[b] = "active" => refresh[b] = "active"
                                       /\ refresh[b] = "none" => refresh'[b] = "none"
      BY <2>1
    <2>9. \A b \in Attempts : b # a /\ grantOf[b] = g => b \notin access' /\ refresh'[b] # "active"
      BY <2>1, <2>4
    <2>10. PrincipalGuard(a) /\ ManagedGuard(a)
      BY <1>1 DEF CodeWins
    <2>11. Mints(a, g)
      BY <1>g, <1>0, <2>10, <2>2, <2>3, <2>5, <2>6, <2>7, <2>8, <2>9 DEF Mints
    <2> QED
      BY <1>g, <2>11, MintStep
  <1>2. CASE ~CodeWins(a)
    <2>1. PICK deadAccess, deadRefresh : CleanUp(a, deadAccess, deadRefresh)
      BY <1>2 DEF CommitCode
    <2>2. Shrinks
      BY <1>0, <2>1 DEF IInv, TypeOK, TokenTablesAgree, Shrinks, CleanUp
    <2> QED
      BY <1>0, <2>2, LosingStep
  <1> QED
    BY <1>1, <1>2

LEMMA CommitRefreshStep ==
  ASSUME IInv, TypeOK', NEW a \in Attempts, CommitRefresh(a)
  PROVE  IInv' /\ (Loses \/ Mints(a, grantOf[a]))
  <1>g. PICK g \in Grants, r \in Attempts \cup {NoAttempt} : g = grantOf[a] /\ r = presented[a]
    BY DEF IInv, TypeOK
  <1>0. /\ TypeOK /\ g \in Grants /\ pc[a] = "refresh" /\ pc' = [pc EXCEPT ![a] = "committed"]
        /\ sess' = sess /\ receipts' = receipts /\ grantOf' = grantOf /\ presented' = presented /\ ended' = ended
    BY DEF IInv, TypeOK, CommitRefresh
  <1>1. CASE RefreshWins(a)
    <2>1. PICK deadAccess, deadRefresh :
            /\ rotated' = [rotated EXCEPT ![r] = a]
            /\ access' = ((access \ TokensOf({g})) \ deadAccess) \cup {a}
            /\ tokenReq' = (tokenReq \cap ((access \ TokensOf({g})) \ deadAccess)) \cup {a}
            /\ refresh' = [b \in Attempts |-> CASE b = a /\ r \notin deadRefresh -> "active"
                                                [] b # a /\ b \in deadRefresh    -> "none"
                                                [] OTHER                         -> Inactive(TokensOf({g}))[b]]
            /\ UNCHANGED <<code, used>>
      BY <1>g, <1>1 DEF CommitRefresh
    <2>2. /\ r \in Attempts /\ grantOf[r] = g /\ refresh[r] = "active"
          /\ code[g] \in {"invalid", "deleted"}
      BY <1>g, <1>0, <1>1 DEF IInv, Structure, CallsKnow, Consumed, BeforeCommit, RefreshWins
    <2>3. ~Dead(g)
      BY <2>2 DEF Dead, TokensOf
    <2>4. SidOf[g] \notin ended
      BY <1>g, <1>0, <2>2, <2>3 DEF IInv, LogoutIsFinal, GrantsOfSessions
    <2>5. tokenReq' = access' /\ access' \subseteq access \cup {a} /\ a \in access'
      BY <2>1 DEF IInv, TokenTablesAgree
    <2>6. code'[g] \in {"invalid", "deleted"} /\ \A h \in Grants : h # g => code'[h] = code[h]
      BY <2>1, <2>2 DEF Consumed
    <2>7. /\ \A h \in Grants : used'[h] \in {used[h], a}
          /\ \A b \in Attempts : rotated'[b] \in {rotated[b], a}
      BY <1>0, <2>1, <2>2 DEF TypeOK
    <2>8. \A b \in Attempts : b # a => /\ refresh'[b] = "active" => refresh[b] = "active"
                                       /\ refresh[b] = "none" => refresh'[b] = "none"
      BY <2>1 DEF Inactive
    <2>9. \A b \in Attempts : b # a /\ grantOf[b] = g => b \notin access' /\ refresh'[b] # "active"
      BY <2>1 DEF Inactive, TokensOf
    <2>10. PrincipalGuard(a) /\ ManagedGuard(a)
      BY <1>1 DEF RefreshWins
    <2>11. Mints(a, g)
      BY <1>g, <1>0, <2>10, <2>2, <2>3, <2>4, <2>5, <2>6, <2>7, <2>8, <2>9 DEF Mints
    <2> QED
      BY <1>g, <2>11, MintStep
  <1>2. CASE ~RefreshWins(a)
    <2>1. PICK deadAccess, deadRefresh : CleanUp(a, deadAccess, deadRefresh)
      BY <1>2 DEF CommitRefresh
    <2>2. Shrinks
      BY <1>0, <2>1 DEF IInv, TypeOK, TokenTablesAgree, Shrinks, CleanUp
    <2> QED
      BY <1>0, <2>2, LosingStep
  <1> QED
    BY <1>1, <1>2

(* Commit's own query and the answer touch no row. *)
LEMMA AnswerStep ==
  ASSUME IInv, TypeOK', NEW a \in Attempts, VerifyCommit(a) \/ Respond(a)
  PROVE  IInv' /\ Loses
  <1>1. Shrinks
    BY DEF IInv, TokenTablesAgree, Shrinks, VerifyCommit, Respond, dbVars
  <1>2. pc[a] \in {"committed", "verified"} /\ \E n \in {"verified", "delivered", "failed"} : pc' = [pc EXCEPT ![a] = n]
    BY DEF VerifyCommit, Respond
  <1>3. CallsMove /\ \A b \in Attempts : pc'[b] = "revoked" => pc[b] = "revoked"
    BY <1>2 DEF IInv, TypeOK, CallsMove, BeforeCommit
  <1>4. EndsAreDead /\ RevocationsAreDead /\ EndedStaysEnded'
    BY <1>3 DEF IInv, Structure, EndsAreDead, RevocationsAreDead, EndedStaysEnded, VerifyCommit, Respond, histVars
  <1> QED
    BY <1>1, <1>3, <1>4, ShrinkStep DEF Loses

(***************************************************************************)
(* One call of a revocation by request ID: the rows shrink, and whatever   *)
(* receipt or answer it leaves behind belongs to a dead grant.             *)
(***************************************************************************)
LEMMA RevokingCallStep ==
  ASSUME IInv, TypeOK', NEW a \in Attempts, NEW next \in PcStates, Finish(a, next), Shrinks,
         pc[a] \in BeforeCommit \ {"idle", "code"},
         next \notin {"idle", "code", "refresh", "reuse"},
         next = "revoked" => Dead(grantOf[a])',
         \A g \in Grants : LET id == [op |-> "oauth-revoke-access", on |-> g]
                           IN  id \in receipts' => id \in receipts \/ Dead(g)',
         \A r \in Attempts : LET id == [op |-> "oauth-refresh-reuse", on |-> r]
                             IN  id \in receipts' => id \in receipts \/ (pc[r] # "idle" /\ Dead(grantOf[r])')
  PROVE  IInv' /\ Loses
  <1>1. pc'[a] = next /\ \A b \in Attempts : b # a => pc'[b] = pc[b]
    BY DEF IInv, TypeOK, Finish
  <1>2. CallsMove
    BY <1>1 DEF CallsMove, BeforeCommit
  <1>3. EndsAreDead /\ EndedStaysEnded'
    BY DEF IInv, Structure, EndsAreDead, EndedStaysEnded, Finish, histVars
  <1>4. RevocationsAreDead
    BY <1>1 DEF RevocationsAreDead
  <1> QED
    BY <1>2, <1>3, <1>4, ShrinkStep DEF Loses

(* Revoking the access tokens of a consumed grant leaves it dead, also when *)
(* the receipt says that it ran before.                                     *)
LEMMA RevokeAccessKills ==
  ASSUME IInv, TypeOK', NEW g \in Grants, RevokeAccessToken(g), UNCHANGED <<grantOf, presented>>, Consumed(g)
  PROVE  /\ Shrinks /\ Dead(g)'
         /\ \A op \in {"oauth-revoke-access", "oauth-refresh-reuse"} : \A x :
               [op |-> op, on |-> x] \in receipts' =>
                  [op |-> op, on |-> x] \in receipts \/ (op = "oauth-revoke-access" /\ x = g)
  <1> DEFINE id == [op |-> "oauth-revoke-access", on |-> g]
  <1>1. CASE id \in receipts
    <2>1. Dead(g) /\ Untouched
      BY <1>1 DEF IInv, RevocationIsFinal, RevokeAccessToken
    <2>2. Shrinks
      BY <2>1 DEF IInv, TokenTablesAgree, Shrinks, Untouched, dbVars
    <2>3. Dead(g)'
      BY <2>1, <2>2, ShrinkKeepsDead DEF IInv
    <2> QED
      BY <2>1, <2>2, <2>3 DEF Untouched
  <1>2. CASE id \notin receipts
    <2>1. /\ receipts' = receipts \cup {id}
          /\ access' = access \ TokensOf({g})
          /\ tokenReq' = tokenReq \cap access'
          /\ refresh' = Inactive(TokensOf({g}))
          /\ UNCHANGED <<code, codeGen, used, pkce, rotated>>
      BY <1>2 DEF RevokeAccessToken
    <2>2. Shrinks
      BY <2>1 DEF IInv, TokenTablesAgree, Shrinks, Inactive
    <2>3. Dead(g)'
      BY <2>1 DEF IInv, TokenTablesAgree, Dead, TokensOf, Inactive, Consumed
    <2> QED
      BY <2>1, <2>2, <2>3
  <1> QED
    BY <1>1, <1>2

LEMMA RevokeRefreshShrinks ==
  ASSUME IInv, NEW g \in Grants, RevokeRefreshToken(g), UNCHANGED <<grantOf, presented>>
  PROVE  /\ Shrinks
         /\ \A op \in {"oauth-revoke-access", "oauth-refresh-reuse"} : \A x :
               [op |-> op, on |-> x] \in receipts' => [op |-> op, on |-> x] \in receipts
  <1>1. CASE Untouched
    BY <1>1 DEF IInv, TokenTablesAgree, Shrinks, Untouched, dbVars
  <1>2. CASE ~Untouched
    BY <1>2 DEF IInv, TokenTablesAgree, Shrinks, RevokeRefreshToken, Inactive
  <1> QED
    BY <1>1, <1>2

LEMMA RevokeStep ==
  ASSUME IInv, TypeOK', NEW a \in Attempts,
         \/ CodeReuseRevokesAccess(a) \/ CodeReuseRevokesRefresh(a)
         \/ RevokeEndpointRefresh(a) \/ RevokeEndpointAccess(a)
  PROVE  IInv' /\ Loses
  <1>1. PICK next \in {"codeReuse2", "failed", "revoke2", "revoke2e", "revoked"} :
          /\ Finish(a, next)
          /\ pc[a] \in {"codeReuse", "codeReuse2", "revoke", "revoke2", "revoke2e"}
          /\ \/ RevokeAccessToken(grantOf[a])
             \/ next # "revoked" /\ RevokeRefreshToken(grantOf[a])
             \/ next # "revoked" /\ Untouched
    BY DEF CodeReuseRevokesAccess, CodeReuseRevokesRefresh, RevokeEndpointRefresh, RevokeEndpointAccess
  <1>2. PICK g \in Grants : g = grantOf[a]
    BY DEF IInv, TypeOK
  <1>3. /\ Consumed(g) /\ UNCHANGED <<grantOf, presented>>
        /\ pc[a] \in BeforeCommit \ {"idle", "code"}
        /\ next \in PcStates /\ next \notin {"idle", "code", "refresh", "reuse"}
    BY <1>1, <1>2 DEF IInv, Structure, CallsKnow, BeforeCommit, Finish, PcStates
  <1>4. CASE RevokeAccessToken(g)
    <2>1. /\ Shrinks /\ Dead(g)'
          /\ \A op \in {"oauth-revoke-access", "oauth-refresh-reuse"} : \A x :
                [op |-> op, on |-> x] \in receipts' =>
                   [op |-> op, on |-> x] \in receipts \/ (op = "oauth-revoke-access" /\ x = g)
      BY <1>3, <1>4, RevokeAccessKills
    <2>2. Dead(grantOf[a])'
      BY <1>2, <1>3, <2>1 DEF Dead, TokensOf
    <2> QED
      BY <1>1, <1>3, <2>1, <2>2, RevokingCallStep
  <1>5. CASE RevokeRefreshToken(g) /\ next # "revoked"
    <2>1. /\ Shrinks
          /\ \A op \in {"oauth-revoke-access", "oauth-refresh-reuse"} : \A x :
                [op |-> op, on |-> x] \in receipts' => [op |-> op, on |-> x] \in receipts
      BY <1>3, <1>5, RevokeRefreshShrinks
    <2> QED
      BY <1>1, <1>3, <1>5, <2>1, RevokingCallStep
  <1>6. CASE Untouched /\ next # "revoked"
    <2>1. Shrinks /\ receipts' = receipts
      BY <1>3, <1>6 DEF IInv, TokenTablesAgree, Shrinks, Untouched, dbVars
    <2> QED
      BY <1>1, <1>3, <1>6, <2>1, RevokingCallStep
  <1> QED
    BY <1>1, <1>2, <1>4, <1>5, <1>6

LEMMA ReuseStep ==
  ASSUME IInv, TypeOK', NEW a \in Attempts, CommitReuse(a)
  PROVE  IInv' /\ Loses
  <1>1. PICK g \in Grants, r \in Attempts : g = grantOf[a] /\ r = presented[a]
    BY DEF IInv, TypeOK, Structure, CallsKnow, CommitReuse
  <1>2. /\ Finish(a, "failed") /\ pc[a] = "reuse" /\ "failed" \in PcStates
        /\ pc[r] # "idle" /\ grantOf[r] = g /\ Consumed(g) /\ UNCHANGED <<grantOf, presented>>
    BY <1>1 DEF IInv, Structure, CallsKnow, BeforeCommit, Finish, PcStates, CommitReuse
  <1> DEFINE id == [op |-> "oauth-refresh-reuse", on |-> r]
  <1>3. CASE Untouched
    <2>1. Shrinks /\ receipts' = receipts
      BY <1>2, <1>3 DEF IInv, TokenTablesAgree, Shrinks, Untouched, dbVars
    <2> QED
      BY <1>2, <2>1, RevokingCallStep DEF BeforeCommit
  <1>4. CASE ~Untouched
    <2>1. /\ receipts' = receipts \cup {id}
          /\ refresh' = [Inactive(TokensOf({g})) EXCEPT ![r] = "none"]
          /\ access' = access \ TokensOf({g})
          /\ tokenReq' = tokenReq \cap access'
          /\ UNCHANGED <<code, codeGen, used, pkce, rotated>>
      BY <1>1, <1>4 DEF CommitReuse
    <2>2. Shrinks
      BY <1>2, <2>1 DEF IInv, TokenTablesAgree, Shrinks, Inactive
    <2>3. Dead(g)'
      BY <1>2, <2>1 DEF IInv, TokenTablesAgree, Dead, TokensOf, Inactive, Consumed
    <2>4. Dead(grantOf[r])'
      BY <1>2, <2>3 DEF Dead, TokensOf
    <2> QED
      BY <1>2, <2>1, <2>2, <2>4, RevokingCallStep DEF BeforeCommit
  <1> QED
    BY <1>3, <1>4

-----------------------------------------------------------------------------
LEMMA InitIInv == Init => IInv
  <1> SUFFICES ASSUME Init PROVE IInv
    OBVIOUS
  <1>1. TypeOK
    BY InitType
  <1>2. Structure
    BY ConstantsAssumption DEF Init, Structure, FreshCalls, TokensFollowCode, CallsKnow, EndedStaysEnded,
       ReceiptsNameTokens, BeforeCommit
  <1>3. TokenTablesAgree /\ OneChain /\ LogoutIsFinal /\ RevocationIsFinal
    BY DEF Init, TokenTablesAgree, OneChain, LogoutIsFinal, RevocationIsFinal
  <1> QED
    BY <1>1, <1>2, <1>3 DEF IInv

(***************************************************************************)
(* What a step can be: it takes rights away, writes the tokens of one      *)
(* call, issues one code, or reads for a new call.                         *)
(***************************************************************************)
Begins(a) ==
    \/ \E g \in Grants : BeginCode(a, g)
    \/ \E r \in Attempts : BeginRefresh(a, r) \/ BeginRevoke(a, r)

StepKind ==
    \/ Loses
    \/ \E a \in Attempts : Mints(a, grantOf[a])
    \/ \E g \in Grants : IssueCode(g)
    \/ \E a \in Attempts : Begins(a)

(* Every step keeps the inductive invariant and is of one of these kinds. *)
LEMMA EveryStep ==
  ASSUME IInv, [Next]_vars
  PROVE  IInv' /\ StepKind
  <1>1. TypeOK'
    BY NextType DEF IInv, Structure, CallsKnow, TokenCalls
  <1>2. CASE UNCHANGED vars
    BY <1>1, <1>2, QuietStep DEF vars, histVars, StepKind
  <1>3. CASE \E s \in Sessions : SessionNext(s)
    BY <1>1, <1>3, SessionStep DEF StepKind
  <1>4. CASE \E u \in Subjects : UserNext(u)
    BY <1>1, <1>4, UserStep DEF StepKind
  <1>5. CASE \E c \in Clients : ClientNext(c)
    BY <1>1, <1>5, ClientStep DEF StepKind
  <1>6. CASE LogoutAllSessions \/ (\E S \in SUBSET Sessions : UpstreamLogout(S))
    BY <1>1, <1>6, LogoutAllStep DEF StepKind
  <1>7. CASE Expire
    <2>1. UNCHANGED <<sess, dbVars, receipts, callVars, ended>>
      BY <1>7 DEF Expire, histVars
    <2> QED
      BY <1>1, <2>1, QuietStep DEF StepKind
  <1>8. CASE \E g \in Grants : IssueCode(g)
    BY <1>1, <1>8, IssueStep DEF StepKind
  <1>9. ASSUME NEW a \in Attempts, CallNext(a)
        PROVE  IInv' /\ StepKind
    <2>1. CASE Begins(a)
      BY <1>1, <2>1, BeginStep DEF StepKind, Begins
    <2>2. CASE CommitCode(a) \/ CommitRefresh(a)
      BY <1>1, <2>2, CommitCodeStep, CommitRefreshStep DEF StepKind
    <2>3. CASE ~Begins(a) /\ ~CommitCode(a) /\ ~CommitRefresh(a)
      BY <1>1, <1>9, <2>3, AnswerStep, RevokeStep, ReuseStep DEF StepKind, CallNext, Begins
    <2> QED
      BY <2>1, <2>2, <2>3
  <1> QED
    BY <1>2, <1>3, <1>4, <1>5, <1>6, <1>7, <1>8, <1>9 DEF Next

LEMMA NextIInv == IInv /\ [Next]_vars => IInv'
  BY EveryStep

(* The inductive invariant holds in every reachable state. *)
THEOREM Invariance == Spec => []IInv
  BY InitIInv, NextIInv, PTL DEF Spec

(* Every row of the OAuth store and every call of its endpoints keeps its  *)
(* type, for any constants.                                                *)
THEOREM TypeCorrect == Spec => []TypeOK
  <1>1. IInv => TypeOK
    BY DEF IInv
  <1> QED
    BY <1>1, Invariance, PTL

(* For any number of sessions, grants and concurrent calls: once a session *)
(* was logged out, deleted or ended with its user, its code cannot be      *)
(* redeemed and no token of it is stored, whatever was in flight.          *)
THEOREM LogoutSafety == Spec => []LogoutIsFinal
  <1>1. IInv => LogoutIsFinal
    BY DEF IInv
  <1> QED
    BY <1>1, Invariance, PTL

(* A token family revoked under one of the fixed request IDs, by reuse     *)
(* detection or by the revocation endpoint, never gets a live token again. *)
THEOREM RevocationSafety == Spec => []RevocationIsFinal
  <1>1. IInv => RevocationIsFinal
    BY DEF IInv
  <1> QED
    BY <1>1, Invariance, PTL

(* However many redemptions and rotations of one grant race, at most one   *)
(* call holds a usable token of it.                                        *)
THEOREM RotationSafety == Spec => []OneChain
  <1>1. IInv => OneChain
    BY DEF IInv
  <1> QED
    BY <1>1, Invariance, PTL

(* oauth_access_tokens and oauth_token_requests list the same tokens after *)
(* every batch.                                                            *)
THEOREM TablesSafety == Spec => []TokenTablesAgree
  <1>1. IInv => TokenTablesAgree
    BY DEF IInv
  <1> QED
    BY <1>1, Invariance, PTL
-----------------------------------------------------------------------------
(***************************************************************************)
(* Policy.  Only a batch that wins writes a token, and its guards are      *)
(* evaluated in the batch.                                                 *)
(***************************************************************************)
LEMMA TokensAreMinted ==
  ASSUME IInv, [Next]_vars, NEW a \in Attempts,
         a \in access' \ access \/ (refresh[a] # "active" /\ refresh'[a] = "active")
  PROVE  PrincipalGuard(a) /\ ManagedGuard(a)
  <1>1. CASE Loses
    BY <1>1 DEF Loses, Shrinks
  <1>2. ASSUME NEW b \in Attempts, Mints(b, grantOf[b])
        PROVE  PrincipalGuard(a) /\ ManagedGuard(a)
    BY <1>2 DEF Mints
  <1>3. CASE \E g \in Grants : IssueCode(g)
    BY <1>3 DEF IssueCode
  <1>4. CASE \E b \in Attempts : Begins(b)
    BY <1>4 DEF Begins, BeginCode, BeginRefresh, BeginRevoke, Begin, dbVars
  <1> QED
    BY <1>1, <1>2, <1>3, <1>4, EveryStep DEF StepKind

(* Tokens are written only while the user and the client are enabled, at   *)
(* the revisions the claims were computed from and for the incarnation of  *)
(* the client that obtained the code, however the reads of the token       *)
(* endpoint and the administrator's updates interleave.                    *)
THEOREM PolicySafety == Spec => MintUnderCurrentPolicy
  <1> DEFINE Policy(a) ==
               (a \in access' \ access \/ (refresh[a] # "active" /\ refresh'[a] = "active"))
               => /\ user[UserOf(grantOf[a])] = [state |-> "enabled", rev |-> snapUser[a]]
                  /\ client[ClientOf[grantOf[a]]] =
                       [state |-> "enabled", gen |-> codeGen[grantOf[a]], rev |-> snapClient[a]]
  <1>1. ASSUME IInv, [Next]_vars, NEW a \in Attempts
        PROVE  Policy(a)
    <2> SUFFICES ASSUME a \in access' \ access \/ (refresh[a] # "active" /\ refresh'[a] = "active")
                 PROVE  /\ user[UserOf(grantOf[a])] = [state |-> "enabled", rev |-> snapUser[a]]
                        /\ client[ClientOf[grantOf[a]]] =
                             [state |-> "enabled", gen |-> codeGen[grantOf[a]], rev |-> snapClient[a]]
      OBVIOUS
    <2>1. PrincipalGuard(a) /\ ManagedGuard(a)
      BY <1>1, TokensAreMinted
    <2>2. /\ user[UserOf(grantOf[a])] \in [state : {"enabled", "disabled", "deleted"}, rev : Revisions]
          /\ client[ClientOf[grantOf[a]]] \in
               [state : {"enabled", "disabled", "deleted"}, gen : Revisions, rev : Revisions]
      BY <1>1, ConstantsAssumption DEF IInv, TypeOK, Users, ClientRows, UserOf
    <2>3. user[UserOf(grantOf[a])] = [state |-> "enabled", rev |-> snapUser[a]]
      BY <2>1, <2>2 DEF PrincipalGuard
    <2>4. client[ClientOf[grantOf[a]]] =
            [state |-> "enabled", gen |-> codeGen[grantOf[a]], rev |-> snapClient[a]]
      BY <2>1, <2>2 DEF ManagedGuard
    <2> QED
      BY <2>3, <2>4
  <1>2. IInv /\ [Next]_vars => [\A a \in Attempts : Policy(a)]_vars
    BY <1>1
  <1>3. [][\A a \in Attempts : Policy(a)]_vars => MintUnderCurrentPolicy
    BY DEF MintUnderCurrentPolicy
  <1> QED
    BY <1>2, <1>3, Invariance, PTL DEF Spec

-----------------------------------------------------------------------------
(***************************************************************************)
(* Single use.  The mark of a consumed row is never overwritten, and it    *)
(* names a call that wrote its tokens as long as the row is there for      *)
(* Commit's query to find.                                                 *)
(***************************************************************************)
UseOK(g) ==
    /\ code[g] \in {"unissued", "live"} => used[g] = NoAttempt
    /\ used[g] # NoAttempt => used[g] \in minted

RotateOK(r) ==
    rotated[r] # NoAttempt =>
        /\ refresh[r] # "active" /\ pc[r] \notin BeforeCommit
        /\ refresh[r] # "none" => rotated[r] \in minted

AnswerOK(a) ==
    Answered(a) =>
        /\ a \in minted
        /\ presented[a] = NoAttempt => used[grantOf[a]] = a
        /\ presented[a] # NoAttempt => rotated[presented[a]] = a

UseInv == (\A g \in Grants : UseOK(g)) /\ (\A a \in Attempts : RotateOK(a) /\ AnswerOK(a))

(* Only the step of a call moves a call or writes the tokens of one. *)
LEMMA OtherStepsLeaveCalls ==
  ASSUME [Next]_vars, ~(\E b \in Attempts : CallNext(b))
  PROVE  UNCHANGED <<pc, minted>>
  <1>1. CASE UNCHANGED vars
    BY <1>1 DEF vars, callVars, histVars
  <1>2. CASE \E s \in Sessions : SessionNext(s)
    BY <1>2 DEF SessionNext, CreateSession, CreateReauthenticatedSession, ExpireSession, SweepSession,
       RevokeOIDCSession, DeleteSession, SessionRevocationStatements, callVars, histVars
  <1>3. CASE \E u \in Subjects : UserNext(u)
    BY <1>3 DEF UserNext, ForceLogout, ExpireAccount, DeleteUser, ResetPassword, UpdateUser, SubjectLogout,
       callVars
  <1>4. CASE \/ LogoutAllSessions \/ (\E S \in SUBSET Sessions : UpstreamLogout(S)) \/ Expire
             \/ (\E c \in Clients : ClientNext(c)) \/ (\E g \in Grants : IssueCode(g))
    BY <1>4 DEF LogoutAllSessions, UpstreamLogout, Expire, ClientNext, UpdateClient, DeleteClient, IssueCode,
       callVars, histVars
  <1> QED
    BY <1>1, <1>2, <1>3, <1>4 DEF Next

(* A call is answered only after its own query found its mark. *)
LEMMA AnswersAreMarked ==
  ASSUME IInv, [Next]_vars
  PROVE  /\ minted \subseteq minted'
         /\ \A a \in Attempts : Answered(a)' => Answered(a) \/ (pc[a] = "committed" /\ MarkedBy(a))
  <1>0. pc \in [Attempts -> PcStates]
    BY DEF IInv, TypeOK
  <1>1. CASE UNCHANGED <<pc, minted>>
    BY <1>1 DEF Answered
  <1>2. ASSUME NEW b \in Attempts, CommitCode(b) \/ CommitRefresh(b)
        PROVE  /\ minted \subseteq minted'
               /\ \A a \in Attempts : Answered(a)' => Answered(a)
    <2>1. minted \subseteq minted'
      BY <1>2 DEF CommitCode, CommitRefresh, CleanUp
    <2>2. pc' = [pc EXCEPT ![b] = "committed"]
      BY <1>2 DEF CommitCode, CommitRefresh
    <2> QED
      BY <1>0, <2>1, <2>2 DEF Answered
  <1>3. ASSUME NEW b \in Attempts, VerifyCommit(b) \/ Respond(b)
        PROVE  /\ minted \subseteq minted'
               /\ \A a \in Attempts : Answered(a)' => Answered(a) \/ (pc[a] = "committed" /\ MarkedBy(a))
    <2>1. minted' = minted
      BY <1>3 DEF VerifyCommit, Respond, histVars
    <2>2. /\ \A a \in Attempts \ {b} : pc'[a] = pc[a]
          /\ pc'[b] \in {"verified", "delivered"} =>
               pc[b] = "verified" \/ (pc[b] = "committed" /\ MarkedBy(b))
      BY <1>0, <1>3 DEF VerifyCommit, Respond
    <2> QED
      BY <2>1, <2>2 DEF Answered
  <1>4. ASSUME NEW b \in Attempts, NEW next, next \notin {"verified", "delivered"},
               pc' = [pc EXCEPT ![b] = next], minted' = minted
        PROVE  /\ minted \subseteq minted'
               /\ \A a \in Attempts : Answered(a)' => Answered(a)
    BY <1>0, <1>4 DEF Answered
  <1>5. ASSUME NEW b \in Attempts, CallNext(b), ~CommitCode(b), ~CommitRefresh(b), ~VerifyCommit(b), ~Respond(b)
        PROVE  \E next : next \notin {"verified", "delivered"} /\ pc' = [pc EXCEPT ![b] = next] /\ minted' = minted
    <2>1. CASE Begins(b)
      BY <2>1 DEF Begins, BeginCode, BeginRefresh, BeginRevoke, Begin, histVars
    <2>2. CASE ~Begins(b)
      BY <1>5, <2>2 DEF CallNext, Begins, CodeReuseRevokesAccess, CodeReuseRevokesRefresh, CommitReuse,
         RevokeEndpointRefresh, RevokeEndpointAccess, Finish, histVars
    <2> QED
      BY <2>1, <2>2
  <1>6. ASSUME ~(\E b \in Attempts : CallNext(b))
        PROVE  UNCHANGED <<pc, minted>>
    BY <1>6, OtherStepsLeaveCalls
  <1> QED
    BY <1>1, <1>2, <1>3, <1>4, <1>5, <1>6

(* The rows and the calls of a step that writes no token keep their marks. *)
LEMMA UseWithoutMint ==
  ASSUME IInv, IInv', [Next]_vars, UseInv, Loses \/ (\E g \in Grants : IssueCode(g)) \/ (\E a \in Attempts : Begins(a))
  PROVE  UseInv'
  <1>0. /\ TypeOK /\ TypeOK' /\ minted \subseteq minted'
        /\ \A a \in Attempts : Answered(a)' => Answered(a) \/ (pc[a] = "committed" /\ MarkedBy(a))
    BY AnswersAreMarked DEF IInv
  <1>1. UNCHANGED <<used, rotated>>
    BY DEF Loses, Shrinks, IssueCode, Begins, BeginCode, BeginRefresh, BeginRevoke, Begin, dbVars
  <1>2. \A g \in Grants : code'[g] \in {"unissued", "live"} => code[g] \in {"unissued", "live"}
    <2>1. CASE \E g \in Grants : IssueCode(g)
      BY <1>0, <2>1 DEF IssueCode, TypeOK
    <2>2. CASE \E a \in Attempts : Begins(a)
      BY <2>2 DEF Begins, BeginCode, BeginRefresh, BeginRevoke, Begin, dbVars
    <2> QED
      BY <2>1, <2>2 DEF Loses, Shrinks
  <1>3. \A r \in Attempts : /\ refresh'[r] = "active" => refresh[r] = "active"
                            /\ refresh'[r] # "none" => refresh[r] # "none"
    BY DEF Loses, Shrinks, IssueCode, Begins, BeginCode, BeginRefresh, BeginRevoke, Begin, dbVars
  <1>4. \A a \in Attempts :
          pc[a] \notin BeforeCommit =>
            pc'[a] \notin BeforeCommit /\ grantOf'[a] = grantOf[a] /\ presented'[a] = presented[a]
    <2>1. CASE \E b \in Attempts : Begins(b)
      BY <1>0, <2>1 DEF TypeOK, Begins, BeginCode, BeginRefresh, BeginRevoke, Begin, BeforeCommit
    <2>2. CASE \E g \in Grants : IssueCode(g)
      BY <2>2 DEF IssueCode, callVars
    <2> QED
      BY <2>1, <2>2 DEF Loses, Shrinks, CallsMove
  <1>5. ASSUME NEW g \in Grants
        PROVE  UseOK(g)'
    BY <1>0, <1>1, <1>2 DEF UseInv, UseOK
  <1>6. ASSUME NEW r \in Attempts
        PROVE  RotateOK(r)'
    BY <1>0, <1>1, <1>3, <1>4 DEF UseInv, RotateOK
  <1>7. ASSUME NEW a \in Attempts, Answered(a)'
        PROVE  /\ a \in minted'
               /\ presented'[a] = NoAttempt => used'[grantOf'[a]] = a
               /\ presented'[a] # NoAttempt => rotated'[presented'[a]] = a
    <2>1. /\ pc[a] \notin BeforeCommit /\ (Answered(a) \/ MarkedBy(a))
          /\ grantOf[a] \in Grants /\ presented[a] \in Attempts \cup {NoAttempt}
      BY <1>0, <1>7 DEF Answered, BeforeCommit, TypeOK
    <2>2. /\ a \in minted
          /\ presented[a] = NoAttempt => used[grantOf[a]] = a
          /\ presented[a] # NoAttempt => rotated[presented[a]] = a
      <3>1. CASE Answered(a)
        BY <3>1 DEF UseInv, AnswerOK
      <3>2. CASE MarkedBy(a)
        BY <2>1, <3>2, ConstantsAssumption DEF UseInv, UseOK, RotateOK, MarkedBy
      <3> QED
        BY <2>1, <3>1, <3>2
    <2> QED
      BY <1>0, <1>1, <1>4, <2>1, <2>2
  <1> QED
    BY <1>5, <1>6, <1>7 DEF UseInv, AnswerOK

(* The redemption of a code marks an unmarked row. *)
LEMMA UseOfCode ==
  ASSUME IInv, IInv', [Next]_vars, UseInv, NEW a \in Attempts, CommitCode(a), Mints(a, grantOf[a])
  PROVE  UseInv'
  <1>g. PICK g \in Grants : g = grantOf[a]
    BY DEF IInv, TypeOK
  <1>0. /\ TypeOK /\ minted \subseteq minted'
        /\ \A b \in Attempts : Answered(b)' => Answered(b) \/ (pc[b] = "committed" /\ MarkedBy(b))
    BY AnswersAreMarked DEF IInv
  <1>1. pc[a] = "code" /\ pc' = [pc EXCEPT ![a] = "committed"] /\ UNCHANGED <<grantOf, presented>>
    BY DEF CommitCode
  <1>2. CodeWins(a)
    <2>1. a \notin access /\ a \in access'
      BY <1>1 DEF IInv, Structure, FreshCalls, BeforeCommit, Mints
    <2> QED
      BY <2>1 DEF CommitCode, CleanUp
  <1>3. PICK deadRefresh :
          /\ code' = [code EXCEPT ![g] = "invalid"] /\ used' = [used EXCEPT ![g] = a]
          /\ refresh' = [b \in Attempts |-> CASE b = a             -> "active"
                                              [] b \in deadRefresh -> "none"
                                              [] OTHER             -> refresh[b]]
          /\ minted' = minted \cup {a} /\ rotated' = rotated
    BY <1>g, <1>2 DEF CommitCode
  <1>4. code[g] = "live" /\ used[g] = NoAttempt /\ rotated[a] = NoAttempt
    BY <1>g, <1>1, <1>2 DEF CodeWins, UseInv, UseOK, RotateOK, BeforeCommit
  <1>5. ASSUME NEW h \in Grants
        PROVE  UseOK(h)'
    BY <1>0, <1>3, <1>5 DEF TypeOK, UseInv, UseOK
  <1>6. ASSUME NEW r \in Attempts
        PROVE  RotateOK(r)'
    BY <1>0, <1>1, <1>3, <1>4 DEF TypeOK, UseInv, RotateOK, BeforeCommit
  <1>7. ASSUME NEW b \in Attempts, Answered(b)'
        PROVE  /\ b \in minted'
               /\ presented'[b] = NoAttempt => used'[grantOf'[b]] = b
               /\ presented'[b] # NoAttempt => rotated'[presented'[b]] = b
    <2>1. b # a /\ Answered(b)
      BY <1>0, <1>1, <1>7 DEF TypeOK, Answered
    <2>2. /\ b \in minted /\ grantOf[b] \in Grants
          /\ presented[b] = NoAttempt => used[grantOf[b]] = b
          /\ presented[b] # NoAttempt => rotated[presented[b]] = b
      BY <1>0, <2>1 DEF UseInv, AnswerOK, TypeOK
    <2>3. b # NoAttempt
      BY ConstantsAssumption
    <2> QED
      BY <1>0, <1>1, <1>3, <1>4, <2>2, <2>3 DEF TypeOK
  <1> QED
    BY <1>5, <1>6, <1>7 DEF UseInv, AnswerOK

(* A rotation marks the active row it presented, which it leaves inactive  *)
(* or, when it had expired, deleted.                                       *)
LEMMA UseOfRefresh ==
  ASSUME IInv, IInv', [Next]_vars, UseInv, NEW a \in Attempts, CommitRefresh(a), Mints(a, grantOf[a])
  PROVE  UseInv'
  <1>g. PICK g \in Grants, r \in Attempts : g = grantOf[a] /\ r = presented[a] /\ grantOf[r] = g
    BY DEF IInv, TypeOK, Structure, CallsKnow, CommitRefresh
  <1>0. /\ TypeOK /\ minted \subseteq minted'
        /\ \A b \in Attempts : Answered(b)' => Answered(b) \/ (pc[b] = "committed" /\ MarkedBy(b))
    BY AnswersAreMarked DEF IInv
  <1>1. pc[a] = "refresh" /\ pc' = [pc EXCEPT ![a] = "committed"] /\ UNCHANGED <<grantOf, presented>>
    BY DEF CommitRefresh
  <1>2. RefreshWins(a)
    <2>1. a \notin access /\ a \in access'
      BY <1>1 DEF IInv, Structure, FreshCalls, BeforeCommit, Mints
    <2> QED
      BY <2>1 DEF CommitRefresh, CleanUp
  <1>3. PICK deadRefresh :
          /\ rotated' = [rotated EXCEPT ![r] = a]
          /\ refresh' = [b \in Attempts |-> CASE b = a /\ r \notin deadRefresh -> "active"
                                              [] b # a /\ b \in deadRefresh    -> "none"
                                              [] OTHER                         -> Inactive(TokensOf({g}))[b]]
          /\ minted' = (IF r \in deadRefresh THEN minted ELSE minted \cup {a})
          /\ code' = code /\ used' = used
    BY <1>g, <1>2 DEF CommitRefresh
  <1>4. /\ refresh[r] = "active" /\ rotated[r] = NoAttempt /\ rotated[a] = NoAttempt
        /\ r # a /\ pc[r] \notin BeforeCommit
    BY <1>g, <1>1, <1>2 DEF RefreshWins, UseInv, RotateOK, BeforeCommit, IInv, Structure, FreshCalls
  <1>5. \A b \in Attempts : b # a => /\ refresh'[b] = "active" => refresh[b] = "active"
                                     /\ refresh'[b] # "none" => refresh[b] # "none"
    BY <1>3 DEF Inactive
  <1>6. refresh'[r] # "active" /\ (refresh'[r] # "none" => a \in minted')
    BY <1>g, <1>3, <1>4 DEF Inactive, TokensOf
  <1>7. ASSUME NEW h \in Grants
        PROVE  UseOK(h)'
    BY <1>0, <1>3, <1>7 DEF UseInv, UseOK
  <1>8. ASSUME NEW b \in Attempts
        PROVE  RotateOK(b)'
    <2>1. CASE b = r
      BY <1>0, <1>1, <1>3, <1>4, <1>6, <2>1 DEF TypeOK, RotateOK
    <2>2. CASE b # r
      BY <1>0, <1>1, <1>3, <1>4, <1>5, <2>2 DEF TypeOK, UseInv, RotateOK, BeforeCommit
    <2> QED
      BY <2>1, <2>2
  <1>9. ASSUME NEW b \in Attempts, Answered(b)'
        PROVE  /\ b \in minted'
               /\ presented'[b] = NoAttempt => used'[grantOf'[b]] = b
               /\ presented'[b] # NoAttempt => rotated'[presented'[b]] = b
    <2>1. b # a /\ Answered(b)
      BY <1>0, <1>1, <1>9 DEF TypeOK, Answered
    <2>2. /\ b \in minted /\ presented[b] \in Attempts \cup {NoAttempt}
          /\ presented[b] = NoAttempt => used[grantOf[b]] = b
          /\ presented[b] # NoAttempt => rotated[presented[b]] = b
      BY <1>0, <2>1 DEF UseInv, AnswerOK, TypeOK
    <2>3. b # NoAttempt
      BY ConstantsAssumption
    <2> QED
      BY <1>0, <1>1, <1>3, <1>4, <2>2, <2>3 DEF TypeOK
  <1> QED
    BY <1>7, <1>8, <1>9 DEF UseInv, AnswerOK

(* A step that writes tokens is the batch of the call it writes them for. *)
LEMMA MintsAreCommits ==
  ASSUME IInv, [Next]_vars, NEW a \in Attempts, Mints(a, grantOf[a])
  PROVE  CommitCode(a) \/ CommitRefresh(a)
  <1>1. pc[a] \in {"code", "refresh"} /\ pc'[a] = "committed"
    BY DEF Mints, IInv, TypeOK
  <1>2. pc' # pc
    BY <1>1
  <1>3. ASSUME ~(\E b \in Attempts : CallNext(b))
        PROVE  pc' = pc
    BY <1>3, OtherStepsLeaveCalls
  <1>4. PICK b \in Attempts : CallNext(b)
    BY <1>2, <1>3
  <1>5. \E next : pc' = [pc EXCEPT ![b] = next]
    BY <1>4 DEF CallNext, BeginCode, BeginRefresh, BeginRevoke, Begin, CommitCode, CommitRefresh, VerifyCommit,
       Respond, CodeReuseRevokesAccess, CodeReuseRevokesRefresh, CommitReuse, RevokeEndpointRefresh,
       RevokeEndpointAccess, Finish
  <1>6. b = a
    BY <1>1, <1>5 DEF IInv, TypeOK
  <1> QED
    BY <1>1, <1>4, <1>6 DEF CallNext, BeginCode, BeginRefresh, BeginRevoke, VerifyCommit, Respond,
       CodeReuseRevokesAccess, CodeReuseRevokesRefresh, CommitReuse, RevokeEndpointRefresh, RevokeEndpointAccess

LEMMA UseInvariant == Spec => []UseInv
  <1>1. Init => UseInv
    BY DEF Init, UseInv, UseOK, RotateOK, AnswerOK, Answered
  <1>2. ASSUME IInv, UseInv, [Next]_vars
        PROVE  UseInv'
    BY <1>2, EveryStep, UseWithoutMint, UseOfCode, UseOfRefresh, MintsAreCommits DEF StepKind
  <1> QED
    BY <1>1, <1>2, Invariance, PTL DEF Spec

(* However many calls present one code or one refresh token, and whatever  *)
(* expires, is swept or is retried meanwhile, at most one of them is       *)
(* answered, and only one whose batch wrote its tokens.                    *)
THEOREM SingleUseSafety == Spec => []SingleUse
  <1>1. ASSUME UseInv
        PROVE  SingleUse
    <2>1. ASSUME NEW a \in Attempts, NEW b \in Attempts, Answered(a), Answered(b), a # b,
                 presented[a] = presented[b]
          PROVE  presented[a] = NoAttempt /\ grantOf[a] # grantOf[b]
      BY <1>1, <2>1 DEF UseInv, AnswerOK
    <2>2. \A a \in Attempts : Answered(a) => a \in minted
      BY <1>1 DEF UseInv, AnswerOK
    <2> QED
      BY <2>1, <2>2 DEF SingleUse
  <1> QED
    BY <1>1, UseInvariant, PTL

-----------------------------------------------------------------------------
(***************************************************************************)
(* Logout notices.  Until a revocation batch ran for its session, a client *)
(* that redeemed a code is recorded both for the session and for the user, *)
(* so whichever of the two tables the first batch reads names it.          *)
(***************************************************************************)
Recorded(g) ==
    \/ client[ClientOf[g]].state = "deleted"
    \/ (<<SidOf[g], ClientOf[g]>> \in sessClients /\ <<UserOf(g), ClientOf[g]>> \in userClients)

Notified(g) ==
    \/ <<SidOf[g], ClientOf[g]>> \in deliveries
    \/ <<UserOf(g), ClientOf[g]>> \in userDeliveries
    \/ client[ClientOf[g]].state = "deleted"

NotifyOK(g) ==
    /\ code[g] # "unissued" => sess[SidOf[g]] # "absent"
    /\ (used[g] # NoAttempt /\ SidOf[g] \notin ended) => Recorded(g)
    /\ (used[g] # NoAttempt /\ SidOf[g] \in announced) => Notified(g)

NotifyInv == announced \subseteq ended /\ \A g \in Grants : NotifyOK(g)

(* What every step but the issue of a code and its redemption does to the  *)
(* notices of a grant: no session is announced without one.                *)
NoticeKept(g) ==
    /\ code'[g] # "unissued" => code[g] # "unissued"
    /\ sess[SidOf[g]] # "absent" => sess'[SidOf[g]] # "absent"
    /\ used'[g] = used[g]
    /\ ended \subseteq ended'
    /\ Notified(g) => Notified(g)'
    /\ (code[g] # "unissued" /\ SidOf[g] \notin ended' /\ Recorded(g)) => Recorded(g)'
    /\ SidOf[g] \in announced' =>
         \/ SidOf[g] \in announced
         \/ (SidOf[g] \notin ended /\ (Recorded(g) => Notified(g)'))

LEMMA NoticeStep ==
  ASSUME UseInv, NotifyInv, announced' \subseteq ended', \A g \in Grants : NoticeKept(g)
  PROVE  NotifyInv'
  <1>1. ASSUME NEW g \in Grants
        PROVE  NotifyOK(g)'
    <2>1. NoticeKept(g) /\ NotifyOK(g) /\ (used[g] # NoAttempt => code[g] # "unissued")
      BY DEF NotifyInv, UseInv, UseOK
    <2>2. announced \subseteq ended
      BY DEF NotifyInv
    <2> QED
      BY <2>1, <2>2 DEF NoticeKept, NotifyOK
  <1> QED
    BY <1>1 DEF NotifyInv

(* A step that leaves the sessions' end, the notices and their tables alone. *)
LEMMA NoNoticeStep ==
  ASSUME IInv, UseInv, NotifyInv, UNCHANGED <<rpVars, ended, announced, used, client>>,
         \A g \in Grants : code'[g] # "unissued" => code[g] # "unissued",
         \A s \in Sessions : sess[s] # "absent" => sess'[s] # "absent"
  PROVE  NotifyInv'
  <1>1. ASSUME NEW g \in Grants
        PROVE  NoticeKept(g)
    <2>1. SidOf[g] \in Sessions
      BY ConstantsAssumption
    <2>2. (Notified(g) => Notified(g)') /\ (Recorded(g) => Recorded(g)')
      BY DEF Notified, Recorded, rpVars
    <2> QED
      BY <2>1, <2>2 DEF NoticeKept
  <1> QED
    BY <1>1, NoticeStep DEF NotifyInv

(* A logout by session: the batch announces unrevoked rows, or rows that   *)
(* no batch ran for, and sends to the recorded clients of those sessions.  *)
LEMMA SidNoticeStep ==
  ASSUME IInv, UseInv, NotifyInv, NEW E \in SUBSET Sessions, NEW A \in SUBSET E, A \cap ended = {},
         ended' = ended \cup E, announced' = announced \cup A,
         deliveries \subseteq deliveries',
         \A sc \in sessClients : sc[1] \in A => sc \in deliveries',
         \A sc \in sessClients : sc[1] \notin E => sc \in sessClients',
         UNCHANGED <<used, client, userClients, userDeliveries>>,
         \A g \in Grants : code'[g] # "unissued" => code[g] # "unissued",
         \A s \in Sessions : sess[s] # "absent" => sess'[s] # "absent"
  PROVE  NotifyInv'
  <1>1. ASSUME NEW g \in Grants
        PROVE  NoticeKept(g)
    <2>1. SidOf[g] \in Sessions /\ <<SidOf[g], ClientOf[g]>>[1] = SidOf[g]
      BY ConstantsAssumption
    <2>2. Notified(g) => Notified(g)'
      BY DEF Notified
    <2>3. SidOf[g] \notin ended' /\ Recorded(g) => Recorded(g)'
      BY <2>1 DEF Recorded
    <2>4. SidOf[g] \in A /\ Recorded(g) => Notified(g)'
      BY <2>1 DEF Recorded, Notified
    <2> QED
      BY <2>1, <2>2, <2>3, <2>4 DEF NoticeKept
  <1> QED
    BY <1>1, NoticeStep DEF NotifyInv

(* A logout by user: the notices come from the user's clients. *)
LEMMA SubNoticeStep ==
  ASSUME IInv, UseInv, NotifyInv, NEW U \in SUBSET Subjects,
         LET S == {s \in Sessions : SubjectOf[s] \in U} IN
           /\ ended' = ended \cup {s \in S : sess[s] # "absent"}
           /\ announced' = announced \cup (S \cap Unrevoked)
           /\ \A sc \in sessClients : sc[1] \notin S => sc \in sessClients',
         userDeliveries' = userDeliveries \cup {uc \in userClients : uc[1] \in U},
         \A uc \in userClients : uc[1] \notin U => uc \in userClients',
         UNCHANGED <<used, client, deliveries>>,
         \A g \in Grants : code'[g] # "unissued" => code[g] # "unissued",
         \A s \in Sessions : sess[s] # "absent" => sess'[s] # "absent"
  PROVE  NotifyInv'
  <1> DEFINE S == {s \in Sessions : SubjectOf[s] \in U}
  <1>1. /\ ended' = ended \cup {s \in S : sess[s] # "absent"}
        /\ announced' = announced \cup (S \cap Unrevoked)
        /\ \A sc \in sessClients : sc[1] \notin S => sc \in sessClients'
    OBVIOUS
  <1>2. Unrevoked \cap ended = {} /\ \A s \in Unrevoked : sess[s] # "absent"
    BY DEF IInv, Structure, EndedStaysEnded, Unrevoked
  <1>3. ASSUME NEW g \in Grants
        PROVE  NoticeKept(g)
    <2>1. /\ SidOf[g] \in Sessions /\ UserOf(g) = SubjectOf[SidOf[g]]
          /\ <<SidOf[g], ClientOf[g]>>[1] = SidOf[g] /\ <<UserOf(g), ClientOf[g]>>[1] = UserOf(g)
      BY ConstantsAssumption DEF UserOf
    <2>2. Notified(g) => Notified(g)'
      BY DEF Notified
    <2>3. code[g] # "unissued" => sess[SidOf[g]] # "absent"
      BY DEF NotifyInv, NotifyOK
    <2>4. (code[g] # "unissued" /\ SidOf[g] \notin ended' /\ Recorded(g)) => Recorded(g)'
      BY <1>1, <2>1, <2>3 DEF Recorded
    <2>5. SidOf[g] \in S /\ Recorded(g) => Notified(g)'
      BY <2>1 DEF Recorded, Notified
    <2> QED
      BY <1>1, <1>2, <2>1, <2>2, <2>4, <2>5 DEF NoticeKept
  <1>4. announced' \subseteq ended'
    BY <1>1, <1>2 DEF NotifyInv
  <1> QED
    BY <1>3, <1>4, NoticeStep

(* No step but the issue of a code issues one, and no row of a session     *)
(* becomes one that never existed.                                         *)
LEMMA IssuedStaysIssued ==
  ASSUME IInv, Loses
  PROVE  \A g \in Grants : code'[g] # "unissued" => code[g] # "unissued"
  BY DEF Loses, Shrinks

LEMMA SessionNotices ==
  ASSUME IInv, IInv', UseInv, NotifyInv, NEW s \in Sessions, SessionNext(s)
  PROVE  NotifyInv'
  <1>0. /\ TypeOK /\ TypeOK' /\ Unrevoked \cap ended = {}
        /\ \A g \in Grants : code'[g] # "unissued" => code[g] # "unissued"
    BY SessionStep, IssuedStaysIssued DEF IInv, Structure, EndedStaysEnded, Unrevoked
  <1>1. CASE CreateSession(s) \/ ExpireSession(s) \/ SweepSession(s)
             \/ (\E p \in Sessions : CreateReauthenticatedSession(p, s))
    <2>1. \A t \in Sessions : sess[t] # "absent" => sess'[t] # "absent"
      BY <1>0, <1>1 DEF TypeOK, CreateSession, ExpireSession, SweepSession, CreateReauthenticatedSession
    <2>2. UNCHANGED <<rpVars, ended, announced, used, client>>
      BY <1>1 DEF CreateSession, ExpireSession, SweepSession, CreateReauthenticatedSession, histVars, dbVars
    <2> QED
      BY <1>0, <2>1, <2>2, NoNoticeStep
  <1>2. CASE RevokeOIDCSession(s) \/ DeleteSession(s)
    <2>1. \A t \in Sessions : sess[t] # "absent" => sess'[t] # "absent"
      BY <1>0, <1>2 DEF TypeOK, RevokeOIDCSession, DeleteSession, Revoked
    <2>2. SessionRevocationStatements(s)
      BY <1>2 DEF RevokeOIDCSession, DeleteSession
    <2> DEFINE A == {s} \cap Unrevoked
    <2>3. A \in SUBSET {s} /\ {s} \in SUBSET Sessions /\ A \cap ended = {}
      BY <1>0
    <2>4. /\ ended' = ended \cup {s} /\ announced' = announced \cup A
          /\ deliveries' = deliveries \cup SidDeliveries(s)
          /\ sessClients' = {sc \in sessClients : sc[1] # s}
          /\ UNCHANGED <<used, client, userClients, userDeliveries>>
      BY <2>2 DEF SessionRevocationStatements, RevokeArtifacts
    <2>5. /\ deliveries \subseteq deliveries'
          /\ \A sc \in sessClients : sc[1] \in A => sc \in deliveries'
          /\ \A sc \in sessClients : sc[1] \notin {s} => sc \in sessClients'
      BY <2>4 DEF SidDeliveries
    <2> HIDE DEF A
    <2> QED
      BY <1>0, <2>1, <2>3, <2>4, <2>5, SidNoticeStep
  <1> QED
    BY <1>1, <1>2 DEF SessionNext

LEMMA UserNotices ==
  ASSUME IInv, IInv', UseInv, NotifyInv, NEW u \in Subjects, UserNext(u)
  PROVE  NotifyInv'
  <1>0. /\ TypeOK /\ TypeOK' /\ Unrevoked \cap ended = {} /\ \A s \in Unrevoked : sess[s] # "absent"
        /\ \A g \in Grants : code'[g] # "unissued" => code[g] # "unissued"
    BY UserStep, IssuedStaysIssued DEF IInv, Structure, EndedStaysEnded, Unrevoked
  <1>1. \A t \in Sessions : sess[t] # "absent" => sess'[t] # "absent"
    BY <1>0 DEF TypeOK, UserNext, ForceLogout, ExpireAccount, DeleteUser, ResetPassword, UpdateUser, Revoked
  <1>2. CASE ForceLogout(u) \/ ExpireAccount(u) \/ DeleteUser(u)
    <2> DEFINE S == {s \in Sessions : SubjectOf[s] \in {u}}
    <2>1. SubjectLogout(u) /\ used' = used /\ {u} \in SUBSET Subjects
      BY <1>2 DEF ForceLogout, ExpireAccount, DeleteUser, RevokeArtifacts
    <2>2. S = SessionsOf(u)
      BY DEF SessionsOf
    <2>3. /\ ended' = ended \cup {s \in S : sess[s] # "absent"}
          /\ announced' = announced \cup (S \cap Unrevoked)
          /\ \A sc \in sessClients : sc[1] \notin S => sc \in sessClients'
      BY <2>1, <2>2 DEF SubjectLogout
    <2>4. /\ userDeliveries' = userDeliveries \cup {uc \in userClients : uc[1] \in {u}}
          /\ \A uc \in userClients : uc[1] \notin {u} => uc \in userClients'
          /\ UNCHANGED <<used, client, deliveries>>
      BY <2>1 DEF SubjectLogout
    <2> QED
      BY <1>0, <1>1, <2>1, <2>3, <2>4, SubNoticeStep
  <1>3. CASE ResetPassword(u)
    <2> DEFINE E == {s \in SessionsOf(u) : sess[s] # "absent"}
               A == SessionsOf(u) \cap Unrevoked
    <2>1. E \in SUBSET Sessions /\ A \in SUBSET E /\ A \cap ended = {}
      BY <1>0 DEF SessionsOf
    <2>2. /\ ended' = ended \cup E /\ announced' = announced \cup A
          /\ UNCHANGED <<used, client, userClients, userDeliveries>>
      BY <1>3 DEF ResetPassword, RevokeArtifacts
    <2>3. /\ deliveries \subseteq deliveries'
          /\ \A sc \in sessClients : sc[1] \in A => sc \in deliveries'
          /\ \A sc \in sessClients : sc[1] \notin E => sc \in sessClients'
      BY <1>3 DEF ResetPassword, HasRow, Unrevoked
    <2> HIDE DEF A, E
    <2> QED
      BY <1>0, <1>1, <2>1, <2>2, <2>3, SidNoticeStep
  <1>4. CASE \E enabled, newEmail, newRoles \in BOOLEAN : UpdateUser(u, enabled, newEmail, newRoles)
    <2>1. PICK E \in SUBSET Sessions : ended' = ended \cup E
      <3>1. ended \subseteq Sessions /\ ended' \subseteq Sessions /\ ended \subseteq ended'
        BY <1>0, <1>4 DEF TypeOK, UpdateUser
      <3> QED
        BY <3>1
    <2>2. UNCHANGED <<rpVars, announced, used, client>>
      BY <1>4 DEF UpdateUser, RevokeArtifacts, dbVars
    <2>3. {} \in SUBSET E /\ {} \cap ended = {} /\ announced' = announced \cup {}
      BY <2>2
    <2> QED
      BY <1>0, <1>1, <2>1, <2>2, <2>3, SidNoticeStep DEF rpVars
  <1> QED
    BY <1>2, <1>3, <1>4 DEF UserNext

LEMMA EveryoneNotices ==
  ASSUME IInv, IInv', UseInv, NotifyInv, LogoutAllSessions \/ (\E S \in SUBSET Sessions : UpstreamLogout(S))
  PROVE  NotifyInv'
  <1>0. /\ TypeOK /\ TypeOK' /\ Unrevoked \cap ended = {}
        /\ \A g \in Grants : code'[g] # "unissued" => code[g] # "unissued"
    BY LogoutAllStep, IssuedStaysIssued DEF IInv, Structure, EndedStaysEnded, Unrevoked
  <1>1. \A t \in Sessions : sess[t] # "absent" => sess'[t] # "absent"
    BY <1>0 DEF TypeOK, LogoutAllSessions, UpstreamLogout, Revoked
  <1>2. CASE LogoutAllSessions
    <2> DEFINE S == {s \in Sessions : SubjectOf[s] \in Subjects}
    <2>1. S = Sessions /\ \A uc \in userClients : uc[1] \in Subjects
      BY <1>0, ConstantsAssumption DEF TypeOK
    <2>2. /\ ended' = ended \cup {s \in S : sess[s] # "absent"}
          /\ announced' = announced \cup (S \cap Unrevoked)
          /\ \A sc \in sessClients : sc[1] \notin S => sc \in sessClients'
      <3>1. \A sc \in sessClients : sc[1] \in Sessions
        BY <1>0 DEF TypeOK
      <3>2. S \cap Unrevoked = Unrevoked
        BY <2>1 DEF Unrevoked
      <3> QED
        BY <1>2, <2>1, <3>1, <3>2 DEF LogoutAllSessions
    <2>3. /\ userDeliveries' = userDeliveries \cup {uc \in userClients : uc[1] \in Subjects}
          /\ \A uc \in userClients : uc[1] \notin Subjects => uc \in userClients'
          /\ UNCHANGED <<used, client, deliveries>>
      BY <1>2, <2>1 DEF LogoutAllSessions, RevokeArtifacts
    <2> QED
      BY <1>0, <1>1, <2>2, <2>3, SubNoticeStep
  <1>3. ASSUME NEW S \in SUBSET Sessions, UpstreamLogout(S)
        PROVE  NotifyInv'
    <2> DEFINE A == S \ ended
    <2>1. A \in SUBSET S /\ A \cap ended = {}
      OBVIOUS
    <2>2. /\ ended' = ended \cup S /\ announced' = announced \cup A
          /\ UNCHANGED <<used, client, userClients, userDeliveries>>
      BY <1>3 DEF UpstreamLogout, RevokeArtifacts
    <2>3. /\ deliveries \subseteq deliveries'
          /\ \A sc \in sessClients : sc[1] \in A => sc \in deliveries'
          /\ \A sc \in sessClients : sc[1] \notin S => sc \in sessClients'
      BY <1>3 DEF UpstreamLogout
    <2> HIDE DEF A
    <2> QED
      BY <1>0, <1>1, <2>1, <2>2, <2>3, SidNoticeStep
  <1> QED
    BY <1>2, <1>3

LEMMA ClientNotices ==
  ASSUME IInv, IInv', UseInv, NotifyInv, NEW c \in Clients, ClientNext(c)
  PROVE  NotifyInv'
  <1>0. TypeOK /\ UNCHANGED <<sess, code, used, deliveries, userDeliveries, ended, announced>>
    BY DEF IInv, ClientNext, UpdateClient, DeleteClient, dbVars, rpVars, histVars
  <1>1. /\ client[c].state # "deleted"
        /\ \A d \in Clients : d # c => client'[d] = client[d]
        /\ \/ client'[c].state = "deleted"
           \/ UNCHANGED <<sessClients, userClients>>
        /\ \A sc \in sessClients : sc[2] # c => sc \in sessClients'
        /\ \A uc \in userClients : uc[2] # c => uc \in userClients'
    BY <1>0 DEF TypeOK, ClientNext, UpdateClient, DeleteClient, rpVars
  <1>2. ASSUME NEW g \in Grants
        PROVE  NoticeKept(g)
    <2>1. /\ ClientOf[g] \in Clients
          /\ <<SidOf[g], ClientOf[g]>>[2] = ClientOf[g] /\ <<UserOf(g), ClientOf[g]>>[2] = ClientOf[g]
      BY ConstantsAssumption
    <2>2. client[ClientOf[g]].state = "deleted" => client'[ClientOf[g]].state = "deleted"
      BY <1>1, <2>1
    <2>3. Notified(g) => Notified(g)'
      BY <1>0, <2>2 DEF Notified
    <2>4. Recorded(g) => Recorded(g)'
      BY <1>1, <2>1, <2>2 DEF Recorded
    <2> QED
      BY <1>0, <2>3, <2>4 DEF NoticeKept
  <1> QED
    BY <1>0, <1>2, NoticeStep DEF NotifyInv

(* A code is issued under a row of its session. *)
LEMMA IssueNotices ==
  ASSUME IInv, IInv', UseInv, NotifyInv, NEW g \in Grants, IssueCode(g),
         \A h \in expired.codes : code[h] # "unissued"
  PROVE  NotifyInv'
  <1>0. TypeOK /\ UNCHANGED <<sess, client, used, rpVars, ended, announced>>
    BY DEF IInv, IssueCode, histVars
  <1>1. \A h \in Grants : code'[h] # "unissued" => code[h] # "unissued" \/ sess[SidOf[h]] = "live"
    BY <1>0 DEF TypeOK, IssueCode, IssueGuard
  <1>2. ASSUME NEW h \in Grants
        PROVE  NotifyOK(h)'
    <2>1. NotifyOK(h)
      BY DEF NotifyInv
    <2> QED
      BY <1>0, <1>1, <2>1 DEF NotifyOK, Recorded, Notified, rpVars
  <1> QED
    BY <1>0, <1>2 DEF NotifyInv

(* A redemption records its client before the batch ends, under a session  *)
(* that no batch has ended.                                                *)
LEMMA CallNotices ==
  ASSUME IInv, IInv', [Next]_vars, UseInv, NotifyInv, NEW a \in Attempts, CallNext(a)
  PROVE  NotifyInv'
  <1>0. TypeOK /\ UNCHANGED <<sess, client, deliveries, userDeliveries, ended, announced>>
    BY DEF IInv, CallNext, BeginCode, BeginRefresh, BeginRevoke, Begin, CommitCode, CommitRefresh, VerifyCommit,
       Respond, CodeReuseRevokesAccess, CodeReuseRevokesRefresh, CommitReuse, RevokeEndpointRefresh,
       RevokeEndpointAccess, Finish, rpVars, histVars
  <1>1. CASE CommitCode(a) /\ CodeWins(a)
    <2>g. PICK g \in Grants : g = grantOf[a]
      BY <1>0 DEF TypeOK
    <2>1. /\ code' = [code EXCEPT ![g] = "invalid"] /\ used' = [used EXCEPT ![g] = a]
          /\ sessClients' = sessClients \cup {<<SidOf[g], ClientOf[g]>>}
          /\ userClients' = userClients \cup {<<UserOf(g), ClientOf[g]>>}
      BY <1>1, <2>g DEF CommitCode
    <2>2. code[g] = "live" /\ SidOf[g] \notin ended /\ SidOf[g] \notin announced
      BY <1>1, <2>g DEF CodeWins, IInv, LogoutIsFinal, GrantsOfSessions, NotifyInv
    <2>3. ASSUME NEW h \in Grants
          PROVE  NotifyOK(h)'
      <3>1. NotifyOK(h)
        BY DEF NotifyInv
      <3>2. CASE h = g
        BY <1>0, <2>1, <2>2, <3>1, <3>2 DEF TypeOK, NotifyOK, Recorded
      <3>3. CASE h # g
        BY <1>0, <2>1, <3>1, <3>3 DEF TypeOK, NotifyOK, Recorded, Notified
      <3> QED
        BY <3>2, <3>3
    <2> QED
      BY <1>0, <2>3 DEF NotifyInv
  <1>2. CASE ~(CommitCode(a) /\ CodeWins(a))
    <2>1. UNCHANGED <<rpVars, code, used>>
      <3>1. CASE Begins(a)
        BY <3>1 DEF Begins, BeginCode, BeginRefresh, BeginRevoke, Begin, dbVars
      <3>2. CASE CommitCode(a)
        BY <1>0, <1>2, <3>2 DEF CommitCode, CleanUp, rpVars
      <3>3. CASE CommitRefresh(a)
        BY <1>0, <3>3 DEF CommitRefresh, CleanUp, rpVars
      <3>4. CASE VerifyCommit(a) \/ Respond(a)
        BY <3>4 DEF VerifyCommit, Respond, dbVars
      <3>5. CASE \/ CodeReuseRevokesAccess(a) \/ CodeReuseRevokesRefresh(a) \/ CommitReuse(a)
                 \/ RevokeEndpointRefresh(a) \/ RevokeEndpointAccess(a)
        BY <3>5 DEF CodeReuseRevokesAccess, CodeReuseRevokesRefresh, CommitReuse, RevokeEndpointRefresh,
           RevokeEndpointAccess, RevokeAccessToken, RevokeRefreshToken, Untouched, Finish, dbVars
      <3> QED
        BY <3>1, <3>2, <3>3, <3>4, <3>5 DEF CallNext, Begins
    <2> QED
      BY <1>0, <2>1, NoNoticeStep
  <1> QED
    BY <1>1, <1>2

(* Only rows that exist expire. *)
ExpiredCodesIssued == \A g \in expired.codes : code[g] # "unissued"

LEMMA ExpiredCodes == Spec => []ExpiredCodesIssued
  <1>1. Init => ExpiredCodesIssued
    BY DEF Init, ExpiredCodesIssued
  <1>2. ASSUME IInv, ExpiredCodesIssued, [Next]_vars
        PROVE  ExpiredCodesIssued'
    <2>0. TypeOK /\ expired.codes \subseteq Grants
      BY <1>2 DEF IInv, TypeOK
    <2>1. \A g \in Grants : code[g] # "unissued" => code'[g] # "unissued"
      <3>1. CASE Loses
        BY <3>1 DEF Loses, Shrinks
      <3>2. ASSUME NEW a \in Attempts, Mints(a, grantOf[a])
            PROVE  \A g \in Grants : code[g] # "unissued" => code'[g] # "unissued"
        BY <3>2 DEF Mints
      <3>3. ASSUME NEW h \in Grants, IssueCode(h)
            PROVE  \A g \in Grants : code[g] # "unissued" => code'[g] # "unissued"
        BY <2>0, <3>3 DEF TypeOK, IssueCode
      <3>4. CASE \E a \in Attempts : Begins(a)
        BY <3>4 DEF Begins, BeginCode, BeginRefresh, BeginRevoke, Begin, dbVars
      <3> QED
        BY <1>2, <3>1, <3>2, <3>3, <3>4, EveryStep DEF StepKind
    <2>2. CASE Expire
      BY <1>2, <2>0, <2>2 DEF Expire, ExpiredCodesIssued, TypeOK, dbVars
    <2>3. CASE expired' = expired
      BY <1>2, <2>0, <2>1, <2>3 DEF ExpiredCodesIssued
    <2>4. expired' = expired \/ Expire
      <3>1. CASE UNCHANGED vars
        BY <3>1 DEF vars
      <3>2. CASE \E s \in Sessions : SessionNext(s)
        BY <3>2 DEF SessionNext, CreateSession, CreateReauthenticatedSession, ExpireSession, SweepSession,
           RevokeOIDCSession, DeleteSession, SessionRevocationStatements
      <3>3. CASE \E u \in Subjects : UserNext(u)
        BY <3>3 DEF UserNext, ForceLogout, ExpireAccount, DeleteUser, ResetPassword, UpdateUser, SubjectLogout
      <3>4. CASE \/ LogoutAllSessions \/ (\E S \in SUBSET Sessions : UpstreamLogout(S))
                 \/ (\E c \in Clients : ClientNext(c)) \/ (\E g \in Grants : IssueCode(g))
        BY <3>4 DEF LogoutAllSessions, UpstreamLogout, ClientNext, UpdateClient, DeleteClient, IssueCode
      <3>5. CASE \E a \in Attempts : CallNext(a)
        BY <3>5 DEF CallNext, BeginCode, BeginRefresh, BeginRevoke, Begin, CommitCode, CommitRefresh, VerifyCommit,
           Respond, CodeReuseRevokesAccess, CodeReuseRevokesRefresh, CommitReuse, RevokeEndpointRefresh,
           RevokeEndpointAccess, Finish
      <3> QED
        BY <1>2, <3>1, <3>2, <3>3, <3>4, <3>5 DEF Next
    <2> QED
      BY <2>2, <2>3, <2>4
  <1> QED
    BY <1>1, <1>2, Invariance, PTL DEF Spec

LEMMA NotifyInvariant == Spec => []NotifyInv
  <1>1. Init => NotifyInv
    BY DEF Init, NotifyInv, NotifyOK
  <1>2. ASSUME IInv, UseInv, ExpiredCodesIssued, NotifyInv, [Next]_vars
        PROVE  NotifyInv'
    <2>0. IInv'
      BY <1>2, NextIInv
    <2>1. CASE UNCHANGED vars \/ Expire
      BY <1>2, <2>1, NoNoticeStep DEF vars, Expire, dbVars, histVars
    <2>2. CASE \E s \in Sessions : SessionNext(s)
      BY <1>2, <2>0, <2>2, SessionNotices
    <2>3. CASE \E u \in Subjects : UserNext(u)
      BY <1>2, <2>0, <2>3, UserNotices
    <2>4. CASE LogoutAllSessions \/ (\E S \in SUBSET Sessions : UpstreamLogout(S))
      BY <1>2, <2>0, <2>4, EveryoneNotices
    <2>5. CASE \E c \in Clients : ClientNext(c)
      BY <1>2, <2>0, <2>5, ClientNotices
    <2>6. CASE \E g \in Grants : IssueCode(g)
      BY <1>2, <2>0, <2>6, IssueNotices DEF ExpiredCodesIssued
    <2>7. CASE \E a \in Attempts : CallNext(a)
      BY <1>2, <2>0, <2>7, CallNotices
    <2> QED
      BY <1>2, <2>1, <2>2, <2>3, <2>4, <2>5, <2>6, <2>7 DEF Next
  <1> QED
    BY <1>1, <1>2, Invariance, UseInvariant, ExpiredCodes, PTL DEF Spec

(* Every client that redeemed a code is sent a notice of the first logout  *)
(* of its session, however sign-outs by session, by user, by an upstream   *)
(* provider and password resets race with each other and with redemptions. *)
THEOREM NoticeSafety == Spec => []EveryRPNotified
  <1>1. NotifyInv => EveryRPNotified
    BY DEF NotifyInv, NotifyOK, Notified, EveryRPNotified
  <1> QED
    BY <1>1, NotifyInvariant, PTL

-----------------------------------------------------------------------------
(***************************************************************************)
(* Refinement.  Under OneChain a grant has at most one holder, so a step   *)
(* that takes rows away keeps the holder or ends the grant, and only a     *)
(* batch that wins changes the holder, to a call that never was one.       *)
(***************************************************************************)

(* The phases of a grant, by its row and its holders. *)
LEMMA PhaseOf ==
  ASSUME IInv, NEW g \in Grants
  PROVE  /\ code[g] = "unissued" => Phase[g] = "new" /\ Holders(g) = {}
         /\ Holders(g) # {} => Phase[g] = "held" /\ Consumed(g)
         /\ (code[g] = "live" /\ Holders(g) = {}) => Phase[g] = "code"
         /\ (Consumed(g) /\ Holders(g) = {}) => Phase[g] = "dead"
         /\ Holders(g) = {} => Holder[g] = NoAttempt
         /\ Holders(g) # {} => Holder[g] = CHOOSE a \in Holders(g) : TRUE
  <1>1. Holders(g) # {} => Consumed(g)
    BY DEF IInv, Structure, TokensFollowCode, Holders, TokensOf
  <1> QED
    BY <1>1 DEF Phase, Holder, Consumed

LEMMA OneHolder ==
  ASSUME IInv, NEW g \in Grants, NEW a \in Holders(g)
  PROVE  Holders(g) = {a}
  BY DEF IInv, OneChain, Holders, TokensOf

(* A grant whose rows a step only takes away keeps its holder or dies. *)
LEMMA LosingRefines ==
  ASSUME IInv, IInv', NEW g \in Grants, Holders(g)' \subseteq Holders(g),
         code'[g] = code[g] \/ (code[g] # "unissued" /\ code'[g] \in {"invalid", "deleted"})
  PROVE  Lifecycle!Stays(g) \/ Lifecycle!Die(g)
  <1>1. /\ code[g] = "unissued" => Phase[g] = "new" /\ Holders(g) = {}
        /\ Holders(g) # {} => Phase[g] = "held" /\ Consumed(g)
        /\ (code[g] = "live" /\ Holders(g) = {}) => Phase[g] = "code"
        /\ (Consumed(g) /\ Holders(g) = {}) => Phase[g] = "dead"
        /\ Holders(g) = {} => Holder[g] = NoAttempt
    BY PhaseOf
  <1>2. /\ code'[g] = "unissued" => Phase'[g] = "new"
        /\ Holders(g)' # {} => Phase'[g] = "held"
        /\ (code'[g] = "live" /\ Holders(g)' = {}) => Phase'[g] = "code"
        /\ (Consumed(g)' /\ Holders(g)' = {}) => Phase'[g] = "dead"
        /\ Holders(g)' = {} => Holder'[g] = NoAttempt
    <2>1. (Holders(g) # {} => Consumed(g))'
      BY DEF IInv, Structure, TokensFollowCode, Holders, TokensOf
    <2> QED
      BY <2>1 DEF Phase, Holder, Consumed
  <1>3. code[g] \in CodeStates
    BY DEF IInv, TypeOK
  <1>4. CASE Holders(g)' = {}
    BY <1>1, <1>2, <1>3, <1>4 DEF Consumed, CodeStates, Lifecycle!Stays, Lifecycle!Die
  <1>5. CASE Holders(g)' # {}
    <2>1. Holders(g)' = Holders(g)
      BY <1>5, OneHolder
    <2>2. Holder'[g] = Holder[g] /\ Phase'[g] = Phase[g]
      BY <1>1, <1>2, <1>5, <2>1 DEF Holder
    <2> QED
      BY <2>2 DEF Lifecycle!Stays
  <1> QED
    BY <1>4, <1>5

(* A winning batch hands its grant to its call. *)
LEMMA MintRefines ==
  ASSUME IInv, IInv', NEW a \in Attempts, NEW g \in Grants, Mints(a, g)
  PROVE  /\ Lifecycle!Hand(g)
         /\ \A h \in Grants : h # g => Holders(h)' \subseteq Holders(h)
  <1>0. /\ TypeOK /\ TypeOK' /\ pc[a] \in {"code", "refresh"} /\ pc'[a] = "committed" /\ grantOf' = grantOf
        /\ grantOf[a] = g /\ a \in access'
    BY DEF IInv, TypeOK, Mints
  <1>1. Holders(g)' = {a}
    BY <1>0 DEF Mints, Holders, TokensOf
  <1>2. Phase'[g] = "held" /\ Holder'[g] = a
    <2>1. code'[g] # "unissued" /\ Holders(g)' # {} /\ Consumed(g)'
      BY <1>1 DEF Mints, Consumed
    <2>2. (CHOOSE x \in {a} : TRUE) = a
      OBVIOUS
    <2>3. Holder'[g] = a
      BY <1>1, <2>1, <2>2 DEF Holder
    <2>4. Phase'[g] = "held"
      BY <2>1 DEF Phase, Consumed
    <2> QED
      BY <2>3, <2>4
  <1>3. Phase[g] \in {"code", "held"}
    <2>1. code[g] # "unissued" /\ ~Dead(g) /\ code[g] \in CodeStates
      BY <1>0 DEF Mints, TypeOK
    <2>2. Holders(g) # {} \/ code[g] = "live"
      BY <2>1 DEF Dead, Holders, TokensOf, IInv, TokenTablesAgree
    <2> QED
      BY <2>1, <2>2 DEF Phase
  <1>4. a \in (Attempts \ Spent) \cap Spent'
    BY <1>0 DEF Spent
  <1>5. \A h \in Grants : h # g => Holders(h)' \subseteq Holders(h)
    BY <1>0 DEF Mints, Holders, TokensOf
  <1> QED
    BY <1>2, <1>3, <1>4, <1>5 DEF Lifecycle!Hand

LEMMA StepRefines ==
  ASSUME IInv, ExpiredCodesIssued, [Next]_vars
  PROVE  Lifecycle!Next
  <1>0. IInv' /\ TypeOK /\ StepKind
    BY EveryStep DEF IInv
  <1>1. CASE Loses
    <2>1. Spent \subseteq Spent'
      BY <1>1 DEF Loses, CallsMove, Spent
    <2>2. ASSUME NEW g \in Grants
          PROVE  Lifecycle!Stays(g) \/ Lifecycle!Die(g)
      <3>1. Holders(g)' \subseteq Holders(g)
        BY <1>1 DEF Loses, Shrinks, Holders, TokensOf
      <3>2. code'[g] = code[g] \/ (code[g] # "unissued" /\ code'[g] \in {"invalid", "deleted"})
        BY <1>1 DEF Loses, Shrinks
      <3> QED
        BY <1>0, <3>1, <3>2, LosingRefines
    <2> QED
      BY <2>1, <2>2 DEF Lifecycle!Next
  <1>2. ASSUME NEW a \in Attempts, Mints(a, grantOf[a])
        PROVE  Lifecycle!Next
    <2>1. Spent \subseteq Spent'
      BY <1>0, <1>2 DEF Mints, TypeOK, Spent
    <2>2. PICK g \in Grants : g = grantOf[a]
      BY <1>0 DEF TypeOK
    <2>3. Lifecycle!Hand(g) /\ \A h \in Grants : h # g => Holders(h)' \subseteq Holders(h)
      BY <1>0, <1>2, <2>2, MintRefines
    <2>4. ASSUME NEW h \in Grants, h # g
          PROVE  Lifecycle!Stays(h) \/ Lifecycle!Die(h)
      <3>1. code'[h] = code[h]
        BY <1>2, <2>2, <2>4 DEF Mints
      <3> QED
        BY <1>0, <2>3, <2>4, <3>1, LosingRefines
    <2> QED
      BY <2>1, <2>3, <2>4 DEF Lifecycle!Next
  <1>3. ASSUME NEW g \in Grants, IssueCode(g)
        PROVE  Lifecycle!Next
    <2>1. UNCHANGED <<access, refresh, pc, grantOf>> /\ code[g] = "unissued"
      BY <1>3 DEF IssueCode, callVars
    <2>2. Spent \subseteq Spent' /\ \A h \in Grants : Holders(h)' = Holders(h)
      BY <2>1 DEF Spent, Holders, TokensOf
    <2>3. \A h \in Grants :
            \/ code'[h] = code[h] \/ (code[h] # "unissued" /\ code'[h] \in {"invalid", "deleted"})
            \/ (h = g /\ code'[h] = "live")
      BY <1>0, <1>3 DEF TypeOK, IssueCode, ExpiredCodesIssued
    <2>4. ASSUME code'[g] = "live"
          PROVE  Lifecycle!Issue(g)
      <3>1. Phase[g] = "new" /\ Holders(g) = {}
        BY <2>1, PhaseOf
      <3>2. Phase'[g] = "code" /\ Holder'[g] = NoAttempt
        BY <2>2, <2>4, <3>1 DEF Phase, Holder
      <3> QED
        BY <3>1, <3>2 DEF Lifecycle!Issue
    <2>5. ASSUME NEW h \in Grants, ~(h = g /\ code'[h] = "live")
          PROVE  Lifecycle!Stays(h) \/ Lifecycle!Die(h)
      BY <1>0, <2>2, <2>3, <2>5, LosingRefines
    <2> QED
      BY <2>2, <2>4, <2>5 DEF Lifecycle!Next
  <1>4. ASSUME NEW a \in Attempts, Begins(a)
        PROVE  Lifecycle!Next
    <2>1. /\ UNCHANGED <<access, refresh, code>> /\ pc[a] = "idle"
          /\ \A b \in Attempts : b # a => pc'[b] = pc[b] /\ grantOf'[b] = grantOf[b]
      BY <1>0, <1>4 DEF TypeOK, Begins, BeginCode, BeginRefresh, BeginRevoke, Begin, dbVars
    <2>2. refresh[a] = "none" /\ a \notin access
      BY <2>1 DEF IInv, Structure, FreshCalls, BeforeCommit
    <2>3. Spent \subseteq Spent' /\ \A h \in Grants : Holders(h)' \subseteq Holders(h)
      BY <2>1, <2>2 DEF Spent, Holders, TokensOf
    <2>4. ASSUME NEW h \in Grants
          PROVE  Lifecycle!Stays(h) \/ Lifecycle!Die(h)
      BY <1>0, <2>1, <2>3, LosingRefines
    <2> QED
      BY <2>3, <2>4 DEF Lifecycle!Next
  <1> QED
    BY <1>0, <1>1, <1>2, <1>3, <1>4 DEF StepKind

LEMMA InitRefines == Init => Lifecycle!Init
  <1> SUFFICES ASSUME Init PROVE Lifecycle!Init
    OBVIOUS
  <1>1. \A g \in Grants : Holders(g) = {}
    BY DEF Init, Holders, TokensOf
  <1>2. Phase = [g \in Grants |-> "new"] /\ Holder = [g \in Grants |-> NoAttempt] /\ Spent = {}
    BY <1>1 DEF Init, Phase, Holder, Spent
  <1> QED
    BY <1>2 DEF Lifecycle!Init

(* The tables implement the life of a grant: issued once, redeemed by one  *)
(* call, handed from call to fresh call by each rotation, and dead for     *)
(* good after a logout, a revocation, a detected reuse or an expiry.       *)
THEOREM LifecycleRefinement == Spec => ImplementsLifecycle
  <1>1. IInv /\ ExpiredCodesIssued /\ [Next]_vars => [Lifecycle!Next]_(Lifecycle!lifeVars)
    BY StepRefines
  <1> QED
    BY <1>1, InitRefines, Invariance, ExpiredCodes, PTL DEF Spec, ImplementsLifecycle, Lifecycle!Spec

=============================================================================
