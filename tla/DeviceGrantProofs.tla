--------------------------- MODULE DeviceGrantProofs ---------------------------
(***************************************************************************)
(* Proofs about the device authorization grant, for any number of device   *)
(* codes, sessions, users, polls and configuration changes.                *)
(***************************************************************************)
EXTENDS DeviceGrant, TLAPS

(* A device row: a claim is only ever written on an approved row, which    *)
(* names its approver from then on, and tokens exist for redeemed rows.    *)
RowInv ==
    \A d \in Devices :
        /\ state[d] \in {"approved", "consumed"} => subject[d] \in Subjects
        /\ state[d] \in {"absent", "pending"} => subject[d] = NoSubject
        /\ claim[d] # NoCall => state[d] \in {"approved", "consumed", "deleted"} /\ subject[d] \in Subjects
        /\ claim[d] \in Calls => of[claim[d]] = d /\ pc[claim[d]] \notin {"idle", "claiming"}
        /\ family[d] = "live" => state[d] = "consumed"

(* A poll: what it read with its claim is what the row says while the      *)
(* claim is its own.                                                       *)
CallInv ==
    \A c \in Calls :
        pc[c] \in {"claimed", "issuing", "sent"} =>
            /\ tokenSubject[c] \in Subjects
            /\ claim[of[c]] = c => tokenSubject[c] = subject[of[c]]

(* A poll that wrote tokens has redeemed its row, which keeps its claim.   *)
MintInv ==
    \A c \in minted :
        /\ pc[c] \in {"committed", "delivered", "failed"}
        /\ claim[of[c]] = c /\ state[of[c]] \in {"consumed", "deleted"}
        /\ tokenSubject[c] = subject[of[c]] /\ tokenSubject[c] \in Subjects

(* The generation of the client moves no faster than its revision.         *)
ClientInv == client.gen <= client.rev

(* The inductive invariant.                                                *)
Inv == TypeOK /\ RowInv /\ CallInv /\ MintInv /\ ClientInv /\ LogoutStopsDevices

(* No device code exists in the initial state, no poll is under way.       *)
LEMMA InitInv == Init => Inv
<1> SUFFICES ASSUME Init PROVE Inv
  OBVIOUS
<1> USE DeviceAssumption DEF Init
<1>1. 0 \in Revisions
  BY DEF Revisions
<1>2. client \in ClientRows /\ client.gen = 0 /\ client.rev = 0
  <2>1. PICK f \in BOOLEAN : client = [enabled |-> TRUE, forceMfa |-> f, gen |-> 0, rev |-> 0]
    OBVIOUS
  <2>2. [enabled |-> TRUE, forceMfa |-> f, gen |-> 0, rev |-> 0] \in ClientRows
    BY ONLY <1>1, f \in BOOLEAN DEF ClientRows
  <2> QED BY <2>1, <2>2
<1>3. user \in [Subjects -> Users]
  BY <1>1 DEF Users
<1>4. TypeOK
  BY <1>1, <1>2, <1>3 DEF TypeOK, States, Families, PcStates
<1>5. RowInv /\ CallInv /\ MintInv /\ LogoutStopsDevices
  BY DEF RowInv, CallInv, MintInv, LogoutStopsDevices
<1> QED BY <1>2, <1>4, <1>5 DEF Inv, ClientInv

(* A subject-wide logout and a deletion keep the type of what they touch.  *)
LEMMA LogoutType == ASSUME Inv, NEW u \in Subjects, SubjectLogout(u)
                    PROVE  /\ state' \in [Devices -> States] /\ claim' \in [Devices -> Calls \cup {NoCall}]
                           /\ lapsed' \subseteq Devices /\ family' \in [Devices -> Families]
                           /\ sess' \in [Sessions -> {"live", "revoked"}] /\ cut' \subseteq Devices
                           /\ UNCHANGED <<subject, mfa, gen, expired, client, callVars, minted>>
BY DeviceAssumption DEF Inv, TypeOK, SubjectLogout, DevicesOf, KillFamilies, States, Families

(* Every action keeps the type invariant.                                  *)
LEMMA TypeStep == Inv /\ [Next]_vars => TypeOK'
<1> SUFFICES ASSUME Inv, [Next]_vars PROVE TypeOK'
  OBVIOUS
<1> USE DeviceAssumption DEF Inv, TypeOK, States, Families, PcStates, rowVars, callVars
<1>1. ASSUME NEW d \in Devices, Create(d) PROVE TypeOK'
  BY <1>1 DEF Create, ClientRows
<1>2. ASSUME NEW d \in Devices, Expire(d) \/ ClaimLapses(d) PROVE TypeOK'
  BY <1>2 DEF Expire, ClaimLapses
<1>3. ASSUME NEW d \in Devices, RevokeUserSession(d) PROVE TypeOK'
  BY <1>3 DEF RevokeUserSession, KillFamilies
<1>4. ASSUME NEW d \in Devices, NEW s \in Sessions, Approve(s, d) PROVE TypeOK'
  BY <1>4 DEF Approve
<1>5. ASSUME NEW d \in Devices, NEW s \in Sessions, Deny(s, d) PROVE TypeOK'
  BY <1>5 DEF Deny
<1>6. ASSUME NEW d \in Devices, NEW c \in Calls, LoadApproved(c, d) PROVE TypeOK'
  BY <1>6 DEF LoadApproved
<1>7. ASSUME NEW c \in Calls, Claim(c) PROVE TypeOK'
  BY <1>7 DEF Claim
<1>8. ASSUME NEW c \in Calls, ReadClaim(c) PROVE TypeOK'
  BY <1>8 DEF ReadClaim
<1>9. ASSUME NEW c \in Calls, ReadPrincipal(c) PROVE TypeOK'
  <2>1. user[tokenSubject[c]].rev \in Revisions
    BY <1>9 DEF ReadPrincipal, CallInv, Users
  <2> QED BY <1>9, <2>1 DEF ReadPrincipal
<1>10. ASSUME NEW c \in Calls, Reject(c) \/ SendBatch(c) \/ VerifyCommit(c) PROVE TypeOK'
  BY <1>10 DEF Reject, SendBatch, VerifyCommit
<1>11. ASSUME NEW c \in Calls, Complete(c) PROVE TypeOK'
  BY <1>11 DEF Complete
<1>12. ASSUME NEW c \in Calls, Commit(c) PROVE TypeOK'
  BY <1>12 DEF Commit
<1>13. ASSUME NEW u \in Subjects, ForceLogout(u) PROVE TypeOK'
  BY <1>13, LogoutType DEF ForceLogout
<1>14. ASSUME NEW u \in Subjects, DeleteUser(u) PROVE TypeOK'
  BY <1>14 DEF DeleteUser, DevicesOf, KillFamilies, Users
<1>15. ASSUME NEW u \in Subjects, NEW enabled \in BOOLEAN, NEW newEmail \in BOOLEAN, NEW newRoles \in BOOLEAN,
              UpdateUser(u, enabled, newEmail, newRoles)
       PROVE  TypeOK'
  <2>1. user' \in [Subjects -> Users]
    BY <1>15 DEF UpdateUser, Users, Revisions
  <2>2. CASE enabled
    BY <1>15, <2>1, <2>2 DEF UpdateUser
  <2>3. CASE ~enabled
    BY <1>15, <2>1, <2>3, LogoutType DEF UpdateUser
  <2> QED BY <2>2, <2>3
<1>16. ASSUME NEW s \in Sessions, LogoutSession(s) PROVE TypeOK'
  BY <1>16 DEF LogoutSession
<1>17. CASE LogoutAllSessions
  BY <1>17 DEF LogoutAllSessions, KillFamilies
<1>18. ASSUME NEW enabled \in BOOLEAN, NEW forceMfa \in BOOLEAN, NEW rescoped \in BOOLEAN,
             UpdateClient(enabled, forceMfa, rescoped)
      PROVE  TypeOK'
  BY <1>18 DEF UpdateClient, ClientRows, Revisions, ClientInv
<1>19. CASE UNCHANGED vars
  BY <1>19 DEF vars
<1> QED BY <1>1, <1>2, <1>3, <1>4, <1>5, <1>6, <1>7, <1>8, <1>9, <1>10, <1>11, <1>12, <1>13, <1>14, <1>15,
           <1>16, <1>17, <1>18, <1>19 DEF Next

(* A subject-wide logout keeps the invariants of rows, polls and tokens.   *)
LEMMA LogoutKeeps == ASSUME Inv, NEW u \in Subjects, SubjectLogout(u)
                     PROVE  (RowInv /\ CallInv /\ MintInv /\ ClientInv /\ LogoutStopsDevices)'
<1> USE DeviceAssumption DEF Inv, TypeOK, SubjectLogout, DevicesOf, KillFamilies, States, Families, callVars
<1>1. RowInv'
  BY DEF RowInv
<1>2. CallInv'
  BY DEF CallInv
<1>3. MintInv'
  BY DEF MintInv
<1>4. ClientInv'
  BY DEF ClientInv
<1>5. LogoutStopsDevices'
  BY DEF LogoutStopsDevices, RowInv
<1> QED BY <1>1, <1>2, <1>3, <1>4, <1>5

(* Every action keeps the rest of the invariant.                           *)
LEMMA InvStep == Inv /\ [Next]_vars => Inv'
<1> DEFINE Rest == RowInv /\ CallInv /\ MintInv /\ ClientInv /\ LogoutStopsDevices
<1> SUFFICES ASSUME Inv, [Next]_vars PROVE Rest'
  BY TypeStep DEF Inv
<1> USE DeviceAssumption DEF Inv, TypeOK, States, Families, rowVars, callVars,
        RowInv, CallInv, MintInv, ClientInv, LogoutStopsDevices
<1>1. ASSUME NEW d \in Devices, Create(d) PROVE Rest'
  BY <1>1 DEF Create
<1>2. ASSUME NEW d \in Devices, Expire(d) \/ ClaimLapses(d) PROVE Rest'
  BY <1>2 DEF Expire, ClaimLapses
<1>3. ASSUME NEW d \in Devices, RevokeUserSession(d) PROVE Rest'
  BY <1>3 DEF RevokeUserSession, KillFamilies
<1>4. ASSUME NEW d \in Devices, NEW s \in Sessions, Approve(s, d) PROVE Rest'
  BY <1>4 DEF Approve, Decidable
<1>5. ASSUME NEW d \in Devices, NEW s \in Sessions, Deny(s, d) PROVE Rest'
  BY <1>5 DEF Deny, Decidable
<1>6. ASSUME NEW d \in Devices, NEW c \in Calls, LoadApproved(c, d) PROVE Rest'
  BY <1>6 DEF LoadApproved
<1>7. ASSUME NEW c \in Calls, Claim(c) PROVE Rest'
  BY <1>7 DEF Claim, Claimable
<1>8. ASSUME NEW c \in Calls, ReadClaim(c) PROVE Rest'
  BY <1>8 DEF ReadClaim
<1>9. ASSUME NEW c \in Calls, ReadPrincipal(c) PROVE Rest'
  BY <1>9 DEF ReadPrincipal
<1>10. ASSUME NEW c \in Calls, Reject(c) \/ SendBatch(c) \/ VerifyCommit(c) PROVE Rest'
  BY <1>10 DEF Reject, SendBatch, VerifyCommit
<1>11. ASSUME NEW c \in Calls, Complete(c) PROVE Rest'
  BY <1>11 DEF Complete
<1>12. ASSUME NEW c \in Calls, Commit(c) PROVE Rest'
  BY <1>12 DEF Commit, DeviceGuard
<1>13. ASSUME NEW u \in Subjects, ForceLogout(u) PROVE Rest'
  BY ONLY Inv, <1>13, LogoutKeeps DEF ForceLogout
<1>14. ASSUME NEW u \in Subjects, DeleteUser(u) PROVE Rest'
  BY <1>14 DEF DeleteUser, DevicesOf, KillFamilies
<1>15. ASSUME NEW u \in Subjects, NEW enabled \in BOOLEAN, NEW newEmail \in BOOLEAN, NEW newRoles \in BOOLEAN,
              UpdateUser(u, enabled, newEmail, newRoles)
       PROVE  Rest'
  <2>1. CASE enabled
    BY <1>15, <2>1 DEF UpdateUser
  <2>2. CASE ~enabled
    BY ONLY Inv, <1>15, <2>2, LogoutKeeps DEF UpdateUser
  <2> QED BY <2>1, <2>2
<1>16. ASSUME NEW s \in Sessions, LogoutSession(s) PROVE Rest'
  BY <1>16 DEF LogoutSession
<1>17. CASE LogoutAllSessions
  BY <1>17 DEF LogoutAllSessions, KillFamilies
<1>18. ASSUME NEW enabled \in BOOLEAN, NEW forceMfa \in BOOLEAN, NEW rescoped \in BOOLEAN,
             UpdateClient(enabled, forceMfa, rescoped)
      PROVE  Rest'
  BY <1>18 DEF UpdateClient, ClientRows, Revisions
<1>19. CASE UNCHANGED vars
  BY <1>19 DEF vars
<1> QED BY <1>1, <1>2, <1>3, <1>4, <1>5, <1>6, <1>7, <1>8, <1>9, <1>10, <1>11, <1>12, <1>13, <1>14, <1>15,
           <1>16, <1>17, <1>18, <1>19 DEF Next

(* The invariant holds in every reachable state.                           *)
LEMMA Invariance == Spec => []Inv
BY InitInv, InvStep, PTL DEF Spec

(* Device rows, sessions, users, polls and the client keep their types;    *)
(* the client's generation stays within the bound on its revision.         *)
THEOREM DeviceTypeOK == Spec => []TypeOK
<1>1. Inv => TypeOK
  BY DEF Inv
<1> QED BY <1>1, Invariance, PTL

(* deviceGuard compares the claim where the batch commits, so an approved  *)
(* device code yields one set of tokens however many polls claim it.       *)
THEOREM OneMint == Spec => []MintOnce
<1>1. Inv => MintOnce
  BY DEF Inv, MintInv, MintOnce
<1> QED BY <1>1, Invariance, PTL

(* A subject-wide logout denies what its user approved and ends what was   *)
(* redeemed: no claim that was about to commit brings tokens back.         *)
THEOREM LogoutReachesDevices == Spec => []LogoutStopsDevices
<1>1. Inv => LogoutStopsDevices
  BY DEF Inv
<1> QED BY <1>1, Invariance, PTL

(* The tokens of Commit name the user who approved the code.               *)
THEOREM MintNamesApprover == Spec => []TokenNamesApprover
<1>1. Inv => TokenNamesApprover
  BY DeviceAssumption DEF Inv, MintInv, TokenNamesApprover
<1> QED BY <1>1, Invariance, PTL
=============================================================================
