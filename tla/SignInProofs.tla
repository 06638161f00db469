----------------------------- MODULE SignInProofs -----------------------------
(***************************************************************************)
(* Proofs about signing in, for any number of users, requests,             *)
(* interactions, sessions, upstream sessions and account changes.          *)
(***************************************************************************)
EXTENDS SignIn, TLAPS

(* Generations start at one and move only with a counted change.           *)
AccountInv ==
    \A u \in Users :
        /\ account[u].pw \in 1..(changes + 2)
        /\ account[u].gen \in 1..(changes + 2)

(* A mailed code and a ceremony name what they were made for, and one call *)
(* makes at most one of them, once.                                        *)
FactorOK(k) ==
    /\ ceremony[k].state = "open" =>
              ceremony[k].user \in Users /\ ceremony[k].inter \in Interactions /\ ceremony[k].method # ""
    /\ otp[k].state = "none" \/ ceremony[k].state = "none"
    /\ call[k].pc \in {"idle", "password", "otp", "save"} => otp[k].state = "none" /\ ceremony[k].state = "none"
    /\ call[k].pc = "bind" => ceremony[k].state = "none"
FactorInv == \A k \in Calls : FactorOK(k)

BindingInv ==
    \A s \in Inits :
        binding[s] # NoBinding => binding[s].user \in Users /\ binding[s].inter \in Interactions

(* What a call knows of itself at each step.                               *)
CallOK(c) ==
    /\ call[c].pc # "idle" => call[c].user \in Users /\ call[c].inter \in Interactions
    /\ call[c].pc = "save" => call[c].method \in {"mfa", "webauthn"}
    /\ call[c].pc = "password" => call[c].via = None
    /\ call[c].pc = "assert" => call[c].via \in Calls
    /\ call[c].forced => scenario.review \/ force
    /\ call[c].pc \in {"consume", "create"} /\ call[c].forced => call[c].method = "mfa"
    /\ call[c].pc = "create" => consumer[call[c].inter] = c
    /\ call[c].pc \notin {"record", "retire", "done"} => sessions[c].state = "none"
CallInv == \A c \in Calls : CallOK(c)

(* A factor of a call that has passed it is spent, and on that call alone. *)
Passed == {c \in Calls : call[c].via # None /\
             (call[c].pc \in {"finish", "consume", "create", "record", "retire"} \/ c \in Created)}
Spent(k) == ceremony[k].state \in {"used", "deleted"} \/ otp[k].state = "used"
PassedInv ==
    /\ \A c \in Passed : Spent(call[c].via)
    /\ \A c, d \in Passed : call[c].via = call[d].via => c = d

(* The row of a created session repeats its call, which consumed the       *)
(* interaction; a row never created is empty.                              *)
SessionInv ==
    /\ \A s \in Sessions : sessions[s].state = "none" => sessions[s].origin = None
    /\ \A c \in Created :
          /\ sessions[c].inter = call[c].inter /\ sessions[c].via = call[c].via
          /\ consumer[sessions[c].inter] = c
          /\ sessions[c].from = Parent => ~Live(Parent)
    /\ \A c, d \in Created : sessions[c].from = Parent /\ sessions[d].from = Parent => c = d
    /\ \A s \in Sessions : sessions[s].bind = sessions[s].origin
    /\ \A s \in doomed : sessions[s].state # "none"

Inv == /\ TypeOK /\ AccountInv /\ FactorInv /\ BindingInv /\ CallInv /\ PassedInv /\ SessionInv
       /\ FactorsAreCurrent /\ ForcedMFA /\ LogoutFollowsReplacement

-----------------------------------------------------------------------------
(* The empty rows have their types.                                        *)
LEMMA EmptyRows == /\ NoProof \in Proofs /\ NoSession \in SessionRows /\ Idle \in CallRows
                   /\ [NoSession EXCEPT !.state = "init"] \in SessionRows
<1>1. NoProof \in Proofs
  BY SignInAssumption DEF NoProof, Proofs
<1>2. NoSession \in SessionRows
  BY <1>1 DEF NoSession, SessionRows, Methods
<1>3. Idle \in CallRows
  BY <1>1 DEF Idle, CallRows, Methods, Steps
<1>4. [NoSession EXCEPT !.state = "init"] \in SessionRows
  BY <1>2 DEF SessionRows
<1> QED BY <1>1, <1>2, <1>3, <1>4

(* The password and mode generations of an account make a proof.           *)
LEMMA CurrentProof == ASSUME Inv, NEW u \in Users
                      PROVE  Current(u) \in Proofs /\ Current(u) # NoProof
<1>1. account[u].pw \in 1..(MaxChanges + 2) /\ account[u].gen \in 1..(MaxChanges + 2)
  <2>1. /\ changes \in 0..MaxChanges
        /\ account[u].pw \in 1..(changes + 2) /\ account[u].gen \in 1..(changes + 2)
    BY DEF Inv, TypeOK, AccountInv
  <2> QED BY ONLY <2>1, SignInAssumption DEF SignInAssumption
<1>2. Current(u) \in Proofs
  BY <1>1, SignInAssumption DEF Current, Proofs
<1>3. Current(u).pw # NoProof.pw
  BY <1>1, SignInAssumption DEF Current, NoProof
<1> QED BY <1>2, <1>3

(* Policies and lookups of a request are well typed.                      *)
LEMMA Lookups == ASSUME Inv, NEW i \in Interactions
                 PROVE  ForceMFA(i) \in BOOLEAN /\ Of(i) \in Inits /\ Of(i) \in Sessions
BY DEF Inv, TypeOK, Scenarios, ForceMFA, Of, Sessions

(* A request that begins writes one row of its own.                        *)
Entered(c, step, u, i, row) ==
    /\ call' \in [Calls -> CallRows] /\ \A d \in Calls \ {c} : call'[d] = call[d]
    /\ call[c].pc = "idle" /\ call'[c].pc = step /\ call'[c].user = u /\ call'[c].inter = i
    /\ call'[c].forced = ForceMFA(i)
    /\ call'[c].proof = row.proof /\ call'[c].method = row.method /\ call'[c].bind = row.bind
    /\ call'[c].version = row.version /\ call'[c].via = row.via
LEMMA EnterRow == ASSUME Inv, NEW c \in Calls, NEW step \in Steps, NEW u \in Users,
                         NEW i \in Interactions, NEW row \in CallRows, Enter(c, step, u, i, row)
                  PROVE  Entered(c, step, u, i, row)
<1>1. call \in [Calls -> CallRows] /\ ForceMFA(i) \in BOOLEAN
  BY Lookups DEF Inv, TypeOK
<1> QED BY ONLY <1>1, c \in Calls, step \in Steps, u \in Users, i \in Interactions, row \in CallRows,
                Enter(c, step, u, i, row) DEF Entered, Enter, CallRows

(* A request that moves on changes its own row, and of it what it says.    *)
Moved(c, step) ==
    /\ call' \in [Calls -> CallRows] /\ \A d \in Calls \ {c} : call'[d] = call[d]
    /\ call'[c].pc = step /\ call'[c].user = call[c].user /\ call'[c].inter = call[c].inter
    /\ call'[c].forced = call[c].forced /\ call'[c].proof = call[c].proof
    /\ call'[c].method = call[c].method /\ call'[c].bind = call[c].bind
    /\ call'[c].version = call[c].version /\ call'[c].via = call[c].via
LEMMA GotoRow == ASSUME Inv, NEW c \in Calls, NEW step \in Steps, Goto(c, step)
                 PROVE  Moved(c, step)
<1>1. call \in [Calls -> CallRows]
  BY DEF Inv, TypeOK
<1> QED BY ONLY <1>1, c \in Calls, step \in Steps, Goto(c, step) DEF Goto, Moved, CallRows

-----------------------------------------------------------------------------
(* Steps before a session is created leave sessions, interactions and the  *)
(* policy alone: what is left to show is what they do to the factors and   *)
(* to the request's own row.                                               *)
LEMMA LoginStep ==
    ASSUME Inv, NEW c \in Calls,
           UNCHANGED <<scenario, force, sessions, consumer, doomed, changes>>,
           call[c].pc \notin {"record", "retire", "done"},
           call' \in [Calls -> CallRows], \A d \in Calls \ {c} : call'[d] = call[d], CallOK(c)',
           account' \in [Users -> AccountRows], AccountInv',
           otp' \in [Calls -> OTPRows], ceremony' \in [Calls -> CeremonyRows], FactorInv',
           binding' \in [Inits -> BindingRows], BindingInv', PassedInv'
    PROVE  Inv'
<1>1. TypeOK'
  BY DEF Inv, TypeOK
<1>2. c \notin Created
  BY DEF Inv, CallInv, CallOK, Created
<1>3. CallInv'
  <2> SUFFICES ASSUME NEW d \in Calls, d # c PROVE CallOK(d)'
    BY DEF CallInv
  <2>1. CallOK(d) /\ call'[d] = call[d]
    BY DEF Inv, CallInv
  <2> QED BY <2>1 DEF CallOK
<1>4. Created' = Created /\ Live(Parent)' = Live(Parent)
  BY DEF Created, Live
<1>5. SessionInv'
  BY <1>2, <1>4 DEF Inv, SessionInv, Created, Live
<1>6. FactorsAreCurrent'
  BY <1>4 DEF Inv, FactorsAreCurrent
<1>7. ForcedMFA'
  BY <1>2, <1>4 DEF Inv, ForcedMFA, Created
<1>8. LogoutFollowsReplacement'
  BY <1>4 DEF Inv, LogoutFollowsReplacement, Live
<1> QED BY <1>1, <1>3, <1>5, <1>6, <1>7, <1>8 DEF Inv

(* Fewer requests hold factors that stay spent.                            *)
LEMMA PassedShrinks ==
    ASSUME Inv, call' \in [Calls -> CallRows], Passed' \subseteq Passed,
           \A d \in Passed' : call'[d].via = call[d].via,
           \A k \in Calls : Spent(k) => Spent(k)'
    PROVE  PassedInv'
<1>1. ASSUME NEW d \in Passed' PROVE d \in Calls /\ call'[d].via \in Calls
  BY DEF Passed, CallRows
<1> QED BY <1>1 DEF Inv, PassedInv

(* A request that has not passed a factor gets no factor by moving, and    *)
(* what is spent stays spent.                                              *)
LEMMA PassedKept ==
    ASSUME Inv, NEW c \in Calls, UNCHANGED sessions, c \notin Created,
           call' \in [Calls -> CallRows], \A d \in Calls \ {c} : call'[d] = call[d],
           \/ call'[c].via = None
           \/ call'[c].pc \notin {"finish", "consume", "create", "record", "retire"}
           \/ call'[c].via = call[c].via /\ c \in Passed,
           \A k \in Calls : Spent(k) => Spent(k)'
    PROVE  PassedInv'
<1>1. Created' = Created
  BY DEF Created
<1>2. ASSUME NEW d \in Passed' PROVE d \in Passed /\ call'[d].via = call[d].via /\ call[d].via \in Calls
  <2>1. d \in Calls /\ call'[d].via # None
    BY <1>2 DEF Passed
  <2>2. d \in Passed /\ call'[d].via = call[d].via
    BY <1>1, <1>2, <2>1 DEF Passed
  <2>3. call'[d].via \in Calls
    BY <2>1 DEF CallRows
  <2> QED BY <2>2, <2>3
<1> QED BY <1>2 DEF Inv, PassedInv

(* The password form and the start of a passkey or an upstream login: a    *)
(* request begins, and no factor moves.                                    *)
LEMMA EnterStep ==
    ASSUME Inv, NEW c \in Calls, NEW step \in {"password", "save", "assert", "verify", "consume"},
           NEW u \in Users, NEW i \in Interactions, NEW row, Entered(c, step, u, i, row),
           step = "save" => row.method \in {"mfa", "webauthn"},
           step = "assert" => row.via \in Calls,
           step = "consume" => (ForceMFA(i) => row.method = "mfa"),
           step \in {"password", "consume"} => row.via = None,
           UNCHANGED <<sessions, consumer, loginVars>>, Stored
    PROVE  Inv'
<1>1. /\ UNCHANGED <<scenario, force, sessions, consumer, doomed, changes, account, otp, binding, ceremony>>
      /\ call[c].pc = "idle" /\ CallOK(c)
  BY DEF Stored, loginVars, Entered, Inv, CallInv
<1>2. c \notin Created
  BY <1>1 DEF CallOK, Created
<1>3. CallOK(c)'
  BY <1>1, SignInAssumption DEF CallOK, Entered, ForceMFA
<1>4. FactorInv'
  <2>1. \A k \in Calls \ {c} : call'[k] = call[k]
    BY DEF Entered
  <2>2. otp[c].state = "none" /\ ceremony[c].state = "none"
    BY <1>1 DEF Inv, FactorInv, FactorOK
  <2> QED BY <1>1, <2>1, <2>2 DEF Inv, FactorInv, FactorOK
<1>5. PassedInv'
  BY <1>1, <1>2, PassedKept DEF Entered, Spent
<1>6. BindingInv' /\ AccountInv'
  BY <1>1 DEF Inv, BindingInv, AccountInv
<1> QED BY <1>1, <1>3, <1>4, <1>5, <1>6, LoginStep DEF Entered, Inv, TypeOK

(* AuthenticatePassword, WebAuthnStart, LoadCeremony, LoadOTP and          *)
(* CompleteExternal are such beginnings.                                   *)
LEMMA BeginSteps ==
    ASSUME Inv, NEW c \in Calls,
           \/ \E i \in Interactions, u \in Users : AuthenticatePassword(c, i, u)
           \/ \E i \in Interactions, u \in Users, fresh \in BOOLEAN : WebAuthnStart(c, i, u, fresh)
           \/ \E k \in Calls : LoadCeremony(c, k)
           \/ \E s \in Inits : LoadOTP(c, s)
           \/ \E i \in Interactions, u \in Users, x \in Upstreams \cup {None}, passed \in BOOLEAN :
                 CompleteExternal(c, i, u, x, passed)
    PROVE  Inv'
<1>0. Idle.proof \in Proofs /\ Idle \in CallRows /\ Idle.via = None
  BY EmptyRows DEF Idle, CallRows
<1>1. ASSUME NEW i \in Interactions, NEW u \in Users, AuthenticatePassword(c, i, u) PROVE Inv'
  <2> DEFINE row == [Idle EXCEPT !.proof = Current(u)]
  <2>0. Current(u) \in Proofs
    BY CurrentProof
  <2>1. row \in CallRows /\ row.via = None
    BY ONLY <1>0, <2>0 DEF CallRows
  <2>2. Entered(c, "password", u, i, row)
    BY <1>1, <2>1, EnterRow DEF AuthenticatePassword, Steps
  <2> HIDE DEF row
  <2> QED BY <1>1, <2>1, <2>2, EnterStep DEF AuthenticatePassword
<1>2. ASSUME NEW i \in Interactions, NEW u \in Users, NEW fresh \in BOOLEAN, WebAuthnStart(c, i, u, fresh) PROVE Inv'
  <2> DEFINE m == IF fresh \/ ForceMFA(i) THEN "mfa" ELSE "webauthn"
             row == [Idle EXCEPT !.method = m]
  <2>1. row \in CallRows /\ row.method \in {"mfa", "webauthn"}
    BY ONLY <1>0 DEF CallRows, Methods
  <2>2. Entered(c, "save", u, i, row)
    BY <1>2, <2>1, EnterRow DEF WebAuthnStart, Steps
  <2> HIDE DEF row
  <2> QED BY <1>2, <2>1, <2>2, EnterStep DEF WebAuthnStart
<1>3. ASSUME NEW k \in Calls, LoadCeremony(c, k) PROVE Inv'
  <2> DEFINE cer == ceremony[k]
             row == [Idle EXCEPT !.method = cer.method, !.via = k, !.version = account[cer.user].key]
  <2>1. cer \in CeremonyRows /\ cer.user \in Users /\ cer.inter \in Interactions
    BY <1>3 DEF Inv, TypeOK, FactorInv, FactorOK, LoadCeremony
  <2>2. account[cer.user].key \in Nat
    BY <2>1 DEF Inv, TypeOK, AccountRows
  <2>3. row \in CallRows /\ row.via = k
    BY ONLY <1>0, <2>1, <2>2, k \in Calls DEF CallRows, CeremonyRows, Methods
  <2>4. Entered(c, "assert", cer.user, cer.inter, row)
    BY <1>3, <2>1, <2>3, EnterRow DEF LoadCeremony, Steps
  <2>5. UNCHANGED <<sessions, consumer, loginVars>> /\ Stored
    BY <1>3 DEF LoadCeremony
  <2> HIDE DEF row, cer
  <2> QED BY <2>1, <2>3, <2>4, <2>5, EnterStep
<1>4. ASSUME NEW s \in Inits, LoadOTP(c, s) PROVE Inv'
  <2> DEFINE b == binding[s]
             row == [Idle EXCEPT !.proof = b.proof]
  <2>1. b \in BindingRows /\ b.user \in Users /\ b.inter \in Interactions
    BY <1>4 DEF Inv, TypeOK, BindingInv, LoadOTP
  <2>2. row \in CallRows
    BY ONLY <1>0, <2>1 DEF CallRows, BindingRows
  <2>3. Entered(c, "verify", b.user, b.inter, row)
    BY <1>4, <2>1, <2>2, EnterRow DEF LoadOTP, Steps
  <2>4. UNCHANGED <<sessions, consumer, loginVars>> /\ Stored
    BY <1>4 DEF LoadOTP
  <2> HIDE DEF row, b
  <2> QED BY <2>1, <2>3, <2>4, EnterStep
<1>5. ASSUME NEW i \in Interactions, NEW u \in Users, NEW x \in Upstreams \cup {None}, NEW passed \in BOOLEAN,
             CompleteExternal(c, i, u, x, passed)
      PROVE  Inv'
  <2> DEFINE m == IF passed THEN "mfa" ELSE "external"
             row == [Idle EXCEPT !.bind = x, !.method = m]
  <2>1. row \in CallRows /\ row.method = m /\ row.via = None
    BY ONLY <1>0, x \in Upstreams \cup {None} DEF CallRows, Methods
  <2>2. Entered(c, "consume", u, i, row)
    BY <1>5, <2>1, EnterRow DEF CompleteExternal, Steps
  <2>3. ForceMFA(i) => row.method = "mfa"
    BY <1>5, <2>1 DEF CompleteExternal
  <2> HIDE DEF row
  <2> QED BY <1>5, <2>1, <2>2, <2>3, EnterStep DEF CompleteExternal
<1> QED BY <1>1, <1>2, <1>3, <1>4, <1>5

-----------------------------------------------------------------------------
(* A request that moves without touching any table.                        *)
LEMMA QuietMove ==
    ASSUME Inv, NEW c \in Calls, UNCHANGED <<sessions, consumer, loginVars>>, Stored,
           call' \in [Calls -> CallRows], \A d \in Calls \ {c} : call'[d] = call[d], CallOK(c)',
           call[c].pc \notin {"idle", "record", "retire", "done"},
           call'[c].pc \in {"otp", "save"} => call[c].pc = "password",
           call'[c].pc \notin {"idle", "password", "bind"},
           \/ call'[c].via = None
           \/ call'[c].pc \notin {"finish", "consume", "create", "record", "retire"}
           \/ call'[c].via = call[c].via /\ c \in Passed
    PROVE  Inv'
<1>1. UNCHANGED <<scenario, force, sessions, consumer, doomed, changes, account, otp, binding, ceremony>>
  BY DEF Stored, loginVars
<1>2. c \notin Created
  BY DEF Inv, CallInv, CallOK, Created
<1>3. FactorInv'
  BY <1>1 DEF Inv, FactorInv, FactorOK
<1>4. PassedInv'
  BY <1>1, <1>2, PassedKept DEF Spent
<1>5. BindingInv' /\ AccountInv'
  BY <1>1 DEF Inv, BindingInv, AccountInv
<1> QED BY <1>1, <1>3, <1>4, <1>5, LoginStep DEF Inv, TypeOK

(* loginPassword and finishAuthentication decide where the request goes.   *)
LEMMA DecideSteps == ASSUME Inv, NEW c \in Calls, LoginPassword(c) \/ FinishAuthentication(c) PROVE Inv'
<1>0. call[c] \in CallRows /\ call \in [Calls -> CallRows] /\ CallOK(c)
  BY DEF Inv, TypeOK, CallInv
<1>1. CASE LoginPassword(c)
  <2>1. PICK next \in CallRows :
          /\ call' = [call EXCEPT ![c] = next]
          /\ next.pc \in {"done", "finish", "save", "otp"} /\ next.user = call[c].user /\ next.inter = call[c].inter
          /\ next.forced = call[c].forced /\ next.via = call[c].via
          /\ next.pc = "save" => next.method = "mfa"
    <3> DEFINE me == call[c]
    <3> DEFINE refused == ~(Usable(me.inter) /\ Resolvable(me.inter) /\ AcceptsSubject(me.inter, me.user))
               r1 == [me EXCEPT !.pc = "done"]
               r2 == [me EXCEPT !.pc = "finish", !.method = "pwd"]
               r3 == [me EXCEPT !.pc = "save", !.method = "mfa"]
               r4 == [me EXCEPT !.pc = "otp"]
               row == IF refused THEN r1 ELSE IF ~ForceMFA(me.inter) THEN r2
                      ELSE IF account[me.user].key # 0 THEN r3 ELSE r4
    <3>1. r1 \in CallRows /\ r2 \in CallRows /\ r3 \in CallRows /\ r4 \in CallRows
      BY ONLY <1>0 DEF CallRows, Steps, Methods
    <3>2. call' = [call EXCEPT ![c] = row]
      BY ONLY <1>1 DEF LoginPassword
    <3>3. row = r1 \/ row = r2 \/ row = r3 \/ row = r4
      <4> HIDE DEF r1, r2, r3, r4, refused
      <4> QED BY ONLY TRUE
    <3> DEFINE good(r) ==
                 /\ r.pc \in {"done", "finish", "save", "otp"} /\ r.user = me.user /\ r.inter = me.inter
                 /\ r.forced = me.forced /\ r.via = me.via
                 /\ r.pc = "save" => r.method = "mfa"
    <3>4. row \in CallRows /\ good(row)
      <4>1. good(r1) /\ good(r2)
        BY ONLY <1>0 DEF CallRows
      <4>2. good(r3) /\ good(r4)
        BY ONLY <1>0 DEF CallRows
      <4> HIDE DEF good, row, r1, r2, r3, r4
      <4> QED BY ONLY <3>1, <3>3, <4>1, <4>2
    <3> HIDE DEF row
    <3> QED BY ONLY <3>2, <3>4
  <2>2. call' \in [Calls -> CallRows] /\ call'[c] = next /\ \A d \in Calls \ {c} : call'[d] = call[d]
    BY ONLY <1>0, <2>1, c \in Calls
  <2>3. call[c].pc = "password" /\ UNCHANGED <<sessions, consumer, loginVars>> /\ Stored
    BY <1>1 DEF LoginPassword
  <2>4. CallOK(c)' /\ call'[c].via = None
    BY ONLY <1>0, <2>1, <2>2, <2>3 DEF CallOK, Stored
  <2> QED BY <2>1, <2>2, <2>3, <2>4, QuietMove
<1>2. CASE FinishAuthentication(c)
  <2> DEFINE step == IF Admits(c) THEN "consume" ELSE "done"
  <2>1. Moved(c, step)
    BY <1>2, GotoRow DEF FinishAuthentication, Steps
  <2>2. call[c].pc = "finish" /\ UNCHANGED <<sessions, consumer, loginVars>> /\ Stored
    BY <1>2 DEF FinishAuthentication
  <2>3. CallOK(c)'
    BY <1>0, <2>1, <2>2 DEF CallOK, Moved, Admits, ForceMFA, Stored
  <2>4. call[c].via = None \/ c \in Passed
    BY <2>2 DEF Passed
  <2> QED BY <2>1, <2>2, <2>3, <2>4, QuietMove DEF Moved
<1> QED BY <1>1, <1>2

(* GenerateOTP and StoreInteraction make a code and bind it.               *)
LEMMA CodeSteps == ASSUME Inv, NEW c \in Calls, SendOTP(c) \/ BindOTP(c) PROVE Inv'
<1>0. /\ call \in [Calls -> CallRows] /\ CallOK(c) /\ c \notin Created
      /\ otp \in [Calls -> OTPRows] /\ ceremony \in [Calls -> CeremonyRows] /\ binding \in [Inits -> BindingRows]
  BY DEF Inv, TypeOK, CallInv, CallOK, Created, SendOTP, BindOTP
<1>1. CASE SendOTP(c)
  <2> DEFINE u == call[c].user
             allowed == Cardinality({k \in Calls : otp[k].user = u}) < OTPLimit
             step == IF allowed THEN "bind" ELSE "done"
  <2>1. Moved(c, step)
    BY <1>1, GotoRow DEF SendOTP, Steps
  <2>2. /\ call[c].pc = "otp"
        /\ otp' = IF allowed THEN [otp EXCEPT ![c] = [user |-> u, state |-> "sent"]] ELSE otp
        /\ UNCHANGED <<scenario, force, account, doomed, changes, sessions, consumer, binding, ceremony>>
    BY <1>1 DEF SendOTP, Stored
  <2> HIDE DEF allowed
  <2>3. u \in Users /\ otp[c].state = "none" /\ ceremony[c].state = "none"
    BY <1>0, <2>2 DEF CallOK, Inv, FactorInv, FactorOK
  <2>4. /\ otp' \in [Calls -> OTPRows] /\ \A k \in Calls \ {c} : otp'[k] = otp[k]
        /\ otp'[c].state \in {"none", "sent"}
    BY ONLY <1>0, <2>2, <2>3 DEF OTPRows
  <2>5. FactorInv'
    BY <2>1, <2>2, <2>3, <2>4 DEF Inv, FactorInv, FactorOK, Moved
  <2>6. CallOK(c)'
    BY <1>0, <2>1, <2>2 DEF CallOK, Moved
  <2>7. \A k \in Calls : Spent(k) => Spent(k)'
    BY <2>2, <2>3, <2>4 DEF Spent
  <2>8. PassedInv'
    BY <1>0, <2>1, <2>2, <2>7, PassedKept DEF Moved
  <2>9. BindingInv' /\ AccountInv'
    BY <2>2 DEF Inv, BindingInv, AccountInv
  <2> QED BY <2>1, <2>2, <2>4, <2>5, <2>6, <2>8, <2>9, LoginStep DEF Moved, Inv, TypeOK
<1>2. CASE BindOTP(c)
  <2> DEFINE me == call[c]
             b == [user |-> me.user, inter |-> me.inter, proof |-> me.proof]
  <2>1. Moved(c, "done")
    BY <1>2, GotoRow DEF BindOTP, Steps
  <2>2. /\ me.pc = "bind" /\ binding' = [binding EXCEPT ![Of(me.inter)] = b]
        /\ UNCHANGED <<scenario, force, account, doomed, changes, sessions, consumer, otp, ceremony>>
    BY <1>2 DEF BindOTP, Stored
  <2>3. me \in CallRows /\ me.user \in Users /\ me.inter \in Interactions
    BY <1>0, <2>2 DEF CallOK
  <2>4. b \in BindingRows /\ b.user \in Users /\ b.inter \in Interactions
    BY <2>3 DEF BindingRows, CallRows
  <2> HIDE DEF b
  <2>5. binding' \in [Inits -> BindingRows] /\ BindingInv'
    BY <1>0, <2>2, <2>4 DEF Inv, BindingInv
  <2>6. CallOK(c)' /\ FactorInv'
    BY <1>0, <2>1, <2>2 DEF CallOK, Moved, Inv, FactorInv, FactorOK
  <2>7. PassedInv'
    BY <1>0, <2>1, <2>2, PassedKept DEF Moved, Spent
  <2>8. AccountInv'
    BY <2>2 DEF Inv, AccountInv
  <2> QED BY <2>1, <2>2, <2>5, <2>6, <2>7, <2>8, LoginStep DEF Moved, Inv, TypeOK
<1> QED BY <1>1, <1>2

(* SaveCeremony opens the one ceremony of its request.                     *)
LEMMA SaveStep == ASSUME Inv, NEW c \in Calls, SaveCeremony(c) PROVE Inv'
<1> DEFINE me == call[c]
           cer == [user |-> me.user, inter |-> me.inter, method |-> me.method, state |-> "open"]
<1>1. Moved(c, "done")
  BY GotoRow DEF SaveCeremony, Steps
<1>2. /\ me.pc = "save" /\ ceremony' = [ceremony EXCEPT ![c] = cer]
      /\ UNCHANGED <<scenario, force, account, doomed, changes, sessions, consumer, otp, binding>>
  BY DEF SaveCeremony, Stored
<1>3. /\ me.user \in Users /\ me.inter \in Interactions /\ me.method \in {"mfa", "webauthn"}
      /\ CallOK(c) /\ c \notin Created
      /\ otp[c].state = "none" /\ ceremony[c].state = "none" /\ ceremony \in [Calls -> CeremonyRows]
  BY <1>2 DEF Inv, TypeOK, CallInv, CallOK, FactorInv, FactorOK, Created
<1>4. cer \in CeremonyRows
  BY <1>3 DEF CeremonyRows
<1>5. /\ ceremony' \in [Calls -> CeremonyRows] /\ ceremony'[c] = cer
      /\ \A k \in Calls \ {c} : ceremony'[k] = ceremony[k]
  BY ONLY <1>2, <1>3, <1>4, c \in Calls
<1>6. FactorInv'
  BY <1>1, <1>2, <1>3, <1>5 DEF Inv, FactorInv, FactorOK, Moved
<1>7. CallOK(c)'
  BY <1>1, <1>2, <1>3 DEF CallOK, Moved
<1>8. PassedInv'
  <2>1. \A k \in Calls : Spent(k) => Spent(k)'
    BY <1>2, <1>3, <1>5 DEF Spent
  <2> QED BY <1>1, <1>2, <1>3, <2>1, PassedKept DEF Moved
<1>9. BindingInv' /\ AccountInv'
  BY <1>2 DEF Inv, BindingInv, AccountInv
<1> QED BY <1>1, <1>2, <1>5, <1>6, <1>7, <1>8, <1>9, LoginStep DEF Moved, Inv, TypeOK

(* A factor that is passed was open until then, so nobody passed it.       *)
LEMMA PassedNow ==
    ASSUME Inv, NEW c \in Calls, NEW k \in Calls, UNCHANGED sessions, c \notin Created,
           call' \in [Calls -> CallRows], \A d \in Calls \ {c} : call'[d] = call[d],
           call'[c].via = k, ~Spent(k), Spent(k)', \A j \in Calls : Spent(j) => Spent(j)'
    PROVE  PassedInv'
<1>1. Created' = Created
  BY DEF Created
<1>2. ASSUME NEW d \in Passed', d # c
      PROVE  /\ d \in Passed /\ call'[d].via = call[d].via /\ call[d].via \in Calls
             /\ call[d].via # k /\ Spent(call[d].via)
  <2>1. d \in Calls /\ call'[d] = call[d] /\ d \in Passed
    BY <1>1, <1>2 DEF Passed
  <2>2. call'[d].via \in Calls
    BY <2>1 DEF CallRows, Passed
  <2>3. Spent(call[d].via)
    BY <2>1 DEF Inv, PassedInv
  <2> QED BY <2>1, <2>2, <2>3
<1>3. \A d \in Passed' : Spent(call[d].via)' 
  BY <1>2
<1>4. ASSUME NEW d \in Passed', NEW e \in Passed', call'[d].via = call'[e].via PROVE d = e
  <2>1. CASE d # c /\ e # c
    BY <1>2, <1>4, <2>1 DEF Inv, PassedInv
  <2> QED BY <1>2, <1>4, <2>1
<1> QED BY <1>3, <1>4 DEF PassedInv

(* FinishLogin spends the ceremony it has read, or the request ends.       *)
LEMMA FinishLoginStep == ASSUME Inv, NEW c \in Calls, FinishLogin(c) PROVE Inv'
<1> DEFINE me == call[c]
           wins == AssertionApplies(c)
<1>1. Moved(c, IF wins THEN "finish" ELSE "done")
  BY GotoRow DEF FinishLogin, Steps
<1>2. /\ me.pc = "assert"
      /\ ceremony' = IF wins THEN [ceremony EXCEPT ![me.via].state = "used"] ELSE ceremony
      /\ account' = IF wins THEN [account EXCEPT ![me.user].key = @ + 1] ELSE account
      /\ UNCHANGED <<scenario, force, doomed, changes, sessions, consumer, otp, binding>>
  BY DEF FinishLogin
<1>3. /\ me.user \in Users /\ me.via \in Calls /\ CallOK(c) /\ c \notin Created
      /\ ceremony \in [Calls -> CeremonyRows] /\ account \in [Users -> AccountRows]
  BY <1>2 DEF Inv, TypeOK, CallInv, CallOK, Created
<1>4. CallOK(c)'
  BY <1>1, <1>2, <1>3 DEF CallOK, Moved
<1>5. CASE ~wins
  <2>1. UNCHANGED <<ceremony, account>> /\ Moved(c, "done")
    BY <1>1, <1>2, <1>5
  <2>2. FactorInv' /\ BindingInv' /\ AccountInv'
    BY <1>2, <2>1 DEF Inv, FactorInv, FactorOK, BindingInv, AccountInv, Moved
  <2>3. PassedInv'
    BY <1>2, <1>3, <2>1, PassedKept DEF Moved, Spent
  <2> QED BY <1>2, <1>4, <2>1, <2>2, <2>3, LoginStep DEF Moved, Inv, TypeOK
<1>6. CASE wins
  <2>1. /\ ceremony' = [ceremony EXCEPT ![me.via].state = "used"]
        /\ account' = [account EXCEPT ![me.user].key = @ + 1] /\ Moved(c, "finish")
    BY <1>1, <1>2, <1>6
  <2>2. ceremony[me.via].state = "open" /\ otp[me.via].state = "none"
    BY <1>3, <1>6 DEF AssertionApplies, Inv, FactorInv, FactorOK
  <2>3. /\ ceremony' \in [Calls -> CeremonyRows] /\ ceremony'[me.via].state = "used"
        /\ \A k \in Calls \ {me.via} : ceremony'[k] = ceremony[k]
    BY ONLY <1>3, <2>1 DEF CeremonyRows
  <2>4. /\ account' \in [Users -> AccountRows]
        /\ \A u \in Users : account'[u].pw = account[u].pw /\ account'[u].gen = account[u].gen
    BY ONLY <1>3, <2>1 DEF AccountRows
  <2>5. FactorInv'
    <3> SUFFICES ASSUME NEW k \in Calls PROVE FactorOK(k)'
      BY DEF FactorInv
    <3>1. FactorOK(k) /\ (call'[k].pc = call[k].pc \/ call'[k].pc = "finish") /\ otp' = otp
      BY <1>2, <2>1 DEF Inv, FactorInv, Moved
    <3>2. CASE k = me.via
      <4>1. ceremony'[k].state = "used"
        BY <2>3, <3>2
      <4> QED BY ONLY <2>2, <3>1, <3>2, <4>1 DEF FactorOK
    <3>3. CASE k # me.via
      <4>1. ceremony'[k] = ceremony[k]
        BY <2>3, <3>3
      <4> QED BY ONLY <3>1, <4>1 DEF FactorOK
    <3> QED BY <3>2, <3>3
  <2>6. BindingInv' /\ AccountInv'
    BY <1>2, <2>4 DEF Inv, BindingInv, AccountInv
  <2>7. PassedInv'
    <3>2. \A j \in Calls : Spent(j) => Spent(j)'
      BY <1>2, <2>2, <2>3 DEF Spent
    <3> DEFINE k == me.via
    <3>3. k \in Calls /\ ~Spent(k) /\ Spent(k)' /\ call'[c].via = k
      <4>1. UNCHANGED k
        BY <2>1 DEF Moved
      <4> QED BY <1>3, <2>1, <2>2, <2>3, <4>1 DEF Moved, Spent
    <3> QED BY <1>2, <1>3, <2>1, <3>2, <3>3, PassedNow DEF Moved
  <2> QED BY <1>2, <1>4, <2>1, <2>3, <2>4, <2>5, <2>6, <2>7, LoginStep DEF Moved, Inv, TypeOK
<1> QED BY <1>5, <1>6

(* OTPVerify spends the code and clears the binding, or the request ends.  *)
LEMMA VerifyStep == ASSUME Inv, NEW c \in Calls, NEW k \in Calls, VerifyOTP(c, k) PROVE Inv'
<1> DEFINE me == call[c]
           wins == otp[k].state = "sent" /\ BindingApplies(c)
           step == IF wins THEN "finish" ELSE "done"
<1>1. /\ me.pc = "verify" /\ call' = [call EXCEPT ![c] = [me EXCEPT !.pc = step, !.method = "mfa", !.via = k]]
      /\ otp' = IF wins THEN [otp EXCEPT ![k].state = "used"] ELSE otp
      /\ binding' = IF wins THEN [binding EXCEPT ![Of(me.inter)] = NoBinding] ELSE binding
      /\ UNCHANGED <<scenario, force, account, doomed, changes, sessions, consumer, ceremony>>
  BY DEF VerifyOTP, Stored
<1>2. /\ call \in [Calls -> CallRows] /\ otp \in [Calls -> OTPRows] /\ binding \in [Inits -> BindingRows]
      /\ me.user \in Users /\ me.inter \in Interactions /\ CallOK(c) /\ c \notin Created
  BY <1>1 DEF Inv, TypeOK, CallInv, CallOK, Created
<1>3. step \in {"finish", "done"}
  OBVIOUS
<1>4. /\ call' \in [Calls -> CallRows] /\ \A d \in Calls \ {c} : call'[d] = call[d]
      /\ call'[c].pc = step /\ call'[c].via = k
      /\ call'[c].user = me.user /\ call'[c].inter = me.inter /\ call'[c].forced = me.forced
  <2>1. step \in Steps /\ "mfa" \in Methods
    BY <1>3 DEF Steps, Methods
  <2> HIDE DEF step, wins
  <2>2. call' \in [Calls -> CallRows]
    <3> DEFINE row == [me EXCEPT !.pc = step, !.method = "mfa", !.via = k]
    <3>1. row \in CallRows
      BY ONLY <1>2, <2>1, c \in Calls, k \in Calls DEF CallRows
    <3>2. call' = [call EXCEPT ![c] = row]
      BY ONLY <1>1
    <3> HIDE DEF row
    <3> QED BY ONLY <1>2, <3>1, <3>2
  <2>3. \A d \in Calls \ {c} : call'[d] = call[d]
    BY ONLY <1>1, <1>2, c \in Calls
  <2>4. /\ call'[c].pc = step /\ call'[c].via = k
        /\ call'[c].user = me.user /\ call'[c].inter = me.inter /\ call'[c].forced = me.forced
    BY ONLY <1>1, <1>2, c \in Calls DEF CallRows
  <2> QED BY ONLY <2>2, <2>3, <2>4
<1>5. CallOK(c)'
  BY <1>1, <1>2, <1>3, <1>4 DEF CallOK
<1>6. NoBinding \in BindingRows
  BY EmptyRows DEF NoBinding, BindingRows
<1>7. binding' \in [Inits -> BindingRows] /\ BindingInv' /\ AccountInv'
  BY <1>1, <1>2, <1>6 DEF Inv, BindingInv, AccountInv
<1>8. CASE ~wins
  <2>1. UNCHANGED otp /\ step = "done"
    BY <1>1, <1>8
  <2>2. FactorInv'
    BY <1>1, <1>4, <2>1 DEF Inv, FactorInv, FactorOK
  <2>3. PassedInv'
    BY <1>1, <1>2, <1>4, <2>1, PassedKept DEF Spent
  <2> QED BY <1>1, <1>4, <1>5, <1>7, <2>1, <2>2, <2>3, LoginStep DEF Inv, TypeOK
<1>9. CASE wins
  <2>1. otp' = [otp EXCEPT ![k].state = "used"] /\ step = "finish" /\ otp[k].state = "sent"
    BY <1>1, <1>9
  <2>2. /\ otp' \in [Calls -> OTPRows] /\ otp'[k].state = "used"
        /\ \A j \in Calls \ {k} : otp'[j] = otp[j]
    BY ONLY <1>2, <2>1, k \in Calls DEF OTPRows
  <2>3. ceremony[k].state = "none"
    BY <2>1 DEF Inv, FactorInv, FactorOK
  <2>4. FactorInv'
    <3> SUFFICES ASSUME NEW j \in Calls PROVE FactorOK(j)'
      BY DEF FactorInv
    <3>1. FactorOK(j) /\ (call'[j].pc = call[j].pc \/ call'[j].pc = "finish") /\ ceremony' = ceremony
      BY <1>1, <1>4, <2>1 DEF Inv, FactorInv
    <3>2. CASE j = k
      BY ONLY <2>1, <2>2, <2>3, <3>1, <3>2 DEF FactorOK
    <3>3. CASE j # k
      <4>1. otp'[j] = otp[j]
        BY <2>2, <3>3
      <4> QED BY ONLY <3>1, <4>1 DEF FactorOK
    <3> QED BY <3>2, <3>3
  <2>5. ~Spent(k) /\ Spent(k)' /\ \A j \in Calls : Spent(j) => Spent(j)'
    BY <1>1, <2>1, <2>2, <2>3 DEF Spent
  <2>6. PassedInv'
    BY <1>1, <1>2, <1>4, <2>5, PassedNow
  <2> QED BY <1>1, <1>4, <1>5, <1>7, <2>2, <2>4, <2>6, LoginStep DEF Inv, TypeOK
<1> QED BY <1>8, <1>9

(* consumeAuthenticationRequest writes consumed_attempt once.              *)
LEMMA ConsumeStep == ASSUME Inv, NEW c \in Calls, ConsumeInteraction(c) PROVE Inv'
<1> DEFINE me == call[c]
           wins == Consumable(me.inter, me.user)
           step == IF wins THEN "create" ELSE "done"
<1>1. Moved(c, step)
  BY GotoRow DEF ConsumeInteraction, Steps
<1>2. /\ me.pc = "consume" /\ consumer' = IF wins THEN [consumer EXCEPT ![me.inter] = c] ELSE consumer
      /\ UNCHANGED <<scenario, force, account, doomed, changes, sessions, otp, binding, ceremony>>
  BY DEF ConsumeInteraction, Stored, loginVars
<1>3. /\ consumer \in [Interactions -> Calls \cup {None}] /\ me.inter \in Interactions
      /\ CallOK(c) /\ c \notin Created /\ (wins => consumer[me.inter] = None)
  BY <1>2 DEF Inv, TypeOK, CallInv, CallOK, Created, Consumable, Usable
<1> HIDE DEF wins
<1>4. /\ consumer' \in [Interactions -> Calls \cup {None}] /\ (wins => consumer'[me.inter] = c)
      /\ \A i \in Interactions : consumer[i] \in Calls => consumer'[i] = consumer[i]
  BY ONLY <1>2, <1>3, c \in Calls, SignInAssumption DEF SignInAssumption
<1>5. TypeOK'
  BY <1>1, <1>2, <1>4 DEF Inv, TypeOK, Moved
<1>6. AccountInv' /\ BindingInv' /\ FactorInv'
  BY <1>1, <1>2 DEF Inv, AccountInv, BindingInv, FactorInv, FactorOK, Moved
<1>7. CallInv'
  <2> SUFFICES ASSUME NEW d \in Calls PROVE CallOK(d)'
    BY DEF CallInv
  <2>1. CASE d = c
    BY <1>1, <1>2, <1>3, <1>4, <2>1 DEF CallOK, Moved
  <2>2. CASE d # c
    <3>1. CallOK(d) /\ call'[d] = call[d]
      BY <1>1, <2>2 DEF Inv, CallInv, Moved
    <3> QED BY <1>2, <1>4, <3>1 DEF CallOK
  <2> QED BY <2>1, <2>2
<1>8. PassedInv'
  <2>1. me.via = None \/ c \in Passed
    BY <1>2 DEF Passed
  <2> QED BY <1>1, <1>2, <1>3, <2>1, PassedKept DEF Moved, Spent
<1>9. Created' = Created /\ Live(Parent)' = Live(Parent)
  BY <1>2 DEF Created, Live
<1>10. SessionInv'
  <2>1. ASSUME NEW d \in Created
        PROVE  /\ sessions[d].inter = call'[d].inter /\ sessions[d].via = call'[d].via
               /\ consumer'[sessions[d].inter] = d
    <3>1. d \in Calls /\ d # c /\ call'[d] = call[d]
      BY <1>1, <1>3 DEF Created, Moved
    <3>2. /\ sessions[d].inter = call[d].inter /\ sessions[d].via = call[d].via
          /\ consumer[sessions[d].inter] = d /\ call[d].pc # "idle"
      BY <2>1, <3>1 DEF Inv, SessionInv, CallInv, CallOK, Created
    <3>3. sessions[d].inter \in Interactions
      BY <3>1, <3>2 DEF Inv, CallInv, CallOK
    <3> QED BY <1>4, <3>1, <3>2, <3>3
  <2> QED BY <1>2, <1>9, <2>1 DEF Inv, SessionInv, Created
<1>11. FactorsAreCurrent' /\ LogoutFollowsReplacement'
  BY <1>2, <1>9 DEF Inv, FactorsAreCurrent, LogoutFollowsReplacement, Live
<1>12. ForcedMFA'
  BY <1>1, <1>2, <1>9 DEF Inv, ForcedMFA, Created, Moved
<1> QED BY <1>5, <1>6, <1>7, <1>8, <1>10, <1>11, <1>12 DEF Inv

-----------------------------------------------------------------------------
(* A row that keeps what it says of its sign-in; its state may only move   *)
(* away from live, or from init.                                           *)
Kept(s) ==
    /\ sessions'[s].method = sessions[s].method
    /\ sessions'[s].proof = sessions[s].proof /\ sessions'[s].born = sessions[s].born
    /\ sessions'[s].bind = sessions[s].bind /\ sessions'[s].origin = sessions[s].origin
    /\ sessions'[s].from = sessions[s].from
    /\ sessions'[s].inter = sessions[s].inter /\ sessions'[s].via = sessions[s].via
    /\ Live(s) \/ (sessions'[s].rp = sessions[s].rp /\ sessions'[s].told = sessions[s].told)
    /\ \/ sessions'[s].state = sessions[s].state
       \/ sessions'[s].state = "revoked" /\ (Live(s) \/ s \in Inits)

(* Revocations keep what sessions say.                                     *)
LEMMA SessionsKept ==
    ASSUME Inv, sessions' \in [Sessions -> SessionRows], \A s \in Sessions : Kept(s),
           \A d \in Calls : /\ call'[d].inter = call[d].inter /\ call'[d].via = call[d].via
                            /\ call'[d].forced => call[d].forced,
           UNCHANGED <<consumer, doomed>>
    PROVE  Created' = Created /\ (SessionInv /\ FactorsAreCurrent /\ ForcedMFA /\ LogoutFollowsReplacement)'
<1>1. Calls \subseteq Sessions /\ Parent \in Sessions /\ Parent \notin Inits /\ Calls \cap Inits = {}
  BY SignInAssumption DEF Sessions
<1>2. Created' = Created
  BY <1>1 DEF Created, Kept, Live
<1>3. (Live(Parent)' => Live(Parent)) /\ (sessions[Parent].state = "replaced" => sessions'[Parent].state = "replaced")
  BY <1>1 DEF Kept, Live
<1>4. SessionInv'
  <2>1. \A s \in Sessions : sessions'[s].state = "none" => sessions'[s].origin = None
    BY DEF Inv, SessionInv, Kept, Live
  <2>2. ASSUME NEW d \in Created
        PROVE  /\ sessions'[d].inter = call'[d].inter /\ sessions'[d].via = call'[d].via
               /\ consumer'[sessions'[d].inter] = d
               /\ sessions'[d].from = Parent => ~Live(Parent)'
    BY <1>1, <1>3 DEF Inv, SessionInv, Created, Kept
  <2>3. \A c, d \in Created : sessions'[c].from = Parent /\ sessions'[d].from = Parent => c = d
    BY <1>1 DEF Inv, SessionInv, Created, Kept
  <2>4. \A s \in Sessions : sessions'[s].bind = sessions'[s].origin
    BY DEF Inv, SessionInv, Kept
  <2>5. \A s \in doomed : sessions'[s].state # "none"
    BY DEF Inv, TypeOK, SessionInv, Kept
  <2> QED BY <1>2, <2>1, <2>2, <2>3, <2>4, <2>5 DEF SessionInv
<1>5. FactorsAreCurrent'
  BY <1>1, <1>2 DEF Inv, FactorsAreCurrent, Created, Kept
<1>6. ForcedMFA'
  BY <1>1, <1>2 DEF Inv, ForcedMFA, Created, Kept
<1>7. LogoutFollowsReplacement'
  <2>1. ASSUME NEW c \in Created, sessions'[c].from = Parent PROVE sessions'[Parent].state = "replaced"
    BY <1>1, <1>3, <2>1 DEF Inv, LogoutFollowsReplacement, Created, Kept, Live
  <2>2. ASSUME NEW s \in doomed PROVE ~Live(s)' /\ (sessions'[s].rp => sessions'[s].told)
    BY DEF Inv, TypeOK, LogoutFollowsReplacement, Kept, Live
  <2> QED BY <1>2, <2>1, <2>2 DEF LogoutFollowsReplacement
<1> QED BY <1>2, <1>4, <1>5, <1>6, <1>7

(* Rows that a revocation or an association leaves.                        *)
LEMMA RevokedRows == ASSUME Inv, NEW S, sessions' = Revoke(S)
                     PROVE  sessions' \in [Sessions -> SessionRows] /\ \A s \in Sessions : Kept(s)
<1>1. sessions \in [Sessions -> SessionRows]
  BY DEF Inv, TypeOK
<1>2. ASSUME NEW s \in Sessions PROVE sessions'[s] \in SessionRows /\ Kept(s)
  <2>1. CASE s \in S /\ Live(s)
    <3>1. sessions'[s] = [sessions[s] EXCEPT !.state = "revoked"]
      BY <2>1 DEF Revoke
    <3>2. sessions[s] \in SessionRows
      BY <1>1
    <3> QED BY ONLY <2>1, <3>1, <3>2 DEF SessionRows, Kept
  <2>2. CASE ~(s \in S /\ Live(s))
    <3>1. sessions'[s] = sessions[s]
      BY <2>2 DEF Revoke
    <3> QED BY <1>1, <3>1 DEF Kept
  <2> QED BY <2>1, <2>2
<1>3. sessions' = [s \in Sessions |-> sessions'[s]]
  BY DEF Revoke
<1> QED BY <1>2, <1>3

(* An init session that is retired.                                        *)
LEMMA RetiredRow == ASSUME Inv, NEW o \in Inits, sessions' = [sessions EXCEPT ![o].state = "revoked"]
                    PROVE  sessions' \in [Sessions -> SessionRows] /\ \A s \in Sessions : Kept(s)
<1>1. sessions \in [Sessions -> SessionRows] /\ o \in Sessions /\ sessions[o] \in SessionRows
  BY DEF Inv, TypeOK, Sessions
<1>2. /\ sessions' \in [Sessions -> SessionRows] /\ \A s \in Sessions \ {o} : sessions'[s] = sessions[s]
      /\ sessions'[o] = [sessions[o] EXCEPT !.state = "revoked"]
  BY ONLY <1>1, sessions' = [sessions EXCEPT ![o].state = "revoked"] DEF SessionRows
<1>3. Kept(o)
  BY ONLY <1>1, <1>2, o \in Inits DEF SessionRows, Kept
<1> QED BY <1>2, <1>3 DEF Kept

(* What stays when factors and accounts stay.                              *)
LEMMA TablesKept ==
    ASSUME Inv, NEW c \in Calls, NEW step \in {"record", "retire", "done"}, Moved(c, step),
           call[c].pc # "idle",
           UNCHANGED <<scenario, force, account, doomed, changes, consumer, otp, binding, ceremony>>,
           sessions' \in [Sessions -> SessionRows],
           \A d \in Calls \ {c} : sessions[d].state = "none" => sessions'[d].state = "none"
    PROVE  (TypeOK /\ AccountInv /\ BindingInv /\ FactorInv /\ CallInv)'
<1>1. TypeOK'
  BY DEF Inv, TypeOK, Moved
<1>2. (AccountInv /\ BindingInv /\ FactorInv)'
  BY DEF Inv, AccountInv, BindingInv, FactorInv, FactorOK, Moved
<1>3. CallInv'
  <2> SUFFICES ASSUME NEW d \in Calls PROVE CallOK(d)'
    BY DEF CallInv
  <2>1. CallOK(d)
    BY DEF Inv, CallInv
  <2>2. CASE d = c
    BY <2>1, <2>2 DEF CallOK, Moved
  <2>3. CASE d # c
    <3>1. call'[d] = call[d]
      BY <2>3 DEF Moved
    <3> QED BY <2>1, <2>3, <3>1 DEF CallOK
  <2> QED BY <2>2, <2>3
<1> QED BY <1>1, <1>2, <1>3

(* RecordLoginForSession, its cleanup, and the revocation of the init      *)
(* session.                                                                *)
LEMMA RecordSteps == ASSUME Inv, NEW c \in Calls, RecordLogin(c) \/ RetireInit(c) PROVE Inv'
<1>0. /\ call[c].pc \in {"record", "retire"} /\ call[c].inter \in Interactions
      /\ UNCHANGED <<scenario, force, account, doomed, changes, consumer, otp, binding, ceremony>>
  BY DEF Inv, CallInv, CallOK, RecordLogin, RetireInit, Stored, loginVars
<1>1. PICK step \in {"retire", "done"} : Moved(c, step)
  BY GotoRow DEF RecordLogin, RetireInit, Steps
<1>2. sessions' \in [Sessions -> SessionRows] /\ \A s \in Sessions : Kept(s)
  <2>1. CASE UNCHANGED sessions
    BY <2>1 DEF Inv, TypeOK, Kept
  <2>2. CASE sessions' = Revoke({c})
    BY <2>2, RevokedRows
  <2>3. CASE sessions' = [sessions EXCEPT ![Of(call[c].inter)].state = "revoked"]
    BY <1>0, <2>3, Lookups, RetiredRow
  <2> QED BY <2>1, <2>2, <2>3 DEF RecordLogin, RetireInit
<1>3. (TypeOK /\ AccountInv /\ BindingInv /\ FactorInv /\ CallInv)'
  <2>1. ASSUME NEW d \in Calls, sessions[d].state = "none" PROVE sessions'[d].state = "none"
    BY <1>2, <2>1, SignInAssumption DEF Kept, Live, Sessions
  <2> QED BY <1>0, <1>1, <1>2, <2>1, TablesKept
<1>4. Created' = Created /\ (SessionInv /\ FactorsAreCurrent /\ ForcedMFA /\ LogoutFollowsReplacement)'
  BY <1>0, <1>1, <1>2, SessionsKept DEF Moved
<1>5. PassedInv'
  BY <1>0, <1>1, <1>4, PassedShrinks DEF Moved, Passed, Spent
<1> QED BY <1>3, <1>4, <1>5 DEF Inv

-----------------------------------------------------------------------------
(* The row a sign-in creates, and the parent it replaces if it has one.    *)
LEMMA CreateStep ==
    ASSUME Inv, NEW c \in Calls, call[c].pc = "create", NEW step \in {"record", "done"}, Moved(c, step),
           UNCHANGED <<scenario, force, account, doomed, changes, consumer, otp, binding, ceremony>>,
           sessions' \in [Sessions -> SessionRows],
           sessions'[c].state = "live" /\ sessions'[c].method = call[c].method,
           sessions'[c].proof # NoProof => sessions'[c].proof = sessions'[c].born,
           sessions'[c].bind = sessions'[c].origin,
           sessions'[c].inter = call[c].inter /\ sessions'[c].via = call[c].via,
           sessions'[c].from = Parent => Live(Parent) /\ sessions'[Parent].state = "replaced",
           \A s \in Sessions \ {c, Parent} : Kept(s),
           \/ Kept(Parent)
           \/ /\ sessions'[c].from = Parent
              /\ sessions'[Parent].bind = sessions[Parent].bind
              /\ sessions'[Parent].origin = sessions[Parent].origin
    PROVE  Inv'
<1>0. /\ Calls \subseteq Sessions /\ Parent \in Sessions /\ Parent \notin Calls \cup Inits /\ Calls \cap Inits = {}
      /\ None # Parent /\ c # Parent
  BY SignInAssumption DEF Sessions
<1>1. /\ sessions[c].state = "none" /\ consumer[call[c].inter] = c
      /\ (call[c].forced => call[c].method = "mfa") /\ c \notin Created
  BY DEF Inv, CallInv, CallOK, Created
<1>2. \A d \in Calls \ {c} : Kept(d) /\ call'[d] = call[d]
  BY <1>0 DEF Moved
<1>3. Created' = Created \cup {c}
  BY <1>0, <1>2 DEF Created, Kept, Live
<1>4. (TypeOK /\ AccountInv /\ BindingInv /\ FactorInv /\ CallInv)'
  <2>1. \A d \in Calls \ {c} : sessions[d].state = "none" => sessions'[d].state = "none"
    BY <1>0, <1>2 DEF Kept, Live
  <2> QED BY <2>1, TablesKept
<1>5. PassedInv'
  <2>1. Passed' \subseteq Passed
    BY <1>2, <1>3 DEF Passed, Moved
  <2> QED BY <2>1, PassedShrinks DEF Moved, Spent, Passed
<1>6. ASSUME NEW d \in Created
      PROVE  /\ d \in Calls /\ d # c /\ Kept(d) /\ call'[d] = call[d]
             /\ sessions[d].inter = call[d].inter /\ sessions[d].via = call[d].via
             /\ consumer[sessions[d].inter] = d
             /\ sessions[d].from = Parent => ~Live(Parent)
  BY <1>1, <1>2 DEF Created, Inv, SessionInv
<1>7. sessions'[Parent].bind = sessions[Parent].bind /\ sessions'[Parent].origin = sessions[Parent].origin
  BY DEF Kept
<1>8. (Live(Parent)' => Live(Parent)) /\ (sessions'[c].from = Parent => ~Live(Parent)')
  BY DEF Kept, Live
<1>9. SessionInv'
  <2>1. ASSUME NEW s \in Sessions, sessions'[s].state = "none" PROVE sessions'[s].origin = None
    <3>1. CASE s = c
      BY <2>1, <3>1
    <3>2. CASE s # c
      <4>1. sessions[s].state = "none" /\ sessions'[s].origin = sessions[s].origin
        <5>1. CASE s = Parent
          BY <2>1, <3>2, <5>1, <1>7 DEF Kept
        <5>2. CASE s # Parent
          BY <2>1, <3>2, <5>2 DEF Kept
        <5> QED BY <5>1, <5>2
      <4> QED BY <4>1 DEF Inv, SessionInv
    <3> QED BY <3>1, <3>2
  <2>2. ASSUME NEW d \in Created'
        PROVE  /\ sessions'[d].inter = call'[d].inter /\ sessions'[d].via = call'[d].via
               /\ consumer'[sessions'[d].inter] = d
               /\ sessions'[d].from = Parent => ~Live(Parent)'
    <3>1. CASE d = c
      BY <1>1, <1>8, <3>1 DEF Moved
    <3>2. CASE d # c
      BY <1>3, <1>6, <1>8, <3>2 DEF Kept
    <3> QED BY <3>1, <3>2
  <2>3. ASSUME NEW d \in Created', NEW e \in Created', sessions'[d].from = Parent, sessions'[e].from = Parent
        PROVE  d = e
    <3>1. CASE d # c /\ e # c
      BY <1>3, <1>6, <2>3, <3>1 DEF Kept, Inv, SessionInv
    <3>2. ASSUME NEW f \in Created, sessions'[f].from = Parent PROVE sessions'[c].from # Parent
      BY <1>6, <3>2 DEF Kept
    <3> QED BY <1>3, <2>3, <3>1, <3>2
  <2>4. \A s \in Sessions : sessions'[s].bind = sessions'[s].origin
    BY <1>7 DEF Inv, SessionInv, Kept
  <2>5. ASSUME NEW s \in doomed PROVE sessions'[s].state # "none"
    <3>1. s \in Sessions /\ sessions[s].state # "none"
      BY DEF Inv, TypeOK, SessionInv
    <3>2. CASE s = Parent
      BY <3>1, <3>2 DEF Kept
    <3>3. CASE s # Parent
      BY <3>1, <3>3 DEF Kept
    <3> QED BY <3>2, <3>3
  <2> QED BY <2>1, <2>2, <2>3, <2>4, <2>5 DEF SessionInv
<1>10. FactorsAreCurrent'
  BY <1>3, <1>6 DEF Inv, FactorsAreCurrent, Kept
<1>11. ForcedMFA'
  BY <1>1, <1>3, <1>6 DEF Inv, ForcedMFA, Kept, Moved
<1>12. LogoutFollowsReplacement'
  <2>1. ASSUME NEW d \in Created', sessions'[d].from = Parent PROVE sessions'[Parent].state = "replaced"
    <3>1. CASE d = c
      BY <2>1, <3>1
    <3>2. CASE d # c
      <4>1. d \in Created /\ sessions[d].from = Parent
        BY <1>0, <1>3, <1>6, <2>1, <3>2 DEF Kept, Live
      <4>2. sessions[Parent].state = "replaced"
        BY <4>1 DEF Inv, LogoutFollowsReplacement
      <4> QED BY <1>0, <4>2 DEF Kept, Live
    <3> QED BY <3>1, <3>2
  <2>2. ASSUME NEW s \in doomed PROVE ~Live(s)' /\ (sessions'[s].rp => sessions'[s].told)
    <3>1. s \in Sessions /\ ~Live(s) /\ (sessions[s].rp => sessions[s].told) /\ s # c
      BY <1>1 DEF Inv, TypeOK, SessionInv, LogoutFollowsReplacement
    <3>2. Kept(s)
      BY <3>1
    <3> QED BY <3>1, <3>2 DEF Kept, Live
  <2> QED BY <2>1, <2>2 DEF LogoutFollowsReplacement
<1> QED BY <1>4, <1>5, <1>9, <1>10, <1>11, <1>12 DEF Inv

(* The new row has its type.                                               *)
LEMMA NewRow == ASSUME Inv, NEW c \in Calls, call[c].pc = "create", NEW b \in Upstreams \cup {None},
                       NEW o \in Upstreams \cup {None}, NEW f \in {Parent, None}
                PROVE  NewSession(c, b, o, f) \in SessionRows
<1>1. call[c] \in CallRows /\ call[c].user \in Users
  BY DEF Inv, TypeOK, CallInv, CallOK
<1>2. Current(call[c].user) \in Proofs
  BY <1>1, CurrentProof
<1> QED BY ONLY <1>1, <1>2, b \in Upstreams \cup {None}, o \in Upstreams \cup {None}, f \in {Parent, None}
        DEF NewSession, SessionRows, CallRows

(* createPasswordAuthenticationSession.                                    *)
LEMMA PasswordSessionStep == ASSUME Inv, NEW c \in Calls, CreatePasswordSession(c) PROVE Inv'
<1> DEFINE me == call[c]
           o == Of(me.inter)
           new == NewSession(c, None, None, None)
           wins == PasswordGuard(c) /\ sessions[o].state = "init"
<1>1. /\ me.pc = "create" /\ Moved(c, "done")
      /\ UNCHANGED <<scenario, force, account, doomed, changes, consumer, otp, binding, ceremony>>
      /\ sessions' = IF wins THEN [sessions EXCEPT ![c] = new, ![o].state = "revoked"] ELSE sessions
  BY GotoRow DEF CreatePasswordSession, Steps, Stored, loginVars
<1>2. /\ sessions \in [Sessions -> SessionRows] /\ c \in Sessions /\ o \in Sessions /\ o \in Inits
      /\ o # c /\ c # Parent /\ o # Parent /\ Parent # None
  BY <1>1, Lookups, SignInAssumption DEF Inv, TypeOK, Sessions, CallInv, CallOK
<1>3. new \in SessionRows
  BY <1>1, NewRow
<1>4. CASE ~wins
  <2>1. UNCHANGED sessions
    BY <1>1, <1>4
  <2>2. (TypeOK /\ AccountInv /\ BindingInv /\ FactorInv /\ CallInv)'
    BY <1>1, <1>2, <2>1, TablesKept
  <2>3. Created' = Created /\ (SessionInv /\ FactorsAreCurrent /\ ForcedMFA /\ LogoutFollowsReplacement)'
    BY <1>1, <1>2, <2>1, SessionsKept DEF Moved, Kept
  <2>4. PassedInv'
    BY <1>1, <2>3, PassedShrinks DEF Moved, Passed, Spent
  <2> QED BY <2>2, <2>3, <2>4 DEF Inv
<1>5. CASE wins
  <2>1. sessions' = [sessions EXCEPT ![c] = new, ![o].state = "revoked"]
    BY <1>1, <1>5
  <2> HIDE DEF new, o
  <2>2. /\ sessions'[c] = new /\ sessions'[o] = [sessions[o] EXCEPT !.state = "revoked"]
        /\ \A s \in Sessions \ {c, o} : sessions'[s] = sessions[s]
    BY ONLY <1>2, <2>1
  <2>3. [sessions[o] EXCEPT !.state = "revoked"] \in SessionRows
    BY ONLY <1>2 DEF SessionRows
  <2>4. sessions' \in [Sessions -> SessionRows]
    BY ONLY <1>2, <1>3, <2>1, <2>3
  <2>5. Kept(o)
    BY ONLY <1>2, <2>2 DEF SessionRows, Kept
  <2>6. \A s \in Sessions \ {c} : Kept(s)
    BY <2>2, <2>5 DEF Kept
  <2>7. /\ new.state = "live" /\ new.method = me.method /\ new.bind = new.origin /\ new.from = None
        /\ new.inter = me.inter /\ new.via = me.via /\ new.proof = me.proof /\ new.born = Current(me.user)
    BY DEF new, NewSession
  <2>8. me.proof = Current(me.user)
    BY <1>5 DEF PasswordGuard, ProofHolds
  <2> QED BY <1>1, <1>2, <2>2, <2>4, <2>6, <2>7, <2>8, CreateStep, Parent \in Sessions DEF Sessions
<1> QED BY <1>4, <1>5

(* CreateSession and CreateUpstreamSession.                                *)
LEMMA PlainSessionStep == ASSUME Inv, NEW c \in Calls, CreateSession(c) PROVE Inv'
<1> DEFINE me == call[c]
           new == NewSession(c, me.bind, me.bind, None)
<1>1. /\ me.pc = "create" /\ me.proof = NoProof /\ Moved(c, "record")
      /\ UNCHANGED <<scenario, force, account, doomed, changes, consumer, otp, binding, ceremony>>
      /\ sessions' = [sessions EXCEPT ![c] = new]
  BY GotoRow DEF CreateSession, Steps, Stored, loginVars
<1>2. sessions \in [Sessions -> SessionRows] /\ c \in Sessions /\ c # Parent /\ Parent # None /\ Parent \in Sessions
  BY SignInAssumption DEF Inv, TypeOK, Sessions
<1>3. me.bind \in Upstreams \cup {None}
  BY DEF Inv, TypeOK, CallRows
<1>4. new \in SessionRows
  BY <1>1, <1>3, NewRow
<1>5. /\ new.state = "live" /\ new.method = me.method /\ new.bind = new.origin /\ new.from = None
      /\ new.inter = me.inter /\ new.via = me.via /\ new.proof = NoProof
  BY <1>1 DEF NewSession
<1> HIDE DEF new
<1>6. /\ sessions' \in [Sessions -> SessionRows] /\ sessions'[c] = new
      /\ \A s \in Sessions \ {c} : sessions'[s] = sessions[s]
  BY <1>1, <1>2, <1>4
<1>7. \A s \in Sessions \ {c} : Kept(s)
  BY <1>6 DEF Kept
<1> QED BY <1>1, <1>2, <1>5, <1>6, <1>7, CreateStep

(* createSessionWithParentAndProof.                                        *)
LEMMA ReviewSessionStep == ASSUME Inv, NEW c \in Calls, CreateReauthenticatedSession(c) PROVE Inv'
<1> DEFINE me == call[c]
           origin == IF me.bind # None THEN me.bind ELSE sessions[Parent].origin
           kept == KeptBinding(c)
           new == NewSession(c, kept, origin, Parent)
           wins == Replaceable(c)
<1>1. /\ me.pc = "create" /\ Moved(c, IF wins THEN "record" ELSE "done")
      /\ UNCHANGED <<scenario, force, account, doomed, changes, consumer, otp, binding, ceremony>>
      /\ sessions' = IF wins THEN [sessions EXCEPT ![c] = new, ![Parent] = Retire(@)] ELSE sessions
  BY GotoRow DEF CreateReauthenticatedSession, Steps, Stored, loginVars
<1>2. /\ sessions \in [Sessions -> SessionRows] /\ c \in Sessions /\ Parent \in Sessions
      /\ c # Parent /\ Parent # None /\ call[c] \in CallRows
  BY SignInAssumption DEF Inv, TypeOK, Sessions
<1>3. CASE ~wins
  <2>1. UNCHANGED sessions /\ Moved(c, "done")
    BY <1>1, <1>3
  <2>2. (TypeOK /\ AccountInv /\ BindingInv /\ FactorInv /\ CallInv)'
    BY <1>1, <1>2, <2>1, TablesKept
  <2>3. Created' = Created /\ (SessionInv /\ FactorsAreCurrent /\ ForcedMFA /\ LogoutFollowsReplacement)'
    BY <1>1, <1>2, <2>1, SessionsKept DEF Moved, Kept
  <2>4. PassedInv'
    BY <1>1, <2>1, <2>3, PassedShrinks DEF Moved, Passed, Spent
  <2> QED BY <2>2, <2>3, <2>4 DEF Inv
<1>4. CASE wins
  <2>0. sessions' = [sessions EXCEPT ![c] = new, ![Parent] = Retire(@)] /\ Moved(c, "record")
    BY <1>1, <1>4
  <2>2. Live(Parent) /\ (me.proof # NoProof => me.proof = Current(me.user))
    BY <1>4 DEF Replaceable, PasswordGuard, ProofHolds
  <2>1. /\ sessions' = [sessions EXCEPT ![c] = new, ![Parent] = [sessions[Parent] EXCEPT !.state = "replaced"]]
        /\ Moved(c, "record")
    <3>1. Retire(sessions[Parent]) = [sessions[Parent] EXCEPT !.state = "replaced"]
      BY <2>2 DEF Retire, Live
    <3>2. [sessions EXCEPT ![c] = new][Parent] = sessions[Parent]
      BY <1>2
    <3> QED BY <2>0, <3>1, <3>2
  <2>3. kept = origin /\ kept \in Upstreams \cup {None}
    <3>1. sessions[Parent].bind = sessions[Parent].origin
      BY <1>2 DEF Inv, SessionInv
    <3>2. sessions[Parent].bind \in Upstreams \cup {None} /\ me.bind \in Upstreams \cup {None}
      BY ONLY <1>2 DEF SessionRows, CallRows
    <3> QED BY <3>1, <3>2 DEF KeptBinding
  <2>4. new \in SessionRows
    BY <1>1, <2>3, NewRow
  <2>5. /\ new.state = "live" /\ new.method = me.method /\ new.bind = new.origin /\ new.from = Parent
        /\ new.inter = me.inter /\ new.via = me.via /\ new.proof = me.proof /\ new.born = Current(me.user)
    BY <2>3 DEF NewSession
  <2> HIDE DEF new
  <2>6. /\ sessions'[c] = new /\ sessions'[Parent] = [sessions[Parent] EXCEPT !.state = "replaced"]
        /\ \A s \in Sessions \ {c, Parent} : sessions'[s] = sessions[s]
    BY ONLY <1>2, <2>1
  <2>7. [sessions[Parent] EXCEPT !.state = "replaced"] \in SessionRows
    BY ONLY <1>2 DEF SessionRows
  <2>8. sessions' \in [Sessions -> SessionRows]
    BY ONLY <1>2, <2>1, <2>4, <2>7
  <2>9. /\ sessions'[Parent].state = "replaced"
        /\ sessions'[Parent].bind = sessions[Parent].bind /\ sessions'[Parent].origin = sessions[Parent].origin
    BY ONLY <1>2, <2>6 DEF SessionRows
  <2>10. \A s \in Sessions \ {c, Parent} : Kept(s)
    BY <2>6 DEF Kept
  <2>11. /\ sessions'[c].state = "live" /\ sessions'[c].method = call[c].method
         /\ sessions'[c].proof # NoProof => sessions'[c].proof = sessions'[c].born
         /\ sessions'[c].bind = sessions'[c].origin /\ sessions'[c].from = Parent
         /\ sessions'[c].inter = call[c].inter /\ sessions'[c].via = call[c].via
    BY ONLY <2>2, <2>5, <2>6
  <2>12. /\ call[c].pc = "create" /\ Moved(c, "record")
         /\ UNCHANGED <<scenario, force, account, doomed, changes, consumer, otp, binding, ceremony>>
    BY <1>1, <2>1
  <2> QED BY ONLY Inv, c \in Calls, <2>2, <2>8, <2>9, <2>10, <2>11, <2>12, CreateStep
<1> QED BY <1>3, <1>4

-----------------------------------------------------------------------------
(* What happens around a sign-in keeps its tables.                         *)
LEMMA AroundStep ==
    ASSUME Inv, UNCHANGED <<scenario, consumer, otp, doomed>>, force' \in BOOLEAN,
           changes' \in 0..MaxChanges, account' \in [Users -> AccountRows], AccountInv',
           binding' \in [Inits -> BindingRows], BindingInv',
           sessions' \in [Sessions -> SessionRows], \A s \in Sessions : Kept(s),
           ceremony' \in [Calls -> CeremonyRows],
           \A k \in Calls : \/ ceremony'[k] = ceremony[k]
                            \/ ceremony[k].state # "none" /\ ceremony'[k].state = "deleted",
           call' \in [Calls -> CallRows],
           \A d \in Calls : /\ call'[d].pc = call[d].pc /\ call'[d].user = call[d].user
                            /\ call'[d].inter = call[d].inter /\ call'[d].method = call[d].method
                            /\ call'[d].via = call[d].via
                            /\ call'[d].forced => call[d].forced /\ (scenario.review \/ force')
    PROVE  Inv'
<1>1. TypeOK'
  BY DEF Inv, TypeOK
<1>2. FactorInv'
  <2> SUFFICES ASSUME NEW k \in Calls PROVE FactorOK(k)'
    BY DEF FactorInv
  <2>1. FactorOK(k) /\ call'[k].pc = call[k].pc
    BY DEF Inv, FactorInv
  <2>2. CASE ceremony'[k] = ceremony[k]
    BY <2>1, <2>2 DEF FactorOK
  <2>3. CASE ceremony[k].state # "none" /\ ceremony'[k].state = "deleted"
    BY <2>1, <2>3 DEF FactorOK
  <2> QED BY <2>2, <2>3
<1>3. CallInv'
  <2> SUFFICES ASSUME NEW d \in Calls PROVE CallOK(d)'
    BY DEF CallInv
  <2>1. CallOK(d)
    BY DEF Inv, CallInv
  <2>2. sessions[d].state = "none" => sessions'[d].state = "none"
    BY SignInAssumption DEF Kept, Live, Sessions
  <2> QED BY <2>1, <2>2 DEF CallOK
<1>4. Created' = Created /\ (SessionInv /\ FactorsAreCurrent /\ ForcedMFA /\ LogoutFollowsReplacement)'
  BY SessionsKept
<1>5. PassedInv'
  <2>1. Passed' \subseteq Passed
    BY <1>4 DEF Passed
  <2>2. \A k \in Calls : Spent(k) => Spent(k)'
    BY DEF Spent
  <2> QED BY <2>1, <2>2, PassedShrinks DEF Passed
<1> QED BY <1>1, <1>2, <1>3, <1>4, <1>5 DEF Inv

(* A change of an account counts, and moves its generations by one.        *)
LEMMA AccountMoves ==
    ASSUME Inv, Change, account' \in [Users -> AccountRows],
           \A u \in Users : /\ account'[u].pw \in {account[u].pw, account[u].pw + 1}
                            /\ account'[u].gen \in {account[u].gen, account[u].gen + 1}
    PROVE  AccountInv' /\ changes' \in 0..MaxChanges
<1>1. changes \in Nat /\ changes' = changes + 1 /\ changes' \in 0..MaxChanges
  BY SignInAssumption DEF Inv, TypeOK, Change
<1>2. ASSUME NEW u \in Users PROVE account'[u].pw \in 1..(changes' + 2) /\ account'[u].gen \in 1..(changes' + 2)
  <2>1. account[u].pw \in 1..(changes + 2) /\ account[u].gen \in 1..(changes + 2)
    BY DEF Inv, AccountInv
  <2>2. /\ account'[u].pw \in {account[u].pw, account[u].pw + 1}
        /\ account'[u].gen \in {account[u].gen, account[u].gen + 1}
    OBVIOUS
  <2> QED BY ONLY <1>1, <2>1, <2>2
<1> QED BY <1>1, <1>2 DEF AccountInv

(* Password changes, conversions and passkey deletions.                    *)
LEMMA AccountSteps ==
    ASSUME Inv, NEW u \in Users,
           ChangePassword(u) \/ ResetPassword(u) \/ ConvertToPasskeyOnly(u) \/ SetPassword(u) \/ DeletePasskey(u)
    PROVE  Inv'
<1>0. /\ account \in [Users -> AccountRows] /\ sessions \in [Sessions -> SessionRows]
      /\ binding \in [Inits -> BindingRows] /\ ceremony \in [Calls -> CeremonyRows]
      /\ call \in [Calls -> CallRows] /\ force \in BOOLEAN
  BY DEF Inv, TypeOK
<1>1. Change /\ UNCHANGED <<scenario, consumer, call, otp, doomed, force>>
  BY DEF ChangePassword, ResetPassword, ConvertToPasskeyOnly, SetPassword, DeletePasskey, CallsUnchanged, loginVars
<1>2. /\ account' \in [Users -> AccountRows]
      /\ \A v \in Users : /\ account'[v].pw \in {account[v].pw, account[v].pw + 1}
                          /\ account'[v].gen \in {account[v].gen, account[v].gen + 1}
  <2>1. CASE account' = [account EXCEPT ![u].pw = @ + 1]
    BY ONLY <1>0, <2>1, u \in Users DEF AccountRows
  <2>2. CASE account' = [account EXCEPT ![u] = Account(@.pw + 1, @.gen + 1, "passkey", @.key)]
    BY ONLY <1>0, <2>2, u \in Users DEF AccountRows, Account
  <2>3. CASE account' = [account EXCEPT ![u] = Account(@.pw + 1, @.gen + 1, "password", @.key)]
    BY ONLY <1>0, <2>3, u \in Users DEF AccountRows, Account
  <2>4. CASE account' = [account EXCEPT ![u].key = 0]
    BY ONLY <1>0, <2>4, u \in Users DEF AccountRows
  <2> QED BY <2>1, <2>2, <2>3, <2>4 DEF ChangePassword, ResetPassword, ConvertToPasskeyOnly, SetPassword, DeletePasskey
<1>3. AccountInv' /\ changes' \in 0..MaxChanges
  BY <1>1, <1>2, AccountMoves
<1>4. sessions' \in [Sessions -> SessionRows] /\ \A s \in Sessions : Kept(s)
  <2>1. CASE UNCHANGED sessions
    BY <1>0, <2>1 DEF Kept
  <2>2. CASE sessions' = Revoke(Owned(u))
    BY <2>2, RevokedRows
  <2> QED BY <2>1, <2>2 DEF ChangePassword, ResetPassword, ConvertToPasskeyOnly, SetPassword, DeletePasskey
<1>5. /\ ceremony' \in [Calls -> CeremonyRows]
      /\ \A k \in Calls : \/ ceremony'[k] = ceremony[k]
                          \/ ceremony[k].state # "none" /\ ceremony'[k].state = "deleted"
  <2>1. CASE UNCHANGED ceremony
    BY <1>0, <2>1
  <2>2. CASE ceremony' = WithoutCeremonies(u)
    BY ONLY <1>0, <2>2 DEF WithoutCeremonies, CeremonyRows
  <2> QED BY <2>1, <2>2 DEF ChangePassword, ResetPassword, ConvertToPasskeyOnly, SetPassword, DeletePasskey, loginVars
<1>6. binding' \in [Inits -> BindingRows] /\ BindingInv'
  <2>1. NoBinding \in BindingRows
    BY EmptyRows DEF NoBinding, BindingRows
  <2>2. CASE UNCHANGED binding
    BY <1>0, <2>2 DEF Inv, BindingInv
  <2>3. CASE binding' = [s \in Inits |-> IF binding[s].user = u THEN NoBinding ELSE binding[s]]
    BY <1>0, <2>1, <2>3 DEF Inv, BindingInv
  <2> QED BY <2>2, <2>3 DEF ChangePassword, ResetPassword, ConvertToPasskeyOnly, SetPassword, DeletePasskey, loginVars
<1>7. \A d \in Calls : call[d].forced => scenario.review \/ force
  BY DEF Inv, CallInv, CallOK
<1> QED BY <1>0, <1>1, <1>2, <1>3, <1>4, <1>5, <1>6, <1>7, AroundStep

(* The administrator's policy change, a logout and an association.         *)
LEMMA PolicyAndLogoutSteps ==
    ASSUME Inv, UpdateClient \/ \E s \in Calls \cup {Parent} : Logout(s) \/ Associate(s)
    PROVE  Inv'
<1>0. /\ account \in [Users -> AccountRows] /\ sessions \in [Sessions -> SessionRows]
      /\ binding \in [Inits -> BindingRows] /\ ceremony \in [Calls -> CeremonyRows]
      /\ call \in [Calls -> CallRows] /\ force \in BOOLEAN /\ changes \in 0..MaxChanges
      /\ \A d \in Calls : call[d].forced => scenario.review \/ force
      /\ AccountInv /\ BindingInv
  BY DEF Inv, TypeOK, CallInv, CallOK
<1>1. UNCHANGED <<scenario, consumer, otp, doomed, account, binding, ceremony>>
  BY DEF UpdateClient, Logout, Associate, CallsUnchanged, loginVars
<1>2. changes' \in 0..MaxChanges /\ AccountInv' /\ BindingInv'
  <2>1. CASE Change
    BY <1>0, <1>1, <2>1, AccountMoves DEF BindingInv
  <2>2. CASE UNCHANGED changes
    BY <1>0, <1>1, <2>2 DEF AccountInv, BindingInv
  <2> QED BY <2>1, <2>2 DEF UpdateClient, Logout, Associate
<1>3. CASE UpdateClient
  <2>1. /\ UNCHANGED sessions /\ force' = ~force
        /\ call' = [c \in Calls |-> [call[c] EXCEPT !.forced = @ /\ force']]
    BY <1>3 DEF UpdateClient
  <2>2. \A s \in Sessions : Kept(s)
    BY <2>1 DEF Kept
  <2>3. /\ call' \in [Calls -> CallRows]
        /\ \A d \in Calls : /\ call'[d].pc = call[d].pc /\ call'[d].user = call[d].user
                            /\ call'[d].inter = call[d].inter /\ call'[d].method = call[d].method
                            /\ call'[d].via = call[d].via
                            /\ call'[d].forced = (call[d].forced /\ force')
    <3>1. force' \in BOOLEAN
      BY <2>1
    <3>2. ASSUME NEW d \in Calls
          PROVE  /\ call'[d] \in CallRows
                 /\ call'[d].pc = call[d].pc /\ call'[d].user = call[d].user
                 /\ call'[d].inter = call[d].inter /\ call'[d].method = call[d].method
                 /\ call'[d].via = call[d].via
                 /\ call'[d].forced = (call[d].forced /\ force')
      <4>1. call[d] \in CallRows /\ call'[d] = [call[d] EXCEPT !.forced = call[d].forced /\ force']
        BY <1>0, <2>1
      <4> QED BY ONLY <3>1, <4>1 DEF CallRows
    <3> QED BY <2>1, <3>2
  <2> QED BY <1>0, <1>1, <1>2, <2>1, <2>2, <2>3, AroundStep
<1>4. ASSUME NEW s \in Calls \cup {Parent}, Logout(s) \/ Associate(s) PROVE Inv'
  <2>1. UNCHANGED <<force, call>>
    BY <1>4 DEF Logout, Associate, CallsUnchanged
  <2>2. sessions' \in [Sessions -> SessionRows] /\ \A t \in Sessions : Kept(t)
    <3>1. CASE sessions' = Revoke({s})
      BY <3>1, RevokedRows
    <3>2. CASE sessions' = [sessions EXCEPT ![s].rp = TRUE] /\ Live(s)
      <4>1. s \in Sessions
        BY DEF Sessions
      <4>2. sessions'[s] = [sessions[s] EXCEPT !.rp = TRUE] /\ sessions[s] \in SessionRows
        BY ONLY <1>0, <3>2, <4>1
      <4>3. [sessions[s] EXCEPT !.rp = TRUE] \in SessionRows
        BY ONLY <4>2 DEF SessionRows
      <4>5. sessions' \in [Sessions -> SessionRows]
        BY ONLY <1>0, <3>2, <4>1, <4>3
      <4>6. Kept(s)
        BY ONLY <3>2, <4>2 DEF SessionRows, Kept
      <4>4. \A t \in Sessions \ {s} : sessions'[t] = sessions[t]
        BY ONLY <1>0, <3>2, <4>1
      <4> QED BY <4>4, <4>5, <4>6 DEF Kept
    <3> QED BY <1>4, <3>1, <3>2 DEF Logout, Associate
  <2> QED BY <1>0, <1>1, <1>2, <2>1, <2>2, AroundStep
<1> QED BY <1>3, <1>4

(* upstreamLogoutStatements reach every session that goes back to x,       *)
(* because a replacement keeps the binding of what it replaces.            *)
LEMMA UpstreamLogoutStep == ASSUME Inv, NEW x \in Upstreams, UpstreamLogout(x) PROVE Inv'
<1> DEFINE old(s) == sessions[s]
           told(s) == [Revoke(Bound(x))[s] EXCEPT !.told = @ \/ sessions[s].rp]
<1>0. /\ sessions \in [Sessions -> SessionRows] /\ doomed \subseteq Sessions /\ Change
      /\ Calls \subseteq Sessions /\ Parent \in Sessions /\ x # None
  BY SignInAssumption DEF Inv, TypeOK, Sessions, UpstreamLogout
<1>1. /\ sessions' = [s \in Sessions |-> IF s \in Bound(x) THEN told(s) ELSE sessions[s]]
      /\ doomed' = doomed \cup {s \in Sessions : sessions[s].origin = x}
      /\ UNCHANGED <<scenario, consumer, call, force, account, otp, binding, ceremony>>
  BY DEF UpstreamLogout, CallsUnchanged, loginVars
<1>2. ASSUME NEW s \in Sessions
      PROVE  /\ sessions'[s] \in SessionRows
             /\ sessions'[s].method = sessions[s].method
             /\ sessions'[s].proof = sessions[s].proof /\ sessions'[s].born = sessions[s].born
             /\ sessions'[s].bind = sessions[s].bind /\ sessions'[s].origin = sessions[s].origin
             /\ sessions'[s].from = sessions[s].from
             /\ sessions'[s].inter = sessions[s].inter /\ sessions'[s].via = sessions[s].via
             /\ \/ sessions'[s].state = sessions[s].state /\ (s \in Bound(x) => ~Live(s))
                \/ sessions'[s].state = "revoked" /\ Live(s)
             /\ sessions'[s].rp = sessions[s].rp
             /\ s \in Bound(x) => (sessions'[s].rp => sessions'[s].told)
             /\ sessions[s].told => sessions'[s].told
  <2>1. sessions[s] \in SessionRows
    BY <1>0
  <2>2. CASE s \notin Bound(x)
    <3>1. sessions'[s] = sessions[s]
      BY <1>1, <2>2
    <3> QED BY <2>1, <2>2, <3>1
  <2>3. CASE s \in Bound(x) /\ Live(s)
    <3>1. Revoke(Bound(x))[s] = [sessions[s] EXCEPT !.state = "revoked"]
      BY <2>3 DEF Revoke
    <3>2. sessions'[s] = [[sessions[s] EXCEPT !.state = "revoked"] EXCEPT !.told = @ \/ sessions[s].rp]
      BY <1>1, <2>3, <3>1
    <3>3. sessions[s].told \in BOOLEAN /\ sessions[s].rp \in BOOLEAN
      BY ONLY <2>1 DEF SessionRows
    <3> DEFINE r == [sessions[s] EXCEPT !.state = "revoked"]
    <3>4. /\ r \in SessionRows /\ r.state = "revoked" /\ r.method = sessions[s].method
          /\ r.proof = sessions[s].proof /\ r.born = sessions[s].born
          /\ r.bind = sessions[s].bind /\ r.origin = sessions[s].origin /\ r.from = sessions[s].from
          /\ r.inter = sessions[s].inter /\ r.via = sessions[s].via
          /\ r.rp = sessions[s].rp /\ r.told = sessions[s].told
      BY ONLY <2>1 DEF SessionRows
    <3>5. sessions'[s] = [r EXCEPT !.told = r.told \/ sessions[s].rp]
      BY <3>2
    <3> HIDE DEF r
    <3> QED BY ONLY <2>3, <3>3, <3>4, <3>5 DEF SessionRows
  <2>4. CASE s \in Bound(x) /\ ~Live(s)
    <3>1. Revoke(Bound(x))[s] = sessions[s]
      BY <2>4 DEF Revoke
    <3>2. sessions'[s] = [sessions[s] EXCEPT !.told = sessions[s].told \/ sessions[s].rp]
      BY <1>1, <2>4, <3>1
    <3>3. sessions[s].told \in BOOLEAN /\ sessions[s].rp \in BOOLEAN
      BY ONLY <2>1 DEF SessionRows
    <3> QED BY ONLY <2>1, <2>4, <3>2, <3>3 DEF SessionRows
  <2> QED BY <2>2, <2>3, <2>4
<1>3. sessions' \in [Sessions -> SessionRows]
  BY <1>1, <1>2
<1>4. changes' \in 0..MaxChanges /\ AccountInv'
  BY <1>0, <1>1, AccountMoves DEF Inv, TypeOK
<1>5. TypeOK'
  BY <1>1, <1>3, <1>4 DEF Inv, TypeOK
<1>6. BindingInv' /\ FactorInv'
  BY <1>1 DEF Inv, BindingInv, FactorInv, FactorOK
<1>7. CallInv'
  <2> SUFFICES ASSUME NEW d \in Calls PROVE CallOK(d)'
    BY DEF CallInv
  <2>1. CallOK(d) /\ (sessions[d].state = "none" => sessions'[d].state = "none")
    BY <1>0, <1>2 DEF Inv, CallInv, Live
  <2> QED BY <1>1, <2>1 DEF CallOK
<1>8. /\ Created' = Created /\ (Live(Parent)' => Live(Parent))
      /\ (sessions[Parent].state = "replaced" => sessions'[Parent].state = "replaced")
  BY <1>0, <1>2 DEF Created, Live
<1>9. PassedInv'
  BY <1>1, <1>8, PassedShrinks DEF Inv, TypeOK, Passed, Spent
<1>10. SessionInv'
  <2>1. ASSUME NEW s \in Sessions, sessions'[s].state = "none" PROVE sessions'[s].origin = None
    BY <1>2, <2>1 DEF Inv, SessionInv
  <2>2. ASSUME NEW d \in Created
        PROVE  /\ sessions'[d].inter = call'[d].inter /\ sessions'[d].via = call'[d].via
               /\ consumer'[sessions'[d].inter] = d
               /\ sessions'[d].from = Parent => ~Live(Parent)'
    <3>1. /\ d \in Sessions /\ sessions[d].inter = call[d].inter /\ sessions[d].via = call[d].via
          /\ consumer[sessions[d].inter] = d /\ (sessions[d].from = Parent => ~Live(Parent))
      BY <1>0, <2>2 DEF Inv, SessionInv, Created
    <3>2. /\ sessions'[d].inter = sessions[d].inter /\ sessions'[d].via = sessions[d].via
          /\ sessions'[d].from = sessions[d].from
      BY <1>2, <3>1
    <3> QED BY ONLY <1>1, <1>8, <3>1, <3>2
  <2>3. \A c, d \in Created : sessions'[c].from = Parent /\ sessions'[d].from = Parent => c = d
    BY <1>0, <1>2 DEF Inv, SessionInv, Created
  <2>4. \A s \in Sessions : sessions'[s].bind = sessions'[s].origin
    BY <1>2 DEF Inv, SessionInv
  <2>5. ASSUME NEW s \in doomed' PROVE sessions'[s].state # "none"
    <3>1. s \in Sessions /\ sessions[s].state # "none"
      BY <1>0, <1>1 DEF Inv, SessionInv
    <3> QED BY <1>2, <3>1
  <2> QED BY <1>8, <2>1, <2>2, <2>3, <2>4, <2>5 DEF SessionInv
<1>11. FactorsAreCurrent'
  <2>1. ASSUME NEW d \in Created, sessions'[d].proof # NoProof PROVE sessions'[d].proof = sessions'[d].born
    <3>1. d \in Sessions /\ (sessions[d].proof # NoProof => sessions[d].proof = sessions[d].born)
      BY <1>0, <2>1 DEF Inv, FactorsAreCurrent, Created
    <3>2. sessions'[d].proof = sessions[d].proof /\ sessions'[d].born = sessions[d].born
      BY <1>2, <3>1
    <3> QED BY <2>1, <3>1, <3>2
  <2> QED BY <1>8, <2>1 DEF FactorsAreCurrent
<1>12. ForcedMFA'
  <2>1. ASSUME NEW d \in Created, call'[d].forced PROVE sessions'[d].method = "mfa"
    <3>1. d \in Sessions /\ sessions[d].method = "mfa"
      BY <1>0, <1>1, <2>1 DEF Inv, ForcedMFA, Created
    <3> QED BY <1>2, <3>1
  <2> QED BY <1>8, <2>1 DEF ForcedMFA
<1>13. LogoutFollowsReplacement'
  <2>1. ASSUME NEW c \in Created, sessions'[c].from = Parent PROVE sessions'[Parent].state = "replaced"
    BY <1>0, <1>2, <1>8, <2>1 DEF Inv, LogoutFollowsReplacement, Created, Live
  <2>2. ASSUME NEW s \in doomed' PROVE ~Live(s)' /\ (sessions'[s].rp => sessions'[s].told)
    <3>1. CASE s \in doomed
      BY <1>0, <1>2, <3>1 DEF Inv, LogoutFollowsReplacement, Live
    <3>2. CASE s \in Sessions /\ sessions[s].origin = x
      <4>1. s \in Bound(x)
        BY <3>2 DEF Inv, SessionInv, Bound
      <4> QED BY <1>2, <3>2, <4>1 DEF Live
    <3> QED BY <1>1, <3>1, <3>2
  <2> QED BY <1>8, <2>1, <2>2 DEF LogoutFollowsReplacement
<1> QED BY <1>4, <1>5, <1>6, <1>7, <1>9, <1>10, <1>11, <1>12, <1>13 DEF Inv

-----------------------------------------------------------------------------
(* Nobody has begun to sign in.                                            *)
LEMMA InitInv == Init => Inv
<1> SUFFICES ASSUME Init PROVE Inv
  OBVIOUS
<1>1. account \in [Users -> AccountRows] /\ \A u \in Users : account[u].pw \in 1..2 /\ account[u].gen \in 1..2
  BY DEF Init, Accounts, Account, AccountRows
<1>2. scenario \in Scenarios /\ scenario.upstream \in Upstreams \cup {None}
  BY DEF Init, Start, Scenarios
<1> DEFINE parentRow == [NoSession EXCEPT !.state = "live", !.user = Owner,
                           !.bind = scenario.upstream, !.origin = scenario.upstream,
                           !.method = IF scenario.upstream = None THEN "webauthn" ELSE "external"]
           initRow == [NoSession EXCEPT !.state = "init"]
<1>3. /\ parentRow \in SessionRows /\ parentRow.state = "live" /\ parentRow.bind = parentRow.origin
  BY <1>2, EmptyRows, SignInAssumption DEF SessionRows, Methods
<1>4. /\ initRow \in SessionRows /\ initRow.state = "init" /\ initRow.bind = initRow.origin
      /\ NoSession.state = "none" /\ NoSession.origin = None /\ NoSession.bind = None
      /\ NoSession \in SessionRows
  BY EmptyRows DEF NoSession
<1>5. sessions = [s \in Sessions |->
         CASE s = Parent /\ scenario.review -> parentRow
           [] s \in {scenario.sess[i] : i \in Interactions} -> initRow
           [] OTHER -> NoSession]
  BY DEF Init
<1> HIDE DEF parentRow, initRow
<1>6. ASSUME NEW s \in Sessions
      PROVE  /\ sessions[s] \in SessionRows /\ sessions[s].bind = sessions[s].origin
             /\ sessions[s].state = "none" => sessions[s].origin = None
             /\ s \in Calls => sessions[s].state = "none"
  <2>1. {scenario.sess[i] : i \in Interactions} \subseteq Inits
    BY <1>2 DEF Scenarios
  <2>2. s \in Calls => s # Parent /\ s \notin {scenario.sess[i] : i \in Interactions}
    BY <2>1, SignInAssumption
  <2>3. sessions[s] = parentRow \/ sessions[s] = initRow \/ sessions[s] = NoSession
    BY <1>5
  <2>4. s \in Calls => sessions[s] = NoSession
    BY <1>5, <2>2
  <2> QED BY <1>3, <1>4, <2>3, <2>4
<1>7. sessions \in [Sessions -> SessionRows]
  BY <1>5, <1>6
<1>8. Calls \subseteq Sessions /\ Created = {}
  BY <1>6 DEF Created, Sessions
<1>9. /\ NoCode \in OTPRows /\ NoBinding \in BindingRows /\ NoCeremony \in CeremonyRows /\ Idle \in CallRows
      /\ Idle.pc = "idle" /\ ~Idle.forced /\ Idle.via = None
      /\ NoCode.state = "none" /\ NoCeremony.state = "none"
  BY EmptyRows DEF NoCode, OTPRows, NoBinding, BindingRows, NoCeremony, CeremonyRows, Idle
<1>10. TypeOK
  BY <1>1, <1>2, <1>7, <1>9, SignInAssumption DEF Init, TypeOK
<1>11. AccountInv /\ BindingInv
  BY <1>1 DEF Init, AccountInv, BindingInv
<1>12. FactorInv /\ CallInv
  BY <1>6, <1>8, <1>9 DEF Init, FactorInv, FactorOK, CallInv, CallOK
<1>13. PassedInv
  BY <1>8, <1>9 DEF Init, PassedInv, Passed
<1>14. SessionInv /\ FactorsAreCurrent /\ ForcedMFA /\ LogoutFollowsReplacement
  BY <1>6, <1>8 DEF Init, SessionInv, FactorsAreCurrent, ForcedMFA, LogoutFollowsReplacement
<1> QED BY <1>10, <1>11, <1>12, <1>13, <1>14 DEF Inv

(* Every step keeps the invariant.                                         *)
LEMMA InvStep == Inv /\ [Next]_vars => Inv'
<1> SUFFICES ASSUME Inv, [Next]_vars PROVE Inv'
  OBVIOUS
<1>0. Signers \subseteq Users
  BY SignInAssumption DEF Signers
<1>1. ASSUME NEW c \in Calls, PasswordNext(c) PROVE Inv'
  BY <1>0, <1>1, BeginSteps, DecideSteps, CodeSteps, VerifyStep DEF PasswordNext
<1>2. ASSUME NEW c \in Calls, PasskeyNext(c) PROVE Inv'
  BY <1>0, <1>2, BeginSteps, SaveStep, FinishLoginStep DEF PasskeyNext
<1>3. ASSUME NEW c \in Calls, CompletionNext(c) PROVE Inv'
  BY <1>0, <1>3, BeginSteps, DecideSteps, ConsumeStep, PasswordSessionStep, PlainSessionStep,
     ReviewSessionStep, RecordSteps DEF CompletionNext
<1>4. CASE ChangeNext
  BY <1>4, SignInAssumption, AccountSteps, PolicyAndLogoutSteps, UpstreamLogoutStep DEF ChangeNext
<1>5. CASE UNCHANGED vars
  <2>1. TypeOK' /\ AccountInv' /\ BindingInv'
    BY <1>5 DEF vars, Inv, TypeOK, AccountInv, BindingInv
  <2>2. FactorInv' /\ CallInv'
    BY <1>5 DEF vars, Inv, FactorInv, FactorOK, CallInv, CallOK
  <2>3. Passed' = Passed /\ Created' = Created
    BY <1>5 DEF vars, Passed, Created
  <2>4. PassedInv'
    BY <1>5, <2>3 DEF vars, Inv, PassedInv, Spent
  <2>5. SessionInv' /\ FactorsAreCurrent' /\ ForcedMFA' /\ LogoutFollowsReplacement'
    BY <1>5, <2>3 DEF vars, Inv, SessionInv, FactorsAreCurrent, ForcedMFA, LogoutFollowsReplacement, Live
  <2> QED BY <2>1, <2>2, <2>4, <2>5 DEF Inv
<1> QED BY <1>1, <1>2, <1>3, <1>4, <1>5 DEF Next

(* The invariant holds in every reachable state.                           *)
LEMMA Invariance == Spec => []Inv
BY InitInv, InvStep, PTL DEF Spec

(* The tables and the requests keep their types; the generations stay      *)
(* within the bound on changes.                                            *)
THEOREM SignInTypeOK == Spec => []TypeOK
<1>1. Inv => TypeOK
  BY DEF Inv
<1> QED BY <1>1, Invariance, PTL

(* A session that rests on a password is created only while that password  *)
(* and the password mode are the account's: the batch that creates it      *)
(* compares the generations the password was verified against.             *)
THEOREM CurrentFactors == Spec => []FactorsAreCurrent
<1>1. Inv => FactorsAreCurrent
  BY DEF Inv
<1> QED BY <1>1, Invariance, PTL

(* An interaction, a mailed code, a passkey ceremony and a parent session  *)
(* are each spent on one session, however requests interleave.             *)
THEOREM ProofsAreSpentOnce == Spec => []OneSessionPerProof
<1>1. Inv => OneSessionPerProof
  <2> SUFFICES ASSUME Inv, NEW c \in Created, NEW d \in Created,
                      \/ sessions[c].inter = sessions[d].inter
                      \/ sessions[c].via = sessions[d].via /\ sessions[c].via # None
                      \/ sessions[c].from = sessions[d].from /\ sessions[c].from # None
               PROVE  c = d
    BY DEF OneSessionPerProof
  <2>1. /\ consumer[sessions[c].inter] = c /\ consumer[sessions[d].inter] = d
        /\ sessions[c].via = call[c].via /\ sessions[d].via = call[d].via
    BY DEF Inv, SessionInv
  <2>2. CASE sessions[c].inter = sessions[d].inter
    BY <2>1, <2>2
  <2>3. CASE sessions[c].via = sessions[d].via /\ sessions[c].via # None
    <3>1. c \in Passed /\ d \in Passed
      BY <2>1, <2>3 DEF Passed, Created
    <3> QED BY <2>1, <2>3, <3>1 DEF Inv, PassedInv
  <2>4. CASE sessions[c].from = sessions[d].from /\ sessions[c].from # None
    <3>1. sessions[c].from = Parent
      BY <2>4 DEF Inv, TypeOK, SessionRows, Created, Sessions
    <3> QED BY <2>4, <3>1 DEF Inv, SessionInv
  <2> QED BY <2>2, <2>3, <2>4
<1> QED BY <1>1, Invariance, PTL

(* finishAuthentication reads the policy again before it consumes the      *)
(* interaction: a request under a policy that demanded MFA throughout      *)
(* creates no session without it.                                          *)
THEOREM MFAIsForced == Spec => []ForcedMFA
<1>1. Inv => ForcedMFA
  BY DEF Inv
<1> QED BY <1>1, Invariance, PTL

(* A session that a logout, a reset or an upstream logout ended is never   *)
(* replaced, because the batch that replaces it still needs it live; and   *)
(* an upstream logout after the replacement revokes every session that     *)
(* goes back to it, because the replacement kept the binding, and tells    *)
(* their relying parties.                                                  *)
THEOREM LogoutReachesReplacements == Spec => []LogoutFollowsReplacement
<1>1. Inv => LogoutFollowsReplacement
  BY DEF Inv
<1> QED BY <1>1, Invariance, PTL
=============================================================================
