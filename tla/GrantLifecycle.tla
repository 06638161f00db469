--------------------------- MODULE GrantLifecycle ---------------------------
(***************************************************************************)
(* What a client of the token endpoint may rely on, with no tables: an     *)
(* authorization is issued as a code, the code is redeemed by one call,    *)
(* each later rotation hands it to a call that never held it before, and a *)
(* grant that has died stays dead.  One step may move several grants: a    *)
(* logout ends all grants of a session, and the clean-up in another        *)
(* grant's batch removes rows that have expired.                           *)
(***************************************************************************)
CONSTANTS Grants, Attempts, NoAttempt

VARIABLES
    phase,    \* where each grant is in its life
    holder,   \* the call whose tokens are in force
    spent     \* calls that can no longer become a holder

lifeVars == <<phase, holder, spent>>

Init ==
    /\ phase = [g \in Grants |-> "new"]
    /\ holder = [g \in Grants |-> NoAttempt]
    /\ spent = {}

Stays(g) == phase'[g] = phase[g] /\ holder'[g] = holder[g]

Issue(g) == phase[g] = "new" /\ phase'[g] = "code" /\ holder'[g] = NoAttempt

(* Redemption of the code and rotation of the refresh token. *)
Hand(g) ==
    /\ phase[g] \in {"code", "held"}
    /\ phase'[g] = "held"
    /\ holder'[g] \in (Attempts \ spent) \cap spent'

Die(g) == phase[g] \in {"code", "held"} /\ phase'[g] = "dead" /\ holder'[g] = NoAttempt

Next ==
    /\ spent \subseteq spent'
    /\ \A g \in Grants : Stays(g) \/ Issue(g) \/ Hand(g) \/ Die(g)

Spec == Init /\ [][Next]_lifeVars
=============================================================================
