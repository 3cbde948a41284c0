----------------------------- MODULE CaseLifecycle -----------------------------
(***************************************************************************)
(* The life of a case as its users see it: one atomic step per decision,   *)
(* no handler, no copy of a document, no audit in sight.  A case is        *)
(* detected once; only a proposed action can be approved, rejected or      *)
(* escalated; only a decided case can be closed; a closed case stays so.   *)
(***************************************************************************)
CONSTANTS Case, Action, NoAction

VARIABLES
    phase,     \* of every case
    proposal,  \* the action last proposed for it
    granted    \* the action approved for it

lifeVars == <<phase, proposal, granted>>

Phase == {"absent", "detected", "evidence_requested", "proposed", "approved",
          "rejected", "manual_intervention", "closed"}

LifeInit ==
    /\ phase = [c \in Case |-> "absent"]
    /\ proposal = [c \in Case |-> NoAction]
    /\ granted = [c \in Case |-> NoAction]

Moves(c, from, to) ==
    /\ phase[c] \in from
    /\ phase' = [phase EXCEPT ![c] = to]

Decide(c, from, to) == Moves(c, from, to) /\ UNCHANGED <<proposal, granted>>

Propose(c, a) ==
    /\ Moves(c, {"detected", "evidence_requested", "rejected"}, "proposed")
    /\ proposal' = [proposal EXCEPT ![c] = a]
    /\ UNCHANGED granted

Grant(c) ==
    /\ Moves(c, {"proposed"}, "approved")
    /\ granted' = [granted EXCEPT ![c] = proposal[c]]
    /\ UNCHANGED proposal

LifeNext ==
    \E c \in Case :
        \/ Decide(c, {"absent"}, "detected")
        \/ Decide(c, {"detected", "evidence_requested", "proposed"}, "evidence_requested")
        \/ \E a \in Action : Propose(c, a)
        \/ Grant(c)
        \/ Decide(c, {"proposed"}, "rejected")
        \/ Decide(c, {"proposed"}, "manual_intervention")
        \/ Decide(c, {"approved", "rejected", "manual_intervention"}, "closed")

LifeSpec == LifeInit /\ [][LifeNext]_lifeVars
=============================================================================
