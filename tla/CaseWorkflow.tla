----------------------------- MODULE CaseWorkflow -----------------------------
(***************************************************************************)
(* The governed workflow of a case: services/workflow/state_machine.py on  *)
(* the case table of adapters/postgres/repository.py, called by the API's  *)
(* handler threads (systems/api/app.py), beside the detector that writes   *)
(* the same documents (services/detection/service.py).                     *)
(*                                                                         *)
(* An operation reads the document, checks and changes its copy, writes    *)
(* the whole copy back and appends to the audit: three transactions, with  *)
(* no lock and no version between them.  The first two are actions of the  *)
(* handler; so is the third, and an exception may end it in between.       *)
(***************************************************************************)
EXTENDS Naturals, Sequences, FiniteSets

CONSTANTS
    Case,             \* case ids
    Action,           \* proposals: action type, target and rationale
    Forbidden,        \* those of a type in FORBIDDEN_ACTION_TYPES
    Role,             \* roles callers claim
    Handler,          \* API handler threads
    NoAction, NoRole,
    ProposalTimeout,  \* in ticks of the clock
    MaxTime,          \* bound on the clock
    MaxRequests,      \* bound on the operations begun
    MaxFailures,      \* bound on operations cut short by an exception or a crash
    MaxDetections     \* bound on the times the detector materialises a case

ASSUME WorkflowAssumption ==
    /\ NoAction \notin Action
    /\ NoRole \notin Role
    /\ Forbidden \subseteq Action
    /\ ProposalTimeout \in Nat
    /\ MaxTime \in Nat
    /\ MaxRequests \in Nat
    /\ MaxFailures \in Nat
    /\ MaxDetections \in Nat

VARIABLES
    now,         \* the service's clock
    store,       \* fabops_cases: the document of every case
    audit,       \* fabops_decision_audit, per case
    pending,     \* per handler: the writes it has prepared from documents it read
    auditing,    \* per handler: the audit records it is about to append
    requests,    \* operations begun (bounded by MaxRequests)
    failures,    \* operations cut short (bounded by MaxFailures)
    detections   \* materialisations of every case (bounded by MaxDetections)

vars == <<now, store, audit, pending, auditing, requests, failures, detections>>
-----------------------------------------------------------------------------
(* Roles and documents. *)

ProposalRoles == {"process_engineer", "yield_engineer", "fde"}

ApprovalRoles == {"yield_lead", "process_lead", "quality_manager"}

State == {"absent", "detected", "evidence_requested", "proposed", "approved",
          "rejected", "manual_intervention", "closed"}

\* proposedAction and proposedAt are the proposal; approvedAction and approvedBy
\* are what the approval token was issued for.
Document ==
    [state : State, proposedAction : Action \cup {NoAction}, proposedAt : Nat,
     approvedAction : Action \cup {NoAction}, approvedBy : Role \cup {NoRole}]

NoDocument ==
    [state |-> "absent", proposedAction |-> NoAction, proposedAt |-> 0,
     approvedAction |-> NoAction, approvedBy |-> NoRole]

Event == State \ {"absent"}

\* An audit record, named by the state its operation led to.
Record == [event : Event, action : Action \cup {NoAction}, role : Role \cup {NoRole}]

Write == [case : Case, doc : Document, record : Record]

TypeOK ==
    /\ now \in 0..MaxTime
    /\ store \in [Case -> Document]
    /\ audit \in [Case -> Seq(Record)]
    /\ pending \in [Handler -> SUBSET Write]
    /\ auditing \in [Handler -> SUBSET Write]
    /\ requests \in 0..MaxRequests
    /\ failures \in 0..MaxFailures
    /\ detections \in [Case -> 0..MaxDetections]

Init ==
    /\ now = 0
    /\ store = [c \in Case |-> NoDocument]
    /\ audit = [c \in Case |-> <<>>]
    /\ pending = [h \in Handler |-> {}]
    /\ auditing = [h \in Handler |-> {}]
    /\ requests = 0
    /\ failures = 0
    /\ detections = [c \in Case |-> 0]
-----------------------------------------------------------------------------
(* Operations: the read, the checks and the new copy. *)

Idle(h) == pending[h] = {} /\ auditing[h] = {}

Begin(h, writes) ==
    /\ Idle(h)
    /\ requests < MaxRequests
    /\ requests' = requests + 1
    /\ pending' = [pending EXCEPT ![h] = writes]
    /\ UNCHANGED <<now, store, audit, auditing, failures, detections>>

\* The copy of c's document with its state set, and the record of the step.
Moved(c, state, action, role) ==
    [case |-> c, doc |-> [store[c] EXCEPT !.state = state],
     record |-> [event |-> state, action |-> action, role |-> role]]

\* ACTION: request_evidence
RequestEvidence(h, c, role) ==
    /\ role \in ProposalRoles \cup ApprovalRoles
    /\ store[c].state \in {"detected", "evidence_requested", "proposed"}
    /\ Begin(h, {Moved(c, "evidence_requested", NoAction, role)})

\* Fault: a case that waits for a decision may be proposed again.
ProposeOver(h, c, role, action) ==
    /\ role \in ProposalRoles
    /\ action \notin Forbidden
    /\ store[c].state \in {"detected", "evidence_requested", "rejected", "approved"}
    /\ Begin(h, {[Moved(c, "proposed", action, role) EXCEPT
                    !.doc.proposedAction = action, !.doc.proposedAt = now]})

\* ACTION: propose_action
ProposeAction(h, c, role, action) ==
    /\ role \in ProposalRoles
    /\ action \notin Forbidden
    /\ store[c].state \in {"detected", "evidence_requested", "rejected"}
    /\ Begin(h, {[Moved(c, "proposed", action, role) EXCEPT
                    !.doc.proposedAction = action, !.doc.proposedAt = now]})

\* ACTION: approve
Approve(h, c, role) ==
    LET action == store[c].proposedAction IN
    /\ role \in ApprovalRoles
    /\ store[c].state = "proposed"
    /\ action /= NoAction
    /\ Begin(h, {[Moved(c, "approved", action, role) EXCEPT
                    !.doc.approvedAction = action, !.doc.approvedBy = role]})

\* ACTION: reject
Reject(h, c, role) ==
    /\ role \in ApprovalRoles
    /\ store[c].state = "proposed"
    /\ Begin(h, {Moved(c, "rejected", NoAction, role)})

\* Fault: a proposal is closed undecided.
CloseUndecided(h, c, role) ==
    /\ store[c].state \in {"proposed", "approved", "rejected", "manual_intervention"}
    /\ Begin(h, {Moved(c, "closed", NoAction, role)})

\* ACTION: close
Close(h, c, role) ==
    /\ store[c].state \in {"approved", "rejected", "manual_intervention"}
    /\ Begin(h, {Moved(c, "closed", NoAction, role)})

\* Fault: the age of a proposal is not looked at.
AnyProposal(doc) == doc.state = "proposed" /\ doc.proposedAction /= NoAction

Overdue(doc) ==
    /\ doc.state = "proposed"
    /\ doc.proposedAction /= NoAction
    /\ now - doc.proposedAt >= ProposalTimeout

\* ACTION: check_timeouts reads every case at once and writes the overdue ones
\* back one after the other.
CheckTimeouts(h) ==
    LET overdue == {c \in Case : Overdue(store[c])} IN
    /\ overdue /= {}
    /\ Begin(h, {Moved(c, "manual_intervention", NoAction, NoRole) : c \in overdue})
-----------------------------------------------------------------------------
(* The writes of an operation. *)

\* ACTION: upsert_case, an unconditional overwrite of the document.
UpsertCase(h) ==
    /\ auditing[h] = {}
    /\ \E write \in pending[h] :
        /\ store' = [store EXCEPT ![write.case] = write.doc]
        /\ pending' = [pending EXCEPT ![h] = @ \ {write}]
        /\ auditing' = [auditing EXCEPT ![h] = {write}]
    /\ UNCHANGED <<now, audit, requests, failures, detections>>

\* Fault: proposals are not audited.
AuditDecisions(h) ==
    /\ \E write \in auditing[h] :
          audit' = IF write.record.event = "proposed" THEN audit
                   ELSE [audit EXCEPT ![write.case] = Append(@, write.record)]
    /\ auditing' = [auditing EXCEPT ![h] = {}]
    /\ UNCHANGED <<now, store, pending, requests, failures, detections>>

\* ACTION: append_audit
AppendAudit(h) ==
    /\ \E write \in auditing[h] :
          audit' = [audit EXCEPT ![write.case] = Append(@, write.record)]
    /\ auditing' = [auditing EXCEPT ![h] = {}]
    /\ UNCHANGED <<now, store, pending, requests, failures, detections>>

\* ACTION: a database error or a crash ends the operation where it stands.
Fail(h) ==
    /\ ~Idle(h)
    /\ failures < MaxFailures
    /\ failures' = failures + 1
    /\ pending' = [pending EXCEPT ![h] = {}]
    /\ auditing' = [auditing EXCEPT ![h] = {}]
    /\ UNCHANGED <<now, store, audit, requests, detections>>

\* ACTION: the detector materialises a case, for a new event or while a starting
\* stream worker replays the log: a document of its own, whatever was there.
\* Only the creation is audited.
Materialize(c) ==
    /\ detections[c] < MaxDetections
    /\ detections' = [detections EXCEPT ![c] = @ + 1]
    /\ store' = [store EXCEPT ![c] = [NoDocument EXCEPT !.state = "detected"]]
    /\ audit' = IF store[c].state = "absent"
                THEN [audit EXCEPT ![c] =
                        Append(@, [event |-> "detected", action |-> NoAction, role |-> NoRole])]
                ELSE audit
    /\ UNCHANGED <<now, pending, auditing, requests, failures>>

\* ACTION: time passes.
Tick ==
    /\ now < MaxTime
    /\ now' = now + 1
    /\ UNCHANGED <<store, audit, pending, auditing, requests, failures, detections>>

Operation(h) ==
    \/ \E c \in Case, role \in Role :
        \/ RequestEvidence(h, c, role)
        \/ \E action \in Action : ProposeAction(h, c, role, action)
        \/ Approve(h, c, role)
        \/ Reject(h, c, role)
        \/ Close(h, c, role)
    \/ CheckTimeouts(h)

Next ==
    \/ \E h \in Handler : Operation(h) \/ UpsertCase(h) \/ AppendAudit(h) \/ Fail(h)
    \/ \E c \in Case : Materialize(c)
    \/ Tick

Spec == Init /\ [][Next]_vars
-----------------------------------------------------------------------------
(* Properties that hold however operations, detections and failures overlap. *)

\* An approval in a document is for the action the same document proposes, of a
\* permitted type, by an approving role, and the case is approved or closed.
SoundApproval(doc) ==
    doc.approvedAction /= NoAction =>
        /\ doc.approvedAction = doc.proposedAction
        /\ doc.approvedAction \notin Forbidden
        /\ doc.approvedBy \in ApprovalRoles
        /\ doc.state \in {"approved", "closed"}

\* No interleaving of approvals, new proposals, evidence requests, timeouts and
\* detections leaves a case with an approval of something else than its proposal.
ApprovalCoversAction == \A c \in Case : SoundApproval(store[c])

Audited(c, event, action) ==
    \/ \E i \in 1..Len(audit[c]) : audit[c][i].event = event /\ audit[c][i].action = action
    \/ \E h \in Handler : \E write \in auditing[h] :
        write.case = c /\ write.record.event = event /\ write.record.action = action

\* While nothing failed, the approval a document carries is in the audit or its
\* handler is about to append it, whoever overwrote the document since.
ApprovalIsAudited ==
    failures = 0 =>
        \A c \in Case :
            store[c].approvedAction /= NoAction
                => Audited(c, "approved", store[c].approvedAction)

\* While nothing failed, an action whose approval was audited has its proposal
\* audited too, or in the hands of the handler that made it.
ApprovalHasProposal ==
    failures = 0 =>
        \A c \in Case : \A i \in 1..Len(audit[c]) :
            audit[c][i].event = "approved" => Audited(c, "proposed", audit[c][i].action)

\* Every approval, in the document or the audit, can be traced to who proposed and
\* who approved it (state_machine.py:60-73, 144-147).
ApprovalsAreTraced == ApprovalIsAudited /\ ApprovalHasProposal

\* A case escalated for manual intervention shows a proposal that was overdue,
\* not a newer one made while the sweep worked through its list.
EscalatedWasOverdue ==
    \A c \in Case :
        store[c].state = "manual_intervention"
            => /\ store[c].proposedAction /= NoAction
               /\ now - store[c].proposedAt >= ProposalTimeout
-----------------------------------------------------------------------------
(* Properties of operations that do not overlap: one handler, a case        *)
(* materialised once.                                                       *)

Life == INSTANCE CaseLifecycle WITH
    phase <- [c \in Case |-> store[c].state],
    proposal <- [c \in Case |-> store[c].proposedAction],
    granted <- [c \in Case |-> store[c].approvedAction]

\* Without overlap the three transactions of an operation, failures between
\* them included, look like one legal step of the case's life.
FollowsLifecycle == Life!LifeSpec
-----------------------------------------------------------------------------
(* What the code says of itself, and does not do. *)

\* stream_worker/main.py:85, "Existing case upserts are idempotent": detecting a
\* known case again leaves its state alone.
DetectionKeepsState ==
    [][\A c \in Case :
        store[c].state /= "absent" /\ detections'[c] /= detections[c]
            => store'[c].state = store[c].state]_vars
=============================================================================
