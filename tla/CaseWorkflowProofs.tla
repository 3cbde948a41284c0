-------------------------- MODULE CaseWorkflowProofs --------------------------
(***************************************************************************)
(* Theorems of CaseWorkflow, for any number of cases, actions, roles and   *)
(* handlers, any timeout and any bounds.                                   *)
(***************************************************************************)
EXTENDS CaseWorkflow, TLAPS

\* A document an operation may leave in the store.
SoundDocument(doc) == SoundApproval(doc) /\ doc.proposedAction \notin Forbidden

\* Every document, stored or about to be, is sound: an operation that read a
\* document since overwritten still writes a sound one.
SoundDocuments ==
    /\ \A c \in Case : SoundDocument(store[c])
    /\ \A h \in Handler : \A write \in pending[h] : SoundDocument(write.doc)
-----------------------------------------------------------------------------
(* What an operation prepares. *)

\* A copy with another state is a write of the case.
LEMMA MovedWrite ==
    ASSUME TypeOK, NEW c \in Case, NEW state \in Event,
           NEW action \in Action \cup {NoAction}, NEW role \in Role \cup {NoRole}
    PROVE  /\ Moved(c, state, action, role) \in Write
           /\ Moved(c, state, action, role).case = c
           /\ Moved(c, state, action, role).doc.state = state
           /\ Moved(c, state, action, role).doc.proposedAction = store[c].proposedAction
           /\ Moved(c, state, action, role).doc.approvedAction = store[c].approvedAction
           /\ Moved(c, state, action, role).doc.approvedBy = store[c].approvedBy
           /\ Moved(c, state, action, role).record.event = state
           /\ Moved(c, state, action, role).record.action = action
<1>1. store[c] \in Document
  BY DEF TypeOK
<1>2. [store[c] EXCEPT !.state = state] \in Document
  BY <1>1 DEF Document, Event
<1> QED
  BY <1>1, <1>2 DEF Moved, Write, Record, Document

\* A write that proposes.
Proposing(c, role, action) ==
    [Moved(c, "proposed", action, role) EXCEPT
        !.doc.proposedAction = action, !.doc.proposedAt = now]

LEMMA ProposingWrite ==
    ASSUME TypeOK, NEW c \in Case, NEW action \in Action, NEW role \in Role
    PROVE  /\ Proposing(c, role, action) \in Write
           /\ Proposing(c, role, action).case = c
           /\ Proposing(c, role, action).doc.proposedAction = action
           /\ Proposing(c, role, action).doc.approvedAction = store[c].approvedAction
           /\ Proposing(c, role, action).doc.approvedBy = store[c].approvedBy
           /\ Proposing(c, role, action).record.event = "proposed"
           /\ Proposing(c, role, action).record.action = action
<1>1. "proposed" \in Event
  BY DEF Event, State
<1>2. Moved(c, "proposed", action, role) \in Write
  BY <1>1, MovedWrite
<1>3. now \in Nat
  BY DEF TypeOK
<1> DEFINE m == Moved(c, "proposed", action, role)
           doc == [m.doc EXCEPT !.proposedAction = action, !.proposedAt = now]
<1>4. /\ m.case = c /\ m.record.event = "proposed" /\ m.record.action = action
      /\ m.doc.approvedAction = store[c].approvedAction
      /\ m.doc.approvedBy = store[c].approvedBy
  BY <1>1, MovedWrite
<1> HIDE DEF m
<1>5. m.doc \in Document /\ m \in Write
  BY <1>2 DEF m, Write
<1>6. /\ doc \in Document /\ doc.proposedAction = action
      /\ doc.approvedAction = store[c].approvedAction
      /\ doc.approvedBy = store[c].approvedBy
  BY <1>3, <1>4, <1>5 DEF Document
<1>7. Proposing(c, role, action) = [m EXCEPT !.doc = doc]
  BY <1>5 DEF Proposing, Write, Document, m
<1> QED
  BY <1>4, <1>5, <1>6, <1>7 DEF Write

\* A write that approves.
Approving(c, role) ==
    [Moved(c, "approved", store[c].proposedAction, role) EXCEPT
        !.doc.approvedAction = store[c].proposedAction, !.doc.approvedBy = role]

LEMMA ApprovingWrite ==
    ASSUME TypeOK, NEW c \in Case, NEW role \in Role
    PROVE  /\ Approving(c, role) \in Write
           /\ Approving(c, role).case = c
           /\ Approving(c, role).doc.state = "approved"
           /\ Approving(c, role).doc.proposedAction = store[c].proposedAction
           /\ Approving(c, role).doc.approvedAction = store[c].proposedAction
           /\ Approving(c, role).doc.approvedBy = role
           /\ Approving(c, role).record.event = "approved"
           /\ Approving(c, role).record.action = store[c].proposedAction
<1>1. "approved" \in Event
  BY DEF Event, State
<1>2. store[c].proposedAction \in Action \cup {NoAction}
  BY DEF TypeOK, Document
<1>3. Moved(c, "approved", store[c].proposedAction, role) \in Write
  BY <1>1, <1>2, MovedWrite
<1> DEFINE m == Moved(c, "approved", store[c].proposedAction, role)
           doc == [m.doc EXCEPT !.approvedAction = store[c].proposedAction, !.approvedBy = role]
<1>4. /\ m.case = c /\ m.doc.state = "approved" /\ m.record.event = "approved"
      /\ m.record.action = store[c].proposedAction
      /\ m.doc.proposedAction = store[c].proposedAction
  BY <1>1, <1>2, MovedWrite
<1> HIDE DEF m
<1>5. m.doc \in Document /\ m \in Write
  BY <1>3 DEF m, Write
<1>6. /\ doc \in Document /\ doc.state = "approved" /\ doc.approvedBy = role
      /\ doc.proposedAction = store[c].proposedAction
      /\ doc.approvedAction = store[c].proposedAction
  BY <1>2, <1>4, <1>5 DEF Document
<1>7. Approving(c, role) = [m EXCEPT !.doc = doc]
  BY <1>5 DEF Approving, Write, Document, m
<1> QED
  BY <1>4, <1>5, <1>6, <1>7 DEF Write
-----------------------------------------------------------------------------
\* What the audit says, or will once its handler appends it, of a document:
\* its approval and its proposal are on record.
Recorded(c, doc) ==
    /\ doc.approvedAction /= NoAction => Audited(c, "approved", doc.approvedAction)
    /\ doc.proposedAction /= NoAction => Audited(c, "proposed", doc.proposedAction)

\* A write about to be made brings the record its document lacks.
Brings(write) ==
    /\ \/ write.doc.approvedAction = NoAction
       \/ Audited(write.case, "approved", write.doc.approvedAction)
       \/ write.record.event = "approved" /\ write.record.action = write.doc.approvedAction
    /\ \/ write.doc.proposedAction = NoAction
       \/ Audited(write.case, "proposed", write.doc.proposedAction)
       \/ write.record.event = "proposed" /\ write.record.action = write.doc.proposedAction
    /\ write.record.event = "approved"
          => Audited(write.case, "proposed", write.record.action)

\* Every operation prepares writes that are sound and bring their records, and
\* does nothing else.
LEMMA OperationWrites ==
    ASSUME TypeOK, SoundDocuments, NEW h \in Handler, Operation(h)
    PROVE  \E writes \in SUBSET Write :
              /\ Begin(h, writes)
              /\ \A write \in writes : SoundDocument(write.doc)
              /\ (\A c \in Case : Recorded(c, store[c])) => \A write \in writes : Brings(write)
<1> USE DEF SoundDocument, SoundApproval
<1> DEFINE Goal ==
      \E writes \in SUBSET Write :
          /\ Begin(h, writes)
          /\ \A write \in writes : SoundDocument(write.doc)
          /\ (\A c \in Case : Recorded(c, store[c])) => \A write \in writes : Brings(write)
<1>0. /\ \A c \in Case : SoundDocument(store[c])
      /\ \A s \in {"evidence_requested", "rejected", "closed", "manual_intervention"} : s \in Event
      /\ NoAction \notin Action
  BY WorkflowAssumption DEF SoundDocuments, Event, State
<1>1. ASSUME NEW c \in Case, NEW s \in {"evidence_requested", "rejected", "closed", "manual_intervention"},
             NEW role \in Role \cup {NoRole},
             store[c].approvedAction /= NoAction => s = "closed"
      PROVE  /\ Moved(c, s, NoAction, role) \in Write
             /\ SoundDocument(Moved(c, s, NoAction, role).doc)
             /\ Recorded(c, store[c]) => Brings(Moved(c, s, NoAction, role))
  <2>1. s \in Event /\ s /= "approved"
    BY <1>0
  <2>2. NoAction \in Action \cup {NoAction}
    OBVIOUS
  <2> DEFINE m == Moved(c, s, NoAction, role)
  <2>3. /\ m \in Write /\ m.case = c /\ m.doc.state = s
        /\ m.doc.proposedAction = store[c].proposedAction
        /\ m.doc.approvedAction = store[c].approvedAction
        /\ m.doc.approvedBy = store[c].approvedBy
        /\ m.record.event = s
    BY <2>1, <2>2, MovedWrite
  <2> QED
    BY <2>1, <2>3, <1>0, <1>1 DEF Recorded, Brings
<1>2. ASSUME NEW c \in Case, NEW role \in Role, RequestEvidence(h, c, role)
      PROVE  Goal
  BY <1>0, <1>1, <1>2 DEF RequestEvidence
<1>3. ASSUME NEW c \in Case, NEW role \in Role, NEW action \in Action,
             ProposeAction(h, c, role, action)
      PROVE  Goal
  <2>1. action \notin Forbidden /\ store[c].approvedAction = NoAction
    BY <1>0, <1>3 DEF ProposeAction
  <2>2. Begin(h, {Proposing(c, role, action)})
    BY <1>3 DEF ProposeAction, Proposing
  <2>3. SoundDocument(Proposing(c, role, action).doc)
    BY <2>1, ProposingWrite
  <2>4. Recorded(c, store[c]) => Brings(Proposing(c, role, action))
    BY <2>1, ProposingWrite DEF Recorded, Brings
  <2> QED
    BY <2>2, <2>3, <2>4, ProposingWrite
<1>4. ASSUME NEW c \in Case, NEW role \in Role, Approve(h, c, role)
      PROVE  Goal
  <2>1. role \in ApprovalRoles /\ store[c].proposedAction /= NoAction
    BY <1>4 DEF Approve
  <2>2. Begin(h, {Approving(c, role)})
    BY <1>4 DEF Approve, Approving
  <2>3. SoundDocument(Approving(c, role).doc)
    BY <1>0, <2>1, ApprovingWrite
  <2>4. Recorded(c, store[c]) => Brings(Approving(c, role))
    BY <2>1, ApprovingWrite DEF Recorded, Brings
  <2> QED
    BY <2>2, <2>3, <2>4, ApprovingWrite
<1>5. ASSUME NEW c \in Case, NEW role \in Role, Reject(h, c, role)
      PROVE  Goal
  BY <1>0, <1>1, <1>5 DEF Reject
<1>6. ASSUME NEW c \in Case, NEW role \in Role, Close(h, c, role)
      PROVE  Goal
  BY <1>0, <1>1, <1>6 DEF Close
<1>7. ASSUME CheckTimeouts(h)
      PROVE  Goal
  <2> DEFINE overdue == {c \in Case : Overdue(store[c])}
             writes == {Moved(c, "manual_intervention", NoAction, NoRole) : c \in overdue}
  <2>1. Begin(h, writes)
    BY <1>7 DEF CheckTimeouts
  <2>2. \A c \in overdue : store[c].approvedAction = NoAction
    BY <1>0 DEF Overdue
  <2>3. \A c \in overdue :
            /\ Moved(c, "manual_intervention", NoAction, NoRole) \in Write
            /\ SoundDocument(Moved(c, "manual_intervention", NoAction, NoRole).doc)
            /\ Recorded(c, store[c]) => Brings(Moved(c, "manual_intervention", NoAction, NoRole))
    BY <1>1, <2>2
  <2>4. writes \in SUBSET Write
    BY <2>3
  <2> HIDE DEF SoundDocument, SoundApproval
  <2>5. \A write \in writes : SoundDocument(write.doc)
    BY <2>3
  <2>6. (\A c \in Case : Recorded(c, store[c])) => \A write \in writes : Brings(write)
    BY <2>3
  <2> QED
    BY <2>1, <2>4, <2>5, <2>6
<1> QED
  BY <1>2, <1>3, <1>4, <1>5, <1>6, <1>7 DEF Operation
-----------------------------------------------------------------------------
(* Type correctness. *)

\* Every step keeps the variables in their types.
LEMMA TypeStep == TypeOK /\ SoundDocuments /\ [Next]_vars => TypeOK'
<1> SUFFICES ASSUME TypeOK, SoundDocuments, [Next]_vars PROVE TypeOK'
  OBVIOUS
<1> USE DEF TypeOK
<1>0. /\ MaxTime \in Nat /\ MaxRequests \in Nat /\ MaxFailures \in Nat /\ MaxDetections \in Nat
  BY WorkflowAssumption
<1>1. CASE UNCHANGED vars
  BY <1>1 DEF vars
<1>2. ASSUME NEW h \in Handler, Operation(h) PROVE TypeOK'
  <2>1. PICK writes \in SUBSET Write : Begin(h, writes)
    BY <1>2, OperationWrites
  <2> QED
    BY <1>0, <2>1 DEF Begin
<1>3. ASSUME NEW h \in Handler, UpsertCase(h) PROVE TypeOK'
  <2>1. PICK write \in pending[h] :
            /\ store' = [store EXCEPT ![write.case] = write.doc]
            /\ pending' = [pending EXCEPT ![h] = @ \ {write}]
            /\ auditing' = [auditing EXCEPT ![h] = {write}]
    BY <1>3 DEF UpsertCase
  <2>2. write \in Write /\ write.case \in Case /\ write.doc \in Document
    BY DEF Write
  <2> QED
    BY <1>3, <2>1, <2>2 DEF UpsertCase
<1>4. ASSUME NEW h \in Handler, AppendAudit(h) PROVE TypeOK'
  <2>1. PICK write \in auditing[h] :
            audit' = [audit EXCEPT ![write.case] = Append(@, write.record)]
    BY <1>4 DEF AppendAudit
  <2>2. write.case \in Case /\ write.record \in Record
    BY DEF Write
  <2>3. Append(audit[write.case], write.record) \in Seq(Record)
    BY <2>2
  <2> QED
    BY <1>4, <2>1, <2>2, <2>3 DEF AppendAudit
<1>5. ASSUME NEW h \in Handler, Fail(h) PROVE TypeOK'
  BY <1>0, <1>5 DEF Fail
<1>6. ASSUME NEW c \in Case, Materialize(c) PROVE TypeOK'
  <2> DEFINE doc == [NoDocument EXCEPT !.state = "detected"]
             record == [event |-> "detected", action |-> NoAction, role |-> NoRole]
  <2>1. doc \in Document /\ record \in Record
    BY DEF NoDocument, Document, State, Record, Event
  <2>2. Append(audit[c], record) \in Seq(Record)
    BY <2>1
  <2>3. store' \in [Case -> Document]
    BY <1>6, <2>1 DEF Materialize
  <2>4. audit' \in [Case -> Seq(Record)]
    BY <1>6, <2>2 DEF Materialize
  <2>5. detections' \in [Case -> 0..MaxDetections]
    BY <1>0, <1>6 DEF Materialize
  <2> QED
    BY <1>6, <2>3, <2>4, <2>5 DEF Materialize
<1>7. CASE Tick
  BY <1>0, <1>7 DEF Tick
<1> QED
  BY <1>1, <1>2, <1>3, <1>4, <1>5, <1>6, <1>7 DEF Next
-----------------------------------------------------------------------------
(* Approvals. *)

\* Every step leaves only sound documents, in the store and on their way.
LEMMA SoundStep == TypeOK /\ SoundDocuments /\ [Next]_vars => SoundDocuments'
<1> SUFFICES ASSUME TypeOK, SoundDocuments, [Next]_vars PROVE SoundDocuments'
  OBVIOUS
<1> USE DEF SoundDocuments
<1>1. CASE UNCHANGED vars
  BY <1>1 DEF vars
<1>2. ASSUME NEW h \in Handler, Operation(h) PROVE SoundDocuments'
  <2>1. PICK writes \in SUBSET Write :
            Begin(h, writes) /\ \A write \in writes : SoundDocument(write.doc)
    BY <1>2, OperationWrites
  <2> QED
    BY <2>1 DEF Begin, TypeOK
<1>3. ASSUME NEW h \in Handler, UpsertCase(h) PROVE SoundDocuments'
  BY <1>3 DEF UpsertCase, TypeOK
<1>4. ASSUME NEW h \in Handler, AppendAudit(h) PROVE SoundDocuments'
  BY <1>4 DEF AppendAudit
<1>5. ASSUME NEW h \in Handler, Fail(h) PROVE SoundDocuments'
  BY <1>5 DEF Fail, TypeOK
<1>6. ASSUME NEW c \in Case, Materialize(c) PROVE SoundDocuments'
  <2>1. SoundDocument([NoDocument EXCEPT !.state = "detected"])
    BY WorkflowAssumption DEF SoundDocument, SoundApproval, NoDocument
  <2> QED
    BY <1>6, <2>1 DEF Materialize, TypeOK
<1>7. CASE Tick
  BY <1>7 DEF Tick
<1> QED
  BY <1>1, <1>2, <1>3, <1>4, <1>5, <1>6, <1>7 DEF Next

\* At the start nothing is proposed, approved or on its way.
LEMMA Start == Init => TypeOK /\ SoundDocuments
BY WorkflowAssumption
   DEF Init, TypeOK, SoundDocuments, SoundDocument, SoundApproval, NoDocument, Document, State

LEMMA SoundInvariant == Spec => [](TypeOK /\ SoundDocuments)
<1>1. TypeOK /\ SoundDocuments /\ [Next]_vars => (TypeOK /\ SoundDocuments)'
  BY TypeStep, SoundStep
<1> QED
  BY Start, <1>1, PTL DEF Spec

\* The types of the workflow's state.
THEOREM TypeCorrect == Spec => []TypeOK
BY SoundInvariant, PTL

\* Whatever handlers, sweeps and detections overlap, an approval in a document
\* (state_machine.py, approve) is for the action that document proposes, of a
\* permitted type, and was given by an approving role.
THEOREM ApprovalCorrect == Spec => []ApprovalCoversAction
<1>1. SoundDocuments => ApprovalCoversAction
  BY DEF SoundDocuments, SoundDocument, ApprovalCoversAction
<1> QED
  BY SoundInvariant, <1>1, PTL
-----------------------------------------------------------------------------
(* The audit. *)

\* A handler has at most one record to append at a time.
OneRecord == \A h \in Handler : \A v, w \in auditing[h] : v = w

\* While nothing failed: every stored document is recorded, every write on its
\* way brings its record, and every approval on record has its proposal there.
AuditTrail ==
    /\ OneRecord
    /\ failures = 0 =>
          /\ \A c \in Case : Recorded(c, store[c])
          /\ \A h \in Handler : \A write \in pending[h] : Brings(write)
          /\ \A h \in Handler : \A write \in auditing[h] :
                write.record.event = "approved" => Audited(write.case, "proposed", write.record.action)
          /\ ApprovalHasProposal

\* What is audited, or about to be, stays so.
LEMMA AuditedStays ==
    ASSUME TypeOK, OneRecord, NEW c \in Case, NEW event, NEW action,
           Audited(c, event, action),
           \/ UNCHANGED <<audit, auditing>>
           \/ \E h \in Handler : UpsertCase(h) \/ AppendAudit(h)
           \/ \E d \in Case : Materialize(d)
    PROVE  Audited(c, event, action)'
<1>1. CASE UNCHANGED <<audit, auditing>>
  BY <1>1 DEF Audited
<1>2. ASSUME NEW h \in Handler, UpsertCase(h) PROVE Audited(c, event, action)'
  <2>1. auditing[h] = {} /\ audit' = audit
    BY <1>2 DEF UpsertCase
  <2>2. \A g \in Handler : g /= h => auditing'[g] = auditing[g]
    BY <1>2 DEF UpsertCase, TypeOK
  <2> QED
    BY <2>1, <2>2 DEF Audited
<1>3. ASSUME NEW h \in Handler, AppendAudit(h) PROVE Audited(c, event, action)'
  <2>1. PICK write \in auditing[h] :
            audit' = [audit EXCEPT ![write.case] = Append(@, write.record)]
    BY <1>3 DEF AppendAudit
  <2>2. /\ write.case \in Case /\ write.record \in Record
        /\ \A d \in Case : audit[d] \in Seq(Record)
    BY DEF TypeOK, Write
  <2>3. auditing' = [auditing EXCEPT ![h] = {}]
    BY <1>3 DEF AppendAudit
  <2>4. /\ Len(audit'[c]) >= Len(audit[c])
        /\ \A i \in 1..Len(audit[c]) : audit'[c][i] = audit[c][i]
    BY <2>1, <2>2 DEF TypeOK
  <2>5. CASE \E i \in 1..Len(audit[c]) : audit[c][i].event = event /\ audit[c][i].action = action
    <3>1. Len(audit[c]) \in Nat /\ Len(audit'[c]) \in Nat
      BY <2>1, <2>2 DEF TypeOK
    <3> QED
      BY <2>4, <2>5, <3>1 DEF Audited
  <2>6. CASE \E g \in Handler : \E v \in auditing[g] :
                v.case = c /\ v.record.event = event /\ v.record.action = action
    <3>0. PICK g \in Handler : \E v \in auditing[g] :
              v.case = c /\ v.record.event = event /\ v.record.action = action
      BY <2>6
    <3>1. PICK v \in auditing[g] :
              v.case = c /\ v.record.event = event /\ v.record.action = action
      BY <3>0
    <3>2. CASE g = h
      <4>1. v = write
        BY <3>2 DEF OneRecord
      <4>2. audit'[c] = Append(audit[c], write.record)
        BY <2>1, <3>1, <4>1 DEF TypeOK
      <4>3. /\ Len(audit'[c]) \in 1..Len(audit'[c])
            /\ audit'[c][Len(audit'[c])] = write.record
        BY <2>2, <4>2
      <4> QED
        BY <3>1, <4>1, <4>3 DEF Audited
    <3>3. CASE g /= h
      <4>1. auditing'[g] = auditing[g]
        BY <2>3, <3>3 DEF TypeOK
      <4> QED
        BY <3>1, <4>1 DEF Audited
    <3> QED
      BY <3>2, <3>3
  <2> QED
    BY <2>5, <2>6 DEF Audited
<1>4. ASSUME NEW d \in Case, Materialize(d) PROVE Audited(c, event, action)'
  <2> DEFINE record == [event |-> "detected", action |-> NoAction, role |-> NoRole]
  <2>1. auditing' = auditing
    BY <1>4 DEF Materialize
  <2>2. audit[c] \in Seq(Record) /\ record \in Record
    BY DEF TypeOK, Record, Event, State
  <2>3. audit'[c] = audit[c] \/ audit'[c] = Append(audit[c], record)
    BY <1>4 DEF Materialize, TypeOK
  <2>4. /\ Len(audit[c]) \in Nat /\ Len(audit'[c]) \in Nat
        /\ Len(audit'[c]) >= Len(audit[c])
        /\ \A i \in 1..Len(audit[c]) : audit'[c][i] = audit[c][i]
    BY <2>2, <2>3
  <2> QED
    BY <2>1, <2>4 DEF Audited
<1> QED
  BY <1>1, <1>2, <1>3, <1>4

\* The same of a document's records and of a write's.
LEMMA RecordedStays ==
    ASSUME TypeOK, OneRecord, 
           \/ UNCHANGED <<audit, auditing>>
           \/ \E h \in Handler : UpsertCase(h) \/ AppendAudit(h)
           \/ \E d \in Case : Materialize(d)
    PROVE  /\ \A c \in Case, doc \in Document : Recorded(c, doc) => Recorded(c, doc)'
           /\ \A write \in Write : Brings(write) => Brings(write)'
<1>1. \A write \in Write : write.case \in Case
  BY DEF Write
<1> QED
  BY <1>1, AuditedStays DEF Recorded, Brings

\* The approvals already on record keep their proposals.
LEMMA ProposalsStay ==
    ASSUME TypeOK, OneRecord, ApprovalHasProposal, failures = 0, failures' = 0,
           \/ UNCHANGED <<audit, auditing>>
           \/ \E h \in Handler : UpsertCase(h) \/ AppendAudit(h)
           \/ \E d \in Case : Materialize(d),
           \A c \in Case : \A i \in 1..Len(audit'[c]) :
              \/ i \in 1..Len(audit[c]) /\ audit'[c][i] = audit[c][i]
              \/ audit'[c][i].event /= "approved"
              \/ Audited(c, "proposed", audit'[c][i].action)
    PROVE  ApprovalHasProposal'
<1>1. \A c \in Case : \A i \in 1..Len(audit'[c]) :
          audit'[c][i].event = "approved" => Audited(c, "proposed", audit'[c][i].action)
  BY DEF ApprovalHasProposal
<1>2. \A c \in Case : \A a : Audited(c, "proposed", a) => Audited(c, "proposed", a)'
  BY AuditedStays
<1> QED
  BY <1>1, <1>2 DEF ApprovalHasProposal

\* Every step leaves the trail complete.
LEMMA AuditStep ==
    TypeOK /\ SoundDocuments /\ AuditTrail /\ [Next]_vars => AuditTrail'
<1> SUFFICES ASSUME TypeOK, SoundDocuments, AuditTrail, [Next]_vars PROVE AuditTrail'
  OBVIOUS
<1>0. /\ TypeOK' /\ OneRecord
      /\ \A h \in Handler : pending[h] \subseteq Write /\ auditing[h] \subseteq Write
      /\ \A c \in Case : store[c] \in Document
      /\ failures \in Nat
  BY TypeStep DEF AuditTrail, TypeOK
<1> DEFINE Documents == \A c \in Case : Recorded(c, store[c])
           Writes == \A h \in Handler : \A write \in pending[h] : Brings(write)
           Records == \A h \in Handler : \A write \in auditing[h] :
               write.record.event = "approved" => Audited(write.case, "proposed", write.record.action)
<1>1. CASE UNCHANGED vars
  BY <1>1 DEF vars, AuditTrail, OneRecord, Recorded, Brings, Audited, ApprovalHasProposal
<1>2. ASSUME NEW h \in Handler, Operation(h) PROVE AuditTrail'
  <2>1. PICK writes \in SUBSET Write :
            /\ Begin(h, writes)
            /\ (\A c \in Case : Recorded(c, store[c])) => \A write \in writes : Brings(write)
    BY <1>2, OperationWrites
  <2>2. UNCHANGED <<audit, auditing, store, failures>> /\ pending' = [pending EXCEPT ![h] = writes]
    BY <2>1 DEF Begin
  <2>3. OneRecord'
    BY <1>0, <2>2 DEF OneRecord
  <2>4. SUFFICES ASSUME failures = 0
                 PROVE  Documents' /\ Writes' /\ Records' /\ ApprovalHasProposal'
    BY <2>2, <2>3 DEF AuditTrail
  <2>5. Documents /\ Writes /\ Records /\ ApprovalHasProposal
    BY <2>4 DEF AuditTrail
  <2>6. /\ \A c \in Case, doc \in Document : Recorded(c, doc) => Recorded(c, doc)'
        /\ \A write \in Write : Brings(write) => Brings(write)'
    BY <1>0, <2>2, RecordedStays
  <2>7. Documents'
    BY <1>0, <2>2, <2>5, <2>6
  <2>8. \A g \in Handler : \A write \in pending'[g] : write \in Write /\ Brings(write)
    BY <1>0, <2>1, <2>2, <2>5 DEF TypeOK
  <2>9. Writes'
    BY <2>6, <2>8
  <2>10. Records' /\ ApprovalHasProposal'
    BY <2>2, <2>4, <2>5 DEF Audited, ApprovalHasProposal
  <2> QED
    BY <2>7, <2>9, <2>10
<1>3. ASSUME NEW h \in Handler, UpsertCase(h) PROVE AuditTrail'
  <2>1. PICK write \in pending[h] :
            /\ store' = [store EXCEPT ![write.case] = write.doc]
            /\ pending' = [pending EXCEPT ![h] = @ \ {write}]
            /\ auditing' = [auditing EXCEPT ![h] = {write}]
    BY <1>3 DEF UpsertCase
  <2>2. UNCHANGED <<audit, failures>> /\ write \in Write
    BY <1>0, <1>3 DEF UpsertCase
  <2>3. OneRecord'
    BY <1>0, <2>1 DEF OneRecord, TypeOK
  <2>4. SUFFICES ASSUME failures = 0
                 PROVE  Documents' /\ Writes' /\ Records' /\ ApprovalHasProposal'
    BY <2>2, <2>3 DEF AuditTrail
  <2>5. Documents /\ Writes /\ Records /\ ApprovalHasProposal
    BY <2>4 DEF AuditTrail
  <2>6. /\ \A c \in Case, doc \in Document : Recorded(c, doc) => Recorded(c, doc)'
        /\ \A v \in Write : Brings(v) => Brings(v)'
    BY <1>0, <1>3, RecordedStays
  <2>7. write \in auditing'[h] /\ write.case \in Case /\ write.doc \in Document
    BY <2>1, <2>2 DEF TypeOK, Write
  <2>8. Brings(write)'
    BY <2>2, <2>5, <2>6
  <2>9. Recorded(write.case, write.doc)'
    BY <2>7, <2>8 DEF Recorded, Brings, Audited
  <2>10. Documents'
    BY <1>0, <2>1, <2>5, <2>6, <2>7, <2>9 DEF TypeOK
  <2>11. Writes'
    BY <1>0, <2>1, <2>5, <2>6 DEF TypeOK
  <2>12. \A g \in Handler : \A v \in auditing'[g] :
            v = write \/ v \in auditing[g]
    BY <2>1 DEF TypeOK
  <2>13. Records'
    <3>1. \A v \in Write : \A a : Audited(v.case, "proposed", a) => Audited(v.case, "proposed", a)'
      BY <1>0, <1>3, AuditedStays DEF Write
    <3> QED
      BY <1>0, <2>2, <2>5, <2>8, <2>12, <3>1 DEF Brings
  <2>14. ApprovalHasProposal'
    BY <1>0, <1>3, <2>2, <2>4, <2>5, ProposalsStay
  <2> QED
    BY <2>10, <2>11, <2>13, <2>14
<1>4. ASSUME NEW h \in Handler, AppendAudit(h) PROVE AuditTrail'
  <2>1. PICK write \in auditing[h] :
            audit' = [audit EXCEPT ![write.case] = Append(@, write.record)]
    BY <1>4 DEF AppendAudit
  <2>2. /\ UNCHANGED <<store, pending, failures>>
        /\ auditing' = [auditing EXCEPT ![h] = {}]
        /\ write.case \in Case /\ write.record \in Record
    BY <1>0, <1>4 DEF AppendAudit, Write
  <2>3. OneRecord'
    BY <1>0, <2>2 DEF OneRecord, TypeOK
  <2>4. SUFFICES ASSUME failures = 0
                 PROVE  Documents' /\ Writes' /\ Records' /\ ApprovalHasProposal'
    BY <2>2, <2>3 DEF AuditTrail
  <2>5. Documents /\ Writes /\ Records /\ ApprovalHasProposal
    BY <2>4 DEF AuditTrail
  <2>6. /\ \A c \in Case, doc \in Document : Recorded(c, doc) => Recorded(c, doc)'
        /\ \A v \in Write : Brings(v) => Brings(v)'
    BY <1>0, <1>4, RecordedStays
  <2>7. Documents' /\ Writes'
    BY <1>0, <2>2, <2>5, <2>6
  <2>8. \A g \in Handler : auditing'[g] \subseteq auditing[g]
    BY <2>2 DEF TypeOK
  <2>9. Records'
    <3>1. \A v \in Write : \A a : Audited(v.case, "proposed", a) => Audited(v.case, "proposed", a)'
      BY <1>0, <1>4, AuditedStays DEF Write
    <3> QED
      BY <1>0, <2>5, <2>8, <3>1
  <2>10. \A c \in Case : \A i \in 1..Len(audit'[c]) :
            \/ i \in 1..Len(audit[c]) /\ audit'[c][i] = audit[c][i]
            \/ c = write.case /\ audit'[c][i] = write.record
    BY <2>1, <2>2 DEF TypeOK
  <2>11. ApprovalHasProposal'
    BY <1>0, <1>4, <2>2, <2>4, <2>5, <2>10, ProposalsStay
  <2> QED
    BY <2>7, <2>9, <2>11
<1>5. ASSUME NEW h \in Handler, Fail(h) PROVE AuditTrail'
  <2>1. failures' /= 0
    BY <1>0, <1>5 DEF Fail
  <2>2. OneRecord'
    BY <1>0, <1>5 DEF Fail, OneRecord, TypeOK
  <2> QED
    BY <2>1, <2>2 DEF AuditTrail
<1>6. ASSUME NEW c \in Case, Materialize(c) PROVE AuditTrail'
  <2> DEFINE record == [event |-> "detected", action |-> NoAction, role |-> NoRole]
  <2>1. /\ UNCHANGED <<pending, auditing, failures>>
        /\ store' = [store EXCEPT ![c] = [NoDocument EXCEPT !.state = "detected"]]
        /\ audit' = audit \/ audit' = [audit EXCEPT ![c] = Append(@, record)]
    BY <1>6 DEF Materialize
  <2>2. OneRecord'
    BY <1>0, <2>1 DEF OneRecord
  <2>3. SUFFICES ASSUME failures = 0
                 PROVE  Documents' /\ Writes' /\ Records' /\ ApprovalHasProposal'
    BY <2>1, <2>2 DEF AuditTrail
  <2>4. Documents /\ Writes /\ Records /\ ApprovalHasProposal
    BY <2>3 DEF AuditTrail
  <2>5. /\ \A d \in Case, doc \in Document : Recorded(d, doc) => Recorded(d, doc)'
        /\ \A v \in Write : Brings(v) => Brings(v)'
    BY <1>0, <1>6, RecordedStays
  <2>6. Recorded(c, [NoDocument EXCEPT !.state = "detected"])'
    BY DEF Recorded, NoDocument
  <2>7. Documents'
    BY <1>0, <2>1, <2>4, <2>5, <2>6 DEF TypeOK
  <2>8. Writes'
    BY <1>0, <2>1, <2>4, <2>5
  <2>9. Records'
    <3>1. \A v \in Write : \A a : Audited(v.case, "proposed", a) => Audited(v.case, "proposed", a)'
      BY <1>0, <1>6, AuditedStays DEF Write
    <3>2. \A g \in Handler : \A v \in auditing'[g] :
              v \in Write /\ (v.record.event = "approved" => Audited(v.case, "proposed", v.record.action))
      BY <1>0, <2>1, <2>4
    <3> QED
      BY <3>1, <3>2
  <2>10. record \in Record /\ record.event /= "approved"
    BY DEF Record, Event, State
  <2>11. \A d \in Case : \A i \in 1..Len(audit'[d]) :
            \/ i \in 1..Len(audit[d]) /\ audit'[d][i] = audit[d][i]
            \/ audit'[d][i] = record
    <3> HIDE DEF record
    <3>1. ASSUME NEW d \in Case
          PROVE  audit'[d] = audit[d] \/ audit'[d] = Append(audit[d], record)
      BY <2>1 DEF TypeOK
    <3>2. \A d \in Case : audit[d] \in Seq(Record)
      BY DEF TypeOK
    <3> QED
      BY <2>10, <3>1, <3>2
  <2>12. ApprovalHasProposal'
    <3>1. failures' = 0 /\ \E d \in Case : Materialize(d)
      BY <1>6, <2>1, <2>3
    <3> QED
      BY <1>0, <2>3, <2>4, <2>10, <2>11, <3>1, ProposalsStay
  <2> QED
    BY <2>7, <2>8, <2>9, <2>12
<1>7. CASE Tick
  BY <1>7 DEF Tick, AuditTrail, OneRecord, Recorded, Brings, Audited, ApprovalHasProposal
<1> QED
  BY <1>1, <1>2, <1>3, <1>4, <1>5, <1>6, <1>7 DEF Next

LEMMA AuditInvariant == Spec => []AuditTrail
<1>1. Init => AuditTrail
  BY DEF Init, AuditTrail, OneRecord, Recorded, ApprovalHasProposal, NoDocument
<1>2. TypeOK /\ SoundDocuments /\ AuditTrail /\ [Next]_vars => AuditTrail'
  BY AuditStep
<1> QED
  BY <1>1, <1>2, SoundInvariant, PTL DEF Spec

\* While no operation was cut short, the approval a document carries is in the
\* audit, or about to be, whichever handler overwrote the document since.
THEOREM ApprovalAudited == Spec => []ApprovalIsAudited
<1>1. AuditTrail => ApprovalIsAudited
  BY DEF AuditTrail, Recorded, ApprovalIsAudited
<1> QED
  BY AuditInvariant, <1>1, PTL

\* While no operation was cut short, an audited approval is of an action whose
\* proposal was audited too.
THEOREM ApprovalProposed == Spec => []ApprovalHasProposal
<1>1. AuditTrail => ApprovalHasProposal
  BY DEF AuditTrail, ApprovalHasProposal
<1> QED
  BY AuditInvariant, <1>1, PTL

\* Without failures both hold, however operations, sweeps and detections overlap:
\* an approval can be traced to who proposed and who approved it.
THEOREM ApprovalTraced == Spec => []ApprovalsAreTraced
<1>1. ApprovalIsAudited /\ ApprovalHasProposal => ApprovalsAreTraced
  BY DEF ApprovalsAreTraced
<1> QED
  BY ApprovalAudited, ApprovalProposed, <1>1, PTL
-----------------------------------------------------------------------------
(* Escalations. *)

\* A document that says a person must intervene carries an overdue proposal.
Escalated(doc) ==
    doc.state = "manual_intervention" =>
        doc.proposedAction /= NoAction /\ now - doc.proposedAt >= ProposalTimeout

\* In the store and in every prepared write: a sweep writes the copy it judged.
EscalatedDocuments ==
    /\ \A c \in Case : Escalated(store[c])
    /\ \A h \in Handler : \A write \in pending[h] : Escalated(write.doc)

\* Of the operations only the sweep escalates, and only what is overdue.
LEMMA EscalatingWrites ==
    ASSUME TypeOK, SoundDocuments, NEW h \in Handler, Operation(h)
    PROVE  \E writes \in SUBSET Write :
              Begin(h, writes) /\ \A write \in writes : Escalated(write.doc)
<1> DEFINE Goal ==
      \E writes \in SUBSET Write :
          Begin(h, writes) /\ \A write \in writes : Escalated(write.doc)
<1>1. ASSUME NEW writes, Begin(h, writes), \A write \in writes : Escalated(write.doc)
      PROVE  Goal
  <2>1. PICK others \in SUBSET Write : Begin(h, others)
    BY OperationWrites
  <2>2. pending' = [pending EXCEPT ![h] = writes] /\ pending' = [pending EXCEPT ![h] = others]
    BY <1>1, <2>1 DEF Begin
  <2>3. writes = others
    BY <2>2 DEF TypeOK
  <2> QED
    BY <1>1, <2>1, <2>3
<1>2. ASSUME NEW c \in Case, NEW state \in Event \ {"manual_intervention"},
             NEW action \in Action \cup {NoAction}, NEW role \in Role \cup {NoRole}
      PROVE  Escalated(Moved(c, state, action, role).doc)
  BY <1>2, MovedWrite DEF Escalated
<1>3. ASSUME NEW c \in Case, NEW role \in Role, RequestEvidence(h, c, role)
      PROVE  Goal
  <2>1. Escalated(Moved(c, "evidence_requested", NoAction, role).doc)
    BY <1>2 DEF Event, State
  <2> QED
    BY <1>1, <1>3, <2>1 DEF RequestEvidence
<1>4. ASSUME NEW c \in Case, NEW role \in Role, NEW action \in Action,
             ProposeAction(h, c, role, action)
      PROVE  Goal
  <2>1. "proposed" \in Event
    BY DEF Event, State
  <2>2. Moved(c, "proposed", action, role) \in Write /\ Moved(c, "proposed", action, role).doc.state = "proposed"
    BY <2>1, MovedWrite
  <2>3. Proposing(c, role, action).doc.state = "proposed"
    BY <2>2 DEF Proposing, Write, Document
  <2>4. Begin(h, {Proposing(c, role, action)})
    BY <1>4 DEF ProposeAction, Proposing
  <2>5. Escalated(Proposing(c, role, action).doc)
    BY <2>3 DEF Escalated
  <2> HIDE DEF Goal
  <2> QED
    BY <1>1, <2>4, <2>5
<1>5. ASSUME NEW c \in Case, NEW role \in Role, Approve(h, c, role)
      PROVE  Goal
  <2>1. role \in ApprovalRoles /\ store[c].proposedAction /= NoAction
    BY <1>5 DEF Approve
  <2>2. Begin(h, {Approving(c, role)})
    BY <1>5 DEF Approve, Approving
  <2>3. Approving(c, role).doc.state = "approved"
    BY <2>1, ApprovingWrite
  <2>4. Escalated(Approving(c, role).doc)
    BY <2>3 DEF Escalated
  <2> HIDE DEF Goal
  <2> QED
    BY <1>1, <2>2, <2>4
<1>6. ASSUME NEW c \in Case, NEW role \in Role, Reject(h, c, role)
      PROVE  Goal
  <2>1. Escalated(Moved(c, "rejected", NoAction, role).doc)
    BY <1>2 DEF Event, State
  <2> QED
    BY <1>1, <1>6, <2>1 DEF Reject
<1>7. ASSUME NEW c \in Case, NEW role \in Role, Close(h, c, role)
      PROVE  Goal
  <2>1. Escalated(Moved(c, "closed", NoAction, role).doc)
    BY <1>2 DEF Event, State
  <2> QED
    BY <1>1, <1>7, <2>1 DEF Close
<1>8. ASSUME CheckTimeouts(h)
      PROVE  Goal
  <2> DEFINE overdue == {c \in Case : Overdue(store[c])}
             writes == {Moved(c, "manual_intervention", NoAction, NoRole) : c \in overdue}
  <2>1. Begin(h, writes)
    BY <1>8 DEF CheckTimeouts
  <2>2. ASSUME NEW c \in overdue
        PROVE  Escalated(Moved(c, "manual_intervention", NoAction, NoRole).doc)
    <3>1. store[c] \in Document
      BY DEF TypeOK
    <3>2. /\ Moved(c, "manual_intervention", NoAction, NoRole).doc.proposedAction = store[c].proposedAction
          /\ Moved(c, "manual_intervention", NoAction, NoRole).doc.proposedAt = store[c].proposedAt
      BY <3>1 DEF Moved, Document
    <3> QED
      BY <3>2 DEF Overdue, Escalated
  <2>3. \A write \in writes : Escalated(write.doc)
    BY <2>2
  <2> HIDE DEF writes, Goal
  <2> QED
    BY <1>1, <2>1, <2>3
<1> QED
  BY <1>3, <1>4, <1>5, <1>6, <1>7, <1>8 DEF Operation

LEMMA EscalatedStep ==
    TypeOK /\ SoundDocuments /\ EscalatedDocuments /\ [Next]_vars => EscalatedDocuments'
<1> SUFFICES ASSUME TypeOK, SoundDocuments, EscalatedDocuments, [Next]_vars
             PROVE  EscalatedDocuments'
  OBVIOUS
<1> USE DEF EscalatedDocuments
<1>1. CASE UNCHANGED vars
  BY <1>1 DEF vars, Escalated
<1>2. ASSUME NEW h \in Handler, Operation(h) PROVE EscalatedDocuments'
  <2>1. PICK writes \in SUBSET Write :
            Begin(h, writes) /\ \A write \in writes : Escalated(write.doc)
    BY <1>2, EscalatingWrites
  <2> QED
    BY <2>1 DEF Begin, TypeOK, Escalated
<1>3. ASSUME NEW h \in Handler, UpsertCase(h) PROVE EscalatedDocuments'
  BY <1>3 DEF UpsertCase, TypeOK, Escalated
<1>4. ASSUME NEW h \in Handler, AppendAudit(h) PROVE EscalatedDocuments'
  BY <1>4 DEF AppendAudit, Escalated
<1>5. ASSUME NEW h \in Handler, Fail(h) PROVE EscalatedDocuments'
  BY <1>5 DEF Fail, TypeOK, Escalated
<1>6. ASSUME NEW c \in Case, Materialize(c) PROVE EscalatedDocuments'
  BY <1>6 DEF Materialize, NoDocument, TypeOK, Escalated
<1>7. ASSUME Tick PROVE EscalatedDocuments'
  <2>1. \A doc \in Document : doc.proposedAt \in Nat
    BY DEF Document
  <2>2. ASSUME NEW doc \in Document, Escalated(doc)
        PROVE  doc.state = "manual_intervention" =>
                   doc.proposedAction /= NoAction /\ now' - doc.proposedAt >= ProposalTimeout
    BY <1>7, <2>1, <2>2, WorkflowAssumption DEF Tick, TypeOK, Escalated
  <2>3. \A c \in Case : store'[c] = store[c] /\ store[c] \in Document
    BY <1>7 DEF Tick, TypeOK
  <2>4. \A h \in Handler : pending'[h] = pending[h] /\ \A write \in pending[h] : write.doc \in Document
    BY <1>7 DEF Tick, TypeOK, Write
  <2>5. \A c \in Case : Escalated(store[c])'
    BY <2>2, <2>3 DEF Escalated
  <2>6. \A h \in Handler : \A write \in pending'[h] :
            write.doc.state = "manual_intervention" =>
                /\ write.doc.proposedAction /= NoAction
                /\ now' - write.doc.proposedAt >= ProposalTimeout
    BY <2>2, <2>4
  <2> QED
    BY <2>5, <2>6 DEF Escalated
<1> QED
  BY <1>1, <1>2, <1>3, <1>4, <1>5, <1>6, <1>7 DEF Next

\* A case is escalated (state_machine.py, check_timeouts) only with a proposal
\* that is overdue, whatever was proposed while the sweep wrote its list.
THEOREM EscalationCorrect == Spec => []EscalatedWasOverdue
<1>1. Init => EscalatedDocuments
  BY DEF Init, EscalatedDocuments, Escalated, NoDocument
<1>2. TypeOK /\ SoundDocuments /\ EscalatedDocuments /\ [Next]_vars
        => (TypeOK /\ SoundDocuments /\ EscalatedDocuments)'
  BY TypeStep, SoundStep, EscalatedStep
<1>3. EscalatedDocuments => EscalatedWasOverdue
  BY DEF EscalatedDocuments, Escalated, EscalatedWasOverdue
<1> QED
  BY Start, <1>1, <1>2, <1>3, PTL DEF Spec
-----------------------------------------------------------------------------
(* The life of a case, as long as no two operations on it overlap.         *)

\* No two handlers hold documents of the same case that they have yet to write.
WritesApart ==
    \A g, h \in Handler : g /= h => \A v \in pending[g], w \in pending[h] : v.case /= w.case

\* A case that is known is materialised again.
DetectsAgain == \E c \in Case : Materialize(c) /\ store[c].state /= "absent"

\* The steps of a case's life, as changes of its document.
Legal(old, new) ==
    LET kept == new.proposedAction = old.proposedAction /\ new.approvedAction = old.approvedAction
    IN  \/ /\ old.state \in {"detected", "evidence_requested", "proposed"}
           /\ new.state = "evidence_requested" /\ kept
        \/ /\ old.state \in {"detected", "evidence_requested", "rejected"}
           /\ new.state = "proposed" /\ new.proposedAction \in Action
           /\ new.approvedAction = old.approvedAction
        \/ /\ old.state = "proposed" /\ new.state = "approved"
           /\ new.proposedAction = old.proposedAction
           /\ new.approvedAction = old.proposedAction
        \/ old.state = "proposed" /\ new.state \in {"rejected", "manual_intervention"} /\ kept
        \/ /\ old.state \in {"approved", "rejected", "manual_intervention"}
           /\ new.state = "closed" /\ kept

LegalWrites(writes) ==
    /\ \A write \in writes : Legal(store[write.case], write.doc)
    /\ \A v, w \in writes : v.case = w.case => v = w

\* What a handler has prepared still fits the store, and nothing is known of an
\* absent case.
Alone ==
    /\ \A h \in Handler : LegalWrites(pending[h])
    /\ \A c \in Case : store[c].state = "absent" => store[c] = NoDocument

\* Every operation prepares legal writes, one for each case it is about.
LEMMA OperationIsLegal ==
    ASSUME TypeOK, SoundDocuments, NEW h \in Handler, Operation(h)
    PROVE  \E writes \in SUBSET Write : Begin(h, writes) /\ LegalWrites(writes)
<1> DEFINE Goal == \E writes \in SUBSET Write : Begin(h, writes) /\ LegalWrites(writes)
<1>1. ASSUME NEW writes, Begin(h, writes), LegalWrites(writes)
      PROVE  Goal
  <2>1. PICK others \in SUBSET Write : Begin(h, others)
    BY OperationWrites
  <2>2. pending' = [pending EXCEPT ![h] = writes] /\ pending' = [pending EXCEPT ![h] = others]
    BY <1>1, <2>1 DEF Begin
  <2>3. writes = others
    BY <2>2 DEF TypeOK
  <2> QED
    BY <1>1, <2>1, <2>3
<1> HIDE DEF Goal
<1>2. ASSUME NEW write, Begin(h, {write}), Legal(store[write.case], write.doc)
      PROVE  Goal
  <2>1. LegalWrites({write})
    BY <1>2 DEF LegalWrites
  <2> QED
    BY <1>1, <1>2, <2>1
<1>3. ASSUME NEW c \in Case, NEW state \in Event, NEW role \in Role \cup {NoRole}
      PROVE  LET m == Moved(c, state, NoAction, role)
             IN  /\ m.case = c /\ m.doc.state = state
                 /\ m.doc.proposedAction = store[c].proposedAction
                 /\ m.doc.approvedAction = store[c].approvedAction
  BY MovedWrite
<1>4. ASSUME NEW c \in Case, NEW role \in Role, RequestEvidence(h, c, role)
      PROVE  Goal
  <2> DEFINE m == Moved(c, "evidence_requested", NoAction, role)
  <2>1. /\ m.case = c /\ m.doc.state = "evidence_requested"
        /\ m.doc.proposedAction = store[c].proposedAction
        /\ m.doc.approvedAction = store[c].approvedAction
    BY <1>3 DEF Event, State
  <2>2. Begin(h, {m}) /\ store[c].state \in {"detected", "evidence_requested", "proposed"}
    BY <1>4 DEF RequestEvidence
  <2> HIDE DEF m
  <2> QED
    BY <1>2, <2>1, <2>2 DEF Legal
<1>5. ASSUME NEW c \in Case, NEW role \in Role, NEW action \in Action,
             ProposeAction(h, c, role, action)
      PROVE  Goal
  <2> DEFINE m == Proposing(c, role, action)
  <2>1. "proposed" \in Event
    BY DEF Event, State
  <2>2. Moved(c, "proposed", action, role) \in Write /\ Moved(c, "proposed", action, role).doc.state = "proposed"
    BY <2>1, MovedWrite
  <2>3. m.doc.state = "proposed"
    BY <2>2 DEF Proposing, Write, Document
  <2>4. /\ m.case = c /\ m.doc.proposedAction = action
        /\ m.doc.approvedAction = store[c].approvedAction
    BY ProposingWrite
  <2>5. Begin(h, {m}) /\ store[c].state \in {"detected", "evidence_requested", "rejected"}
    BY <1>5 DEF ProposeAction, Proposing
  <2> HIDE DEF m
  <2> QED
    BY <1>2, <2>3, <2>4, <2>5 DEF Legal
<1>6. ASSUME NEW c \in Case, NEW role \in Role, Approve(h, c, role)
      PROVE  Goal
  <2> DEFINE m == Approving(c, role)
  <2>1. Begin(h, {m}) /\ store[c].state = "proposed"
    BY <1>6 DEF Approve, Approving
  <2>2. /\ m.case = c /\ m.doc.state = "approved"
        /\ m.doc.proposedAction = store[c].proposedAction
        /\ m.doc.approvedAction = store[c].proposedAction
    BY ApprovingWrite
  <2> HIDE DEF m
  <2> QED
    BY <1>2, <2>1, <2>2 DEF Legal
<1>7. ASSUME NEW c \in Case, NEW role \in Role, Reject(h, c, role)
      PROVE  Goal
  <2> DEFINE m == Moved(c, "rejected", NoAction, role)
  <2>1. /\ m.case = c /\ m.doc.state = "rejected"
        /\ m.doc.proposedAction = store[c].proposedAction
        /\ m.doc.approvedAction = store[c].approvedAction
    BY <1>3 DEF Event, State
  <2>2. Begin(h, {m}) /\ store[c].state = "proposed"
    BY <1>7 DEF Reject
  <2> HIDE DEF m
  <2> QED
    BY <1>2, <2>1, <2>2 DEF Legal
<1>8. ASSUME NEW c \in Case, NEW role \in Role, Close(h, c, role)
      PROVE  Goal
  <2> DEFINE m == Moved(c, "closed", NoAction, role)
  <2>1. /\ m.case = c /\ m.doc.state = "closed"
        /\ m.doc.proposedAction = store[c].proposedAction
        /\ m.doc.approvedAction = store[c].approvedAction
    BY <1>3 DEF Event, State
  <2>2. Begin(h, {m}) /\ store[c].state \in {"approved", "rejected", "manual_intervention"}
    BY <1>8 DEF Close
  <2> HIDE DEF m
  <2> QED
    BY <1>2, <2>1, <2>2 DEF Legal
<1>9. ASSUME CheckTimeouts(h)
      PROVE  Goal
  <2> DEFINE overdue == {c \in Case : Overdue(store[c])}
             escalation(c) == Moved(c, "manual_intervention", NoAction, NoRole)
             writes == {escalation(c) : c \in overdue}
  <2>1. Begin(h, writes)
    BY <1>9 DEF CheckTimeouts
  <2>2. \A c \in overdue :
            /\ escalation(c).case = c /\ escalation(c).doc.state = "manual_intervention"
            /\ escalation(c).doc.proposedAction = store[c].proposedAction
            /\ escalation(c).doc.approvedAction = store[c].approvedAction
            /\ store[c].state = "proposed"
    BY <1>3 DEF Event, State, Overdue
  <2> HIDE DEF escalation
  <2>3. \A c \in overdue : escalation(c).case = c /\ Legal(store[c], escalation(c).doc)
    BY <2>2 DEF Legal
  <2>4. LegalWrites(writes)
    BY <2>3 DEF LegalWrites
  <2> HIDE DEF writes
  <2> QED
    BY <1>1, <2>1, <2>4
<1> QED
  BY <1>4, <1>5, <1>6, <1>7, <1>8, <1>9 DEF Operation, Goal

\* A materialisation is a step that changes the variables.
LEMMA DetectionChanges ==
    ASSUME TypeOK, [~DetectsAgain]_vars, NEW c \in Case, Materialize(c)
    PROVE  ~DetectsAgain
<1>1. detections[c] \in Nat /\ detections' = [detections EXCEPT ![c] = @ + 1]
  BY WorkflowAssumption DEF Materialize, TypeOK
<1>2. detections'[c] = detections[c] + 1
  BY <1>1 DEF TypeOK
<1>3. detections' /= detections
  BY <1>1, <1>2
<1> QED
  BY <1>3 DEF vars

\* Nothing changes a document between the read and the write of a handler.
LEMMA AloneStep ==
    TypeOK /\ SoundDocuments /\ Alone /\ WritesApart /\ [Next]_vars /\ [~DetectsAgain]_vars => Alone'
<1> SUFFICES ASSUME TypeOK, SoundDocuments, Alone, WritesApart, [Next]_vars, [~DetectsAgain]_vars
             PROVE  Alone'
  OBVIOUS
<1>1. ASSUME store' = store, \A h \in Handler : pending'[h] \subseteq pending[h]
      PROVE  Alone'
  BY <1>1 DEF Alone, LegalWrites
<1>2. CASE UNCHANGED vars
  BY <1>1, <1>2 DEF vars
<1>3. ASSUME NEW h \in Handler, Operation(h) PROVE Alone'
  <2>1. PICK writes \in SUBSET Write : Begin(h, writes) /\ LegalWrites(writes)
    BY <1>3, OperationIsLegal
  <2>2. \A g \in Handler : pending'[g] = IF g = h THEN writes ELSE pending[g]
    BY <2>1 DEF Begin, TypeOK
  <2>3. store' = store
    BY <2>1 DEF Begin
  <2>4. \A g \in Handler : LegalWrites(pending[g])'
    BY <2>1, <2>2, <2>3 DEF Alone, LegalWrites
  <2> QED
    BY <2>3, <2>4 DEF Alone
<1>4. ASSUME NEW h \in Handler, UpsertCase(h) PROVE Alone'
  <2>1. PICK write \in pending[h] :
            /\ store' = [store EXCEPT ![write.case] = write.doc]
            /\ pending' = [pending EXCEPT ![h] = @ \ {write}]
    BY <1>4 DEF UpsertCase
  <2>2. write.case \in Case /\ write.doc.state /= "absent"
    <3>1. write.case \in Case
      BY DEF TypeOK, Write
    <3>2. Legal(store[write.case], write.doc)
      BY DEF Alone, LegalWrites
    <3> QED
      BY <3>1, <3>2 DEF Legal
  <2>3. \A g \in Handler : pending'[g] = IF g = h THEN pending[h] \ {write} ELSE pending[g]
    BY <2>1 DEF TypeOK
  <2>4. \A c \in Case : store'[c] = IF c = write.case THEN write.doc ELSE store[c]
    BY <2>1 DEF TypeOK
  <2>5. ASSUME NEW g \in Handler, NEW w \in pending'[g]
        PROVE  w \in pending[g] /\ w.case \in Case /\ w.case /= write.case
    <3>1. w \in pending[g] /\ w.case \in Case
      <4>1. w \in pending[g]
        BY <2>3
      <4>2. pending[g] \subseteq Write
        BY DEF TypeOK
      <4> QED
        BY <4>1, <4>2 DEF Write
    <3>2. CASE g = h
      BY <2>3, <3>1, <3>2 DEF Alone, LegalWrites
    <3>3. CASE g /= h
      BY <3>1, <3>3 DEF WritesApart
    <3> QED
      BY <3>1, <3>2, <3>3
  <2>6. \A g \in Handler : LegalWrites(pending[g])'
    BY <2>4, <2>5 DEF Alone, LegalWrites
  <2>7. \A c \in Case : store'[c].state = "absent" => store'[c] = NoDocument
    BY <2>2, <2>4 DEF Alone
  <2> QED
    BY <2>6, <2>7 DEF Alone
<1>5. ASSUME NEW h \in Handler, AppendAudit(h) PROVE Alone'
  BY <1>1, <1>5 DEF AppendAudit
<1>6. ASSUME NEW h \in Handler, Fail(h) PROVE Alone'
  <2>1. \A g \in Handler : pending'[g] \subseteq pending[g]
    BY <1>6 DEF Fail, TypeOK
  <2> QED
    BY <1>1, <1>6, <2>1 DEF Fail
<1>7. ASSUME NEW c \in Case, Materialize(c) PROVE Alone'
  <2>1. store[c].state = "absent"
    BY <1>7, DetectionChanges DEF DetectsAgain
  <2>2. \A h \in Handler : \A write \in pending[h] : write.case /= c /\ write.case \in Case
    BY <2>1 DEF Alone, LegalWrites, Legal, TypeOK, Write
  <2>3. pending' = pending /\ \A d \in Case : d /= c => store'[d] = store[d]
    BY <1>7 DEF Materialize, TypeOK
  <2>4. \A h \in Handler : LegalWrites(pending[h])'
    BY <2>2, <2>3 DEF Alone, LegalWrites
  <2>5. store'[c].state = "detected"
    BY <1>7 DEF Materialize, TypeOK, NoDocument
  <2> QED
    BY <2>3, <2>4, <2>5 DEF Alone
<1>8. CASE Tick
  BY <1>1, <1>8 DEF Tick
<1> QED
  BY <1>2, <1>3, <1>4, <1>5, <1>6, <1>7, <1>8 DEF Next

\* A write, or the detection of a case, is a step of its life.
LEMMA LifeStep ==
    TypeOK /\ SoundDocuments /\ Alone /\ [Next]_vars /\ [~DetectsAgain]_vars
        => [Life!LifeNext]_(Life!lifeVars)
<1> SUFFICES ASSUME TypeOK, SoundDocuments, Alone, [Next]_vars, [~DetectsAgain]_vars
             PROVE  Life!LifeNext \/ UNCHANGED Life!lifeVars
  OBVIOUS
<1>1. CASE store' = store
  BY <1>1 DEF Life!lifeVars
<1>2. ASSUME NEW h \in Handler, UpsertCase(h) PROVE Life!LifeNext
  <2>1. PICK write \in pending[h] : store' = [store EXCEPT ![write.case] = write.doc]
    BY <1>2 DEF UpsertCase
  <2>2. PICK c \in Case, doc \in Document : c = write.case /\ doc = write.doc
    BY DEF TypeOK, Write
  <2>3. store' = [store EXCEPT ![c] = doc] /\ Legal(store[c], doc)
    BY <2>1, <2>2 DEF Alone, LegalWrites
  <2>4. /\ [d \in Case |-> store'[d].state] = [[d \in Case |-> store[d].state] EXCEPT ![c] = doc.state]
        /\ [d \in Case |-> store'[d].proposedAction]
              = [[d \in Case |-> store[d].proposedAction] EXCEPT ![c] = doc.proposedAction]
        /\ [d \in Case |-> store'[d].approvedAction]
              = [[d \in Case |-> store[d].approvedAction] EXCEPT ![c] = doc.approvedAction]
    BY <2>3 DEF TypeOK
  <2>5. ASSUME doc.proposedAction = store[c].proposedAction
        PROVE  [d \in Case |-> store'[d].proposedAction] = [d \in Case |-> store[d].proposedAction]
    BY <2>4, <2>5
  <2>6. ASSUME doc.approvedAction = store[c].approvedAction
        PROVE  [d \in Case |-> store'[d].approvedAction] = [d \in Case |-> store[d].approvedAction]
    BY <2>4, <2>6
  <2>7. CASE doc.state = "proposed"
    <3>1. Life!Propose(c, doc.proposedAction) /\ doc.proposedAction \in Action
      BY <2>3, <2>4, <2>6, <2>7 DEF Legal, Life!Propose, Life!Moves
    <3> QED
      BY <3>1 DEF Life!LifeNext
  <2>8. CASE doc.state = "approved"
    <3>1. Life!Grant(c)
      BY <2>3, <2>4, <2>5, <2>8 DEF Legal, Life!Grant, Life!Moves
    <3> QED
      BY <3>1 DEF Life!LifeNext
  <2>9. CASE doc.state \notin {"proposed", "approved"}
    <3>1. \E from : Life!Decide(c, from, doc.state) /\
              \/ from = {"detected", "evidence_requested", "proposed"} /\ doc.state = "evidence_requested"
              \/ from = {"proposed"} /\ doc.state \in {"rejected", "manual_intervention"}
              \/ from = {"approved", "rejected", "manual_intervention"} /\ doc.state = "closed"
      BY <2>3, <2>4, <2>5, <2>6, <2>9 DEF Legal, Life!Decide, Life!Moves
    <3> QED
      BY <3>1 DEF Life!LifeNext
  <2> QED
    BY <2>7, <2>8, <2>9
<1>3. ASSUME NEW c \in Case, Materialize(c) PROVE Life!LifeNext
  <2>1. store[c].state = "absent"
    BY <1>3, DetectionChanges DEF DetectsAgain
  <2>2. store[c] = NoDocument
    BY <2>1 DEF Alone
  <2>3. store' = [store EXCEPT ![c] = [NoDocument EXCEPT !.state = "detected"]]
    BY <1>3 DEF Materialize
  <2>4. /\ [d \in Case |-> store'[d].state] = [[d \in Case |-> store[d].state] EXCEPT ![c] = "detected"]
        /\ [d \in Case |-> store'[d].proposedAction] = [d \in Case |-> store[d].proposedAction]
        /\ [d \in Case |-> store'[d].approvedAction] = [d \in Case |-> store[d].approvedAction]
    <3> DEFINE new == [NoDocument EXCEPT !.state = "detected"]
    <3>1. /\ new.state = "detected"
          /\ new.proposedAction = NoDocument.proposedAction
          /\ new.approvedAction = NoDocument.approvedAction
      BY DEF NoDocument
    <3> HIDE DEF new
    <3>2. store \in [Case -> Document] /\ store' = [store EXCEPT ![c] = new]
      BY <2>3 DEF TypeOK, new
    <3>3. store' \in [Case -> {store'[d] : d \in Case}] /\ store'[c] = new
              /\ \A d \in Case : d /= c => store'[d] = store[d]
      BY <3>2
    <3> QED
      BY <2>2, <3>1, <3>3
  <2>5. Life!Decide(c, {"absent"}, "detected")
    BY <2>2, <2>4 DEF Life!Decide, Life!Moves, NoDocument
  <2> QED
    BY <2>5 DEF Life!LifeNext
<1>4. ASSUME NEW h \in Handler, Operation(h) \/ AppendAudit(h) \/ Fail(h) PROVE store' = store
  <2>1. CASE Operation(h)
    BY <2>1, OperationWrites DEF Begin
  <2> QED
    BY <1>4, <2>1 DEF AppendAudit, Fail
<1>5. CASE UNCHANGED vars \/ Tick
  <2>1. store' = store
    BY <1>5 DEF vars, Tick
  <2> QED
    BY <1>1, <2>1
<1> QED
  BY <1>1, <1>2, <1>3, <1>4, <1>5 DEF Next

\* Any number of handlers work and any number of cases are detected: as long as no
\* two handlers hold documents of one case that they have yet to write, and no known
\* case is materialised again, every case lives the life of CaseLifecycle, through
\* failures between the transactions of an operation (state_machine.py:68-177,
\* models/case.py). So a lost update and a repeated detection are all that breaks it.
THEOREM LifeFollowed == Spec /\ []WritesApart /\ [][~DetectsAgain]_vars => FollowsLifecycle
<1>1. Init => Life!LifeInit /\ Alone
  BY DEF Init, Life!LifeInit, Alone, LegalWrites, NoDocument
<1>2. TypeOK /\ SoundDocuments /\ Alone /\ WritesApart /\ [Next]_vars /\ [~DetectsAgain]_vars
        => (TypeOK /\ SoundDocuments /\ Alone)'
  BY TypeStep, SoundStep, AloneStep
<1>3. TypeOK /\ SoundDocuments /\ Alone /\ [Next]_vars /\ [~DetectsAgain]_vars
        => [Life!LifeNext]_(Life!lifeVars)
  BY LifeStep
<1> QED
  BY Start, <1>1, <1>2, <1>3, PTL DEF Spec, FollowsLifecycle, Life!LifeSpec
=============================================================================
