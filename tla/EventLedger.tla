------------------------------ MODULE EventLedger ------------------------------
(***************************************************************************)
(* What ingestion promises of the authoritative state: an event is         *)
(* accepted at most once, and in one step with its announcement in the     *)
(* outbox; a case is opened once, with one audit record; what was accepted *)
(* or set aside stays so.  No consumer, offset or transaction in sight.    *)
(***************************************************************************)
EXTENDS Naturals, Sequences

CONSTANTS Event

VARIABLES
    accepted,   \* events in the log
    announced,  \* the outbox
    openings,   \* case.detected records of the case
    aside       \* events quarantined or dead-lettered

ledgerVars == <<accepted, announced, openings, aside>>

LedgerInit ==
    /\ accepted = {}
    /\ announced = <<>>
    /\ openings = 0
    /\ aside = {}

Accept(e) ==
    /\ e \notin accepted
    /\ accepted' = accepted \cup {e}
    /\ announced' = Append(announced, e)
    /\ openings' \in {openings, 1}
    /\ UNCHANGED aside

SetAside(e) ==
    /\ aside' = aside \cup {e}
    /\ UNCHANGED <<accepted, announced, openings>>

LedgerNext == \E e \in Event : Accept(e) \/ SetAside(e)

LedgerSpec == LedgerInit /\ [][LedgerNext]_ledgerVars
=============================================================================
