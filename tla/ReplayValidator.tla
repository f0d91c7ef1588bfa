-------------------------- MODULE ReplayValidator -------------------------
(***************************************************************************)
(* asp-replay verifies one bundle (verify_document, validate_records,      *)
(* reconcile_pending_references): the preflight checks, then the records   *)
(* one by one through the session and the event reducer, then what can     *)
(* only be judged at the end.                                              *)
(*                                                                         *)
(* A bundle is chosen as it is read: every step takes some record of the   *)
(* set Records, which is how TLC ranges over all bundles of up to          *)
(* MaxRecords records.  Receipt records are not part of these bundles.     *)
(* The preflight (schema, context, secrets, hashes and ordinals) is        *)
(* reduced to the set of checks that fail in it; the second pass repeats   *)
(* the hash, ordinal and name checks of the first and so cannot fail them. *)
(***************************************************************************)
EXTENDS ReplaySession, ReplayEvents

CONSTANTS Records,          \* the records a bundle may contain
          MaxRecords,       \* MAX_RECORDS
          PreflightFailures \* the sets of checks that may fail before reading

CaptureGaps == [kind : {"capture_gap"}, form : {"exact", "broken", "unordered"}]

ASSUME RecordsAssumption ==
  /\ MaxRecords \in Nat \ {0}
  /\ Records \subseteq Transitions \cup Events \cup Acks
                         \cup EventGaps \cup CaptureGaps
  /\ PreflightFailures \subseteq SUBSET PreflightChecks

VARIABLES
  phase,                     \* "preflight", "records" or "done"
  preflight_failed,
  capture,                   \* [partial, ordered]: the bundle's claims
  validated_capture_gaps, initial_session_error_reported,
  read                       \* the records read so far; not in the code

validatorVars == <<phase, preflight_failed, capture, validated_capture_gaps,
                   initial_session_error_reported, read>>
vars == <<report, sessionVars, eventVars, validatorVars>>

Init ==
  /\ SessionInit /\ EventsInit
  /\ phase = "preflight" /\ preflight_failed = FALSE
  /\ capture \in [partial : BOOLEAN, ordered : BOOLEAN]
  /\ report = NewReport(capture.partial)
  /\ validated_capture_gaps = 0 /\ initial_session_error_reported = FALSE
  /\ read = <<>>

-----------------------------------------------------------------------------
(* Nothing is replayed from a bundle that fails a preflight check.         *)
Preflight ==
  /\ phase = "preflight"
  /\ \E failed \in PreflightFailures :
       /\ Report([i \in 1..Cardinality(failed) |-> Error(SetToSeq(failed)[i])])
       /\ preflight_failed' = (failed # {})
       /\ phase' = IF failed = {} THEN "records" ELSE "done"
  /\ UNCHANGED <<sessionVars, eventVars, capture, validated_capture_gaps,
                 initial_session_error_reported, read>>

-----------------------------------------------------------------------------
(* One record                                                              *)

NoBeginning ==
  /\ session_transitions = 0 /\ ~session_gap_pending
  /\ ~initial_session_error_reported

StartsTooEarly(r) ==
  NoBeginning /\ r.kind \notin {"session_transition", "capture_gap"}

Unstarted(early) == IF early THEN <<Error("SESSION")>> ELSE <<>>

(* What every record does: the report of its findings, after the complaint
   that the bundle does not begin with the session.                        *)
Take(r, findings) ==
  /\ phase = "records" /\ Len(read) < MaxRecords
  /\ Report(Unstarted(StartsTooEarly(r)) \o findings)
  /\ initial_session_error_reported' =
       (initial_session_error_reported \/ StartsTooEarly(r))
  /\ read' = Append(read, r)
  /\ UNCHANGED <<phase, preflight_failed, capture>>

ReadTransition(r) ==
  /\ r.kind = "session_transition"
  /\ Take(r, TransitionFindings(r)) /\ Transition(r)
  /\ UNCHANGED <<eventVars, validated_capture_gaps>>

ReadEvent(r) ==
  /\ r.kind = "event_delivery"
  /\ Take(r, EventFindings(r)) /\ CheckEvent(r)
  /\ UNCHANGED <<sessionVars, validated_capture_gaps>>

ReadAck(r) ==
  /\ r.kind = "event_ack"
  /\ Take(r, AckFindings(r)) /\ CheckAck(r)
  /\ UNCHANGED <<sessionVars, validated_capture_gaps>>

ReadEventGap(r) ==
  /\ r.kind = "event_gap"
  /\ Take(r, EventGapFindings(r)) /\ CheckEventGap(r)
  /\ UNCHANGED <<sessionVars, validated_capture_gaps>>

ReadCaptureGap(r) ==
  /\ r.kind = "capture_gap" /\ r.form = "exact"
  /\ Take(r, <<Incomplete("GAP")>>)
  /\ validated_capture_gaps' = validated_capture_gaps + 1
  /\ SessionGap /\ EventsCaptureGap(TRUE)

RefuseCaptureGap(r) ==
  /\ r.kind = "capture_gap" /\ r.form # "exact"
  /\ Take(r, <<Error("GAP")>>)
  /\ EventsCaptureGap(FALSE)
  /\ UNCHANGED <<sessionVars, validated_capture_gaps>>

ReadRecord(r) ==
  \/ ReadTransition(r) \/ ReadEvent(r) \/ ReadAck(r) \/ ReadEventGap(r)
  \/ ReadCaptureGap(r) \/ RefuseCaptureGap(r)

-----------------------------------------------------------------------------
(* After the last record                                                   *)

(* Mutated form: a gap excuses also a delivery that came later.            *)
PendingFindingExcused(delivery) ==
  IF capture.partial /\ validated_capture_gaps > 0 THEN Incomplete("ACK")
  ELSE Error("ACK")

(* An acknowledgement whose delivery came later is wrong; one whose delivery
   never came is excused by a capture gap anywhere in a partial capture.   *)
PendingFinding(delivery) ==
  IF delivery \in DOMAIN deliveries THEN Error("ACK")
  ELSE IF capture.partial /\ validated_capture_gaps > 0 THEN Incomplete("ACK")
  ELSE Error("ACK")

PendingFindings == [i \in 1..Len(pending) |-> PendingFinding(pending[i])]

(* Mutated form: a partial capture need not say where.                     *)
CompletenessFindingsOneWay ==
  IF validated_capture_gaps > 0 /\ ~capture.partial
    THEN <<Error("GAP")>> ELSE <<>>

CompletenessFindings ==
  IF capture.partial # (validated_capture_gaps > 0)
    THEN <<Error("GAP")>> ELSE <<>>

CaptureFindings == IF capture.ordered THEN <<>> ELSE <<Error("GAP")>>

Finish ==
  /\ phase = "records" /\ read # <<>>
  /\ phase' = "done"
  /\ Report(PendingFindings \o CompletenessFindings
              \o Unstarted(NoBeginning) \o CaptureFindings)
  /\ pending' = <<>>
  /\ UNCHANGED <<sessionVars, occurrence_hashes, deliveries, streams,
                 capture_gap_epoch, protocol_gap_epochs, capture_gaps,
                 preflight_failed, capture, validated_capture_gaps,
                 initial_session_error_reported, read>>

Next ==
  \/ Preflight
  \/ \E r \in Records : ReadRecord(r)
  \/ Finish

Spec == Init /\ [][Next]_vars
=============================================================================
