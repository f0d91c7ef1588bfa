------------------------- MODULE ReplayConformance ------------------------
(***************************************************************************)
(* What a bundle's records must satisfy, said of the whole sequence at     *)
(* once instead of record by record, and the properties that compare the   *)
(* incremental validator with it.  The rules are those the reducers apply; *)
(* where evidence.md ("Deterministic Replay and Ordering") asks for more,  *)
(* the difference is stated as a property of its own at the end.           *)
(***************************************************************************)
EXTENDS ReplayValidator

At(h, kind) == {i \in DOMAIN h : h[i].kind = kind}
Between(h, kind, i, j) == \E k \in At(h, kind) : i < k /\ k < j

-----------------------------------------------------------------------------
(* The session: one generation, one path, resumed anywhere after a gap     *)

TransitionLegal(h, g, i) ==
  LET r == h[i]
      before == {j \in At(h, "session_transition") : j < i}
      gap == Between(h, "capture_gap", IF before = {} THEN 0 ELSE Max(before), i)
      step == <<r.prior, r.next>>
  IN  /\ r.form \in {"exact", "empty_reason"}
      /\ r.generation = g
      /\ IF before = {}
           THEN step \in Beginning(g) \/ (gap /\ step \in Lifecycle)
           ELSE LET last == h[Max(before)].next
                IN  /\ step \in Lifecycle
                    /\ r.prior = last \/ (gap /\ last \notin Terminal)

Begun(h, i) ==
  \E j \in At(h, "session_transition") \cup At(h, "capture_gap") : j <= i

-----------------------------------------------------------------------------
(* Deliveries: attempts count up, positions follow acknowledged ones       *)

Transmissions(h, d) == {i \in At(h, "event_delivery") : h[i].delivery = d}
IsFirst(h, i) == i = Min(Transmissions(h, h[i].delivery))

Answered(h, d, i) ==
  \E j \in At(h, "event_ack") :
    /\ Min(Transmissions(h, d)) < j /\ j < i
    /\ h[j].delivery = d /\ h[j].outcome \in TerminalOutcomes

ProtocolGapBetween(h, s, i, j) ==
  \E k \in At(h, "event_gap") : i < k /\ k < j /\ h[k].subscription = s

RetransmissionLegal(h, i) ==
  LET p == Max({j \in Transmissions(h, h[i].delivery) : j < i})
  IN  /\ Identity(h[p]) = Identity(h[i])
      /\ h[i].attempt = h[p].attempt + 1
      /\ ~Answered(h, h[i].delivery, i)

FirstTransmissionLegal(h, i) ==
  LET e == h[i]
      before == {j \in At(h, "event_delivery") :
                   j < i /\ Key(h[j]) = Key(e) /\ IsFirst(h, j)}
      p == IF before = {} THEN 0 ELSE Max(before)
      position == IF before = {} THEN 0 ELSE h[p].sequence
      acked == before = {} \/ Answered(h, h[p].delivery, i)
  IN  /\ e.attempt = 1 \/ Between(h, "capture_gap", 0, i)
      /\ e.sequence > position
      /\ \/ Between(h, "capture_gap", p, i)
         \/ acked /\ (\/ e.sequence = position + 1
                      \/ ProtocolGapBetween(h, e.subscription, p, i))

DeliveryLegal(h, i) ==
  /\ h[i].form = "exact" /\ Begun(h, i)
  /\ h[i].attempt \in 1..MaxPosition /\ h[i].sequence \in 1..MaxPosition
  /\ \A j \in At(h, "event_delivery") :
       j < i /\ h[j].occurrence = h[i].occurrence => h[j].hash = h[i].hash
  /\ IF IsFirst(h, i) THEN FirstTransmissionLegal(h, i)
                      ELSE RetransmissionLegal(h, i)

-----------------------------------------------------------------------------
(* Acknowledgements: bound to an earlier delivery, one terminal answer     *)

AckLegal(h, i) ==
  LET a == h[i]
      sent == {j \in Transmissions(h, a.delivery) : j < i}
  IN  /\ a.form = "exact" /\ Begun(h, i)
      /\ a.outcome # "unknown"
      /\ a.outcome = "discarded" => a.reason # NoReason
      /\ sent # {} =>
           /\ \A j \in sent : /\ a.subscription = h[j].subscription
                              /\ a.cursor = h[j].cursor
           /\ \A j \in At(h, "event_ack") :
                /\ Min(sent) < j /\ j < i
                /\ h[j].delivery = a.delivery
                /\ h[j].outcome \in TerminalOutcomes
                => Answer(h[j]) = Answer(a)

(* No record read so far breaks a rule.                                    *)
LegalSoFar(h, g) ==
  /\ \A i \in At(h, "session_transition") : TransitionLegal(h, g, i)
  /\ \A i \in At(h, "event_delivery") : DeliveryLegal(h, i)
  /\ \A i \in At(h, "event_ack") : AckLegal(h, i)
  /\ \A i \in At(h, "event_gap") : h[i].form = "exact" /\ Begun(h, i)
  /\ \A i \in At(h, "capture_gap") : h[i].form = "exact"

(* Every acknowledged delivery came first, or was lost with a gap.         *)
AcksResolve(h) ==
  \A i \in At(h, "event_ack") :
    LET sent == Transmissions(h, h[i].delivery)
    IN  IF sent = {} THEN At(h, "capture_gap") # {} ELSE Min(sent) < i

Acceptable(h, g, c) ==
  /\ LegalSoFar(h, g) /\ AcksResolve(h) /\ Begun(h, Len(h))
  /\ c.ordered /\ (c.partial <=> At(h, "capture_gap") # {})

Gaps(h) == At(h, "capture_gap") \cup At(h, "event_gap")

-----------------------------------------------------------------------------
TypeOK ==
  /\ ReportTypeOK /\ SessionTypeOK /\ EventsTypeOK
  /\ phase \in {"preflight", "records", "done"}
  /\ preflight_failed \in BOOLEAN /\ initial_session_error_reported \in BOOLEAN
  /\ capture \in [partial : BOOLEAN, ordered : BOOLEAN]
  /\ validated_capture_gaps \in Nat /\ read \in Seq(Records)

(* The one-pass reducers with their epochs, flags and early returns decide
   exactly the rules above: an error is reported with the first record that
   breaks one, never earlier and never later, and what only the end of the
   bundle can tell (a delivery that never came) right after the last.      *)
ErrorsComeAtOnce ==
  /\ phase = "records" => (report.has_errors <=> ~LegalSoFar(read, session_generation))
  /\ phase = "done" /\ ~preflight_failed =>
       (report.has_errors <=> ~Acceptable(read, session_generation, capture))

(* The verdict of a finished replay: invalid exactly when the whole bundle
   breaks a rule, and otherwise incomplete exactly when it declares a gap
   (evidence.md: any event gap or capture gap makes replay incomplete).    *)
VerdictIsExact ==
  phase = "done" /\ ~preflight_failed =>
    Verdict(report) =
      IF ~Acceptable(read, session_generation, capture) THEN "invalid"
      ELSE IF Gaps(read) # {} THEN "incomplete" ELSE "valid"

(* A report vouches for the recorded lifecycle or linkage only of a bundle
   that was replayed, breaks no rule and declares no gap.                  *)
AssuranceIsEarned ==
  phase = "done" /\ {"recorded_lifecycle", "recorded_linkage"}
                       \cap Verified(report, preflight_failed) # {}
    => /\ ~preflight_failed
       /\ Acceptable(read, session_generation, capture)
       /\ Gaps(read) = {}

(* A stream takes a new delivery only behind the last one, and leaves one
   that is not terminally acknowledged only across a capture gap newer than
   it; check_ack may meanwhile only turn it terminal.                      *)
StreamAdvances(k) ==
  LET p == streams[k]
      q == streams'[k]
  IN  \/ q = p
      \/ q = [p EXCEPT !.terminal = TRUE]
      \/ /\ q.sequence > p.sequence
         /\ p.terminal \/ capture_gap_epoch > p.capture_gap_epoch

StreamsOnlyAdvance ==
  [][\A k \in DOMAIN streams : k \in DOMAIN streams' /\ StreamAdvances(k)]_vars

(* The first terminal acknowledgement of a delivery stands, and the delivery
   keeps its identity: no later record, accepted or refused, rewrites them. *)
DeliveriesKeepTheirAnswer ==
  [][\A d \in DOMAIN deliveries :
       /\ d \in DOMAIN deliveries'
       /\ Identity(deliveries'[d]) = Identity(deliveries[d])
       /\ deliveries[d].terminal_ack # None =>
            deliveries'[d] = deliveries[d]]_vars

(* Reading on only adds to what the events have shown: streams move forward
   and deliveries keep their identity and their answer.                    *)
EventsOnlyAdvance == StreamsOnlyAdvance /\ DeliveriesKeepTheirAnswer

-----------------------------------------------------------------------------
(* Where the repository asks for more than the reducers do                 *)

(* evidence.md: "Every later transition remains in generation N and follows
   the Session Authority and Lifecycle state machine": even with a gap in
   between, the next recorded state must be one the session could reach
   without a resume.                                                       *)
Reachable(s) ==
  IF s = "active" THEN SessionStates \ {"absent"}
  ELSE IF s = "interrupted" THEN {"interrupted", "cancelled"} ELSE {s}

NoResumeInsideAGap ==
  ~report.has_errors =>
    \A i, j \in At(read, "session_transition") :
      i < j => read[j].prior \in Reachable(read[i].next)

(* evidence.md: a validator MUST reject "a conflicting terminal
   acknowledgement", whether or not the delivery was captured.             *)
TerminalAcksAgree ==
  phase = "done" /\ ~preflight_failed /\ ~report.has_errors =>
    \A i, j \in At(read, "event_ack") :
      /\ read[i].delivery = read[j].delivery
      /\ {read[i].outcome, read[j].outcome} \subseteq TerminalOutcomes
      => Answer(read[i]) = Answer(read[j])
=============================================================================
