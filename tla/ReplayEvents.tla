--------------------------- MODULE ReplayEvents ---------------------------
(***************************************************************************)
(* The event reducer of asp-replay (validation/events.rs): deliveries,     *)
(* their retries and acknowledgements, the position of every stream, and   *)
(* the gaps that excuse what was not captured.                             *)
(*                                                                         *)
(* The JSON of a record is reduced to the members the reducer compares and *)
(* to its form.  A delivery's form is "exact", "unbound" (it does not      *)
(* match the profile, scope, surface, grant or its own hash: reported, and *)
(* the reducer goes on), "envelope" (a required member is missing),        *)
(* "occurrence" or "delivery" (a member of that identity has the wrong     *)
(* type).  An acknowledgement's is "exact", "extra" (an unknown payload    *)
(* member: reported, and the reducer goes on) or "broken".                 *)
(***************************************************************************)
EXTENDS ReplayReport

CONSTANTS Occurrences,      \* (source, id) pairs
          Hashes, Deliveries, Subscriptions, Streams, Cursors, Reasons,
          NoReason, None,
          MaxPosition       \* i32::MAX, the largest attempt or sequence

VARIABLES occurrence_hashes, deliveries, streams,
          capture_gap_epoch, protocol_gap_epochs,
          capture_gaps,      \* capture_gap records, well formed or not
          pending            \* acknowledgements of deliveries not yet seen

eventVars == <<occurrence_hashes, deliveries, streams, capture_gap_epoch,
               protocol_gap_epochs, capture_gaps, pending>>

StreamKeys == Subscriptions \X Streams
TerminalOutcomes == {"processed", "discarded"}
Outcomes == TerminalOutcomes \cup {"retry", "unknown"}
Answers == [outcome : Outcomes, reason : Reasons \cup {NoReason}]

ASSUME EventsAssumption == /\ MaxPosition \in Nat \ {0}
                           /\ NoReason \notin Reasons
                           /\ None \notin Answers

EventForms == {"exact", "unbound", "envelope", "occurrence", "delivery"}
AckForms == {"exact", "extra", "broken"}

Events ==
  [kind : {"event_delivery"}, form : EventForms, occurrence : Occurrences,
   hash : Hashes, delivery : Deliveries, subscription : Subscriptions,
   stream : Streams, sequence : Nat, cursor : Cursors, attempt : Nat]

Acks ==
  [kind : {"event_ack"}, form : AckForms, delivery : Deliveries,
   subscription : Subscriptions, cursor : Cursors, outcome : Outcomes,
   reason : Reasons \cup {NoReason}]

EventGaps ==
  [kind : {"event_gap"}, form : {"exact", "broken"},
   subscription : Subscriptions]

EventsInit ==
  /\ occurrence_hashes = [o \in {} |-> None]
  /\ deliveries = [d \in {} |-> None]
  /\ streams = [k \in {} |-> None]
  /\ capture_gap_epoch = 0
  /\ protocol_gap_epochs = [s \in Subscriptions |-> 0]
  /\ capture_gaps = 0
  /\ pending = <<>>

Put(f, k, v) == [x \in DOMAIN f \cup {k} |-> IF x = k THEN v ELSE f[x]]

-----------------------------------------------------------------------------
(* check_event                                                             *)

IdentityFindings(e) ==
  IF e.form = "delivery" THEN <<Error("DELIVERY")>>
  ELSE IF e.form = "exact" THEN <<>> ELSE <<Error("EVENT")>>

HasOccurrence(e) == e.form \notin {"envelope", "occurrence"}
HasDelivery(e) == HasOccurrence(e) /\ e.form # "delivery"

ReusesOccurrence(e) ==
  /\ e.occurrence \in DOMAIN occurrence_hashes
  /\ occurrence_hashes[e.occurrence] # e.hash

OutOfRange(e) ==
  \/ e.attempt = 0 \/ e.attempt > MaxPosition
  \/ e.sequence = 0 \/ e.sequence > MaxPosition

(* Retries of a delivery the reducer knows.                                *)
Known(e) == e.delivery \in DOMAIN deliveries

Identity(x) == <<x.occurrence, x.hash, x.subscription, x.stream, x.sequence,
                 x.cursor>>

(* Mutated form: any later attempt is a retry.                             *)
IsRetryWithAnyAttempt(e) ==
  LET d == deliveries[e.delivery]
  IN  /\ d.terminal_ack = None
      /\ Identity(d) = Identity(e)
      /\ e.attempt >= d.last_attempt

IsRetry(e) ==
  LET d == deliveries[e.delivery]
  IN  /\ d.terminal_ack = None
      /\ Identity(d) = Identity(e)
      /\ e.attempt = d.last_attempt + 1

(* First transmissions: what stands before them in their stream.           *)
Key(e) == <<e.subscription, e.stream>>
Behind(e) == Key(e) \in DOMAIN streams /\ e.sequence <= streams[Key(e)].sequence

CaptureGapSince(e) ==
  capture_gap_epoch > (IF Key(e) \in DOMAIN streams
                         THEN streams[Key(e)].capture_gap_epoch ELSE 0)
ProtocolGapSince(e) ==
  protocol_gap_epochs[e.subscription]
    > (IF Key(e) \in DOMAIN streams
         THEN streams[Key(e)].protocol_gap_epoch ELSE 0)

Unacknowledged(e) == Key(e) \in DOMAIN streams /\ ~streams[Key(e)].terminal
Jumps(e) ==
  e.sequence # IF Key(e) \in DOMAIN streams
                 THEN streams[Key(e)].sequence + 1 ELSE 1

(* The evidence that is missing in front of e, and whether a gap explains
   it: only a capture gap can have hidden an acknowledgement.              *)
Missing(e) == Unacknowledged(e) \/ Jumps(e)
(* Mutated form: a protocol gap hides an acknowledgement too.              *)
CoveredByAnyGap(e) == CaptureGapSince(e) \/ ProtocolGapSince(e)

Covered(e) == CaptureGapSince(e) \/ (~Unacknowledged(e) /\ ProtocolGapSince(e))
TakesPosition(e) == ~Behind(e) /\ (Missing(e) => Covered(e))

DeliveryFindings(e) ==
  IF Known(e)
    THEN IF IsRetry(e) THEN <<>> ELSE <<Error("DELIVERY")>>
    ELSE (IF e.attempt = 1 THEN <<>>
          ELSE IF capture_gaps > 0 THEN <<Incomplete("DELIVERY")>>
                                   ELSE <<Error("DELIVERY")>>)
         \o (IF ~TakesPosition(e) THEN <<Error("DELIVERY")>>
             ELSE IF Missing(e) THEN <<Incomplete("DELIVERY")>> ELSE <<>>)

EventFindings(e) ==
  IdentityFindings(e)
    \o (IF HasOccurrence(e) /\ ReusesOccurrence(e)
          THEN <<Error("DELIVERY")>> ELSE <<>>)
    \o (IF HasDelivery(e) /\ OutOfRange(e) THEN <<Error("DELIVERY")>> ELSE <<>>)
    \o (IF HasDelivery(e) THEN DeliveryFindings(e) ELSE <<>>)

Progress(e) ==
  [sequence |-> e.sequence, delivery |-> e.delivery, terminal |-> FALSE,
   capture_gap_epoch |-> capture_gap_epoch,
   protocol_gap_epoch |-> protocol_gap_epochs[e.subscription]]

Delivery(e) ==
  [occurrence |-> e.occurrence, hash |-> e.hash,
   subscription |-> e.subscription, stream |-> e.stream,
   sequence |-> e.sequence, cursor |-> e.cursor,
   last_attempt |-> e.attempt, terminal_ack |-> None]

RecordOccurrence(e) ==
  occurrence_hashes' =
    IF HasOccurrence(e) /\ e.occurrence \notin DOMAIN occurrence_hashes
      THEN Put(occurrence_hashes, e.occurrence, e.hash) ELSE occurrence_hashes

FirstTransmission(e) ==
  /\ HasDelivery(e) /\ ~Known(e)
  /\ deliveries' = Put(deliveries, e.delivery, Delivery(e))
  /\ streams' = IF TakesPosition(e)
                  THEN Put(streams, Key(e), Progress(e)) ELSE streams

Retransmission(e) ==
  /\ HasDelivery(e) /\ Known(e) /\ IsRetry(e)
  /\ deliveries' = [deliveries EXCEPT ![e.delivery].last_attempt = e.attempt]
  /\ UNCHANGED streams

RefusedTransmission(e) ==
  /\ ~HasDelivery(e) \/ (Known(e) /\ ~IsRetry(e))
  /\ UNCHANGED <<deliveries, streams>>

CheckEvent(e) ==
  /\ RecordOccurrence(e)
  /\ \/ FirstTransmission(e)
     \/ Retransmission(e)
     \/ RefusedTransmission(e)
  /\ UNCHANGED <<capture_gap_epoch, protocol_gap_epochs, capture_gaps, pending>>

-----------------------------------------------------------------------------
(* check_ack                                                               *)

Answer(a) == [outcome |-> a.outcome, reason |-> a.reason]

InvalidOutcome(a) ==
  \/ a.outcome = "unknown"
  \/ a.outcome = "discarded" /\ a.reason = NoReason

Misbound(a) ==
  \/ a.subscription # deliveries[a.delivery].subscription
  \/ a.cursor # deliveries[a.delivery].cursor

(* AcknowledgementTransitionPolicy: a terminal answer is given once, may be
   repeated exactly, and nothing else follows it.                          *)
(* Mutated form: the last terminal answer is the one kept.                 *)
LastTerminal(a) == a.outcome # "retry"

FirstTerminal(a) ==
  a.outcome # "retry" /\ deliveries[a.delivery].terminal_ack = None

Contradicts(a) ==
  /\ deliveries[a.delivery].terminal_ack # None
  /\ deliveries[a.delivery].terminal_ack # Answer(a)

AckFindings(a) ==
  IF a.form = "broken" THEN <<Error("ACK")>>
  ELSE (IF a.form = "extra" THEN <<Error("ACK")>> ELSE <<>>)
         \o (IF InvalidOutcome(a) THEN <<Error("ACK")>> ELSE <<>>)
         \o (IF a.delivery \in DOMAIN deliveries
               THEN (IF Misbound(a) THEN <<Error("ACK")>> ELSE <<>>)
                      \o (IF Contradicts(a) THEN <<Error("ACK")>> ELSE <<>>)
               ELSE <<>>)

AckBeforeDelivery(a) ==
  /\ a.form # "broken" /\ a.delivery \notin DOMAIN deliveries
  /\ pending' = Append(pending, a.delivery)
  /\ UNCHANGED <<deliveries, streams>>

(* Mutated form: whichever delivery is acknowledged, its stream is terminal. *)
TakeTerminalAckForTheStream(a) ==
  LET d == deliveries[a.delivery]
      key == <<d.subscription, d.stream>>
  IN  /\ a.form # "broken" /\ a.delivery \in DOMAIN deliveries
      /\ FirstTerminal(a)
      /\ deliveries' = [deliveries EXCEPT ![a.delivery].terminal_ack = Answer(a)]
      /\ streams' = IF key \in DOMAIN streams
                      THEN [streams EXCEPT ![key].terminal = TRUE] ELSE streams
      /\ UNCHANGED pending

(* The acknowledgement is taken even when it was reported as misbound or
   invalid.                                                                *)
TakeTerminalAck(a) ==
  LET d == deliveries[a.delivery]
      key == <<d.subscription, d.stream>>
  IN  /\ a.form # "broken" /\ a.delivery \in DOMAIN deliveries
      /\ FirstTerminal(a)
      /\ deliveries' = [deliveries EXCEPT ![a.delivery].terminal_ack = Answer(a)]
      /\ streams' =
           IF key \in DOMAIN streams /\ streams[key].delivery = a.delivery
             THEN [streams EXCEPT ![key].terminal = TRUE] ELSE streams
      /\ UNCHANGED pending

RepeatOrRefuseAck(a) ==
  /\ a.form = "broken" \/ (a.delivery \in DOMAIN deliveries /\ ~FirstTerminal(a))
  /\ UNCHANGED <<deliveries, streams, pending>>

CheckAck(a) ==
  /\ \/ AckBeforeDelivery(a)
     \/ TakeTerminalAck(a)
     \/ RepeatOrRefuseAck(a)
  /\ UNCHANGED <<occurrence_hashes, capture_gap_epoch, protocol_gap_epochs,
                 capture_gaps>>

-----------------------------------------------------------------------------
(* check_gap                                                               *)

EventGapFindings(g) ==
  <<Incomplete("GAP")>> \o (IF g.form = "broken" THEN <<Error("GAP")>> ELSE <<>>)

CheckEventGap(g) ==
  /\ protocol_gap_epochs' =
       IF g.form = "broken" THEN protocol_gap_epochs
       ELSE [protocol_gap_epochs EXCEPT ![g.subscription] = @ + 1]
  /\ UNCHANGED <<occurrence_hashes, deliveries, streams, capture_gap_epoch,
                 capture_gaps, pending>>

(* The event side of a capture gap (validate_records).                     *)
EventsCaptureGap(validated) ==
  /\ capture_gaps' = capture_gaps + 1
  /\ capture_gap_epoch' = IF validated THEN capture_gap_epoch + 1
                                       ELSE capture_gap_epoch
  /\ UNCHANGED <<occurrence_hashes, deliveries, streams, protocol_gap_epochs,
                 pending>>
-----------------------------------------------------------------------------
EventsTypeOK ==
  /\ DOMAIN occurrence_hashes \subseteq Occurrences
  /\ \A o \in DOMAIN occurrence_hashes : occurrence_hashes[o] \in Hashes
  /\ DOMAIN deliveries \subseteq Deliveries
  /\ \A d \in DOMAIN deliveries : deliveries[d] \in
       [occurrence : Occurrences, hash : Hashes, subscription : Subscriptions,
        stream : Streams, sequence : Nat, cursor : Cursors,
        last_attempt : Nat, terminal_ack : Answers \cup {None}]
  /\ DOMAIN streams \subseteq StreamKeys
  /\ \A k \in DOMAIN streams : streams[k] \in
       [sequence : Nat, delivery : Deliveries, terminal : BOOLEAN,
        capture_gap_epoch : Nat, protocol_gap_epoch : Nat]
  /\ capture_gap_epoch \in Nat /\ capture_gaps \in Nat
  /\ protocol_gap_epochs \in [Subscriptions -> Nat]
  /\ pending \in Seq(Deliveries)

(* streams and deliveries are two tables about the same transmissions, kept
   by check_event and check_ack in different branches.  A stream stands at a
   delivery that is known under that stream and sequence; it is terminal
   exactly when that delivery is acknowledged; and no epoch lies in the
   future, so a gap still to come is never taken for one that has passed.  *)
StreamsFollowDeliveries ==
  \A k \in DOMAIN streams :
    LET p == streams[k]
    IN  /\ p.delivery \in DOMAIN deliveries
        /\ LET d == deliveries[p.delivery]
           IN  /\ <<d.subscription, d.stream>> = k /\ d.sequence = p.sequence
               /\ p.terminal <=> d.terminal_ack # None
        /\ p.capture_gap_epoch <= capture_gap_epoch
        /\ p.protocol_gap_epoch <= protocol_gap_epochs[k[1]]
=============================================================================
