------------------------------ MODULE MCReplay -----------------------------
(* Small alphabets of records for the runs of the replay validator.  In the
   event runs every delivery has its own occurrence and cursor, named after
   it, unless a record says otherwise.                                     *)
EXTENDS ReplayConformance

CONSTANTS Alphabet, d1, d2, d3, s1, s2, t1, late

Step(g, prior, next, form) ==
  [kind |-> "session_transition", form |-> form, generation |-> g,
   prior |-> prior, next |-> next]

Event(d, s, n, attempt) ==
  [kind |-> "event_delivery", form |-> "exact", occurrence |-> d,
   hash |-> d, delivery |-> d, subscription |-> s, stream |-> t1,
   sequence |-> n, cursor |-> d, attempt |-> attempt]

Ack(d, s, outcome, reason) ==
  [kind |-> "event_ack", form |-> "exact", delivery |-> d,
   subscription |-> s, cursor |-> d, outcome |-> outcome, reason |-> reason]

EventGap(s) == [kind |-> "event_gap", form |-> "exact", subscription |-> s]
CaptureGap(form) == [kind |-> "capture_gap", form |-> form]

Start == Step(1, "absent", "active", "exact")

MCRecords ==
  CASE Alphabet = "sessions" ->
         {Start, Step(2, "interrupted", "active", "exact"),
          CaptureGap("exact"), CaptureGap("unordered"), EventGap(s1)}
         \cup {Step(g, p[1], p[2], "exact") : g \in Generations,
                 p \in {<<"active", "interrupted">>, <<"active", "completed">>,
                        <<"interrupted", "cancelled">>}}
         \cup {Step(1, "active", "failed", f) : f \in {"extra", "broken", "empty_reason"}}
    [] Alphabet = "events" ->
         {Start, CaptureGap("exact"), EventGap(s1), EventGap(s2),
          Event(d1, s1, 1, 1), Event(d1, s1, 1, 2), Event(d2, s1, 2, 1),
          Event(d2, s1, 3, 1), Event(d3, s2, 2, 1),
          Ack(d1, s1, "processed", NoReason), Ack(d1, s1, "discarded", late),
          Ack(d1, s1, "retry", NoReason)}
         \cup                        \* malformed, out of range or misbound
         {CaptureGap("broken"), Event(d1, s1, 1, 4),
          Event(d1, s2, 1, 2), [Event(d2, s1, 2, 1) EXCEPT !.occurrence = d1],
          Event(d2, s1, 2, 0),
          Ack(d1, s2, "processed", NoReason),
          Ack(d1, s1, "discarded", NoReason), Ack(d1, s1, "unknown", NoReason),
          [Ack(d1, s1, "retry", NoReason) EXCEPT !.form = "extra"],
          [Ack(d1, s1, "retry", NoReason) EXCEPT !.form = "broken"],
          [EventGap(s1) EXCEPT !.form = "broken"]}
         \cup {[Event(d2, s1, 2, 1) EXCEPT !.form = f] : f \in EventForms}

MCNoFailure == {{}}
MCFailures == SUBSET PreflightChecks

(* Histories are not continued past the record that broke a rule.          *)
NoErrorYet == ~report.has_errors
=============================================================================
