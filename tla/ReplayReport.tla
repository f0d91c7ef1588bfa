--------------------------- MODULE ReplayReport ---------------------------
(***************************************************************************)
(* The reporting half of asp-replay: how the findings of a verification    *)
(* become bounded diagnostics, a verdict, check results and the list of    *)
(* assurances (validation/state.rs, validation/engine.rs).                 *)
(*                                                                         *)
(* A finding is reduced to the check it belongs to and its severity; the   *)
(* ordinal, path and message of a diagnostic are left out.  The final sort *)
(* of the diagnostics runs after the cap and only orders them, so          *)
(* diagnostics stay in the order they were kept.                           *)
(***************************************************************************)
EXTENDS Naturals, Sequences, FiniteSetsExt, SequencesExt

CONSTANT MaxDiagnostics                          \* MAX_DIAGNOSTICS
ASSUME MaxDiagnosticsAssumption == MaxDiagnostics \in Nat \ {0}

VARIABLE report     \* the reporting members of Validator

PreflightChecks == {"SCHEMA", "CONTEXT", "ORDER", "SECRETS"}
SemanticChecks == {"SESSION", "EVENT", "DELIVERY", "ACK", "GAP",
                   "RECEIPT_HASH", "RECEIPT_CHAIN", "RECEIPT_LINK"}
Checks == PreflightChecks \cup SemanticChecks
Severities == {"error", "incomplete"}
Findings == [check : Checks, severity : Severities]

Error(check) == [check |-> check, severity |-> "error"]
Incomplete(check) == [check |-> check, severity |-> "incomplete"]

(* A validator that has found nothing yet.                                 *)
NewReport(partial) ==
  [has_errors |-> FALSE,
   incomplete |-> partial,
   summaries |-> [c \in Checks |-> [s \in Severities |-> 0]],
   diagnostics |-> <<>>,
   omitted |-> 0]

-----------------------------------------------------------------------------
(* One finding: error, incomplete and push_diagnostic                      *)

ErrorShown(diagnostics) ==
  \E i \in 1..Len(diagnostics) : diagnostics[i].severity = "error"

(* Mutated forms: a cap that keeps what came first, and one off by one.     *)
KeepTheFirst(diagnostics, f) ==
  IF Len(diagnostics) < MaxDiagnostics THEN Append(diagnostics, f)
                                       ELSE diagnostics
KeepOneMore(diagnostics, f) ==
  IF Len(diagnostics) <= MaxDiagnostics THEN Append(diagnostics, f)
                                        ELSE diagnostics

(* A full list drops the finding, unless it is the first error to be shown:
   then the newest diagnostic makes room for it.                           *)
Keep(diagnostics, f) ==
  IF Len(diagnostics) < MaxDiagnostics
    THEN Append(diagnostics, f)
    ELSE IF f.severity = "error" /\ ~ErrorShown(diagnostics)
           THEN [diagnostics EXCEPT ![Len(diagnostics)] = f]
           ELSE diagnostics

(* Mutated forms: a finding counted only while there is room to show it, and
   a replaced diagnostic that is not counted as omitted.                   *)
PushCountsWhatItShows(rep, f) ==
  IF Len(rep.diagnostics) < MaxDiagnostics
    THEN [rep EXCEPT !.has_errors = @ \/ f.severity = "error",
                     !.incomplete = @ \/ f.severity = "incomplete",
                     !.summaries[f.check][f.severity] = @ + 1,
                     !.diagnostics = Append(@, f)]
    ELSE [rep EXCEPT !.has_errors = @ \/ f.severity = "error",
                     !.incomplete = @ \/ f.severity = "incomplete",
                     !.diagnostics = Keep(@, f), !.omitted = @ + 1]
PushForgetsTheReplaced(rep, f) ==
  [has_errors |-> rep.has_errors \/ f.severity = "error",
   incomplete |-> rep.incomplete \/ f.severity = "incomplete",
   summaries |-> [rep.summaries EXCEPT ![f.check][f.severity] = @ + 1],
   diagnostics |-> Keep(rep.diagnostics, f),
   omitted |-> IF Keep(rep.diagnostics, f) # rep.diagnostics
                 THEN rep.omitted ELSE rep.omitted + 1]

Push(rep, f) ==
  [has_errors |-> rep.has_errors \/ f.severity = "error",
   incomplete |-> rep.incomplete \/ f.severity = "incomplete",
   summaries |-> [rep.summaries EXCEPT ![f.check][f.severity] = @ + 1],
   diagnostics |-> Keep(rep.diagnostics, f),
   omitted |-> IF Len(rep.diagnostics) < MaxDiagnostics
                 THEN rep.omitted ELSE rep.omitted + 1]

(* The findings fs, in the order in which one record produces them.        *)
Report(fs) == report' = FoldLeft(Push, report, fs)

-----------------------------------------------------------------------------
(* The report, once the records are read (verify_document)                 *)

Verdict(rep) ==
  IF rep.has_errors THEN "invalid"
  ELSE IF rep.incomplete THEN "incomplete" ELSE "valid"

EvaluationState(rep, preflight_failed) ==
  IF preflight_failed THEN "preflight_failed"
  ELSE IF rep.has_errors THEN "semantic_invalid" ELSE Verdict(rep)

CheckStatus(rep, preflight_failed, check) ==
  IF preflight_failed /\ check \in SemanticChecks THEN "not_evaluated"
  ELSE IF rep.summaries[check]["error"] > 0 THEN "fail"
  ELSE IF rep.summaries[check]["incomplete"] > 0 THEN "incomplete"
  ELSE "pass"

(* Mutated form: a lifecycle assurance that gaps do not stand against.     *)
RestsWithoutGaps ==
  [canonical_integrity |-> {"SCHEMA", "ORDER", "RECEIPT_HASH"},
   historical_context_consistency |-> {"CONTEXT"},
   recorded_lifecycle |-> {"SESSION"},
   recorded_linkage |-> {"EVENT", "DELIVERY", "ACK", "GAP",
                         "RECEIPT_CHAIN", "RECEIPT_LINK"}]

(* The checks that each assurance rests on.                                *)
Rests == [canonical_integrity |-> {"SCHEMA", "ORDER", "RECEIPT_HASH"},
          historical_context_consistency |-> {"CONTEXT"},
          recorded_lifecycle |-> {"SESSION", "GAP"},
          recorded_linkage |-> {"EVENT", "DELIVERY", "ACK", "GAP",
                                "RECEIPT_CHAIN", "RECEIPT_LINK"}]

Verified(rep, preflight_failed) ==
  {a \in DOMAIN Rests : /\ ~rep.has_errors
                        /\ \A c \in Rests[a] :
                             CheckStatus(rep, preflight_failed, c) = "pass"}

-----------------------------------------------------------------------------
(* The validator as any sequence of findings                               *)

ReportInit == \E partial \in BOOLEAN : report = NewReport(partial)

AddFinding(f) == report' = Push(report, f)

ReportNext == \E f \in Findings : AddFinding(f)

ReportSpec == ReportInit /\ [][ReportNext]_report

-----------------------------------------------------------------------------
(* The members of Validator that reporting uses keep their types, and the
   diagnostics stay within their bound.                                    *)
ReportTypeOK ==
  /\ report \in [has_errors : BOOLEAN, incomplete : BOOLEAN,
                 summaries : [Checks -> [Severities -> Nat]],
                 diagnostics : Seq(Findings), omitted : Nat]
  /\ Len(report.diagnostics) <= MaxDiagnostics

(* However many findings are dropped, a reader of the diagnostics alone
   sees an error exactly when the verdict is "invalid": the cap of
   push_diagnostic never hides the first error behind incomplete findings,
   and an error once shown is never the one that makes room.               *)
ErrorsStayVisible ==
  report.has_errors <=> ErrorShown(report.diagnostics)

(* The verdict, the check summaries and the diagnostics are three records of
   the same findings: has_errors is set exactly when some check counts an
   error, and what is shown was counted under its own check.               *)
SummariesExplainTheVerdict ==
  /\ report.has_errors <=> \E c \in Checks : report.summaries[c]["error"] > 0
  /\ \A i \in 1..Len(report.diagnostics) :
       LET f == report.diagnostics[i]
       IN  report.summaries[f.check][f.severity] > 0

(* Shown and omitted diagnostics together account for every finding the
   checks count (asserted for one bundle by the test
   retained_diagnostics_and_omission_count_account_for_every_finding).     *)
Counted(rep) ==
  MapThenSumSet(LAMBDA c : rep.summaries[c]["error"]
                             + rep.summaries[c]["incomplete"], Checks)

OmissionsAreCounted ==
  Len(report.diagnostics) + report.omitted = Counted(report)

(* The bounded report is sound: it hides no error, its three records of the
   findings agree, and what it does not show it counts.                    *)
ReportIsSound ==
  /\ ErrorsStayVisible
  /\ SummariesExplainTheVerdict
  /\ OmissionsAreCounted
=============================================================================
