------------------------------- MODULE Reports -------------------------------
(***************************************************************************)
(* One report from its filing to its end: routers/reports.py for the       *)
(* reporter, the report routes of routers/admin.py for the operator, and   *)
(* the two sweeps.  Reporter, operator and sweeps each read the row and    *)
(* write it by its id in a later step; columns they did not change keep    *)
(* what somebody else wrote.                                               *)
(***************************************************************************)
EXTENDS Naturals, FiniteSets

CONSTANTS
  Kinds,          \* "bug" and "crash" have the context bug_bounty; "abuse" is about somebody else
  ReportAge,      \* RESOLVED_MAX_AGE_DAYS
  EvidenceAge,    \* EVIDENCE_MAX_AGE_DAYS
  EvidenceGrace,  \* EVIDENCE_RESOLVED_GRACE_HOURS
  MaxDays, MaxTurns, NoDay

ASSUME ReportsAssumption ==
  NoDay \notin [kind : Kinds, crash : BOOLEAN, status : {"open", "closed"}, text : {"own", "redacted"}, created : Nat,
               resolved : {NoDay} \cup Nat, hidden : {NoDay} \cup Nat, reply : BOOLEAN, evidence : BOOLEAN]

VARIABLES
  report,    \* the row, or NoDay when it is not there
  turns,     \* report_messages: how many by each side
  evidence,  \* whether the evidence file is on disk
  reporter, operator, sweeper, cleaner, \* a call or a pass between its reads and its commit
  days, filed

reportVars == <<report, turns, evidence, reporter, operator, sweeper, cleaner, days, filed>>

ReportsInit ==
  /\ report = NoDay /\ turns = [mine |-> 0, ours |-> 0] /\ evidence = FALSE /\ days = 0 /\ filed = FALSE
  /\ reporter = NoDay /\ operator = NoDay /\ sweeper = NoDay /\ cleaner = NoDay

Exists == report # NoDay
IsBug(r) == r.kind # "abuse"

\* create_report, and create_report_with_evidence, which writes the file before the row and may fail
\* in between.
CreateReport(kind, file) ==
  /\ ~filed /\ filed' = TRUE /\ (file => kind = "abuse") /\ evidence' = file
  /\ \/ report' = [kind |-> kind, crash |-> kind = "crash", status |-> "open", text |-> "own", created |-> days,
                   resolved |-> NoDay, hidden |-> NoDay, reply |-> FALSE, evidence |-> file]
     \/ file /\ UNCHANGED report
  /\ UNCHANGED <<turns, reporter, operator, sweeper, cleaner, days>>

\* _removable: not while a report about somebody else is open.
Removable(r) == IsBug(r) \/ r.status # "open"
OnList == Exists /\ report.hidden = NoDay

Begins(do, crash) == reporter = NoDay /\ reporter' = [do |-> do, crash |-> crash] /\ UNCHANGED <<report, turns, evidence, operator, sweeper, cleaner, days, filed>>

\* add_to_my_report, delete_my_report and edit_my_report: what each of them checks ...
AddTurn == OnList /\ report.status = "open" /\ turns.mine < MaxTurns /\ Begins("turn", FALSE)
Hide == Exists /\ Removable(report) /\ OnList /\ Begins("hide", FALSE)
Edit(crash) ==
  /\ OnList /\ report.status = "open" /\ ~report.reply /\ turns.ours = 0 /\ ~report.crash /\ ~crash
  /\ Begins("edit", crash)

\* ... and what it writes; a turn needs its report, an UPDATE its row.
ReporterWrites ==
  /\ reporter # NoDay /\ reporter' = NoDay
  /\ CASE ~Exists                       -> UNCHANGED <<report, turns>>
       [] Exists /\ reporter.do = "turn" -> turns' = [turns EXCEPT !.mine = @ + 1] /\ UNCHANGED report
       [] Exists /\ reporter.do = "hide" -> report' = [report EXCEPT !.hidden = days] /\ UNCHANGED turns
       [] Exists /\ reporter.do = "edit" -> report' = [report EXCEPT !.text = "own", !.crash = reporter.crash] /\ UNCHANGED turns
  /\ UNCHANGED <<evidence, operator, sweeper, cleaner, days, filed>>

\* resolve_report closes or reopens, reply_to_report answers, whatever the status.
Operate(do) ==
  /\ operator = NoDay /\ Exists /\ operator' = do /\ (do = "reply" => turns.ours < MaxTurns)
  /\ UNCHANGED <<report, turns, evidence, reporter, sweeper, cleaner, days, filed>>
OperatorWrites ==
  /\ operator # NoDay /\ operator' = NoDay
  /\ CASE ~Exists                          -> UNCHANGED <<report, turns>>
       [] Exists /\ operator = "reopen"   -> report' = [report EXCEPT !.status = "open", !.resolved = NoDay] /\ UNCHANGED turns
       [] Exists /\ operator = "resolve"  -> report' = [report EXCEPT !.status = "closed", !.resolved = days] /\ UNCHANGED turns
       [] Exists /\ operator = "reply"    -> report' = [report EXCEPT !.reply = TRUE] /\ turns' = [turns EXCEPT !.ours = @ + 1]
  /\ UNCHANGED <<evidence, reporter, sweeper, cleaner, days, filed>>

ReportsPast(at, age) == at # NoDay /\ at + age < days

\* report_sweep: closed, or taken off the list, for its age, and not redacted yet.
ReportSweepReads ==
  /\ sweeper = NoDay /\ Exists /\ report.text = "own"
  /\ (report.status # "open" /\ ReportsPast(report.resolved, ReportAge)) \/ ReportsPast(report.hidden, ReportAge)
  /\ sweeper' = turns
  /\ UNCHANGED <<report, turns, evidence, reporter, operator, cleaner, days, filed>>

\* The turns it read go, an abuse report goes with the rest of them, a bug report keeps its tally:
\* the mark of a crash survives the redaction.
Redacted == [report EXCEPT !.text = "redacted", !.reply = FALSE, !.evidence = FALSE]
RedactedPlain == [report EXCEPT !.text = "redacted", !.reply = FALSE, !.evidence = FALSE, !.crash = FALSE]
SweptTo(Left) ==
  /\ sweeper # NoDay /\ sweeper' = NoDay
  /\ \/ ~Exists /\ UNCHANGED <<report, turns>>
     \/ Exists /\ IsBug(report) /\ report' = Left
        /\ turns' = [side \in DOMAIN turns |-> turns[side] - sweeper[side]]
     \/ Exists /\ ~IsBug(report) /\ report' = NoDay /\ turns' = [mine |-> 0, ours |-> 0]
  /\ UNCHANGED <<evidence, reporter, operator, cleaner, days, filed>>
SweepWritesPlain == SweptTo(RedactedPlain)
SweepWrites == SweptTo(Redacted)

\* evidence_sweep: the file goes at once, the columns with the commit.
EvidenceReads ==
  /\ cleaner = NoDay /\ Exists /\ report.evidence
  /\ ReportsPast(report.created, EvidenceAge) \/ (report.status # "open" /\ ReportsPast(report.resolved, EvidenceGrace))
  /\ cleaner' = "unlinked" /\ evidence' = FALSE
  /\ UNCHANGED <<report, turns, reporter, operator, sweeper, days, filed>>
EvidenceWrites ==
  /\ cleaner # NoDay /\ cleaner' = NoDay
  /\ report' = IF Exists THEN [report EXCEPT !.evidence = FALSE] ELSE report
  /\ UNCHANGED <<turns, evidence, reporter, operator, sweeper, days, filed>>

ReportsMidnight == days < MaxDays /\ days' = days + 1 /\ UNCHANGED <<report, turns, evidence, reporter, operator, sweeper, cleaner, filed>>

ReportsNext ==
  \/ \E kind \in Kinds, file \in BOOLEAN : CreateReport(kind, file)
  \/ AddTurn \/ Hide \/ ReporterWrites \/ \E crash \in BOOLEAN : Edit(crash)
  \/ OperatorWrites \/ \E do \in {"reopen", "resolve", "reply"} : Operate(do)
  \/ ReportSweepReads \/ SweepWrites \/ EvidenceReads \/ EvidenceWrites \/ ReportsMidnight

ReportsSpec == ReportsInit /\ [][ReportsNext]_reportVars

-----------------------------------------------------------------------------
\* hof_stats counts a contributor's bug reports over the rows, crash dumps left out.
Counted(r) == r # NoDay /\ IsBug(r) /\ ~r.crash

\* A report once filed counts as filed for ever, and a crash dump never comes to count: hiding,
\* editing, closing, reopening and both sweeps leave the tally alone, in any order and overlap
\* (delete_my_report, edit_my_report, report_sweep).
FiledForeverStep == Exists => (Counted(report) <=> Counted(report'))

\* reports.py and both sweeps: every step leaves the tally alone.
FiledForever == [][FiledForeverStep]_reportVars
=============================================================================
