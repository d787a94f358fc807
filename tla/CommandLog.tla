----------------------------- MODULE CommandLog -----------------------------
(***************************************************************************)
(* The command log of repocli and the statistics read from it (cli/log.go, *)
(* cli/diff_history.go, stats/logs.go).  Processes append to the files of  *)
(* the day they began, one write per record, and remove expired files; the *)
(* `stats' command reads what is there while they go on.  A write that ends*)
(* early (a full disk) leaves a fragment that the next record is glued to. *)
(* Words inside a record are abstracted to where it was cut and what a     *)
(* reader then makes of it.                                                *)
(***************************************************************************)
EXTENDS Integers, Sequences

CONSTANTS Invocation,  \* those that are logged, by their run ID
          LastDay,     \* the days are 1..LastDay
          Retained,    \* how many days are kept: 30 in the code
          MaxTorn      \* how many writes end early

VARIABLES
    day,
    files,         \* [<<kind, day>> -> sequence of records and fragments]
    invocations,   \* the processes
    torn,
    report         \* of the one `stats' command

logVars == <<day, files, invocations, torn, report>>

Kind == {"command", "analysis"}
Unknown == "unknown"   \* a run ID that was cut off is nobody's

\* Where a write may end early.  `alone' is what the fragment reads as at the
\* end of its file, `glued' what the line reads as when another record follows:
\* inside an unquoted value the fields of the next record replace those of the
\* fragment; anywhere else the line is malformed.  Two JSON objects never are
\* one.
Cuts(msg) ==
    CASE msg = "start" ->
            [alone : {"invalid"}, glued : {"invalid", "next"}]       \* key, time
            \cup [alone : {"ignored", "other"}, glued : {"next"}]    \* msg, run_id
            \cup [alone : {"record"}, glued : {"invalid", "next"}]   \* version
      [] msg = "finish" ->
            [alone : {"invalid"}, glued : {"invalid", "next"}]
            \cup [alone : {"ignored", "record"}, glued : {"next"}]   \* msg, newline
      [] OTHER -> [alone : {"invalid", "record"}, glued : {"invalid"}]

Whole == [alone |-> "record", glued |-> "ended"]
Entry(r, msg, cut) == [run |-> r, msg |-> msg, code |-> invocations[r].code, cut |-> cut]

-----------------------------------------------------------------------------
(* A process that logs.                                                    *)

Begin(r) ==
    /\ invocations[r].pc = "new"
    /\ invocations' = [invocations EXCEPT ![r].pc = "open", ![r].started = day]
    /\ UNCHANGED <<day, files, torn, report>>

\* O_CREATE.
Created(f) == [g \in DOMAIN files \cup {f} |-> IF g \in DOMAIN files THEN files[g] ELSE <<>>]

\* startCommandLog: without its file a command runs all the same, unlogged.
OpenLog(r) ==
    LET f == <<"command", invocations[r].started>> IN
    /\ invocations[r].pc = "open"
    /\ \/ /\ files' = Created(f)
          /\ invocations' = [invocations EXCEPT ![r].pc = "list", ![r].log = "open"]
       \/ invocations' = [invocations EXCEPT ![r].pc = "work"] /\ UNCHANGED files
    /\ UNCHANGED <<day, torn, report>>

ListExpired(r) ==
    /\ invocations[r].pc = "list"
    /\ invocations' = [invocations EXCEPT ![r].pc = "prune",
                   ![r].expired = {f \in DOMAIN files : f[2] < invocations[r].started - (Retained - 1)}]
    /\ UNCHANGED <<day, files, torn, report>>

\* A file another process has removed is passed over; any other failure ends
\* the pruning with a warning.  Who has the file open goes on writing to it.
RemoveExpired(r) ==
    /\ invocations[r].pc = "prune" /\ invocations[r].expired # {}
    /\ \/ \E f \in invocations[r].expired :
            /\ files' = [g \in DOMAIN files \ {f} |-> files[g]]
            /\ invocations' = [p \in Invocation |->
                          [invocations[p] EXCEPT !.expired = IF p = r THEN @ \ {f} ELSE @,
                             !.log = IF f = <<"command", invocations[p].started>> /\ @ = "open"
                                     THEN "unlinked" ELSE @]]
       \/ invocations' = [invocations EXCEPT ![r].expired = {}] /\ UNCHANGED files
    /\ UNCHANGED <<day, torn, report>>

\* O_APPEND: a record goes where the file ends, whole or up to a cut.
AppendRecord(to, f, r, msg) ==
    \/ files' = [to EXCEPT ![f] = Append(@, Entry(r, msg, Whole))] /\ UNCHANGED torn
    \/ /\ torn < MaxTorn /\ torn' = torn + 1
       /\ \E cut \in Cuts(msg) : files' = [to EXCEPT ![f] = Append(@, Entry(r, msg, cut))]

WriteLog(r, msg) ==
    IF invocations[r].log = "open"
    THEN AppendRecord(files, <<"command", invocations[r].started>>, r, msg)
    ELSE UNCHANGED <<files, torn>>

WriteStart(r) ==
    /\ invocations[r].pc = "prune" /\ invocations[r].expired = {}
    /\ WriteLog(r, "start")
    /\ invocations' = [invocations EXCEPT ![r].pc = "work"]
    /\ UNCHANGED <<day, report>>

Work(r) ==
    /\ invocations[r].pc = "work"
    /\ \E code \in 0..1, next \in {"analysis", "finish"} :
          /\ next = "analysis" => invocations[r].log # "none"
          /\ invocations' = [invocations EXCEPT ![r].pc = next, ![r].code = code]
    /\ UNCHANGED <<day, files, torn, report>>

\* recordDiff: the file of the same day, opened for this one record.
RecordAnalysis(r) ==
    LET f == <<"analysis", invocations[r].started>> IN
    /\ invocations[r].pc = "analysis"
    /\ AppendRecord(Created(f), f, r, "analysis")
    /\ invocations' = [invocations EXCEPT ![r].pc = "finish"]
    /\ UNCHANGED <<day, report>>

WriteFinish(r) ==
    /\ invocations[r].pc = "finish"
    /\ WriteLog(r, "finish")
    /\ invocations' = [invocations EXCEPT ![r].pc = "over", ![r].ended = TRUE, ![r].log = "none"]
    /\ UNCHANGED <<day, report>>

Interrupt(r) ==
    /\ invocations[r].pc \notin {"new", "over"}
    /\ invocations' = [invocations EXCEPT ![r].pc = "over", ![r].log = "none", ![r].expired = {}]
    /\ UNCHANGED <<day, files, torn, report>>

Midnight ==
    /\ day < LastDay /\ day' = day + 1
    /\ UNCHANGED <<files, invocations, torn, report>>

-----------------------------------------------------------------------------
(* The statistics.                                                         *)

\* The fragments that the record at i of a file is glued to.
Before(file, i) ==
    {j \in 1..(i - 1) : \A k \in j..(i - 1) : file[k].cut # Whole}

EndsLine(file, i) == file[i].cut = Whole \/ i = Len(file)

\* commandFields and commandLine, analysisLine, on the line that ends with i:
\* whether it is well-formed, and the records it stands for.
Read(ok, entries) == [ok |-> ok, entries |-> entries]
Fields(entry) == [run |-> entry.run, msg |-> entry.msg, code |-> entry.code]

Reading(file, i) ==
    IF \E j \in Before(file, i) : file[j].cut.glued = "invalid" THEN Read(FALSE, {})
    ELSE CASE file[i].cut.alone = "invalid" -> Read(FALSE, {})
           [] file[i].cut.alone = "ignored" -> Read(TRUE, {})
           [] file[i].cut.alone = "other"   -> Read(TRUE, {[Fields(file[i]) EXCEPT !.run = Unknown]})
           [] OTHER -> Read(TRUE, {Fields(file[i])})

\* scanLines: a malformed line, and a second start or end of a run, is counted
\* and passed over.
Duplicate(seen, e) ==
    e.msg # "analysis" /\ e.run # Unknown /\ \E s \in seen : s.run = e.run /\ s.msg = e.msg

Scan(file, seen) ==
    LET upTo[n \in 0..Len(file)] ==
            IF n = 0 THEN Read(TRUE, seen)
            ELSE IF ~EndsLine(file, n) THEN upTo[n - 1]
            ELSE LET got == upTo[n - 1]
                     line == Reading(file, n)
                 IN  IF ~line.ok \/ (\E e \in line.entries : Duplicate(got.entries, e))
                     THEN Read(FALSE, got.entries)
                     ELSE Read(got.ok, got.entries \cup line.entries)
    IN upTo[Len(file)]

\* os.ReadDir; `present' and `going' remember which records were there in full
\* by then, and which runs were not over.
BeginReport ==
    /\ report.pc = "idle"
    /\ report' = [pc |-> "reading", listed |-> DOMAIN files, ok |-> TRUE, seen |-> {},
                  present |-> UNION {{[file |-> f, entry |-> Fields(files[f][i])] :
                                        i \in {i \in 1..Len(files[f]) : files[f][i].cut = Whole}}
                                        : f \in DOMAIN files},
                  going |-> {r \in Invocation : invocations[r].pc # "over"}]
    /\ UNCHANGED <<day, files, invocations, torn>>

\* By name: the dated command logs come before diff-*.jsonl.
NextListed ==
    CHOOSE f \in report.listed : \A g \in report.listed :
        f = g \/ (f[1] = "command" /\ g[1] = "analysis") \/ (f[1] = g[1] /\ f[2] < g[2])

\* A mutant: a file that has been removed meanwhile is no reason to complain.
ReadLogOrNothing ==
    /\ report.pc = "reading" /\ report.listed # {}
    /\ LET scan == Scan(IF NextListed \in DOMAIN files THEN files[NextListed] ELSE <<>>, report.seen) IN
          report' = [report EXCEPT !.listed = @ \ {NextListed}, !.seen = scan.entries, !.ok = @ /\ scan.ok]
    /\ UNCHANGED <<day, files, invocations, torn>>

ReadLog ==
    /\ report.pc = "reading" /\ report.listed # {}
    /\ LET f == NextListed
           scan == IF f \in DOMAIN files THEN Scan(files[f], report.seen) ELSE Read(FALSE, report.seen)
       IN report' = [report EXCEPT !.listed = @ \ {f}, !.seen = scan.entries, !.ok = @ /\ scan.ok]
    /\ UNCHANGED <<day, files, invocations, torn>>

\* logSummary.finish and Read: the outcomes by run, the starts without one, and
\* whether the report is complete.
Outcomes == {e \in report.seen : e.msg = "finish"}
Unended == {e.run : e \in {e \in report.seen : e.msg = "start"}} \ {e.run : e \in Outcomes}
FinishReport ==
    /\ report.pc = "reading" /\ report.listed = {}
    /\ report' = [report EXCEPT !.pc = "done"]
    /\ UNCHANGED <<day, files, invocations, torn>>

CompleteReport == report.pc = "done" /\ report.ok

-----------------------------------------------------------------------------
AllNew == [r \in Invocation |-> [pc |-> "new", started |-> 0, log |-> "none",
                                  expired |-> {}, code |-> 0, ended |-> FALSE]]
Idle == [pc |-> "idle", listed |-> {}, ok |-> TRUE, seen |-> {}, present |-> {}, going |-> {}]

LogInit ==
    /\ day = 1 /\ files = <<>> /\ torn = 0
    /\ invocations = AllNew /\ report = Idle

LogNext ==
    \/ \E r \in Invocation :
          \/ Begin(r) \/ OpenLog(r) \/ ListExpired(r) \/ RemoveExpired(r) \/ WriteStart(r)
          \/ Work(r) \/ RecordAnalysis(r) \/ WriteFinish(r) \/ Interrupt(r)
    \/ Midnight \/ BeginReport \/ ReadLog \/ FinishReport

LogSpec == LogInit /\ [][LogNext]_logVars

-----------------------------------------------------------------------------
(* Properties.                                                             *)

\* Nothing is counted that did not happen: an outcome or an analysis in the
\* statistics is one that the run it names really came to, whatever fragments
\* of other records its line holds.
ReportSound ==
    \A e \in report.seen : e.msg # "start" =>
        /\ e.run # Unknown /\ e.code = invocations[e.run].code
        /\ e.msg = "finish" => invocations[e.run].ended

\* "A damaged store never becomes a zero-count success": every record that was
\* written in full when the report began is in a complete report, so what such a
\* report calls unfinished had no outcome written in full.  The exception is a
\* record of a day that has expired by now, whose file another run of that
\* day, which was not over by then, may have created again.
MadeAgain(p) ==
    /\ p.file[2] < day - (Retained - 1)
    /\ \E r \in report.going \ {p.entry.run} : invocations[r].started = p.file[2]

CompleteReportMissesNothing ==
    CompleteReport => \A p \in report.present : ~MadeAgain(p) =>
        /\ p.entry \in report.seen
        /\ p.entry.msg = "finish" => p.entry.run \notin Unended

\* No outcome is counted that did not happen, and a report that calls itself
\* complete has every record that was there in full (stats/logs.go, cli/log.go).
ReportIsTrue == ReportSound /\ CompleteReportMissesNothing
=============================================================================
