------------------------------- MODULE Evidence -------------------------------
(***************************************************************************)
(* The report around an operational exercise: evidence() of                 *)
(* scripts/proof.py.  The file is created exclusively, empty, and says        *)
(* "running" before any work; it is rewritten once, when the body has        *)
(* returned or raised, and not at all when the process is killed.            *)
(***************************************************************************)
EXTENDS Naturals, FiniteSets

VARIABLES
    report,         \* the file: whose it is, and its status
    pc              \* where the script is; after "uid", in its body

evidenceVars == <<report, pc>>

EvidenceTypeOK ==
    /\ report \in [owner : {"nobody", "earlier", "this"},
                   status : {"absent", "unreadable", "running", "passed", "failed"}]
    /\ report.owner = "nobody" <=> report.status = "absent"

\* The path may be taken by an earlier exercise, under way or ended, whichever way.
EvidenceInit ==
    /\ report \in {[owner |-> "nobody", status |-> "absent"]}
                    \cup [owner : {"earlier"}, status : {"unreadable", "running", "passed", "failed"}]
    /\ pc = "open"

\* The mutant of Reserve: open("w").
Reserve_Overwrites ==
    /\ pc = "open"
    /\ report' = [owner |-> "this", status |-> "unreadable"]
    /\ pc' = "write"

\* open("x"): an empty file, or an exception.
Reserve ==
    /\ pc = "open"
    /\ IF report.owner = "nobody"
         THEN report' = [owner |-> "this", status |-> "unreadable"] /\ pc' = "write"
         ELSE pc' = "ended" /\ UNCHANGED report

\* The first write().  It is outside the try: when it fails the script ends, and
\* the file is as far as the write, or the flush on closing it, came.
FirstWrite ==
    /\ pc = "write"
    /\ \E s \in {"unreadable", "running"} :
        /\ report' = [report EXCEPT !.status = s]
        /\ pc' \in IF s = "running" THEN {"uid", "ended"} ELSE {"ended"}

\* The cluster's uid; the body begins.
Identify(body) == pc = "uid" /\ pc' = body /\ UNCHANGED report

\* A step of the body that leaves it through an exception.
Raise ==
    /\ pc \notin {"open", "write", "raised", "returned", "ended"}
    /\ pc' = "raised"
    /\ UNCHANGED report

\* The mutant of Close: the way the body ended is taken for the status.
Close_RawOutcome ==
    /\ pc \in {"raised", "returned"}
    /\ pc' = "ended"
    /\ report' = [report EXCEPT !.status = pc]

\* The last write(); it may fail itself, before the file is touched or in the
\* middle of it.
Close ==
    /\ pc \in {"raised", "returned"}
    /\ pc' = "ended"
    /\ \E s \in {report.status, "unreadable", IF pc = "returned" THEN "passed" ELSE "failed"} :
        report' = [report EXCEPT !.status = s]

\* SIGKILL, at any point.
Kill == pc # "ended" /\ pc' = "ended" /\ UNCHANGED report

EvidenceNext(body) == Reserve \/ FirstWrite \/ Identify(body) \/ Raise \/ Close \/ Kill
=============================================================================
