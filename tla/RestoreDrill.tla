------------------------------ MODULE RestoreDrill ------------------------------
(***************************************************************************)
(* The backup drill: scripts/check-backup.py and the backup and restore      *)
(* commands of scripts/database.py, while the application may be writing.     *)
(* A table is as many rows as were ever written to it: rows of items are only  *)
(* added, and a job's row never returns to an earlier status, so two equal     *)
(* fingerprints are the same rows.                                            *)
(***************************************************************************)
EXTENDS Evidence

CONSTANT MaxWrites      \* bound: writes to a table

ASSUME DrillAssumption == MaxWrites \in Nat

VARIABLES
    tables,         \* the application's database
    prints,         \* fingerprints taken so far: before, after, restored
    archive,        \* what the dump file holds
    digest,         \* the content whose checksum was recorded
    restored,       \* the rows of the restore_* database
    snapshot        \* history: the rows at the instant of the dump

restoreVars == <<tables, prints, archive, digest, restored, snapshot>>

TABLES == {"items", "jobs"}
Rows == [TABLES -> 0..MaxWrites]
Nothing == [t \in TABLES |-> 0]

RestoreTypeOK ==
    /\ {tables, archive, digest, restored, snapshot} \subseteq Rows
    /\ prints \in [{"before", "after", "restored"} -> Rows]

\* Fingerprints are 0 until they are taken: summarize() refuses an empty table.
RestoreInit ==
    /\ tables \in {Nothing, [t \in TABLES |-> IF MaxWrites > 0 THEN 1 ELSE 0]}
    /\ prints = [p \in {"before", "after", "restored"} |-> Nothing]
    /\ archive = Nothing /\ digest = Nothing /\ restored = Nothing /\ snapshot = Nothing

Body(from, to) == pc = from /\ pc' = to /\ UNCHANGED report

\* The application and its worker.
ApplicationWrites(t) ==
    /\ tables[t] < MaxWrites
    /\ tables' = [tables EXCEPT ![t] = @ + 1]
    /\ UNCHANGED <<evidenceVars, prints, archive, digest, restored, snapshot>>

\* The dump file changes on disk while it is still to be read.
Corrupt ==
    /\ pc \in {"hash", "checksum", "restore"}
    /\ archive' \in Rows
    /\ UNCHANGED <<evidenceVars, tables, prints, digest, restored, snapshot>>

\* One COPY per table, items first, each with a snapshot of its own.
Fingerprint(which, db, next) ==
    /\ \E t \in TABLES :
        /\ prints[which][t] = 0
        /\ t = "jobs" => prints[which]["items"] # 0
        /\ prints' = [prints EXCEPT ![which][t] = db[t]]
        /\ Body(which, IF db[t] = 0 THEN "raised" ELSE IF t = "items" THEN which ELSE next)
    /\ UNCHANGED <<tables, archive, digest, restored, snapshot>>

\* The readiness request before and after.
Ready(from, to) == Body(from, to) /\ UNCHANGED restoreVars

\* pg_dump: both tables at one instant.
Backup ==
    /\ Body("backup", "hash")
    /\ archive' = tables /\ snapshot' = tables
    /\ UNCHANGED <<tables, prints, digest, restored>>

Hash ==
    /\ Body("hash", "checksum")
    /\ digest' = archive
    /\ UNCHANGED <<tables, prints, archive, restored, snapshot>>

\* open_archive(), and createdb.
OpenArchive ==
    /\ Body("checksum", IF archive = digest THEN "restore" ELSE "raised")
    /\ UNCHANGED restoreVars

\* pg_restore --single-transaction, from the file as it is now.
Restore ==
    /\ Body("restore", "after")
    /\ restored' = archive
    /\ UNCHANGED <<tables, prints, archive, digest, snapshot>>

\* The mutant of Equal: the fingerprints from before the dump are left out.
Equal_AfterOnly == prints["after"] = prints["restored"]

\* verify_tables().
Equal == prints["before"] = prints["after"] /\ prints["after"] = prints["restored"]

VerifyTables ==
    /\ Body("verify", IF Equal THEN "ready_after" ELSE "raised")
    /\ UNCHANGED restoreVars

RestoreNext ==
    \/ \E t \in TABLES : ApplicationWrites(t)
    \/ Corrupt
    \/ EvidenceNext("ready") /\ UNCHANGED restoreVars
    \/ Ready("ready", "before")
    \/ Fingerprint("before", tables, "backup")
    \/ Backup \/ Hash \/ OpenArchive \/ Restore
    \/ Fingerprint("after", tables, "restored")
    \/ Fingerprint("restored", restored, "verify")
    \/ VerifyTables
    \/ Ready("ready_after", "returned")
=============================================================================
