------------------------------ MODULE ItemsStore ------------------------------
(***************************************************************************)
(* The items table behind list_items() and create_item()                   *)
(* (app/api/main.py).  A BIGSERIAL id is handed out by the INSERT and the   *)
(* row is seen by others from the COMMIT on, so rows may become visible in  *)
(* another order than their ids, and a rolled back insert leaves a gap.     *)
(***************************************************************************)
EXTENDS Naturals, FiniteSets

CONSTANTS
    MaxId,          \* bound: no more ids are handed out
    Preloaded       \* items that are there before the page is opened

ASSUME ItemsAssumption ==
    /\ MaxId \in Nat
    /\ Preloaded \in 0..MaxId

VARIABLES
    lastSeq,        \* the last id the sequence has handed out
    inserted,       \* ids inserted by transactions that are still open
    visible,        \* committed ids
    overtaken       \* history: ids committed after a larger one

storeVars == <<lastSeq, inserted, visible, overtaken>>

Ids == 1..MaxId

StoreTypeOK ==
    /\ lastSeq \in 0..MaxId
    /\ inserted \subseteq 1..lastSeq
    /\ visible \subseteq 1..lastSeq
    /\ inserted \cap visible = {}
    /\ overtaken \subseteq visible

StoreInit ==
    /\ lastSeq = Preloaded
    /\ inserted = {}
    /\ visible = 1..Preloaded
    /\ overtaken = {}

\* INSERT ... RETURNING id.
InsertItem(i) ==
    /\ i = lastSeq + 1
    /\ i <= MaxId
    /\ lastSeq' = i
    /\ inserted' = inserted \cup {i}
    /\ UNCHANGED <<visible, overtaken>>

\* COMMIT.
CommitItem(i) ==
    /\ i \in inserted
    /\ inserted' = inserted \ {i}
    /\ visible' = visible \cup {i}
    /\ overtaken' = overtaken \cup {k \in {i} : \E j \in visible : j > k}
    /\ UNCHANGED lastSeq

\* The mutant of AbortItem: a sequence without gaps takes the id back.
AbortItem_TakesBack(i) ==
    /\ i \in inserted
    /\ inserted' = inserted \ {i}
    /\ lastSeq' = i - 1
    /\ UNCHANGED <<visible, overtaken>>

\* The connection closes without a commit.
AbortItem(i) ==
    /\ i \in inserted
    /\ inserted' = inserted \ {i}
    /\ UNCHANGED <<lastSeq, visible, overtaken>>

\* SELECT ... WHERE id > after ORDER BY id LIMIT limit: the `limit` smallest.
PageOf(after, limit) ==
    {i \in visible : i > after /\ Cardinality({k \in visible : after < k /\ k < i}) < limit}
=============================================================================
