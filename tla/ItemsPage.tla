------------------------------- MODULE ItemsPage -------------------------------
(***************************************************************************)
(* The web page's list of items (app/web/app.js) against the table.         *)
(* loadPage() and the submit handler await the network, so any number of    *)
(* their calls may be under way, and answers arrive in any order.  Code     *)
(* between two awaits runs without interruption and is one step.            *)
(***************************************************************************)
EXTENDS ItemsStore, FiniteSetsExt

CONSTANTS
    Calls,          \* bound: handlers that can be under way at once
    PAGE_SIZE,
    CanFail         \* requests may fail

ASSUME PageAssumption ==
    /\ PAGE_SIZE \in Nat \ {0}
    /\ CanFail \in BOOLEAN

VARIABLES
    rows,           \* how many <li> elements show an item
    shown,          \* the page's `shown`
    lastId,
    more,           \* the "load more" button is not hidden
    stage,          \* what each call waits for
    made,           \* the id its POST inserted; 0: it is not a submit
    after,          \* the after_id its GET was sent with
    answer,         \* the page the GET was answered with
    seen,           \* history: what was committed at that moment
    outdated,       \* history: calls whose GET was sent before the last reset
    stale           \* history: such an answer was rendered since that reset

screenVars == <<rows, shown, lastId, more>>
callVars == <<stage, made, after, answer, seen, outdated>>
vars == <<storeVars, screenVars, callVars, stale>>

TypeOK ==
    /\ StoreTypeOK
    /\ rows \in [Ids -> Nat]
    /\ shown \subseteq Ids
    /\ lastId \in 0..MaxId
    /\ more \in BOOLEAN
    /\ stage \in [Calls -> {"idle", "post", "open", "created", "get", "answered"}]
    /\ made \in [Calls -> 0..MaxId]
    /\ after \in [Calls -> 0..MaxId]
    /\ answer \in [Calls -> SUBSET Ids]
    /\ seen \in [Calls -> SUBSET Ids]
    /\ outdated \subseteq Calls
    /\ stale \in BOOLEAN

\* The page has just been opened: the button is hidden (index.html) and the
\* first loadItems() has sent its request.
Init ==
    /\ StoreInit
    /\ rows = [i \in Ids |-> 0]
    /\ shown = {}
    /\ lastId = 0
    /\ more = FALSE
    /\ \E first \in Calls : stage = [c \in Calls |-> IF c = first THEN "get" ELSE "idle"]
    /\ made = [c \in Calls |-> 0]
    /\ after = [c \in Calls |-> 0]
    /\ answer = [c \in Calls |-> {}]
    /\ seen = [c \in Calls |-> {}]
    /\ outdated = {}
    /\ stale = FALSE

-----------------------------------------------------------------------------
(* The table, other clients included *)

Mine == {made[c] : c \in Calls}

OtherInserts ==
    /\ \E i \in Ids : InsertItem(i)
    /\ UNCHANGED <<screenVars, callVars, stale>>

OtherEnds ==
    /\ \E i \in inserted \ Mine : CommitItem(i) \/ AbortItem(i)
    /\ UNCHANGED <<screenVars, callVars, stale>>

Move(c, from, to) ==
    /\ stage[c] = from
    /\ stage' = [stage EXCEPT ![c] = to]

\* create_item() of this page's POST.
Insert(c) ==
    /\ Move(c, "post", "open")
    /\ \E i \in Ids : InsertItem(i) /\ made' = [made EXCEPT ![c] = i]
    /\ UNCHANGED <<screenVars, after, answer, seen, outdated, stale>>

\* A mutant of Commit: the answer is sent before the commit.
Commit_Unsaved(c) ==
    /\ Move(c, "open", "created")
    /\ UNCHANGED <<storeVars, screenVars, made, after, answer, seen, outdated, stale>>

Commit(c) ==
    /\ Move(c, "open", "created")
    /\ CommitItem(made[c])
    /\ UNCHANGED <<screenVars, made, after, answer, seen, outdated, stale>>

\* list_items().
Answer(c) ==
    /\ Move(c, "get", "answered")
    /\ answer' = [answer EXCEPT ![c] = PageOf(after[c], PAGE_SIZE)]
    /\ seen' = [seen EXCEPT ![c] = visible]
    /\ UNCHANGED <<storeVars, screenVars, made, after, outdated, stale>>

-----------------------------------------------------------------------------
(* The page *)

\* A handler is over; its slot is free for another one.
Forget(c) ==
    /\ stage' = [stage EXCEPT ![c] = "idle"]
    /\ made' = [made EXCEPT ![c] = 0]
    /\ after' = [after EXCEPT ![c] = 0]
    /\ answer' = [answer EXCEPT ![c] = {}]
    /\ seen' = [seen EXCEPT ![c] = {}]
    /\ outdated' = outdated \ {c}

\* "Load more": loadPage(false) up to its fetch.
ClickMore(c) ==
    /\ more
    /\ Move(c, "idle", "get")
    /\ after' = [after EXCEPT ![c] = lastId]
    /\ UNCHANGED <<storeVars, screenVars, made, answer, seen, outdated, stale>>

\* Nothing stops a second submit while the first is under way.
Submit(c) ==
    /\ Move(c, "idle", "post")
    /\ UNCHANGED <<storeVars, screenVars, made, after, answer, seen, outdated, stale>>

\* The POST is answered: loadPage(true) empties the list at once and fetches
\* from 0.
Reload(c) ==
    /\ Move(c, "created", "get")
    /\ rows' = [i \in Ids |-> 0]
    /\ shown' = {}
    /\ lastId' = 0
    /\ stale' = FALSE
    /\ outdated' = {d \in Calls : stage[d] \in {"get", "answered"}}
    /\ UNCHANGED <<storeVars, more, made, after, answer, seen>>

\* Mutants: every item of the page is appended; pinning moves the cursor; a
\* page of PAGE_SIZE items hides the button.
Rendered_Unfiltered(c) == answer[c]
IsFull_OffByOne(page) == Cardinality(page) > PAGE_SIZE

\* list.append(...items.filter((item) => !shown.has(item.id))).
Rendered(c) == answer[c] \ shown

\* if (!shown.has(created.id)), after the page has been appended.
Pinned(c) == {made[c]} \ ({0} \cup shown \cup answer[c])

LastId_Pinned(c) ==
    IF answer[c] \cup Pinned(c) = {} THEN lastId ELSE Max(answer[c] \cup Pinned(c))

\* if (items.length) lastId = items[items.length - 1].id.
LastId(c) == IF answer[c] = {} THEN lastId ELSE Max(answer[c])

IsFull(page) == Cardinality(page) >= PAGE_SIZE

Render(c) ==
    /\ stage[c] = "answered"
    /\ rows' = [i \in Ids |-> rows[i] + Cardinality(Rendered(c) \cap {i})
                                      + Cardinality(Pinned(c) \cap {i})]
    /\ shown' = shown \cup Rendered(c) \cup Pinned(c)
    /\ lastId' = LastId(c)
    /\ more' = IsFull(answer[c])
    /\ stale' = (stale \/ c \in outdated)
    /\ Forget(c)
    /\ UNCHANGED storeVars

\* A POST is refused, rolled back, or committed with its answer lost; a GET is
\* refused or its answer lost.  The handler shows the error and ends; a list
\* that was emptied stays empty.
Fail(c) ==
    /\ CanFail
    /\ stage[c] # "idle"
    /\ IF stage[c] = "open" THEN AbortItem(made[c]) ELSE UNCHANGED storeVars
    /\ Forget(c)
    /\ UNCHANGED <<screenVars, stale>>

Next ==
    \/ OtherInserts
    \/ OtherEnds
    \/ \E c \in Calls :
        \/ Insert(c) \/ Commit(c) \/ Answer(c)
        \/ ClickMore(c) \/ Submit(c) \/ Reload(c) \/ Render(c) \/ Fail(c)

Spec == Init /\ [][Next]_vars

-----------------------------------------------------------------------------
(* Properties *)

\* However loads and submits overlap, `shown` is exactly what is displayed and
\* no item is displayed twice: app.js keeps the two in step by hand, and a
\* pinned item is met again when paging reaches it.
RowsDistinct ==
    \A i \in Ids : rows[i] = IF i \in shown THEN 1 ELSE 0

\* An item the cursor has passed is on screen, unless it was committed after an
\* item with a larger id, or an answer sent for an earlier list moved the
\* cursor.  Those are the only two ways paging by id can skip an item.
GapsExplained ==
    \A i \in visible : i <= lastId => i \in shown \/ i \in overtaken \/ stale

\* The page never shows an item that another client would not get: not one that
\* was rolled back, nor one whose insert is not committed yet.
ScreenIsCommitted == shown \subseteq visible

\* When a short page hides the button, all that was committed when the server
\* answered is on screen, with the two exceptions of GapsExplained: "a full page
\* means there may be more" also works the other way round.
HidingIsHonest ==
    [][\A c \in Calls :
        Render(c) /\ ~more' /\ ~stale' => seen[c] \subseteq shown' \cup overtaken]_vars

\* What the test of the page expects of its end (app/web/tests/test_items_ui.py,
\* "load more" until the button is gone and 120 of 120 items are listed): when
\* the last answer under way hides the button, no item in id order is missing.
EndMeansAll ==
    [][\A c \in Calls :
        /\ Render(c)
        /\ ~more'
        /\ \A d \in Calls : stage'[d] = "idle"
        => seen[c] \subseteq shown' \cup overtaken]_vars
=============================================================================
