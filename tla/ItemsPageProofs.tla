---------------------------- MODULE ItemsPageProofs ----------------------------
(***************************************************************************)
(* Theorems about the web page's list, for any table, any page size and any *)
(* number of overlapping handlers, failing requests included.               *)
(***************************************************************************)
EXTENDS ItemsPage, NatLemmas

-----------------------------------------------------------------------------
(* The inductive invariant *)

\* What a call has in hand at each stage.
CallsInOrder ==
    \A c \in Calls :
        /\ stage[c] \notin {"get", "answered"} => after[c] = 0
        /\ stage[c] # "answered" => answer[c] = {} /\ seen[c] = {}
        /\ stage[c] \in {"idle", "post"} => made[c] = 0
        /\ stage[c] \in {"created", "get", "answered"} => made[c] \in visible \cup {0}

\* Cursors, the page's and those under way, are ids of committed items.
CursorsCommitted ==
    /\ lastId \in visible \cup {0}
    /\ \A c \in Calls : after[c] \in visible \cup {0}

AnswersCommitted == \A c \in Calls : answer[c] \subseteq seen[c] /\ seen[c] \subseteq visible

\* A page skips none of what was committed, and a short one ends the table.
AnswersWhole ==
    \A c \in Calls : \A i \in seen[c] :
        /\ after[c] < i
        /\ \/ \E j \in answer[c] : i <= j
           \/ Cardinality(answer[c]) < PAGE_SIZE
        => i \in answer[c]

\* What was committed since, with an id the page has passed, came out of order.
LateAreOvertaken ==
    \A c \in Calls : \A j \in answer[c], i \in visible \ seen[c] : i < j => i \in overtaken

Explained(i) == i \in shown \/ i \in overtaken \/ stale

\* GapsExplained for the cursor of every request of the present list.
AfterExplained ==
    \A c \in Calls :
        stage[c] \in {"get", "answered"} /\ c \notin outdated =>
            \A i \in visible : i <= after[c] => Explained(i)

IndInv ==
    /\ TypeOK
    /\ CallsInOrder /\ CursorsCommitted /\ AnswersCommitted /\ AnswersWhole
    /\ LateAreOvertaken /\ AfterExplained
    /\ RowsDistinct /\ GapsExplained /\ ScreenIsCommitted

-----------------------------------------------------------------------------
(* The pages of list_items() *)

\* Keyset paging: of what is committed behind the cursor, a page holds all up to
\* its last item, and a page that is not full holds all there is.
LEMMA PageSkipsNothing ==
    ASSUME StoreTypeOK, NEW a \in Nat, NEW limit \in Nat,
           NEW i \in visible, a < i,
           \/ \E j \in PageOf(a, limit) : i <= j
           \/ Cardinality(PageOf(a, limit)) < limit
    PROVE  i \in PageOf(a, limit)
<1> DEFINE Before(x) == {k \in visible : a < k /\ k < x}
           Page == {x \in visible : x > a /\ Cardinality(Before(x)) < limit}
<1>1. visible \subseteq Nat /\ IsFiniteSet(visible)
  <2>1. visible \subseteq 1..lastSeq /\ lastSeq \in Nat
    BY ItemsAssumption DEF StoreTypeOK
  <2>2. IsFiniteSet(1..lastSeq)
    BY <2>1, FS_Interval
  <2>3. IsFiniteSet(visible)
    BY <2>1, <2>2, FS_Subset
  <2>4. visible \subseteq Nat
    BY <2>1
  <2> QED
    BY <2>3, <2>4
<1>2. PageOf(a, limit) = Page
  BY DEF PageOf
<1>3. \A x : IsFiniteSet(Before(x)) /\ Cardinality(Before(x)) \in Nat
  BY <1>1, FS_Subset, FS_CardinalityType
<1>4. IsFiniteSet(Page) /\ Page \subseteq visible /\ Cardinality(Page) \in Nat
  BY <1>1, FS_Subset, FS_CardinalityType
<1>5. \A x, k : k \in Before(x) <=> k \in visible /\ a < k /\ k < x
  OBVIOUS
<1>6. \A x : x \in Page <=> x \in visible /\ x > a /\ Cardinality(Before(x)) < limit
  OBVIOUS
<1> HIDE DEF Before, Page
<1>7. CASE \E j \in Page : i <= j
  <2>1. PICK j \in Page : i <= j
    BY <1>7
  <2>2. i \in Nat /\ j \in Nat
    BY <1>1, <1>4, <2>1
  <2>3. Before(i) \subseteq Before(j)
    <3>1. ASSUME NEW k \in Before(i)
          PROVE  k \in Before(j)
      <4>1. k \in visible /\ a < k /\ k < i /\ k \in Nat
        BY <1>1, <1>5
      <4> QED
        BY <1>5, <2>1, <2>2, <4>1
    <3> QED
      BY <3>1
  <2>4. Cardinality(Before(i)) <= Cardinality(Before(j))
    BY <1>3, <2>3, FS_Subset
  <2>5. Cardinality(Before(j)) < limit
    BY <1>6, <2>1
  <2>6. Cardinality(Before(i)) < limit
    BY <1>3, <2>4, <2>5
  <2> QED
    BY <1>1, <1>2, <1>6, <2>6
<1>8. CASE Cardinality(Page) < limit
  <2> DEFINE Missing == {k \in visible : a < k /\ k \notin Page}
             m == Min(Missing)
  <2>1. SUFFICES ASSUME i \notin Page
                 PROVE  FALSE
    BY <1>2
  <2>2. Missing \subseteq Nat /\ Missing # {}
    BY <1>1, <2>1
  <2>3. m \in Missing /\ \A k \in Missing : m <= k
    BY <2>2, MinOfNats
  <2>4. m \in visible /\ a < m /\ m \notin Page /\ m \in Nat
    BY <1>1, <2>3
  <2>5. \A k \in visible : a < k /\ k < m => k \in Page
    <3>1. ASSUME NEW k \in visible, a < k, k < m, k \notin Page
          PROVE  FALSE
      <4>1. k \in Missing /\ k \in Nat
        BY <1>1, <3>1
      <4> HIDE DEF Missing
      <4>2. m <= k
        BY <2>3, <4>1
      <4> HIDE DEF m
      <4> QED
        BY <2>4, <3>1, <4>1, <4>2
    <3> QED
      BY <3>1
  <2> HIDE DEF m, Missing
  <2>6. Before(m) \subseteq Page
    BY <1>5, <2>5
  <2>7. Cardinality(Before(m)) <= Cardinality(Page)
    BY <1>4, <2>6, FS_Subset
  <2>8. Cardinality(Before(m)) < limit
    <3>1. Cardinality(Before(m)) \in Nat
      BY <1>3
    <3> QED
      BY <1>4, <1>8, <2>7, <3>1
  <2> QED
    BY <1>6, <2>4, <2>8
<1> QED
  BY <1>2, <1>7, <1>8

-----------------------------------------------------------------------------
(* What the steps do to the table *)

LEMMA CommitEffect ==
    ASSUME StoreTypeOK, NEW i, CommitItem(i)
    PROVE  /\ StoreTypeOK'
           /\ i \in Ids /\ i \notin visible
           /\ visible' = visible \cup {i}
           /\ overtaken \subseteq overtaken'
           /\ \A j \in visible : i < j => i \in overtaken'
<1>1. /\ lastSeq \in 0..MaxId /\ lastSeq' = lastSeq
      /\ inserted \subseteq 1..lastSeq /\ visible \subseteq 1..lastSeq
      /\ inserted \cap visible = {} /\ overtaken \subseteq visible
      /\ i \in inserted /\ inserted' = inserted \ {i} /\ visible' = visible \cup {i}
      /\ overtaken' = overtaken \cup {k \in {i} : \E j \in visible : j > k}
  BY DEF StoreTypeOK, CommitItem
<1>2. i \in Ids /\ i \notin visible
  BY <1>1, ItemsAssumption DEF Ids
<1>3. overtaken \subseteq overtaken' /\ overtaken' \subseteq visible'
  BY <1>1
<1>4. ASSUME NEW j \in visible, i < j
      PROVE  i \in overtaken'
  <2>1. j > i
    BY <1>4
  <2> QED
    BY <1>1, <2>1
<1>5. StoreTypeOK'
  <2>1. inserted' \subseteq 1..lastSeq' /\ visible' \subseteq 1..lastSeq' /\ inserted' \cap visible' = {}
    BY <1>1
  <2> QED
    BY <1>1, <1>3, <2>1 DEF StoreTypeOK
<1> QED
  BY <1>1, <1>2, <1>3, <1>4, <1>5

LEMMA InsertEffect ==
    ASSUME StoreTypeOK, NEW i, InsertItem(i)
    PROVE  /\ StoreTypeOK'
           /\ visible' = visible /\ overtaken' = overtaken
           /\ i \in Ids
  BY ItemsAssumption DEF StoreTypeOK, InsertItem, Ids

LEMMA AbortEffect ==
    ASSUME StoreTypeOK, NEW i, AbortItem(i)
    PROVE  /\ StoreTypeOK'
           /\ visible' = visible /\ overtaken' = overtaken
  BY ItemsAssumption DEF StoreTypeOK, AbortItem, Ids

\* The cursor a rendered page leaves behind is its last item.
LEMMA LastIdEffect ==
    ASSUME IndInv, NEW c \in Calls
    PROVE  /\ answer[c] = {} => LastId(c) = lastId
           /\ answer[c] # {} => /\ LastId(c) \in answer[c]
                                /\ \A j \in answer[c] : j <= LastId(c)
<1>1. answer[c] \subseteq Nat /\ MaxId \in Nat /\ \A j \in answer[c] : j <= MaxId
  BY ItemsAssumption DEF IndInv, TypeOK, Ids
<1>2. CASE answer[c] # {}
  <2>1. Max(answer[c]) \in answer[c] /\ \A j \in answer[c] : j <= Max(answer[c])
    BY <1>1, <1>2, MaxOfNats
  <2> QED
    BY <1>2, <2>1 DEF LastId
<1> QED
  BY <1>2 DEF LastId

-----------------------------------------------------------------------------
(* The invariant holds at the start, and every step preserves it *)

LEMMA InitIndInv == Init => IndInv
<1> SUFFICES ASSUME Init
             PROVE  IndInv
  OBVIOUS
<1>1. TypeOK
  <2>1. StoreTypeOK /\ visible \subseteq Ids
    BY ItemsAssumption DEF Init, StoreInit, StoreTypeOK, Ids
  <2>2. stage \in [Calls -> {"idle", "post", "open", "created", "get", "answered"}]
    <3>1. PICK first \in Calls : stage = [c \in Calls |-> IF c = first THEN "get" ELSE "idle"]
      BY DEF Init
    <3> QED
      BY <3>1
  <2>3. rows \in [Ids -> Nat] /\ made \in [Calls -> 0..MaxId] /\ after \in [Calls -> 0..MaxId]
    BY ItemsAssumption DEF Init
  <2>4. answer \in [Calls -> SUBSET Ids] /\ seen \in [Calls -> SUBSET Ids]
    BY DEF Init
  <2>5. lastId \in 0..MaxId /\ shown \subseteq Ids /\ outdated \subseteq Calls
    BY ItemsAssumption DEF Init
  <2> QED
    BY <2>1, <2>2, <2>3, <2>4, <2>5 DEF Init, TypeOK
<1>2. \A i \in visible : i > 0
  BY ItemsAssumption DEF Init, StoreInit
<1>3. CallsInOrder /\ CursorsCommitted /\ AnswersCommitted /\ LateAreOvertaken
  BY DEF Init, CallsInOrder, CursorsCommitted, AnswersCommitted, LateAreOvertaken
<1>4. AnswersWhole
  BY DEF Init, AnswersWhole
<1>5. AfterExplained /\ GapsExplained
  BY <1>2, ItemsAssumption DEF Init, StoreInit, AfterExplained, GapsExplained
<1>6. RowsDistinct /\ ScreenIsCommitted
  BY DEF Init, RowsDistinct, ScreenIsCommitted
<1> QED
  BY <1>1, <1>3, <1>4, <1>5, <1>6 DEF IndInv

\* A step that leaves the screen, the cursors and the answers alone, while the
\* table may grow by a commit.
StoreStep ==
    /\ StoreTypeOK'
    /\ UNCHANGED <<rows, shown, lastId, more, after, answer, seen, outdated, stale>>
    /\ \/ visible' = visible /\ overtaken' = overtaken
       \/ \E i \in Ids \ visible :
            /\ visible' = visible \cup {i}
            /\ overtaken \subseteq overtaken'
            /\ \A j \in visible : i < j => i \in overtaken'

LEMMA StoreStepSafe ==
    ASSUME IndInv, StoreStep
    PROVE  /\ CursorsCommitted' /\ AnswersCommitted' /\ AnswersWhole' /\ LateAreOvertaken'
           /\ RowsDistinct' /\ GapsExplained' /\ ScreenIsCommitted'
           /\ \A c \in Calls :
                stage[c] \in {"get", "answered"} /\ c \notin outdated' =>
                    \A i \in visible' : i <= after'[c] => Explained(i)'
<1>1. visible \subseteq visible' /\ overtaken \subseteq overtaken'
  BY DEF StoreStep
<1>2. \A i \in visible' \ visible : i \in Ids /\ \A j \in visible : i < j => i \in overtaken'
  BY DEF StoreStep
<1>3. /\ visible \subseteq Nat /\ Ids \subseteq Nat \ {0} /\ lastId \in Nat
      /\ \A c \in Calls : after[c] \in Nat
  BY ItemsAssumption DEF IndInv, TypeOK, StoreTypeOK, Ids
<1>4. \A i \in visible' \ visible, k \in visible \cup {0} : i <= k => i \in overtaken'
  <2>1. ASSUME NEW i \in visible' \ visible, NEW k \in visible \cup {0}, i <= k
        PROVE  i \in overtaken'
    <3>1. i \in Nat /\ i # 0 /\ k \in Nat /\ i # k
      <4>1. i \in Ids
        BY <1>2
      <4> QED
        BY <1>3, <4>1
    <3>2. k \in visible /\ i < k
      BY <2>1, <3>1
    <3> QED
      BY <1>2, <3>2
  <2> QED
    BY <2>1
<1>5. CursorsCommitted' /\ AnswersCommitted' /\ RowsDistinct' /\ ScreenIsCommitted'
  BY <1>1 DEF IndInv, StoreStep, CursorsCommitted, AnswersCommitted, RowsDistinct, ScreenIsCommitted
<1>6. AnswersWhole'
  BY DEF IndInv, StoreStep, AnswersWhole
<1>7. LateAreOvertaken'
  BY <1>1, <1>2 DEF IndInv, StoreStep, LateAreOvertaken, AnswersCommitted
<1>8. GapsExplained'
  BY <1>1, <1>4 DEF IndInv, StoreStep, GapsExplained, CursorsCommitted
<1>9. ASSUME NEW c \in Calls, stage[c] \in {"get", "answered"}, c \notin outdated',
             NEW i \in visible', i <= after'[c]
      PROVE  Explained(i)'
  <2>1. after'[c] = after[c] /\ outdated' = outdated /\ after[c] \in visible \cup {0}
    BY DEF IndInv, StoreStep, CursorsCommitted
  <2>2. CASE i \in visible
    <3>1. Explained(i)
      BY <1>9, <2>1, <2>2 DEF IndInv, AfterExplained
    <3> QED
      BY <1>1, <3>1 DEF StoreStep, Explained
  <2>3. CASE i \notin visible
    BY <1>4, <1>9, <2>1, <2>3 DEF Explained
  <2> QED
    BY <2>2, <2>3
<1> QED
  BY <1>5, <1>6, <1>7, <1>8, <1>9

LEMMA OthersPreserve ==
    ASSUME IndInv, OtherInserts \/ OtherEnds
    PROVE  IndInv'
<1>1. StoreStep /\ UNCHANGED <<stage, made>>
  <2>1. CASE OtherInserts
    BY <2>1, InsertEffect DEF IndInv, TypeOK, OtherInserts, StoreStep, screenVars, callVars
  <2>2. CASE OtherEnds
    <3>1. PICK i : CommitItem(i) \/ AbortItem(i)
      BY <2>2 DEF OtherEnds
    <3>2. StoreTypeOK
      BY DEF IndInv, TypeOK
    <3>3. UNCHANGED <<screenVars, callVars, stale>>
      BY <2>2 DEF OtherEnds
    <3>4. CASE CommitItem(i)
      BY <3>2, <3>3, <3>4, CommitEffect DEF StoreStep, screenVars, callVars
    <3>5. CASE AbortItem(i)
      BY <3>2, <3>3, <3>5, AbortEffect DEF StoreStep, screenVars, callVars
    <3> QED
      BY <3>1, <3>4, <3>5
  <2> QED
    BY <2>1, <2>2
<1>2. TypeOK'
  BY <1>1 DEF IndInv, TypeOK, StoreStep
<1>3. visible \subseteq visible'
  BY <1>1 DEF StoreStep
<1>4. CallsInOrder'
  BY <1>1, <1>3 DEF IndInv, CallsInOrder, StoreStep
<1>5. AfterExplained'
  BY <1>1, StoreStepSafe DEF AfterExplained
<1> QED
  BY <1>1, <1>2, <1>4, <1>5, StoreStepSafe DEF IndInv

LEMMA InsertPreserves ==
    ASSUME IndInv, NEW c \in Calls, Insert(c)
    PROVE  IndInv'
<1>1. PICK i \in Ids : InsertItem(i) /\ made' = [made EXCEPT ![c] = i]
  BY DEF Insert
<1>2. StoreStep
  BY <1>1, InsertEffect DEF IndInv, TypeOK, Insert, StoreStep, screenVars
<1>3. /\ stage[c] = "post" /\ stage' = [stage EXCEPT ![c] = "open"]
  BY DEF Insert, Move
<1>4. visible' = visible
  BY <1>1 DEF InsertItem
<1>5. TypeOK'
  <2>1. made' \in [Calls -> 0..MaxId]
    BY <1>1, ItemsAssumption DEF IndInv, TypeOK, Ids
  <2>2. stage' \in [Calls -> {"idle", "post", "open", "created", "get", "answered"}]
    BY <1>3 DEF IndInv, TypeOK
  <2> QED
    BY <1>2, <2>1, <2>2 DEF IndInv, TypeOK, StoreStep
<1>6. CallsInOrder'
  BY <1>1, <1>2, <1>3, <1>4 DEF IndInv, TypeOK, CallsInOrder, StoreStep
<1>7. AfterExplained'
  BY <1>2, <1>3, StoreStepSafe DEF IndInv, TypeOK, AfterExplained
<1> QED
  BY <1>2, <1>5, <1>6, <1>7, StoreStepSafe DEF IndInv

LEMMA CommitPreserves ==
    ASSUME IndInv, NEW c \in Calls, Commit(c)
    PROVE  IndInv'
<1>1. CommitItem(made[c]) /\ StoreTypeOK
  BY DEF Commit, IndInv, TypeOK
<1>2. StoreStep /\ made' = made /\ visible' = visible \cup {made[c]}
  BY <1>1, CommitEffect DEF Commit, StoreStep, screenVars
<1>3. /\ stage[c] = "open" /\ stage' = [stage EXCEPT ![c] = "created"]
  BY DEF Commit, Move
<1>4. TypeOK'
  BY <1>2, <1>3 DEF IndInv, TypeOK, StoreStep
<1>5. CallsInOrder'
  BY <1>2, <1>3 DEF IndInv, TypeOK, CallsInOrder, StoreStep
<1>6. AfterExplained'
  BY <1>2, <1>3, StoreStepSafe DEF IndInv, TypeOK, AfterExplained
<1> QED
  BY <1>2, <1>4, <1>5, <1>6, StoreStepSafe DEF IndInv

LEMMA AnswerPreserves ==
    ASSUME IndInv, NEW c \in Calls, Answer(c)
    PROVE  IndInv'
<1> DEFINE page == PageOf(after[c], PAGE_SIZE)
<1>1. /\ stage[c] = "get" /\ stage' = [stage EXCEPT ![c] = "answered"]
      /\ answer' = [answer EXCEPT ![c] = page]
      /\ seen' = [seen EXCEPT ![c] = visible]
      /\ UNCHANGED <<storeVars, screenVars, made, after, outdated, stale>>
  BY DEF Answer, Move
<1>2. page \subseteq visible /\ visible \subseteq Ids
  BY ItemsAssumption DEF PageOf, IndInv, TypeOK, StoreTypeOK, Ids
<1>3. ASSUME NEW i \in visible, after[c] < i,
             (\E j \in page : i <= j) \/ Cardinality(page) < PAGE_SIZE
      PROVE  i \in page
  <2>1. after[c] \in Nat /\ PAGE_SIZE \in Nat /\ StoreTypeOK
    BY ItemsAssumption, PageAssumption DEF IndInv, TypeOK
  <2> QED
    BY <1>3, <2>1, PageSkipsNothing
<1> HIDE DEF page
<1>4. TypeOK'
  BY <1>1, <1>2 DEF IndInv, TypeOK, StoreTypeOK, storeVars, screenVars
<1>5. CallsInOrder' /\ CursorsCommitted' /\ AfterExplained'
  BY <1>1 DEF IndInv, TypeOK, CallsInOrder, CursorsCommitted, AfterExplained, Explained,
              storeVars, screenVars
<1>6. AnswersCommitted'
  BY <1>1, <1>2 DEF IndInv, TypeOK, AnswersCommitted, storeVars
<1>7. AnswersWhole'
  <2>1. SUFFICES ASSUME NEW d \in Calls, NEW i \in seen'[d], after'[d] < i,
                        \/ \E j \in answer'[d] : i <= j
                        \/ Cardinality(answer'[d]) < PAGE_SIZE
                 PROVE  i \in answer'[d]
    BY DEF AnswersWhole
  <2>2. CASE d = c
    <3>1. answer'[d] = page /\ seen'[d] = visible /\ after'[d] = after[c]
      BY <1>1, <2>2 DEF IndInv, TypeOK
    <3> QED
      BY <1>3, <2>1, <3>1
  <2>3. CASE d # c
    <3>1. answer'[d] = answer[d] /\ seen'[d] = seen[d] /\ after'[d] = after[d]
      BY <1>1, <2>3 DEF IndInv, TypeOK
    <3> QED
      BY <2>1, <3>1 DEF IndInv, AnswersWhole
  <2> QED
    BY <2>2, <2>3
<1>8. LateAreOvertaken'
  BY <1>1 DEF IndInv, TypeOK, LateAreOvertaken, storeVars
<1>9. RowsDistinct' /\ GapsExplained' /\ ScreenIsCommitted'
  BY <1>1 DEF IndInv, RowsDistinct, GapsExplained, ScreenIsCommitted, storeVars, screenVars
<1> QED
  BY <1>4, <1>5, <1>6, <1>7, <1>8, <1>9 DEF IndInv

LEMMA ClickMorePreserves ==
    ASSUME IndInv, NEW c \in Calls, ClickMore(c)
    PROVE  IndInv'
<1>1. /\ stage[c] = "idle" /\ stage' = [stage EXCEPT ![c] = "get"]
      /\ after' = [after EXCEPT ![c] = lastId]
      /\ UNCHANGED <<storeVars, screenVars, made, answer, seen, outdated, stale>>
  BY DEF ClickMore, Move
<1>2. answer[c] = {} /\ seen[c] = {} /\ made[c] = 0
  BY <1>1 DEF IndInv, CallsInOrder
<1>3. TypeOK'
  BY <1>1 DEF IndInv, TypeOK, StoreTypeOK, storeVars, screenVars
<1>4. CallsInOrder' /\ CursorsCommitted'
  BY <1>1, <1>2 DEF IndInv, TypeOK, CallsInOrder, CursorsCommitted, storeVars, screenVars
<1>5. AfterExplained'
  BY <1>1 DEF IndInv, TypeOK, AfterExplained, GapsExplained, Explained, storeVars, screenVars
<1>6. AnswersCommitted' /\ LateAreOvertaken'
  BY <1>1 DEF IndInv, AnswersCommitted, LateAreOvertaken, storeVars
<1>7. AnswersWhole'
  <2>1. ASSUME NEW d \in Calls, NEW i \in seen'[d]
        PROVE  after'[d] = after[d] /\ seen'[d] = seen[d] /\ answer'[d] = answer[d]
    BY <1>1, <1>2, <2>1 DEF IndInv, TypeOK
  <2> QED
    BY <2>1 DEF IndInv, AnswersWhole
<1>8. RowsDistinct' /\ GapsExplained' /\ ScreenIsCommitted'
  BY <1>1 DEF IndInv, RowsDistinct, GapsExplained, ScreenIsCommitted, storeVars, screenVars
<1> QED
  BY <1>3, <1>4, <1>5, <1>6, <1>7, <1>8 DEF IndInv

LEMMA SubmitPreserves ==
    ASSUME IndInv, NEW c \in Calls, Submit(c)
    PROVE  IndInv'
<1>1. /\ stage[c] = "idle" /\ stage' = [stage EXCEPT ![c] = "post"]
      /\ UNCHANGED <<storeVars, screenVars, made, after, answer, seen, outdated, stale>>
  BY DEF Submit, Move
<1>2. TypeOK'
  BY <1>1 DEF IndInv, TypeOK, StoreTypeOK, storeVars, screenVars
<1>3. CallsInOrder' /\ CursorsCommitted' /\ AfterExplained'
  BY <1>1 DEF IndInv, TypeOK, CallsInOrder, CursorsCommitted, AfterExplained, Explained,
              storeVars, screenVars
<1>4. AnswersCommitted' /\ AnswersWhole' /\ LateAreOvertaken'
  BY <1>1 DEF IndInv, AnswersCommitted, AnswersWhole, LateAreOvertaken, storeVars
<1>5. RowsDistinct' /\ GapsExplained' /\ ScreenIsCommitted'
  BY <1>1 DEF IndInv, RowsDistinct, GapsExplained, ScreenIsCommitted, storeVars, screenVars
<1> QED
  BY <1>2, <1>3, <1>4, <1>5 DEF IndInv

LEMMA ReloadPreserves ==
    ASSUME IndInv, NEW c \in Calls, Reload(c)
    PROVE  IndInv'
<1>1. /\ stage[c] = "created" /\ stage' = [stage EXCEPT ![c] = "get"]
      /\ rows' = [i \in Ids |-> 0] /\ shown' = {} /\ lastId' = 0 /\ stale' = FALSE
      /\ outdated' = {d \in Calls : stage[d] \in {"get", "answered"}}
      /\ UNCHANGED <<storeVars, more, made, after, answer, seen>>
  BY DEF Reload, Move
<1>2. TypeOK'
  <2>1. rows' \in [Ids -> Nat] /\ lastId' \in 0..MaxId /\ shown' \subseteq Ids
    BY <1>1, ItemsAssumption DEF Ids
  <2>2. stage' \in [Calls -> {"idle", "post", "open", "created", "get", "answered"}]
    BY <1>1 DEF IndInv, TypeOK
  <2>3. outdated' \subseteq Calls /\ stale' \in BOOLEAN
    BY <1>1
  <2> QED
    BY <1>1, <2>1, <2>2, <2>3 DEF IndInv, TypeOK, StoreTypeOK, storeVars
<1>3. CallsInOrder' /\ CursorsCommitted'
  <2>1. after[c] = 0
    BY <1>1 DEF IndInv, CallsInOrder
  <2> QED
    BY <1>1, <2>1 DEF IndInv, TypeOK, CallsInOrder, CursorsCommitted, storeVars
<1>4. \A i \in visible' : ~ (i <= 0)
  BY <1>1, ItemsAssumption DEF IndInv, TypeOK, StoreTypeOK, storeVars
<1>5. AfterExplained'
  <2>1. ASSUME NEW d \in Calls, stage'[d] \in {"get", "answered"}, d \notin outdated'
        PROVE  d = c
    BY <1>1, <2>1 DEF IndInv, TypeOK
  <2>2. after'[c] = 0
    BY <1>1 DEF IndInv, CallsInOrder
  <2> QED
    BY <1>4, <2>1, <2>2 DEF AfterExplained
<1>6. AnswersCommitted' /\ AnswersWhole' /\ LateAreOvertaken'
  BY <1>1 DEF IndInv, AnswersCommitted, AnswersWhole, LateAreOvertaken, storeVars
<1>7. RowsDistinct' /\ GapsExplained' /\ ScreenIsCommitted'
  BY <1>1, <1>4 DEF RowsDistinct, GapsExplained, ScreenIsCommitted
<1> QED
  BY <1>2, <1>3, <1>5, <1>6, <1>7 DEF IndInv

\* The end of a handler takes its answer with it and leaves the others alone.
LEMMA ForgetSafe ==
    ASSUME IndInv, NEW c \in Calls, Forget(c), visible' = visible, overtaken' = overtaken
    PROVE  /\ CallsInOrder' /\ AnswersCommitted' /\ AnswersWhole' /\ LateAreOvertaken'
           /\ \A d \in Calls : after'[d] \in visible \cup {0}
           /\ \A d \in Calls : stage'[d] \in {"get", "answered"} /\ d \notin outdated' =>
                d \notin outdated /\ stage[d] = stage'[d] /\ after'[d] = after[d]
           /\ stage' \in [Calls -> {"idle", "post", "open", "created", "get", "answered"}]
           /\ made' \in [Calls -> 0..MaxId] /\ after' \in [Calls -> 0..MaxId]
           /\ answer' \in [Calls -> SUBSET Ids] /\ seen' \in [Calls -> SUBSET Ids]
           /\ outdated' \subseteq Calls
<1>1. /\ stage'[c] = "idle" /\ made'[c] = 0 /\ after'[c] = 0
      /\ answer'[c] = {} /\ seen'[c] = {}
  BY DEF IndInv, TypeOK, Forget
<1>2. \A d \in Calls \ {c} :
        /\ stage'[d] = stage[d] /\ made'[d] = made[d] /\ after'[d] = after[d]
        /\ answer'[d] = answer[d] /\ seen'[d] = seen[d]
  BY DEF IndInv, TypeOK, Forget
<1>3. outdated' = outdated \ {c}
  BY DEF Forget
<1>4. CallsInOrder' /\ AnswersCommitted'
  BY <1>1, <1>2 DEF IndInv, CallsInOrder, AnswersCommitted
<1>5. AnswersWhole'
  <2>1. ASSUME NEW d \in Calls, NEW i \in seen'[d]
        PROVE  after'[d] = after[d] /\ seen'[d] = seen[d] /\ answer'[d] = answer[d]
    BY <1>1, <1>2, <2>1
  <2> QED
    BY <2>1 DEF IndInv, AnswersWhole
<1>6. LateAreOvertaken'
  BY <1>1, <1>2 DEF IndInv, LateAreOvertaken
<1>7. \A d \in Calls : after'[d] \in visible \cup {0}
  BY <1>1, <1>2 DEF IndInv, CursorsCommitted
<1>8. \A d \in Calls : stage'[d] \in {"get", "answered"} /\ d \notin outdated' =>
        d \notin outdated /\ stage[d] = stage'[d] /\ after'[d] = after[d]
  BY <1>1, <1>2, <1>3
<1>9. /\ stage' \in [Calls -> {"idle", "post", "open", "created", "get", "answered"}]
      /\ made' \in [Calls -> 0..MaxId] /\ after' \in [Calls -> 0..MaxId]
      /\ answer' \in [Calls -> SUBSET Ids] /\ seen' \in [Calls -> SUBSET Ids]
      /\ outdated' \subseteq Calls
  BY ItemsAssumption DEF IndInv, TypeOK, Forget
<1> QED
  BY <1>4, <1>5, <1>6, <1>7, <1>8, <1>9

LEMMA FailPreserves ==
    ASSUME IndInv, NEW c \in Calls, Fail(c)
    PROVE  IndInv'
<1>1. Forget(c) /\ UNCHANGED <<screenVars, stale>> /\ StoreTypeOK
  BY DEF Fail, IndInv, TypeOK
<1>2. StoreTypeOK' /\ visible' = visible /\ overtaken' = overtaken
  <2>1. CASE stage[c] = "open"
    BY <1>1, <2>1, AbortEffect DEF Fail
  <2>2. CASE stage[c] # "open"
    BY <1>1, <2>2 DEF Fail, storeVars, StoreTypeOK
  <2> QED
    BY <2>1, <2>2
<1>3. TypeOK'
  BY <1>1, <1>2, ForgetSafe DEF IndInv, TypeOK, screenVars
<1>4. CursorsCommitted'
  BY <1>1, <1>2, ForgetSafe DEF IndInv, CursorsCommitted, screenVars
<1>5. AfterExplained'
  BY <1>1, <1>2, ForgetSafe DEF IndInv, AfterExplained, Explained, screenVars
<1>6. RowsDistinct' /\ GapsExplained' /\ ScreenIsCommitted'
  BY <1>1, <1>2 DEF IndInv, RowsDistinct, GapsExplained, ScreenIsCommitted, screenVars
<1> QED
  BY <1>1, <1>2, <1>3, <1>4, <1>5, <1>6, ForgetSafe DEF IndInv

\* What a rendered page and a pinned item do to the screen.
LEMMA RenderEffect ==
    ASSUME IndInv, NEW c \in Calls, Render(c)
    PROVE  /\ answer[c] \subseteq shown' /\ shown \subseteq shown' /\ shown' \subseteq visible
           /\ rows' \in [Ids -> Nat]
           /\ \A i \in Ids : rows'[i] = IF i \in shown' THEN 1 ELSE 0
           /\ lastId' \in visible \cup {0}
<1>1. /\ stage[c] = "answered"
      /\ rows' = [i \in Ids |-> rows[i] + Cardinality(Rendered(c) \cap {i})
                                        + Cardinality(Pinned(c) \cap {i})]
      /\ shown' = shown \cup Rendered(c) \cup Pinned(c)
      /\ lastId' = LastId(c)
  BY DEF Render
<1>2. answer[c] \subseteq visible /\ made[c] \in visible \cup {0}
  BY <1>1 DEF IndInv, AnswersCommitted, CallsInOrder
<1>3. /\ Rendered(c) = answer[c] \ shown
      /\ Pinned(c) = {made[c]} \ ({0} \cup shown \cup answer[c])
  BY DEF Rendered, Pinned
<1>4. answer[c] \subseteq shown' /\ shown \subseteq shown' /\ shown' \subseteq visible
  BY <1>1, <1>2, <1>3 DEF IndInv, ScreenIsCommitted
<1>5. \A i \in Ids : /\ rows'[i] \in Nat
                     /\ rows'[i] = IF i \in shown' THEN 1 ELSE 0
  <2>1. SUFFICES ASSUME NEW i \in Ids
                 PROVE  rows'[i] = IF i \in shown' THEN 1 ELSE 0
    OBVIOUS
  <2>2. /\ Cardinality(Rendered(c) \cap {i}) = IF i \in Rendered(c) THEN 1 ELSE 0
        /\ Cardinality(Pinned(c) \cap {i}) = IF i \in Pinned(c) THEN 1 ELSE 0
    BY CountOne
  <2>3. rows[i] = IF i \in shown THEN 1 ELSE 0
    BY DEF IndInv, RowsDistinct
  <2>4. rows'[i] = (IF i \in shown THEN 1 ELSE 0) + (IF i \in Rendered(c) THEN 1 ELSE 0)
                    + (IF i \in Pinned(c) THEN 1 ELSE 0)
    BY <1>1, <2>2, <2>3
  <2> QED
    BY <1>1, <1>3, <2>4
<1>6. rows' \in [Ids -> Nat]
  <2>1. DOMAIN rows' = Ids /\ rows' = [i \in Ids |-> rows'[i]]
    BY <1>1
  <2> QED
    BY <1>5, <2>1
<1>7. lastId' \in visible \cup {0}
  BY <1>1, <1>2, LastIdEffect DEF IndInv, CursorsCommitted
<1> QED
  BY <1>4, <1>5, <1>6, <1>7

LEMMA RenderPreserves ==
    ASSUME IndInv, NEW c \in Calls, Render(c)
    PROVE  IndInv'
<1>1. /\ Forget(c) /\ UNCHANGED storeVars
      /\ stage[c] = "answered"
      /\ lastId' = LastId(c)
      /\ more' = IsFull(answer[c])
      /\ stale' = (stale \/ c \in outdated)
  BY DEF Render
<1>2. visible' = visible /\ overtaken' = overtaken /\ StoreTypeOK'
  BY <1>1 DEF IndInv, TypeOK, StoreTypeOK, storeVars
<1>3. visible \subseteq Ids /\ Ids \subseteq Nat \ {0}
  BY ItemsAssumption DEF IndInv, TypeOK, StoreTypeOK, Ids
<1>4. TypeOK'
  <2>1. lastId' \in 0..MaxId /\ shown' \subseteq Ids
    <3>1. lastId' \in visible \cup {0} /\ shown' \subseteq visible
      BY RenderEffect
    <3>2. visible \cup {0} \subseteq 0..MaxId
      BY <1>3, ItemsAssumption DEF Ids
    <3> QED
      BY <1>3, <3>1, <3>2
  <2>2. more' \in BOOLEAN /\ stale' \in BOOLEAN
    BY <1>1 DEF IsFull, IndInv, TypeOK
  <2> QED
    BY <1>1, <1>2, <2>1, <2>2, ForgetSafe, RenderEffect DEF TypeOK
<1>5. CursorsCommitted'
  BY <1>1, <1>2, ForgetSafe, RenderEffect DEF CursorsCommitted
<1>6. RowsDistinct' /\ ScreenIsCommitted'
  BY <1>2, RenderEffect DEF RowsDistinct, ScreenIsCommitted
<1>7. \A i : Explained(i) => Explained(i)'
  BY <1>1, <1>2, RenderEffect DEF Explained
<1>8. AfterExplained'
  BY <1>1, <1>2, <1>7, ForgetSafe DEF IndInv, AfterExplained
<1>9. GapsExplained'
  <2>1. SUFFICES ASSUME NEW i \in visible, i <= lastId'
                 PROVE  Explained(i)'
    BY <1>2 DEF GapsExplained, Explained
  <2>2. CASE c \in outdated
    BY <1>1, <2>2 DEF Explained
  <2>3. CASE answer[c] = {}
    BY <1>1, <1>7, <2>1, <2>3, LastIdEffect DEF IndInv, GapsExplained, Explained
  <2>4. CASE c \notin outdated /\ answer[c] # {}
    <3>1. lastId' \in answer[c] /\ lastId' \in Nat /\ i \in Nat
      BY <1>1, <1>3, <2>4, LastIdEffect DEF IndInv, AnswersCommitted
    <3>2. CASE i \notin seen[c]
      <4>1. i # lastId'
        BY <3>1, <3>2 DEF IndInv, AnswersCommitted
      <4>2. i < lastId'
        BY <2>1, <3>1, <4>1
      <4> QED
        BY <1>2, <3>1, <3>2, <4>2 DEF IndInv, LateAreOvertaken, Explained
    <3>3. CASE i \in seen[c] /\ after[c] < i
      <4>1. i \in answer[c]
        BY <2>1, <3>1, <3>3 DEF IndInv, AnswersWhole
      <4> QED
        BY <4>1, RenderEffect DEF Explained
    <3>4. CASE ~ (after[c] < i)
      <4>1. i <= after[c]
        BY <3>1, <3>4, ItemsAssumption DEF IndInv, TypeOK
      <4>2. Explained(i)
        BY <1>1, <2>4, <4>1 DEF IndInv, AfterExplained
      <4> QED
        BY <1>7, <4>2
    <3> QED
      BY <3>2, <3>3, <3>4
  <2> QED
    BY <2>2, <2>3, <2>4
<1> QED
  BY <1>1, <1>2, <1>4, <1>5, <1>6, <1>8, <1>9, ForgetSafe DEF IndInv

LEMMA StepPreserves == IndInv /\ [Next]_vars => IndInv'
<1> SUFFICES ASSUME IndInv, [Next]_vars
             PROVE  IndInv'
  OBVIOUS
<1>1. CASE OtherInserts \/ OtherEnds
  BY <1>1, OthersPreserve
<1>2. ASSUME NEW c \in Calls,
             Insert(c) \/ Commit(c) \/ Answer(c) \/ ClickMore(c) \/ Submit(c)
                \/ Reload(c) \/ Render(c) \/ Fail(c)
      PROVE  IndInv'
  BY <1>2, InsertPreserves, CommitPreserves, AnswerPreserves, ClickMorePreserves,
     SubmitPreserves, ReloadPreserves, RenderPreserves, FailPreserves
<1>3. CASE UNCHANGED vars
  <2>1. TypeOK'
    BY <1>3 DEF IndInv, TypeOK, StoreTypeOK, vars, storeVars, screenVars, callVars
  <2>2. CallsInOrder' /\ CursorsCommitted' /\ AnswersCommitted' /\ AnswersWhole'
    BY <1>3 DEF IndInv, CallsInOrder, CursorsCommitted, AnswersCommitted, AnswersWhole,
                vars, storeVars, screenVars, callVars
  <2>3. LateAreOvertaken' /\ AfterExplained' /\ RowsDistinct' /\ GapsExplained' /\ ScreenIsCommitted'
    BY <1>3 DEF IndInv, LateAreOvertaken, AfterExplained, Explained, RowsDistinct, GapsExplained,
                ScreenIsCommitted, vars, storeVars, screenVars, callVars
  <2> QED
    BY <2>1, <2>2, <2>3 DEF IndInv
<1> QED
  BY <1>1, <1>2, <1>3 DEF Next

LEMMA Inductive == Spec => []IndInv
  BY InitIndInv, StepPreserves, PTL DEF Spec

-----------------------------------------------------------------------------
(* The theorems *)

\* The page and the table keep their types.
THEOREM PageTypeCorrect == Spec => []TypeOK
<1>1. IndInv => TypeOK
  BY DEF IndInv
<1> QED
  BY <1>1, Inductive, PTL

\* However many loads and submits overlap, no item is displayed twice.
THEOREM NoRowTwice == Spec => []RowsDistinct
<1>1. IndInv => RowsDistinct
  BY DEF IndInv
<1> QED
  BY <1>1, Inductive, PTL

\* A skipped item was committed out of order, or an answer of an earlier list was
\* rendered: paging skips no item in any other way.
THEOREM OnlyTwoGaps == Spec => []GapsExplained
<1>1. IndInv => GapsExplained
  BY DEF IndInv
<1> QED
  BY <1>1, Inductive, PTL

\* What is displayed is committed.
THEOREM NothingUncommitted == Spec => []ScreenIsCommitted
<1>1. IndInv => ScreenIsCommitted
  BY DEF IndInv
<1> QED
  BY <1>1, Inductive, PTL

\* A short page hides the button only over a list without unexplained gaps.
THEOREM HiddenIsComplete == Spec => HidingIsHonest
<1>1. ASSUME IndInv, NEW c \in Calls, Render(c), ~more', ~stale'
      PROVE  seen[c] \subseteq shown' \cup overtaken
  <2>1. stage[c] = "answered" /\ c \notin outdated /\ ~stale /\ ~IsFull(answer[c])
    BY <1>1 DEF Render
  <2>2. Cardinality(answer[c]) < PAGE_SIZE
    <3>1. answer[c] \subseteq 1..MaxId
      BY <1>1 DEF IndInv, TypeOK, Ids
    <3>2. IsFiniteSet(1..MaxId)
      BY ItemsAssumption, FS_Interval
    <3>3. Cardinality(answer[c]) \in Nat
      BY <3>1, <3>2, FS_Subset, FS_CardinalityType
    <3> QED
      BY <2>1, <3>3, PageAssumption DEF IsFull
  <2>3. SUFFICES ASSUME NEW i \in seen[c]
                 PROVE  i \in shown' \/ i \in overtaken
    OBVIOUS
  <2>4. i \in visible /\ i \in Nat /\ after[c] \in Nat
    <3>1. i \in visible
      BY <1>1, <2>3 DEF IndInv, AnswersCommitted
    <3>2. after[c] \in 0..MaxId /\ seen[c] \subseteq 1..MaxId
      BY <1>1 DEF IndInv, TypeOK, Ids
    <3> QED
      BY <3>1, <3>2, ItemsAssumption
  <2>5. CASE after[c] < i
    BY <1>1, <2>2, <2>5, RenderEffect DEF IndInv, AnswersWhole
  <2>6. CASE i <= after[c]
    BY <1>1, <2>1, <2>4, <2>6, RenderEffect DEF IndInv, AfterExplained, Explained
  <2> QED
    BY <2>4, <2>5, <2>6
<1>2. IndInv /\ [Next]_vars =>
        [\A c \in Calls :
            Render(c) /\ ~more' /\ ~stale' => seen[c] \subseteq shown' \cup overtaken]_vars
  BY <1>1
<1> QED
  BY <1>2, Inductive, PTL DEF Spec, HidingIsHonest
=============================================================================
