------------------------- MODULE RegistrationProofs -------------------------
(***************************************************************************)
(* Proofs about Registration, for any columns, values and requests.        *)
(***************************************************************************)
EXTENDS Registration, TLAPS

\* A submission that is under way has all its fields.
FormsFilled ==
  \A r \in Requests :
    pc[r] \notin {<<"idle">>, <<"editing">>} =>
      form[r].key \in Key /\ form[r].details \in Details

\* What a form, or a row, remembers of older rows are ids given before.
OlderGiven ==
  \A c \in Column :
    /\ \A r \in Requests : form[r].older[c] \subseteq 1 .. (nextId - 1)
    /\ \A a \in DOMAIN rows : rows[a].older[c] \subseteq 1 .. (a - 1)

\* While its lookups have found nothing, no row a form has seen in a column it
\* has looked up, and that still exists, stores the value the form was given.
LookupsHold ==
  \A r \in Requests, c \in Column, k \in 1 .. (Len(Columns) + 1) :
    pc[r] = Lookup(k) /\ c < k /\ ~form[r].found =>
      \A a \in form[r].older[c] \cap DOMAIN rows :
        rows[a].key[c] # form[r].key[c]

\* What a row stores is what its columns make of what it was given.
StoredAsColumn ==
  \A a \in DOMAIN rows : rows[a].key = [c \in Column |-> Stored[c][rows[a].given[c]]]

IInv == TypeOK /\ FormsFilled /\ OlderGiven /\ LookupsHold /\ StoredAsColumn
        /\ DuplicatesExplained

-----------------------------------------------------------------------------
\* The columns are numbered.
LEMMA ColumnNumbers ==
  Len(Columns) \in Nat \ {0} /\ Column = 1 .. Len(Columns)
BY ColumnsAssumption DEF Column

\* The steps of a submission are different ones.
LEMMA LabelsDiffer ==
  /\ \A c, d \in Nat : Lookup(c) = Lookup(d) => c = d
  /\ \A c \in Nat : Lookup(c) \notin {<<"idle">>, <<"submitted">>, <<"editing">>}
  /\ <<"idle">> # <<"submitted">> /\ <<"idle">> # <<"editing">>
  /\ <<"submitted">> # <<"editing">>
BY DEF Lookup

\* A closed form is one of the forms there are, and remembers nothing.
LEMMA ClosedForm ==
  /\ Closed \in Form
  /\ \A c \in Column : Closed.older[c] = {}
<1>1. /\ 0 \in 0 .. MaxId
      /\ [c \in Column |-> None] \in [Column -> Values \union {None}]
      /\ [c \in Column |-> {}] \in [Column -> SUBSET (1 .. MaxId)]
  BY MaxIdAssumption
<1>2. QED  BY <1>1 DEF Closed, Form

\* The invariant holds at the beginning.
LEMMA Initially == Init => IInv
<1> SUFFICES ASSUME Init PROVE IInv
  OBVIOUS
<1>1. DOMAIN rows = {}
  BY DEF Init, TInit
<1>2. TypeOK
  <2>1. nextId \in 1 .. (MaxId + 1)
    BY MaxIdAssumption DEF Init, TInit
  <2>2. form \in [Requests -> Form]
    BY ClosedForm DEF Init
  <2>3. QED  BY <1>1, <2>1, <2>2 DEF Init, TypeOK
<1>3. FormsFilled
  BY DEF Init, FormsFilled
<1>4. OlderGiven
  BY <1>1, ClosedForm DEF Init, OlderGiven
<1>5. LookupsHold
  BY <1>1 DEF LookupsHold
<1>6. StoredAsColumn /\ DuplicatesExplained
  BY <1>1 DEF StoredAsColumn, DuplicatesExplained
<1>7. QED  BY <1>2, <1>3, <1>4, <1>5, <1>6 DEF IInv

-----------------------------------------------------------------------------
\* A request that closes its form keeps what is said of the forms.
LEMMA Closing ==
  ASSUME IInv, NEW r \in Requests, Close(r), UNCHANGED table
  PROVE  /\ pc' \in [Requests -> {<<"idle">>, <<"submitted">>, <<"editing">>}
                       \union {Lookup(c) : c \in 1 .. (Len(Columns) + 1)}]
         /\ form' \in [Requests -> Form]
         /\ FormsFilled' /\ OlderGiven' /\ LookupsHold'
<1> USE DEF IInv, TypeOK, Close, Goto
<1>1. /\ pc' = [pc EXCEPT ![r] = <<"idle">>]
      /\ form' = [form EXCEPT ![r] = Closed]
      /\ rows' = rows /\ nextId' = nextId
  BY DEF table
<1>2. /\ pc' \in [Requests -> {<<"idle">>, <<"submitted">>, <<"editing">>}
                    \union {Lookup(c) : c \in 1 .. (Len(Columns) + 1)}]
      /\ form' \in [Requests -> Form]
  BY <1>1, ClosedForm
<1>3. FormsFilled'
  BY <1>1 DEF FormsFilled
<1>4. OlderGiven'
  BY <1>1, ClosedForm DEF OlderGiven
<1>5. LookupsHold'
  <2> SUFFICES ASSUME NEW q \in Requests, NEW c \in Column,
                      NEW k \in 1 .. (Len(Columns) + 1),
                      pc'[q] = Lookup(k), c < k, ~form'[q].found,
                      NEW a \in form'[q].older[c] \cap DOMAIN rows'
               PROVE  rows'[a].key[c] # form'[q].key[c]
    BY DEF LookupsHold
  <2>1. q # r
    BY <1>1, LabelsDiffer, ColumnNumbers
  <2>2. QED  BY <1>1, <2>1 DEF LookupsHold
<1>6. QED  BY <1>2, <1>3, <1>4, <1>5

-----------------------------------------------------------------------------
\* No step of a submission before the INSERT touches the table.
LEMMA SubmissionSteps ==
  ASSUME IInv, NEW r \in Requests,
         \/ \E key \in Key, details \in Details : Submit(r, key, details)
         \/ SaveFile(r)
         \/ \E c \in Column : Select(r, c)
         \/ \E id \in 1 .. MaxId : OpenEdit(r, id)
  PROVE  IInv'
<1> USE DEF IInv, TypeOK, Goto
<1>1. ASSUME NEW key \in Key, NEW details \in Details, Submit(r, key, details)
      PROVE  IInv'
  <2> DEFINE f == [Closed EXCEPT !.key = key, !.details = details]
             to == IF Uploads THEN <<"submitted">> ELSE Lookup(1)
  <2>1. /\ pc[r] = <<"idle">> /\ pc' = [pc EXCEPT ![r] = to]
        /\ form' = [form EXCEPT ![r] = f]
        /\ rows' = rows /\ nextId' = nextId /\ files' \subseteq Requests
    BY <1>1 DEF Submit, table
  <2>2. /\ f \in Form /\ f.key = key /\ f.details = details
        /\ \A c \in Column : f.older[c] = {}
    BY ClosedForm DEF Closed, Form, Key
  <2>3. 1 \in 1 .. (Len(Columns) + 1)
    BY ColumnNumbers
  <2>4. TypeOK'
    BY <2>1, <2>2, <2>3
  <2>5. FormsFilled'
    BY <2>1, <2>2 DEF FormsFilled
  <2>6. OlderGiven'
    BY <2>1, <2>2 DEF OlderGiven
  <2>7. LookupsHold'
    BY <2>1, <2>2 DEF LookupsHold
  <2>8. StoredAsColumn' /\ DuplicatesExplained'
    BY <2>1 DEF StoredAsColumn, DuplicatesExplained
  <2>9. QED  BY <2>4, <2>5, <2>6, <2>7, <2>8
<1>2. ASSUME SaveFile(r) PROVE IInv'
  <2>1. /\ pc[r] = <<"submitted">> /\ pc' = [pc EXCEPT ![r] = Lookup(1)]
        /\ UNCHANGED <<rows, nextId, files, form>>
    BY <1>2 DEF SaveFile, table
  <2>2. 1 \in 1 .. (Len(Columns) + 1)
    BY ColumnNumbers
  <2>3. TypeOK'
    BY <2>1, <2>2
  <2>4. FormsFilled'
    BY <2>1, LabelsDiffer DEF FormsFilled
  <2>5. OlderGiven'
    BY <2>1 DEF OlderGiven
  <2>6. LookupsHold'
    <3> SUFFICES ASSUME NEW q \in Requests, NEW c \in Column,
                        NEW k \in 1 .. (Len(Columns) + 1),
                        pc'[q] = Lookup(k), c < k, ~form'[q].found,
                        NEW a \in form'[q].older[c] \cap DOMAIN rows'
                 PROVE  rows'[a].key[c] # form'[q].key[c]
      BY DEF LookupsHold
    <3>1. q # r
      \* No column comes before the first lookup.
      BY <2>1, <2>2, LabelsDiffer, ColumnNumbers
    <3>2. QED  BY <2>1, <3>1 DEF LookupsHold
  <2>7. StoredAsColumn' /\ DuplicatesExplained'
    BY <2>1 DEF StoredAsColumn, DuplicatesExplained
  <2>8. QED  BY <2>3, <2>4, <2>5, <2>6, <2>7
<1>3. ASSUME NEW c \in Column, Select(r, c) PROVE IInv'
  <2> DEFINE f == [form[r] EXCEPT !.found = @ \/ Matching(c, form[r].key[c]) # {},
                                  !.older[c] = DOMAIN rows]
  <2>1. /\ pc[r] = Lookup(c) /\ pc' = [pc EXCEPT ![r] = Lookup(c + 1)]
        /\ rows' = rows /\ nextId' = nextId /\ files' = files
    BY <1>3 DEF Select, table
  <2>2. form' = [form EXCEPT ![r] = f]
    BY <1>3 DEF Select
  <2>3. form[r] \in Form
    OBVIOUS
  <2>4. DOMAIN rows \subseteq 1 .. (nextId - 1) /\ 1 .. (nextId - 1) \subseteq 1 .. MaxId
    BY MaxIdAssumption
  <2>5. /\ f.key = form[r].key /\ f.details = form[r].details /\ f.id = form[r].id
        /\ f.found = (form[r].found \/ Matching(c, form[r].key[c]) # {})
        /\ f.older = [form[r].older EXCEPT ![c] = DOMAIN rows]
    BY <2>3 DEF Form
  <2>6. f \in Form
    BY <2>3, <2>4 DEF Form
  <2>7. c \in Nat /\ c + 1 \in 1 .. (Len(Columns) + 1)
    BY ColumnNumbers
  <2>8. TypeOK'
    BY <2>1, <2>2, <2>6, <2>7
  <2>9. FormsFilled'
    BY <2>1, <2>2, <2>5, <2>7, LabelsDiffer DEF FormsFilled
  <2>10. OlderGiven'
    BY <2>1, <2>2, <2>3, <2>4, <2>5 DEF OlderGiven, Form
  <2>11. LookupsHold'
    <3> SUFFICES ASSUME NEW q \in Requests, NEW d \in Column,
                        NEW k \in 1 .. (Len(Columns) + 1),
                        pc'[q] = Lookup(k), d < k, ~form'[q].found,
                        NEW a \in form'[q].older[d] \cap DOMAIN rows'
                 PROVE  rows'[a].key[d] # form'[q].key[d]
      BY DEF LookupsHold
    <3>1. CASE q # r
      BY <2>1, <2>2, <3>1 DEF LookupsHold
    <3>2. CASE q = r /\ d = c
      BY <2>1, <2>2, <2>3, <2>5, <3>2 DEF Matching, Form
    <3>3. CASE q = r /\ d # c
      <4>1. k = c + 1 /\ d < c /\ c \in 1 .. (Len(Columns) + 1)
        BY <2>1, <2>7, <3>3, LabelsDiffer, ColumnNumbers
      <4>2. f.older[d] = form[r].older[d] /\ ~form[r].found
        BY <2>2, <2>3, <2>5, <3>3 DEF Form
      <4>3. QED  BY <2>1, <2>2, <2>5, <3>3, <4>1, <4>2 DEF LookupsHold
    <3>4. QED  BY <3>1, <3>2, <3>3
  <2>12. StoredAsColumn' /\ DuplicatesExplained'
    BY <2>1 DEF StoredAsColumn, DuplicatesExplained
  <2>13. QED  BY <2>8, <2>9, <2>10, <2>11, <2>12
<1>4. ASSUME NEW id \in 1 .. MaxId, OpenEdit(r, id) PROVE IInv'
  <2> DEFINE shown == IF id \in DOMAIN rows THEN rows[id].details ELSE None
             f     == [Closed EXCEPT !.id = id, !.details = shown]
  <2>1. /\ pc' = [pc EXCEPT ![r] = <<"editing">>]
        /\ form' = [form EXCEPT ![r] = f]
        /\ rows' = rows /\ nextId' = nextId /\ files' = files
    BY <1>4 DEF OpenEdit, table
  <2>2. id \in 0 .. MaxId /\ shown \in Details \union {None}
    BY MaxIdAssumption DEF Row
  <2>3. f \in Form /\ \A c \in Column : f.older[c] = {}
    BY <2>2, ClosedForm DEF Closed, Form
  <2>4. TypeOK'
    BY <2>1, <2>3
  <2>5. FormsFilled'
    BY <2>1 DEF FormsFilled
  <2>6. OlderGiven'
    BY <2>1, <2>3 DEF OlderGiven
  <2>7. LookupsHold'
    BY <2>1, <2>3 DEF LookupsHold
  <2>8. StoredAsColumn' /\ DuplicatesExplained'
    BY <2>1 DEF StoredAsColumn, DuplicatesExplained
  <2>9. QED  BY <2>4, <2>5, <2>6, <2>7, <2>8
<1>5. QED  BY <1>1, <1>2, <1>3, <1>4

\* The INSERT: the new row has a new id, and what its form has seen, nothing of
\* which has the form's mail or roll number.
LEMMA InsertStep ==
  ASSUME IInv, NEW r \in Requests, Insert(r)
  PROVE  IInv'
<1> DEFINE new == NewRow(form[r].key, form[r].details, form[r].older)
<1>1. /\ pc[r] = Lookup(Len(Columns) + 1) /\ ~form[r].found
      /\ pc' = [pc EXCEPT ![r] = <<"idle">>]
      /\ form' = [form EXCEPT ![r] = Closed]
      /\ files' = files /\ nextId' = nextId + 1 /\ nextId <= MaxId
      /\ DOMAIN rows' = DOMAIN rows \union {nextId}
      /\ \A id \in DOMAIN rows' : rows'[id] = IF id = nextId THEN new ELSE rows[id]
  BY DEF Insert, setData, Close, Goto, Decide
<1>2. /\ nextId \in Nat \ {0} /\ nextId \notin DOMAIN rows
      /\ DOMAIN rows \subseteq 1 .. (nextId - 1) /\ form[r] \in Form
  BY DEF IInv, TypeOK
<1>3. form[r].key \in Key /\ form[r].details \in Details
  BY <1>1, ColumnNumbers, LabelsDiffer DEF IInv, FormsFilled
<1>4. /\ new \in Row /\ \A c \in Column : new.older[c] \subseteq 1 .. (nextId - 1)
      /\ new.older = form[r].older /\ new.given = form[r].key
      /\ new.key = [c \in Column |-> Stored[c][new.given[c]]]
  <2>1. \A c \in Column : Stored[c][form[r].key[c]] \in Values
    BY <1>3, StoredAssumption DEF Key, Column
  <2>2. [c \in Column |-> Stored[c][form[r].key[c]]] \in Key
    BY <2>1 DEF Key
  <2>3. QED  BY <1>2, <1>3, <2>2 DEF NewRow, Row, Form, IInv, OlderGiven
<1> HIDE DEF new
<1>5. TypeOK'
  <2>1. DOMAIN rows' \subseteq 1 .. (nextId' - 1) /\ nextId' \in 1 .. (MaxId + 1)
    BY <1>1, <1>2, MaxIdAssumption
  <2>2. \A id \in DOMAIN rows' : rows'[id] \in Row
    BY <1>1, <1>4 DEF IInv, TypeOK
  <2>3. form' \in [Requests -> Form]
    BY <1>1, ClosedForm DEF IInv, TypeOK
  <2>4. QED  BY <1>1, <2>1, <2>2, <2>3 DEF IInv, TypeOK
<1>6. FormsFilled'
  BY <1>1 DEF IInv, TypeOK, FormsFilled
<1>7. OlderGiven'
  <2>1. ASSUME NEW c \in Column, NEW q \in Requests
        PROVE  form'[q].older[c] \subseteq 1 .. (nextId' - 1)
    BY <1>1, <1>2, ClosedForm DEF IInv, TypeOK, OlderGiven
  <2>2. ASSUME NEW c \in Column, NEW a \in DOMAIN rows'
        PROVE  rows'[a].older[c] \subseteq 1 .. (a - 1)
    BY <1>1, <1>4 DEF IInv, OlderGiven
  <2>3. QED  BY <2>1, <2>2 DEF OlderGiven
<1>8. LookupsHold'
  <2> SUFFICES ASSUME NEW q \in Requests, NEW c \in Column,
                      NEW k \in 1 .. (Len(Columns) + 1),
                      pc'[q] = Lookup(k), c < k, ~form'[q].found,
                      NEW a \in form'[q].older[c] \cap DOMAIN rows'
               PROVE  rows'[a].key[c] # form'[q].key[c]
    BY DEF LookupsHold
  <2>1. q # r
    BY <1>1, LabelsDiffer, ColumnNumbers DEF IInv, TypeOK
  <2>2. pc[q] = Lookup(k) /\ form'[q] = form[q]
    BY <1>1, <2>1 DEF IInv, TypeOK
  <2>3. a # nextId
    BY <1>2, <2>2 DEF IInv, OlderGiven
  <2>4. QED  BY <1>1, <2>2, <2>3 DEF IInv, LookupsHold
<1>9. DuplicatesExplained'
  <2>1. ASSUME NEW a \in DOMAIN rows, NEW c \in Column, rows[a].key[c] = new.key[c]
        PROVE  /\ a \in new.older[c] => new.given[c] # new.key[c]
               /\ nextId \notin rows[a].older[c]
    <3>1. Len(Columns) + 1 \in 1 .. (Len(Columns) + 1) /\ c < Len(Columns) + 1
      BY ColumnNumbers
    <3>2. a \in form[r].older[c] => rows[a].key[c] # form[r].key[c]
      BY <1>1, <3>1 DEF IInv, LookupsHold
    <3>3. rows[a].older[c] \subseteq 1 .. (a - 1) /\ a \in 1 .. (nextId - 1)
      BY <1>2 DEF IInv, OlderGiven
    <3>4. nextId \notin 1 .. (a - 1)
      BY <1>2, <3>3
    <3>5. QED  BY <1>4, <2>1, <3>2, <3>3, <3>4
  <2> SUFFICES ASSUME NEW a \in DOMAIN rows', NEW b \in DOMAIN rows', NEW c \in Column,
                      a # b, rows'[a].key[c] = rows'[b].key[c], a \in rows'[b].older[c]
               PROVE  rows'[b].given[c] # rows'[b].key[c]
    BY DEF DuplicatesExplained
  <2>2. CASE a # nextId /\ b # nextId
    BY <1>1, <2>2 DEF IInv, DuplicatesExplained
  <2>3. CASE a = nextId
    BY <1>1, <1>2, <2>1, <2>3
  <2>4. CASE b = nextId
    BY <1>1, <1>2, <2>1, <2>4
  <2>5. QED  BY <2>2, <2>3, <2>4
<1>10. StoredAsColumn'
  BY <1>1, <1>4 DEF IInv, StoredAsColumn
<1>11. QED  BY <1>5, <1>6, <1>7, <1>8, <1>9, <1>10 DEF IInv

\* What an UPDATE or a DELETE leaves of the rows keeps its keys.
LEMMA RowsKept ==
  ASSUME IInv, nextId' = nextId, files' = files,
         DOMAIN rows' \subseteq DOMAIN rows,
         \A id \in DOMAIN rows' : /\ rows'[id] \in Row
                                  /\ rows'[id].key = rows[id].key
                                  /\ rows'[id].given = rows[id].given
                                  /\ rows'[id].older = rows[id].older,
         \/ pc' = pc /\ form' = form
         \/ \E r \in Requests : Close(r)
  PROVE  IInv'
<1> USE DEF IInv, TypeOK
<1>1. \A q \in Requests : \/ pc'[q] = pc[q] /\ form'[q] = form[q]
                          \/ pc'[q] = <<"idle">> /\ form'[q] = Closed
  BY DEF Close, Goto
<1>2. /\ pc' \in [Requests -> {<<"idle">>, <<"submitted">>, <<"editing">>}
                    \union {Lookup(c) : c \in 1 .. (Len(Columns) + 1)}]
      /\ form' \in [Requests -> Form]
  BY ClosedForm DEF Close, Goto
<1>3. TypeOK'
  BY <1>2
<1>4. FormsFilled'
  BY <1>1 DEF FormsFilled
<1>5. OlderGiven'
  BY <1>1, ClosedForm DEF OlderGiven
<1>6. LookupsHold'
  <2> SUFFICES ASSUME NEW q \in Requests, NEW c \in Column,
                      NEW k \in 1 .. (Len(Columns) + 1),
                      pc'[q] = Lookup(k), c < k, ~form'[q].found,
                      NEW a \in form'[q].older[c] \cap DOMAIN rows'
               PROVE  rows'[a].key[c] # form'[q].key[c]
    BY DEF LookupsHold
  <2>1. pc[q] = Lookup(k) /\ form'[q] = form[q]
    <3>1. k \in Nat
      BY ColumnNumbers
    <3>2. pc'[q] # <<"idle">>
      BY <3>1, LabelsDiffer
    <3>3. QED  BY <1>1, <3>2
  <2>2. a \in form[q].older[c] \cap DOMAIN rows /\ ~form[q].found
    BY <2>1
  <2>3. rows[a].key[c] # form[q].key[c]
    BY <2>1, <2>2 DEF LookupsHold
  <2>4. QED  BY <2>1, <2>2, <2>3
<1>7. StoredAsColumn' /\ DuplicatesExplained'
  BY DEF StoredAsColumn, DuplicatesExplained
<1>8. QED  BY <1>3, <1>4, <1>5, <1>6, <1>7

\* A step that changes nothing a form or a row is about.
LEMMA Idle ==
  ASSUME IInv, UNCHANGED <<rows, nextId, pc, form>>, files' \subseteq Requests
  PROVE  IInv'
<1>1. TypeOK'
  BY DEF IInv, TypeOK
<1>2. FormsFilled' /\ OlderGiven' /\ LookupsHold' /\ StoredAsColumn' /\ DuplicatesExplained'
  BY DEF IInv, FormsFilled, OlderGiven, LookupsHold, StoredAsColumn, DuplicatesExplained
<1>3. QED  BY <1>1, <1>2 DEF IInv

\* A request that gives up, its table unchanged.
LEMMA GivingUp ==
  ASSUME IInv, NEW r \in Requests, NoFile(r) \/ Refuse(r) \/ InsertFails(r)
  PROVE  IInv'
<1>1. Close(r) /\ UNCHANGED table /\ files' = files
  BY DEF NoFile, Refuse, InsertFails, table
<1>2. rows' = rows /\ nextId' = nextId
  BY <1>1 DEF table
<1>3. /\ pc' \in [Requests -> {<<"idle">>, <<"submitted">>, <<"editing">>}
                    \union {Lookup(c) : c \in 1 .. (Len(Columns) + 1)}]
      /\ form' \in [Requests -> Form]
      /\ FormsFilled' /\ OlderGiven' /\ LookupsHold'
  BY <1>1, Closing
<1>4. TypeOK'
  BY <1>1, <1>2, <1>3 DEF IInv, TypeOK
<1>5. StoredAsColumn' /\ DuplicatesExplained'
  BY <1>2 DEF IInv, StoredAsColumn, DuplicatesExplained
<1>6. QED  BY <1>3, <1>4, <1>5 DEF IInv

\* Every step preserves the invariant.
LEMMA Inductive == IInv /\ [Next]_vars => IInv'
<1> SUFFICES ASSUME IInv, [Next]_vars PROVE IInv'
  OBVIOUS
<1>1. ASSUME NEW r \in Requests,
             \/ \E key \in Key, details \in Details : Submit(r, key, details)
             \/ SaveFile(r)
             \/ \E c \in Column : Select(r, c)
             \/ \E id \in 1 .. MaxId : OpenEdit(r, id)
      PROVE  IInv'
  BY <1>1, SubmissionSteps
<1>2. ASSUME NEW r \in Requests, NoFile(r) \/ Refuse(r) \/ InsertFails(r)
      PROVE  IInv'
  BY <1>2, GivingUp
<1>3. ASSUME NEW r \in Requests, Insert(r) PROVE IInv'
  BY <1>3, InsertStep
<1>4. ASSUME NEW r \in Requests, NEW details \in Details, SubmitEdit(r, details)
      PROVE  IInv'
  <2>1. /\ Close(r) /\ nextId' = nextId /\ files' = files
        /\ DOMAIN rows' = DOMAIN rows
        /\ \A i \in DOMAIN rows :
             rows'[i] = IF i = form[r].id THEN [rows[i] EXCEPT !.details = details]
                                          ELSE rows[i]
    BY <1>4 DEF SubmitEdit, editData
  <2>2. \A i \in DOMAIN rows : rows[i] \in Row
    BY DEF IInv, TypeOK
  <2>3. \A i \in DOMAIN rows' : /\ rows'[i] \in Row
                                /\ rows'[i].key = rows[i].key
                                /\ rows'[i].given = rows[i].given
                                /\ rows'[i].older = rows[i].older
    BY <2>1, <2>2 DEF Row
  <2>4. QED  BY <2>1, <2>3, RowsKept
<1>5. ASSUME NEW id \in DOMAIN rows, Delete(id) PROVE IInv'
  <2>1. /\ nextId' = nextId /\ files' = files /\ pc' = pc /\ form' = form
        /\ DOMAIN rows' \subseteq DOMAIN rows
        /\ \A i \in DOMAIN rows' : rows'[i] = rows[i]
    BY <1>5 DEF Delete, deleteData
  <2>2. \A i \in DOMAIN rows' : rows'[i] \in Row
    BY <2>1 DEF IInv, TypeOK
  <2>3. QED  BY <2>1, <2>2, RowsKept
<1>6. ASSUME NEW r \in Requests, FileCron(r) PROVE IInv'
  BY <1>6, Idle DEF FileCron, table, IInv, TypeOK
<1>7. CASE UNCHANGED vars
  BY <1>7, Idle DEF vars, IInv, TypeOK
<1>8. QED
  BY <1>1, <1>2, <1>3, <1>4, <1>5, <1>6, <1>7 DEF Next

-----------------------------------------------------------------------------
\* The invariant, at all times.
LEMMA Invariant == Spec => []IInv
BY Initially, Inductive, PTL DEF Spec

\* The variables keep their types, for any columns, values and requests.
THEOREM TypeCorrect == Spec => []TypeOK
<1>1. IInv => TypeOK
  BY DEF IInv
<1>2. QED  BY <1>1, Invariant, PTL

\* A duplicate has one of the two causes, however many students, rows and
\* columns there are and whatever is edited and deleted in between.
THEOREM TwoCausesOfDuplicates == Spec => []DuplicatesExplained
<1>1. IInv => DuplicatesExplained
  BY DEF IInv
<1>2. QED  BY <1>1, Invariant, PTL

\* In a column that keeps what it is given, as the mail's does, only submissions
\* that overlap make a duplicate: neither row was there when the other's form
\* looked.
THEOREM OnlyOverlapsDuplicate ==
  ASSUME NEW c \in Column, \A v \in Values : Stored[c][v] = v
  PROVE  Spec => [](\A a, b \in DOMAIN rows :
                      a # b /\ rows[a].key[c] = rows[b].key[c] =>
                        a \notin rows[b].older[c] /\ b \notin rows[a].older[c])
<1> DEFINE Overlapped == \A a, b \in DOMAIN rows :
                           a # b /\ rows[a].key[c] = rows[b].key[c] =>
                             a \notin rows[b].older[c] /\ b \notin rows[a].older[c]
<1>1. ASSUME IInv PROVE Overlapped
  <2>1. \A b \in DOMAIN rows : rows[b].given[c] = rows[b].key[c]
    <3> SUFFICES ASSUME NEW b \in DOMAIN rows PROVE rows[b].given[c] = rows[b].key[c]
      OBVIOUS
    <3>1. rows[b].given[c] \in Values
      BY <1>1 DEF IInv, TypeOK, Row, Key
    <3>2. rows[b].key[c] = Stored[c][rows[b].given[c]]
      BY <1>1 DEF IInv, StoredAsColumn
    <3>3. QED  BY <3>1, <3>2
  <2>2. QED  BY <1>1, <2>1 DEF IInv, DuplicatesExplained
<1>2. QED  BY <1>1, Invariant, PTL

\* No step brings a deleted row back or gives its id to another.
THEOREM DeletionsLast == Spec => DeletedStaysDeleted
<1>1. ASSUME IInv, [Next]_vars
      PROVE  [\A id \in 1 .. (nextId - 1) :
                id \notin DOMAIN rows => id \notin DOMAIN rows']_vars
  <2>1. DOMAIN rows' \subseteq DOMAIN rows \union {nextId}
    <3>1. ASSUME NEW r \in Requests, Insert(r)
          PROVE  DOMAIN rows' \subseteq DOMAIN rows \union {nextId}
      BY <3>1 DEF Insert, setData
    <3>2. ASSUME NEW r \in Requests, NEW details \in Details, SubmitEdit(r, details)
          PROVE  DOMAIN rows' = DOMAIN rows
      BY <3>2 DEF SubmitEdit, editData
    <3>3. ASSUME NEW id \in DOMAIN rows, Delete(id)
          PROVE  DOMAIN rows' \subseteq DOMAIN rows
      BY <3>3 DEF Delete, deleteData
    <3>4. ASSUME NEW r \in Requests,
                 \/ \E key \in Key, details \in Details : Submit(r, key, details)
                 \/ SaveFile(r) \/ NoFile(r)
                 \/ \E c \in Column : Select(r, c)
                 \/ Refuse(r) \/ InsertFails(r)
                 \/ \E id \in 1 .. MaxId : OpenEdit(r, id)
                 \/ FileCron(r)
          PROVE  rows' = rows
      BY <3>4 DEF Submit, SaveFile, NoFile, Select, Refuse, InsertFails, OpenEdit,
                  FileCron, table
    <3>5. CASE UNCHANGED vars
      BY <3>5 DEF vars
    <3>6. QED  BY <1>1, <3>1, <3>2, <3>3, <3>4, <3>5 DEF Next
  <2>2. nextId \notin 1 .. (nextId - 1)
    BY <1>1 DEF IInv, TypeOK
  <2>3. QED  BY <2>1, <2>2
<1>2. QED  BY <1>1, Invariant, PTL DEF Spec, DeletedStaysDeleted
=============================================================================
