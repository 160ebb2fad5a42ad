---------------------------- MODULE Registration ----------------------------
(***************************************************************************)
(* The registration forms of the site: RegistrationForm, EditForm and the  *)
(* controller's deleteStudent() over reg_form, and CustomForm, EditForm    *)
(* and deleteData() over custom_form, which check one column instead of    *)
(* two and upload no file.  Requests run next to each other, and a form    *)
(* stays open in a browser for as long as its user likes.                  *)
(***************************************************************************)
EXTENDS DataTable

CONSTANTS
  Requests,  \* the submissions and open forms there can be at once
  Uploads    \* TRUE: the form uploads a file (RegistrationForm)

ASSUME UploadsAssumption == Uploads \in BOOLEAN

VARIABLES
  files,     \* the requests whose uploaded file, a temporary one, exists
  pc,        \* where each request is
  form       \* the values of its form and what its lookups returned

vars == <<rows, nextId, files, pc, form>>

Closed == [id |-> 0, key |-> [c \in Column |-> None], details |-> None,
           older |-> [c \in Column |-> {}], found |-> FALSE]

\* The step that looks column c up; past the last one the row is inserted.
Lookup(c) == <<"lookup", c>>
Decide    == Lookup(Len(Columns) + 1)

Goto(r, where) == pc' = [pc EXCEPT ![r] = where]
Close(r)       == Goto(r, <<"idle">>) /\ form' = [form EXCEPT ![r] = Closed]

Init == /\ TInit /\ files = {}
        /\ pc = [r \in Requests |-> <<"idle">>]
        /\ form = [r \in Requests |-> Closed]

\* A registration form that passes validateForm() is submitted, with or without
\* a file.
Submit(r, key, details) ==
  /\ pc[r] = <<"idle">>
  /\ form' = [form EXCEPT ![r] = [Closed EXCEPT !.key = key, !.details = details]]
  /\ files' \in IF Uploads THEN {files \ {r}, files \union {r}} ELSE {files}
  /\ Goto(r, IF Uploads THEN <<"submitted">> ELSE Lookup(1))
  /\ UNCHANGED table

\* submitForm() saves the file again, still temporary, before it looks anything
\* up.
SaveFile(r) == /\ pc[r] = <<"submitted">> /\ r \in files
               /\ Goto(r, Lookup(1))
               /\ UNCHANGED <<table, files, form>>

\* File::load() finds no file: the request ends in a fatal error.
NoFile(r) == /\ pc[r] = <<"submitted">> /\ r \notin files
             /\ Close(r)
             /\ UNCHANGED <<table, files>>

\* Mutant of Select: the second lookup replaces the answer of the first.
SelectOverwrites(r, c) ==
  /\ pc[r] = Lookup(c)
  /\ form' = [form EXCEPT ![r].found = Matching(c, form[r].key[c]) # {},
                          ![r].older[c] = DOMAIN rows]
  /\ Goto(r, Lookup(c + 1))
  /\ UNCHANGED <<table, files>>

\* One lookup: is the value of the form taken in column c?
Select(r, c) ==
  /\ pc[r] = Lookup(c)
  /\ form' = [form EXCEPT ![r].found = @ \/ Matching(c, form[r].key[c]) # {},
                          ![r].older[c] = DOMAIN rows]
  /\ Goto(r, Lookup(c + 1))
  /\ UNCHANGED <<table, files>>

\* "Email ID or Roll No is already taken".
Refuse(r) == /\ pc[r] = Decide /\ form[r].found
             /\ Close(r)
             /\ UNCHANGED <<table, files>>

Insert(r) == /\ pc[r] = Decide /\ ~form[r].found
             /\ setData(form[r].key, form[r].details, form[r].older)
             /\ Close(r)
             /\ UNCHANGED files

\* The server refuses the row: the form lets names through that the column is
\* too short for, and roll numbers that are no numbers.
InsertFails(r) == /\ pc[r] = Decide /\ ~form[r].found
                  /\ Close(r)
                  /\ UNCHANGED <<table, files>>

\* EditForm::buildForm(): the form shows the row as it is now, and empty fields
\* for an id that has none (any more).
OpenEdit(r, id) ==
  /\ pc[r] = <<"idle">>
  /\ form' = [form EXCEPT ![r] =
                [Closed EXCEPT !.id = id,
                               !.details = IF id \in DOMAIN rows THEN rows[id].details
                                                                 ELSE None]]
  /\ Goto(r, <<"editing">>)
  /\ UNCHANGED <<table, files>>

\* EditForm::submitForm(), with the same answer whether the row was there.
SubmitEdit(r, details) == /\ pc[r] = <<"editing">>
                          /\ editData(form[r].id, details)
                          /\ Close(r)
                          /\ UNCHANGED files

\* deleteStudent().
Delete(id) == deleteData(id) /\ UNCHANGED <<files, pc, form>>

\* file_cron() removes a temporary file in time.
FileCron(r) == /\ r \in files
               /\ files' = files \ {r}
               /\ UNCHANGED <<table, pc, form>>

Next ==
  \/ \E r \in Requests :
       \/ \E key \in Key, details \in Details : Submit(r, key, details)
       \/ SaveFile(r) \/ NoFile(r)
       \/ \E c \in Column : Select(r, c)
       \/ Refuse(r) \/ Insert(r) \/ InsertFails(r)
       \/ \E id \in 1 .. MaxId : OpenEdit(r, id)
       \/ \E details \in Details : SubmitEdit(r, details)
       \/ FileCron(r)
  \/ \E id \in DOMAIN rows : Delete(id)

Spec == Init /\ [][Next]_vars

-----------------------------------------------------------------------------
(* Properties. *)

Row  == [key : Key, given : Key, details : Details,
         older : [Column -> SUBSET (1 .. MaxId)]]
Form == [id : 0 .. MaxId, key : [Column -> Values \union {None}],
         details : Details \union {None},
         older : [Column -> SUBSET (1 .. MaxId)], found : BOOLEAN]

\* The types of the variables.
TypeOK ==
  /\ DOMAIN rows \subseteq 1 .. (nextId - 1)
  /\ \A id \in DOMAIN rows : rows[id] \in Row
  /\ nextId \in 1 .. (MaxId + 1)
  /\ files \subseteq Requests
  /\ pc \in [Requests -> {<<"idle">>, <<"submitted">>, <<"editing">>}
                           \union {Lookup(c) : c \in 1 .. (Len(Columns) + 1)}]
  /\ form \in [Requests -> Form]

\* There are two ways, and no third, for two rows to come by the same mail or
\* the same roll number: neither was there yet when the other's form looked, or
\* the column changed the value that the later form was given and had looked
\* up.  This holds whatever is edited and deleted in between.
DuplicatesExplained ==
  \A a, b \in DOMAIN rows : \A c \in Column :
    a # b /\ rows[a].key[c] = rows[b].key[c] /\ a \in rows[b].older[c] =>
      rows[b].given[c] # rows[b].key[c]

\* A deleted student stays deleted: no form opened before brings the row back,
\* and no later row gets its id, which links on pages already shown still name.
DeletedStaysDeleted ==
  [][\A id \in 1 .. (nextId - 1) : id \notin DOMAIN rows => id \notin DOMAIN rows']_vars

\* What the form's message says: a mail or a roll number that is taken is not
\* given to a second student.
NoDuplicates ==
  \A a, b \in DOMAIN rows : \A c \in Column :
    rows[a].key[c] = rows[b].key[c] => a = b
=============================================================================
