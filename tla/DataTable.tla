------------------------------ MODULE DataTable ------------------------------
(***************************************************************************)
(* A table of the site's own modules, custom_form or reg_form: rows under  *)
(* a serial id, the columns a form promises to keep unique, and the other  *)
(* columns.  The table itself knows of no unique column: its only key is   *)
(* the id.  The operations are those of the service Db_insert.             *)
(***************************************************************************)
EXTENDS Naturals, Sequences

CONSTANTS
  Columns,   \* the columns the form checks, in the order it checks them
  Values,    \* the values a lookup in those columns tells apart
  Stored,    \* what each column makes of a value it is given
  Details,   \* what the other columns can hold
  None,      \* no value
  MaxId      \* bound: rows inserted

ASSUME ColumnsAssumption == Columns \in Seq(STRING) /\ Columns # <<>>
ASSUME MaxIdAssumption   == MaxId \in Nat
ASSUME StoredAssumption  == Stored \in [DOMAIN Columns -> [Values -> Values]]

VARIABLES
  rows,      \* the rows, a function of their ids
  nextId     \* the serial counter

table == <<rows, nextId>>

Column == DOMAIN Columns
Key    == [Column -> Values]

\* The ids of the rows found under a value: the value looked up is the one the
\* form was given, compared with what the column stores.
Matching(c, value) == {id \in DOMAIN rows : rows[id].key[c] = value}

TInit == rows = <<>> /\ nextId = 1

\* The row an INSERT leaves: a mail is kept as it is given, a roll number,
\* which the form takes as text, is rounded by its int column.  The row
\* remembers, for the properties, the values given and which rows were there
\* when its form looked each column up.
NewRow(key, details, older) ==
  [key     |-> [c \in Column |-> Stored[c][key[c]]],
   given   |-> key,
   details |-> details,
   older   |-> older]

\* Mutant of setData: the id is not a serial one.
setDataSameId(key, details, older) ==
  /\ nextId <= MaxId
  /\ rows' = [id \in DOMAIN rows \union {nextId} |->
                IF id = nextId THEN NewRow(key, details, older) ELSE rows[id]]
  /\ UNCHANGED nextId

setData(key, details, older) ==
  /\ nextId <= MaxId
  /\ rows' = [id \in DOMAIN rows \union {nextId} |->
                IF id = nextId THEN NewRow(key, details, older) ELSE rows[id]]
  /\ nextId' = nextId + 1

\* Mutant of editData: a merge, which inserts the row when it is not there.
mergeData(id, details) ==
  /\ rows' = [i \in DOMAIN rows \union {id} |->
                IF i = id THEN [key |-> [c \in Column |-> None],
                                given |-> [c \in Column |-> None], details |-> details,
                                older |-> [c \in Column |-> {}]]
                          ELSE rows[i]]
  /\ UNCHANGED nextId

\* UPDATE ... WHERE id: a row that has gone stays away.  The checked columns
\* are not among those set.
editData(id, details) ==
  /\ rows' = [i \in DOMAIN rows |->
                IF i = id THEN [rows[i] EXCEPT !.details = details] ELSE rows[i]]
  /\ UNCHANGED nextId

deleteData(id) == /\ rows' = [i \in DOMAIN rows \ {id} |-> rows[i]]
                  /\ UNCHANGED nextId
=============================================================================
