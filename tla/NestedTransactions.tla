------------------------- MODULE NestedTransactions -------------------------
(***************************************************************************)
(* What nested transactions promise to the functions of one request, with  *)
(* no word about layers, savepoints or names: each function that starts a  *)
(* transaction has its own, nested in those of its callers; rolling it     *)
(* back undoes what was changed since it started and nothing else; the     *)
(* changes become durable, all at once, when the last transaction that was *)
(* not rolled back ends.                                                   *)
(***************************************************************************)
EXTENDS Naturals, Sequences, SequencesExt

CONSTANT Data       \* the possible contents of the database

VARIABLES nest,     \* the transactions in scope, outermost first
          data,     \* the contents as the request sees them
          durable   \* the contents as everybody else sees them

vars == <<nest, data, durable>>

\* A transaction remembers the contents it started from until it is rolled
\* back; afterwards it is only a variable that is still in scope.
Begun(before) == [over |-> FALSE, before |-> {before}]
Over          == [over |-> TRUE,  before |-> {}]

Open(scopes) == \E i \in DOMAIN scopes : ~scopes[i].over

Init == nest = <<>> /\ data \in Data /\ durable = data

Start == /\ nest' = Append(nest, Begun(data))
         /\ UNCHANGED <<data, durable>>

Change == /\ data' \in Data
          /\ durable' = IF Open(nest) THEN durable ELSE data'
          /\ UNCHANGED nest

RollBack == /\ nest # <<>> /\ ~Last(nest).over
            /\ nest' = Append(Front(nest), Over)
            /\ data' \in Last(nest).before
            /\ UNCHANGED durable

End == /\ nest # <<>>
       /\ nest' = Front(nest)
       /\ durable' = IF Open(nest') THEN durable ELSE data
       /\ UNCHANGED data

\* The process dies: what was not durable is gone.
Die == nest' = <<>> /\ data' = durable /\ UNCHANGED durable

Next == Start \/ Change \/ RollBack \/ End \/ Die

Spec == Init /\ [][Next]_vars
=============================================================================
