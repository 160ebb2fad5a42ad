---------------------------- MODULE Transactions ----------------------------
(***************************************************************************)
(* Drupal\Core\Database\Transaction and the transaction stack of the MySQL *)
(* Connection: what one request (one connection) does to the database      *)
(* through PHP objects whose destructors commit.                           *)
(*                                                                         *)
(* A Transaction object only knows the name of its layer; the connection   *)
(* keeps the layers by name, and MySQL keeps savepoints by name.  The      *)
(* three have to agree.                                                    *)
(***************************************************************************)
EXTENDS Naturals, Sequences, FiniteSets, SequencesExt

CONSTANTS
  Data,          \* the possible contents of the database
  MaxDepth,      \* bound: Transaction objects in scope, and layers, at once
  MaxCallbacks,  \* bound: root transaction end callbacks registered at once
  Scoped,        \* TRUE: objects are local variables of nested functions and
                 \* end innermost first; FALSE: they end in any order
  DDL            \* TRUE: tables are created or altered during transactions

ASSUME DataAssumption  == Data # {}
ASSUME BoundAssumption == MaxDepth \in Nat \ {0} /\ MaxCallbacks \in Nat
ASSUME UseAssumption   == Scoped \in BOOLEAN /\ DDL \in BOOLEAN

VARIABLES
  objects,    \* the Transaction objects alive, oldest first
  layers,     \* Connection::$transactionLayers, in order
  callbacks,  \* how many callbacks are in $rootTransactionEndCallbacks
  pc,         \* "committed": inside doCommit(), callbacks still to be called
  open,       \* the server has a transaction open (PDO::inTransaction())
  saves,      \* its savepoints, oldest first, with the contents they keep
  data,       \* the contents as this connection sees them
  durable     \* the contents as every other connection sees them

php  == <<objects, layers, callbacks, pc>>
db   == <<open, saves, data, durable>>
vars == <<objects, layers, callbacks, pc, open, saves, data, durable>>

-----------------------------------------------------------------------------
\* A name is the depth it was given at: 0 is 'drupal_transaction' and n > 0 is
\* 'savepoint_n'.  Nothing in the site passes a name of its own to
\* startTransaction().
Name == 0 .. (MaxDepth - 1)

Named(seq, n)   == \E i \in DOMAIN seq : seq[i].name = n
IndexOf(seq, n) == CHOOSE i \in DOMAIN seq : seq[i].name = n

inTransaction == layers # <<>>

-----------------------------------------------------------------------------
(* The statements the server executes. *)

\* SAVEPOINT replaces a savepoint of that name, and outside a transaction it
\* sets none that would outlast the statement.
Savepoint(n) ==
  saves' = IF open THEN Append(IF Named(saves, n) THEN RemoveAt(saves, IndexOf(saves, n))
                                                   ELSE saves,
                               [name |-> n, data |-> data])
                   ELSE saves

\* ROLLBACK TO SAVEPOINT restores the contents the savepoint keeps, keeps the
\* savepoint and drops the later ones.
SavedContents(n) == saves[IndexOf(saves, n)].data
SavesUpTo(n)     == SubSeq(saves, 1, IndexOf(saves, n))

RollBackAll == open' = FALSE /\ saves' = <<>> /\ data' = durable
CommitAll   == open' = FALSE /\ saves' = <<>> /\ durable' = data

\* RELEASE SAVEPOINT drops the savepoint and the later ones.
Release(sv, n) == SubSeq(sv, 1, IndexOf(sv, n) - 1)

-----------------------------------------------------------------------------
(* Connection::doCommit() and popCommittableTransactions(). *)

\* The driver's doCommit() does not ask the server for a commit it has already
\* done by itself; the callbacks are called next.
doCommit(contents) ==
  /\ open' = FALSE /\ saves' = <<>> /\ durable' = contents
  /\ pc' = IF callbacks > 0 THEN "committed" ELSE "run"

TopActive(stack) == SelectLastInSeq(stack, LAMBDA l : l.active)

\* Of the given layers, those above the last active one are released; with
\* none active the transaction commits.  If the server has no transaction any
\* more, the first release fails with error 1305 and the stack is cleared.
popCommittableTransactions(stack, sv, contents) ==
  LET top == TopActive(stack)
  IN \/ /\ top = Len(stack)
        /\ layers' = stack /\ saves' = sv
        /\ UNCHANGED <<open, durable, pc>>
     \/ /\ top \in 1 .. (Len(stack) - 1) /\ open
        /\ layers' = SubSeq(stack, 1, top)
        /\ saves'  = Release(sv, stack[top + 1].name)
        /\ UNCHANGED <<open, durable, pc>>
     \/ /\ top < Len(stack) /\ (top = 0 \/ ~open)
        /\ layers' = <<>>
        /\ doCommit(contents)

-----------------------------------------------------------------------------
(* The operations of the request. *)

Init == /\ objects = <<>> /\ layers = <<>> /\ callbacks = 0 /\ pc = "run"
        /\ open = FALSE /\ saves = <<>>
        /\ data \in Data /\ durable = data

\* Mutant of Start: the depth is taken after the layer is pushed.
StartPushed ==
  LET name == IF inTransaction THEN Len(layers) + 1 ELSE 0
  IN /\ pc = "run" /\ Len(objects) < MaxDepth /\ Len(layers) < MaxDepth
     /\ IF inTransaction THEN Savepoint(name) /\ UNCHANGED open
                         ELSE open' = TRUE /\ saves' = <<>>
     /\ layers'  = Append(layers, [name |-> name, active |-> TRUE])
     /\ objects' = Append(objects, [name |-> name, rolledBack |-> FALSE])
     /\ UNCHANGED <<callbacks, pc, data, durable>>

\* Connection::startTransaction(): the constructor names the object after the
\* depth and pushes its layer.
Start ==
  LET name == Len(layers)
  IN /\ pc = "run" /\ Len(objects) < MaxDepth /\ name < MaxDepth
     /\ ~Named(layers, name)
     /\ IF inTransaction THEN Savepoint(name) /\ UNCHANGED open
                         ELSE open' = TRUE /\ saves' = <<>>
     /\ layers'  = Append(layers, [name |-> name, active |-> TRUE])
     /\ objects' = Append(objects, [name |-> name, rolledBack |-> FALSE])
     /\ UNCHANGED <<callbacks, pc, data, durable>>

\* Any statement that changes the contents.
Query(contents) ==
  /\ pc = "run" /\ contents # data
  /\ data'    = contents
  /\ durable' = IF open THEN durable ELSE contents
  /\ UNCHANGED <<php, open, saves>>

addRootTransactionEndCallback ==
  /\ pc = "run" /\ inTransaction /\ callbacks < MaxCallbacks
  /\ callbacks' = callbacks + 1
  /\ UNCHANGED <<objects, layers, pc, db>>

\* The rest of doCommit(): every callback is called, with success TRUE.
CallBack == /\ pc = "committed"
            /\ callbacks' = 0 /\ pc' = "run"
            /\ UNCHANGED <<objects, layers, db>>

\* Transaction::rollBack() when there is nothing left to roll back: the layer
\* is gone (TransactionNoActiveException) or the server's transaction is (a
\* warning).  Only the object changes.
RollBackNothing(i) == /\ ~open \/ ~Named(layers, objects[i].name)
                      /\ UNCHANGED <<layers, callbacks, pc, db>>

\* Where the loop of rollBack() ends, popping layers: at the one named, or at
\* one that has been marked committable, whose value FALSE ends it as well.
RollBackPoint(name) == SelectLastInSeq(layers, LAMBDA l : l.name = name \/ ~l.active)

\* Mutant of rollBack: only the last layer is popped.
rollBackOneLayer(name) ==
  /\ open /\ Named(layers, name)
  /\ IF name > 0
     THEN /\ data' = SavedContents(name)
          /\ popCommittableTransactions(Front(layers), SavesUpTo(name), SavedContents(name))
          /\ UNCHANGED callbacks
     ELSE /\ layers' = Front(layers) /\ callbacks' = 0
          /\ RollBackAll
          /\ UNCHANGED <<pc, durable>>

\* Mutant of rollBack: the list of callbacks is not emptied.
rollBackKeepsCallbacks(name) ==
  LET k == RollBackPoint(name)
  IN /\ open /\ Named(layers, name)
     /\ UNCHANGED callbacks
     /\ \/ /\ layers[k].active /\ k > 1
           /\ data' = SavedContents(name)
           /\ popCommittableTransactions(SubSeq(layers, 1, k - 1), SavesUpTo(name),
                                         SavedContents(name))
        \/ /\ ~layers[k].active \/ k = 1
           /\ layers' = SubSeq(layers, 1, k - 1)
           /\ RollBackAll
           /\ UNCHANGED <<pc, durable>>

\* Mutant of rollBack: the whole transaction, whatever layer is named.
rollBackEverything(name) ==
  LET k == RollBackPoint(name)
  IN /\ open /\ Named(layers, name)
     /\ layers' = SubSeq(layers, 1, k - 1)
     /\ callbacks' = 0
     /\ RollBackAll
     /\ UNCHANGED <<pc, durable>>

\* Mutant of rollBack: the layer itself is read, not popped.
rollBackKeepsLayer(name) ==
  /\ open /\ Named(layers, name)
  /\ layers' = SubSeq(layers, 1, IndexOf(layers, name))
  /\ UNCHANGED <<pc, durable>>
  /\ IF name > 0 THEN /\ data' = SavedContents(name) /\ saves' = SavesUpTo(name)
                      /\ UNCHANGED <<open, callbacks>>
                 ELSE RollBackAll /\ callbacks' = 0

\* Mutant of rollBack: a savepoint is released without being rolled back to.
rollBackReleases(name) ==
  LET k == RollBackPoint(name)
  IN /\ open /\ Named(layers, name)
     /\ \/ /\ layers[k].active /\ k > 1
           /\ popCommittableTransactions(SubSeq(layers, 1, k - 1), saves, data)
           /\ UNCHANGED <<callbacks, data>>
        \/ /\ ~layers[k].active \/ k = 1
           /\ layers' = SubSeq(layers, 1, k - 1)
           /\ callbacks' = 0
           /\ RollBackAll
           /\ UNCHANGED <<pc, durable>>

\* Connection::rollBack(): layers are popped up to the roll back point; only
\* one that is named and not the root is rolled back to alone.
rollBack(name) ==
  LET k == RollBackPoint(name)
  IN /\ open /\ Named(layers, name)
     /\ \/ /\ layers[k].active /\ k > 1
           /\ data' = SavedContents(name)
           /\ popCommittableTransactions(SubSeq(layers, 1, k - 1), SavesUpTo(name),
                                         SavedContents(name))
           /\ UNCHANGED callbacks
        \/ /\ ~layers[k].active \/ k = 1
           /\ layers' = SubSeq(layers, 1, k - 1)
           /\ callbacks' = 0
           /\ RollBackAll
           /\ UNCHANGED <<pc, durable>>

\* Transaction::rollBack().
RollBack(i) ==
  /\ pc = "run" /\ ~objects[i].rolledBack
  /\ Scoped => i = Len(objects)
  /\ objects' = [objects EXCEPT ![i].rolledBack = TRUE]
  /\ RollBackNothing(i) \/ rollBack(objects[i].name)

\* Connection::popTransaction().
popTransaction(name) ==
  popCommittableTransactions([layers EXCEPT ![IndexOf(layers, name)].active = FALSE],
                             saves, data)

\* Mutant of End: a layer below others is left for them to pop.
EndInnermost(i) ==
  /\ pc = "run"
  /\ Scoped => i = Len(objects)
  /\ objects' = RemoveAt(objects, i)
  /\ UNCHANGED <<callbacks, data>>
  /\ IF /\ ~objects[i].rolledBack /\ inTransaction
        /\ Last(layers).name = objects[i].name
     THEN popTransaction(objects[i].name)
     ELSE UNCHANGED <<layers, pc, open, saves, durable>>

\* Transaction::__destruct(): the variable goes out of scope.
End(i) ==
  /\ pc = "run"
  /\ Scoped => i = Len(objects)
  /\ objects' = RemoveAt(objects, i)
  /\ UNCHANGED <<callbacks, data>>
  /\ IF ~objects[i].rolledBack /\ Named(layers, objects[i].name)
     THEN popTransaction(objects[i].name)
     ELSE UNCHANGED <<layers, pc, open, saves, durable>>

\* MySQL commits an open transaction before it creates or alters a table.
CreateTable == /\ DDL /\ pc = "run" /\ open
               /\ CommitAll
               /\ UNCHANGED <<php, data>>

\* The process ends, with or without its scopes left, and the server rolls
\* back what it had open.  The next request starts from nothing.
Die == /\ objects' = <<>> /\ layers' = <<>> /\ callbacks' = 0 /\ pc' = "run"
       /\ RollBackAll
       /\ UNCHANGED durable

Next ==
  \/ Start
  \/ \E contents \in Data : Query(contents)
  \/ addRootTransactionEndCallback
  \/ CallBack
  \/ \E i \in DOMAIN objects : RollBack(i) \/ End(i)
  \/ CreateTable
  \/ Die

Spec == Init /\ [][Next]_vars

-----------------------------------------------------------------------------
(* Properties. *)

\* The types of the variables.
TypeOK ==
  /\ objects \in Seq([name : Name, rolledBack : BOOLEAN])
  /\ layers \in Seq([name : Name, active : BOOLEAN])
  /\ callbacks \in 0 .. MaxCallbacks
  /\ pc \in {"run", "committed"}
  /\ open \in BOOLEAN
  /\ saves \in Seq([name : Name, data : Data])
  /\ data \in Data /\ durable \in Data

\* Whatever order the objects end in and whatever tables are created, layers are
\* named by their depth, so that no two have the same name; and while the
\* server has a transaction open they are exactly its: the root, then a
\* savepoint for each further layer, in order (one rolled back to stays behind,
\* deeper).  RELEASE and ROLLBACK TO always find theirs.
Accounted ==
  /\ \A k \in DOMAIN layers : layers[k].name = k - 1
  /\ open => /\ layers # <<>> /\ Len(layers) - 1 <= Len(saves)
             /\ \A k \in DOMAIN saves : saves[k].name = k

\* A transaction the server has open still has an object whose destructor will
\* commit it: no way to end or roll back the objects leaves the request
\* writing into a transaction that nothing will ever commit.
NoDangling ==
  open => \A k \in DOMAIN layers :
            layers[k].active =>
              \E i \in DOMAIN objects : /\ objects[i].name = layers[k].name
                                        /\ ~objects[i].rolledBack

\* No callback is told of the outcome of a transaction of the server other than
\* the one it was registered in: none begins while callbacks of an earlier one
\* still wait for doCommit() or rollBack(), whatever was ended, rolled back or
\* implicitly committed before.  And the callbacks of a transaction are told of
\* its failure, or forgotten, only when nothing of it is left in the contents.
\* (This is not a claim about objects: after an implicit commit a layer that
\* TxnDdl shows to stay behind keeps its callbacks beyond its own object, until
\* a later RELEASE fails and clears the stack.)
NoOrphanCallbacks ==
  [][/\ ~open /\ open' => callbacks = 0
     /\ pc = "run" /\ callbacks > 0 /\ callbacks' = 0 => ~open' /\ data' = durable']_vars

\* Functions that start transactions can call each other freely: a transaction
\* not rolled back is alive, under its own layer, when the functions called
\* within it have returned.
StillAlive ==
  pc = "run" =>
    \A i \in DOMAIN objects :
      ~objects[i].rolledBack =>
        /\ open
        /\ Cardinality({k \in DOMAIN layers : /\ layers[k].name = objects[i].name
                                              /\ layers[k].active}) = 1
        /\ \A j \in 1 .. (i - 1) : ~objects[j].rolledBack =>
                                      objects[j].name < objects[i].name

\* The connection is out of the transaction when the last object has gone: what
\* the request does next is not taken for a part of a transaction.
ClosedWhenDone == pc = "run" /\ objects = <<>> => ~inTransaction

\* The nested transactions of the specification NestedTransactions: what an
\* object would restore is what the server's transaction or savepoint keeps.
Begun(o) == IF o.name = 0 THEN durable ELSE SavedContents(o.name)

Nest == [i \in DOMAIN objects |->
           IF objects[i].rolledBack
           THEN [over |-> TRUE,  before |-> {}]
           ELSE [over |-> FALSE, before |-> {Begun(objects[i])}]]

N == INSTANCE NestedTransactions WITH nest <- Nest

\* Each function can undo its own work and no other's, through names and
\* savepoints it shares with the functions it calls.
ImplementsNested == N!Spec
=============================================================================
