-------------------------------- MODULE Batch --------------------------------
(***************************************************************************)
(* The Batch API on the server: a batch is a row of {batch} with a counter *)
(* and a sandbox per set of operations, and a queue of operations per set. *)
(* Each request loads the row, works on its own copy until its second is   *)
(* up, and stores the copy.  Nothing keeps two requests from working on    *)
(* one batch: here requests arrive in every order, as clients send them.   *)
(***************************************************************************)
EXTENDS Integers, FiniteSets

CONSTANTS
  Requests,   \* requests that the server handles at a time
  Sets,       \* the number of sets of the batch
  Ops,        \* Ops[s]: the item ids of set s's operations
  Passes,     \* Passes[i]: calls that operation i takes until it is finished
  MaxFaults,  \* bound on operations that fail
  MaxKills    \* bound on killed processes

Items == UNION {Ops[s] : s \in 1..Sets}

ASSUME SetsAssumption == Sets \in Nat \ {0}
ASSUME OpsAssumption ==
  /\ \A s \in 1..Sets : Ops[s] \subseteq Nat /\ IsFiniteSet(Ops[s])
  /\ \A s, t \in 1..Sets : s # t => Ops[s] \cap Ops[t] = {}
ASSUME PassesAssumption == Passes \in [Items -> Nat \ {0}]
ASSUME BoundsAssumption == MaxFaults \in Nat /\ MaxKills \in Nat

VARIABLES
  stored,     \* the row exists
  row,        \* its contents
  queue,      \* queue[s]: items of the queue of set s
  pc,         \* where each request is
  op,         \* op[p]: the request's "op" parameter
  copy,       \* copy[p]: batch_get() in request p
  item,       \* item[p]: $item, 0 before the first
  fin,        \* fin[p]: $finished, -1 for a fraction
  answer,     \* answer[p]: the response of request p
  faults, kills,
  ran,        \* calls <<i, n>> that have been made (history)
  again,      \* some call was made twice (history)
  reported,   \* what the finished callbacks were told (history)
  disturbed   \* a request was killed or met another at work (history)

table == <<stored, row, queue>>
locals == <<op, copy, item, fin, answer>>
history == <<ran, again, reported, disturbed>>
batchVars == <<table, pc, locals, faults, kills, history>>

Batches ==
  [running : BOOLEAN, cur : 1..Sets, count : [1..Sets -> Nat],
   success : [1..Sets -> BOOLEAN], box : [1..Sets -> Nat]]

\* batch_set() and batch_process().
NewBatch ==
  [running |-> FALSE, cur |-> 1, count |-> [s \in 1..Sets |-> Cardinality(Ops[s])],
   success |-> [s \in 1..Sets |-> FALSE], box |-> [s \in 1..Sets |-> 0]]

Operations == {"start", "do", "finished"}
Processing == {"loop", "work", "delete", "sets", "save", "fail"}
Finishing == {"callbacks", "deleteRow", "deleteQueues"}
Labels == {"idle", "load", "reply"} \cup Processing \cup Finishing
Answers == {"none", "page", "progress", "hundred", "error", "summary", "noBatch"}

BatchTypeOK ==
  /\ stored \in BOOLEAN
  /\ row \in Batches
  /\ queue \in [1..Sets -> SUBSET Items]
  /\ \A s \in 1..Sets : queue[s] \subseteq Ops[s]
  /\ pc \in [Requests -> Labels]
  /\ op \in [Requests -> Operations]
  /\ copy \in [Requests -> Batches]
  /\ item \in [Requests -> Items \cup {0}]
  /\ \A p \in Requests : pc[p] \in {"work", "delete"} => item[p] \in Ops[copy[p].cur]
  /\ fin \in [Requests -> {-1, 0, 1}]
  /\ answer \in [Requests -> Answers]
  /\ faults \in 0..MaxFaults /\ kills \in 0..MaxKills
  /\ ran \subseteq (Items \X Nat)
  /\ again \in BOOLEAN /\ disturbed \in BOOLEAN
  /\ reported \subseteq [set : 1..Sets, success : BOOLEAN, left : BOOLEAN]

BatchInit ==
  /\ stored = TRUE /\ row = NewBatch
  /\ queue = [s \in 1..Sets |-> Ops[s]]
  /\ pc = [p \in Requests |-> "idle"]
  /\ op = [p \in Requests |-> "start"]
  /\ copy = [p \in Requests |-> NewBatch]
  /\ item = [p \in Requests |-> 0]
  /\ fin = [p \in Requests |-> 0]
  /\ answer = [p \in Requests |-> "none"]
  /\ faults = 0 /\ kills = 0
  /\ ran = {} /\ again = FALSE /\ reported = {} /\ disturbed = FALSE

-----------------------------------------------------------------------------
Goto(p, label) == pc' = [pc EXCEPT ![p] = label]
Answer(p, a) == answer' = [answer EXCEPT ![p] = a]

AtWork(p) == pc[p] \notin {"idle", "reply"}

\* A request ends: nothing of it is left but its answer.
Forget(p) ==
  /\ copy' = [copy EXCEPT ![p] = NewBatch]
  /\ item' = [item EXCEPT ![p] = 0]
  /\ fin' = [fin EXCEPT ![p] = 0]

\* The web server hands a request to a free process.
Arrive(p, o) ==
  /\ pc[p] = "idle"
  /\ Goto(p, "load")
  /\ op' = [op EXCEPT ![p] = o]
  /\ disturbed' = (disturbed \/ \E q \in Requests : AtWork(q))
  /\ UNCHANGED <<table, copy, item, fin, answer, faults, kills, ran, again, reported>>

\* _batch_page(): BatchStorage::load(), and the switch over "op".  The first
\* page only shows the progress bar; a later "start" processes, like "do".
Load(p) ==
  /\ pc[p] = "load"
  /\ IF ~stored
       THEN Goto(p, "reply") /\ Answer(p, "noBatch") /\ UNCHANGED copy
       ELSE /\ copy' = [copy EXCEPT ![p] = [row EXCEPT !.running = @ \/ op[p] = "start"]]
            /\ CASE op[p] = "finished" ->
                      Goto(p, "callbacks") /\ UNCHANGED answer
                 [] op[p] = "start" /\ ~row.running ->
                      Goto(p, "save") /\ Answer(p, "page")
                 [] OTHER ->
                      IF row.success[row.cur]
                        THEN Goto(p, "save") /\ Answer(p, "hundred")
                        ELSE Goto(p, "loop") /\ UNCHANGED answer
  /\ UNCHANGED <<table, op, item, fin, faults, kills, history>>

-----------------------------------------------------------------------------
(* _batch_process().                                                       *)

\* Mutant of Claim: the items come in no order.
ClaimAny(p) ==
  /\ pc[p] = "loop"
  /\ LET q == queue[copy[p].cur] IN
       \/ \E i \in q : /\ item' = [item EXCEPT ![p] = i]
                       /\ Goto(p, "work")
                       /\ UNCHANGED fin
       \/ /\ q = {}
          /\ fin' = [fin EXCEPT ![p] = 1]
          /\ Goto(p, "sets")
          /\ UNCHANGED item
  /\ UNCHANGED <<table, op, copy, answer, faults, kills, history>>

\* Batch::claimItem(): the first item, claimed by others or not.
Claim(p) ==
  /\ pc[p] = "loop"
  /\ LET q == queue[copy[p].cur] IN
       \/ \E i \in q : /\ \A j \in q : i <= j
                       /\ item' = [item EXCEPT ![p] = i]
                       /\ Goto(p, "work")
                       /\ UNCHANGED fin
       \/ /\ q = {}
          /\ fin' = [fin EXCEPT ![p] = 1]
          /\ Goto(p, "sets")
          /\ UNCHANGED item
  /\ UNCHANGED <<table, op, copy, answer, faults, kills, history>>

\* Mutant of Call: every call is counted as a finished operation.
CallCounts(p) ==
  /\ pc[p] = "work"
  /\ LET s == copy[p].cur
         n == copy[p].box[s] + 1
     IN /\ copy' = [copy EXCEPT ![p].box[s] = n,
                                ![p].count[s] = IF n >= Passes[item[p]] THEN @ ELSE @ - 1]
        /\ ran' = ran \cup {<<item[p], n>>}
        /\ again' = (again \/ <<item[p], n>> \in ran)
        /\ IF n >= Passes[item[p]]
             THEN Goto(p, "delete") /\ UNCHANGED fin
             ELSE Goto(p, "sets") /\ fin' = [fin EXCEPT ![p] = -1]
  /\ UNCHANGED <<table, op, item, answer, faults, kills, reported, disturbed>>

\* The operation is called with the sandbox of the set, which tells it how
\* far it is, and returns.
Call(p) ==
  /\ pc[p] = "work"
  /\ LET s == copy[p].cur
         n == copy[p].box[s] + 1
     IN /\ copy' = [copy EXCEPT ![p].box[s] = n]
        /\ ran' = ran \cup {<<item[p], n>>}
        /\ again' = (again \/ <<item[p], n>> \in ran)
        /\ IF n >= Passes[item[p]]
             THEN Goto(p, "delete") /\ UNCHANGED fin
             ELSE Goto(p, "sets") /\ fin' = [fin EXCEPT ![p] = -1]
  /\ UNCHANGED <<table, op, item, answer, faults, kills, reported, disturbed>>

\* The operation throws, or ends PHP with a fatal error, before it has recorded
\* any progress.
CallFails(p) ==
  /\ pc[p] = "work"
  /\ faults < MaxFaults
  /\ faults' = faults + 1
  /\ Goto(p, "fail")
  /\ Answer(p, "error")
  /\ UNCHANGED <<table, op, copy, item, fin, kills, history>>

\* Mutant of DeleteItem: the sandbox is left to the next operation.
DeleteKeepsSandbox(p) ==
  /\ pc[p] = "delete"
  /\ LET s == copy[p].cur IN
       /\ queue' = [queue EXCEPT ![s] = @ \ {item[p]}]
       /\ copy' = [copy EXCEPT ![p].count[s] = @ - 1]
  /\ fin' = [fin EXCEPT ![p] = 0]
  /\ Goto(p, "sets")
  /\ UNCHANGED <<stored, row, op, item, answer, faults, kills, history>>

\* Mutant of DeleteItem: the step is counted twice in the percentage.
DeleteCountsTwice(p) ==
  /\ pc[p] = "delete"
  /\ LET s == copy[p].cur IN
       /\ queue' = [queue EXCEPT ![s] = @ \ {item[p]}]
       /\ copy' = [copy EXCEPT ![p].count[s] = @ - 1, ![p].box[s] = 0]
  /\ fin' = [fin EXCEPT ![p] = 1]
  /\ Goto(p, "sets")
  /\ UNCHANGED <<stored, row, op, item, answer, faults, kills, history>>

\* The operation is finished: its item goes, the counter and the sandbox follow.
DeleteItem(p) ==
  /\ pc[p] = "delete"
  /\ LET s == copy[p].cur IN
       /\ queue' = [queue EXCEPT ![s] = @ \ {item[p]}]
       /\ copy' = [copy EXCEPT ![p].count[s] = @ - 1, ![p].box[s] = 0]
  /\ fin' = [fin EXCEPT ![p] = 0]
  /\ Goto(p, "sets")
  /\ UNCHANGED <<stored, row, op, item, answer, faults, kills, history>>

\* Total - remaining + finished is the total.
Hundred(c, f) == Ops[c.cur] = {} \/ f = c.count[c.cur]

\* Mutant of NextSet: the next index is not looked for.
NextSetAnyway(p) ==
  /\ pc[p] = "sets"
  /\ copy[p].count[copy[p].cur] = 0
  /\ copy' = [copy EXCEPT ![p].success[copy[p].cur] = TRUE, ![p].cur = @ + 1]
  /\ UNCHANGED <<table, pc, op, item, fin, answer, faults, kills, history>>

\* _batch_next_set() while the current set's counter is empty.
NextSet(p) ==
  /\ pc[p] = "sets"
  /\ copy[p].count[copy[p].cur] = 0
  /\ copy[p].cur < Sets
  /\ copy' = [copy EXCEPT ![p].success[copy[p].cur] = TRUE, ![p].cur = @ + 1]
  /\ UNCHANGED <<table, pc, op, item, fin, answer, faults, kills, history>>

\* The end of one turn of the loop: the last set is complete, the second is up
\* or the loop goes on.
EndTurn(p) ==
  /\ pc[p] = "sets"
  /\ LET s == copy[p].cur
         c == [copy[p] EXCEPT !.success[s] = @ \/ copy[p].count[s] = 0]
     IN /\ copy[p].count[s] = 0 => s = Sets
        /\ copy' = [copy EXCEPT ![p] = c]
        /\ \/ Goto(p, "loop") /\ ~c.success[s] /\ UNCHANGED answer
           \/ /\ Goto(p, "save")
              /\ Answer(p, IF Hundred(c, fin[p]) THEN "hundred" ELSE "progress")
  /\ UNCHANGED <<table, op, item, fin, faults, kills, history>>

\* Mutant of Save: no shutdown function stores the batch after a fatal error.
SaveUnlessFailed(p) ==
  /\ pc[p] \in {"save", "fail"}
  /\ row' = IF stored /\ pc[p] = "save" THEN copy[p] ELSE row
  /\ Goto(p, "reply")
  /\ Forget(p)
  /\ UNCHANGED <<stored, queue, op, answer, faults, kills, history>>

\* BatchStorage::update(), at the end of _batch_page() or in _batch_shutdown():
\* it does not bring a row back.
Save(p) ==
  /\ pc[p] \in {"save", "fail"}
  /\ row' = IF stored THEN copy[p] ELSE row
  /\ Goto(p, "reply")
  /\ Forget(p)
  /\ UNCHANGED <<stored, queue, op, answer, faults, kills, history>>

-----------------------------------------------------------------------------
(* _batch_finished().                                                      *)

\* Mutant of Callbacks: a batch that gets here is taken for a success.
CallbacksAssume(p) ==
  /\ pc[p] = "callbacks"
  /\ reported' = reported \cup
       {[set |-> s, success |-> TRUE, left |-> queue[s] # {}] : s \in 1..Sets}
  /\ Goto(p, "deleteRow")
  /\ UNCHANGED <<table, locals, faults, kills, ran, again, disturbed>>

\* The finished callback of each set, with its success and what is left of it.
Callbacks(p) ==
  /\ pc[p] = "callbacks"
  /\ reported' = reported \cup
       {[set |-> s, success |-> copy[p].success[s], left |-> queue[s] # {}] : s \in 1..Sets}
  /\ Goto(p, "deleteRow")
  /\ UNCHANGED <<table, locals, faults, kills, ran, again, disturbed>>

DeleteRow(p) ==
  /\ pc[p] = "deleteRow"
  /\ stored' = FALSE
  /\ Goto(p, "deleteQueues")
  /\ UNCHANGED <<row, queue, locals, faults, kills, history>>

DeleteQueues(p) ==
  /\ pc[p] = "deleteQueues"
  /\ queue' = [s \in 1..Sets |-> {}]
  /\ Goto(p, "reply")
  /\ Forget(p)
  /\ Answer(p, "summary")
  /\ UNCHANGED <<stored, row, op, faults, kills, history>>

-----------------------------------------------------------------------------
\* The response is on its way and the process is free.
Respond(p) ==
  /\ pc[p] = "reply"
  /\ Goto(p, "idle")
  /\ Answer(p, "none")
  /\ UNCHANGED <<table, op, copy, item, fin, faults, kills, history>>

\* The process is killed: no shutdown function runs.
Kill(p) ==
  /\ AtWork(p)
  /\ kills < MaxKills
  /\ kills' = kills + 1
  /\ disturbed' = TRUE
  /\ Goto(p, "reply")
  /\ Answer(p, "error")
  /\ Forget(p)
  /\ UNCHANGED <<table, op, faults, ran, again, reported>>

Work(p) ==
  \/ Load(p) \/ Claim(p) \/ Call(p) \/ CallFails(p) \/ DeleteItem(p)
  \/ NextSet(p) \/ EndTurn(p) \/ Save(p)
  \/ Callbacks(p) \/ DeleteRow(p) \/ DeleteQueues(p)

BatchNext ==
  \E p \in Requests :
    \/ \E o \in Operations : Arrive(p, o)
    \/ Work(p) \/ Kill(p) \/ Respond(p)

BatchSpec == BatchInit /\ [][BatchNext]_batchVars

-----------------------------------------------------------------------------
(* Properties.                                                             *)

\* A set is marked successful only when its queue is empty, and no counter
\* falls below the number of items that are left, however many requests work
\* on the batch at a time and whichever of them are killed.
CountersCover ==
  stored => \A s \in 1..Sets :
    /\ row.count[s] >= Cardinality(queue[s])
    /\ row.success[s] => queue[s] = {}

\* Operation i has made the call after which it is finished.
Last(i) == \E c \in ran : c[1] = i /\ c[2] >= Passes[i]

\* A finished callback that is told of success is given no operation that is
\* left over, and each operation of its set has made its last call.
HonestReport ==
  \A r \in reported : r.success =>
    /\ ~r.left
    /\ \A i \in Ops[r.set] : Last(i)

\* Whatever requests meet or are killed, an operation is called only when those
\* before it in its set, and all those of earlier sets, have made their last
\* call: it can build on what they did, even if it is called again.
InOrder ==
  [][\A c \in ran' \ ran : \A s \in 1..Sets : c[1] \in Ops[s] =>
       \A t \in 1..s : \A j \in Ops[t] : (t < s \/ j < c[1]) => Last(j)]_batchVars

Done(i) == \A n \in 1..Passes[i] : <<i, n>> \in ran

\* Unless requests meet or are killed, an operation leaves its queue only
\* after all the calls it needs, and no call is made twice; fatal errors in
\* between do not change that.
ExactlyOnce ==
  ~disturbed =>
    /\ ~again
    /\ stored => \A s \in 1..Sets : \A i \in Ops[s] \ queue[s] : Done(i)

\* A claim that finds nothing leaves $finished at 1, and _batch_process() counts
\* that as an operation of the set it goes on to.  It finds nothing only when
\* the first set has no operation; if the next set that has any has just one,
\* that one is taken for finished.
EarlyHundred ==
  Ops[1] = {} /\ \E s \in 1..Sets : Cardinality(Ops[s]) = 1 /\ \A t \in 1..(s-1) : Ops[t] = {}

\* Batch\Percentage and _batch_process() of their percentages: "100" is never
\* printed "until we are finished".  Unless requests meet or are killed, "100"
\* is answered only when every set is complete.
NoFalseHundred ==
  ~disturbed =>
    \A p \in Requests : pc[p] = "reply" /\ answer[p] = "hundred" =>
      \A s \in 1..Sets : row.success[s]

\* That holds for every batch but those of EarlyHundred, so that the browser
\* does not leave a batch that is under way: with or without an operation in
\* the first set or in those in between, whatever fails in between.
HundredIsLast == EarlyHundred \/ NoFalseHundred
=============================================================================
