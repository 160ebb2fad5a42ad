------------------------------ MODULE BatchPage ------------------------------
(***************************************************************************)
(* The batch page in a browser and the server of Batch.  The page asks for *)
(* one "do" after the other (Drupal.ProgressBar, Drupal.behaviors.batch),  *)
(* leaves for "finished" at 100 and stops at an error.  Its user may reload*)
(* it or lose the connection while a request is at work: the server goes   *)
(* on with that request, and nobody waits for its answer.                  *)
(***************************************************************************)
EXTENDS Batch

CONSTANTS
  NoConn,        \* the page waits for no request
  MaxImpatience  \* bound on reloads and lost connections in mid-request

ASSUME ConnAssumption == NoConn \notin Requests
ASSUME ImpatienceAssumption == MaxImpatience \in Nat

VARIABLES
  page,       \* what the page does next or waits for
  conn,       \* the request that the page waits for
  impatience, \* reloads and lost connections so far
  gaveUp      \* the user followed the link to the error page (history)

pageVars == <<page, conn, impatience, gaveUp>>
vars == <<batchVars, pageVars>>

\* "open", "ping" and "leave" request op=start, do and finished; "error" shows
\* an error on the progress page, "broken" one in place of the summary.
Pages == {"open", "ping", "leave", "wait", "error", "broken", "gone"}

TypeOK ==
  /\ BatchTypeOK
  /\ page \in Pages
  /\ conn \in Requests \cup {NoConn}
  /\ page = "wait" <=> conn # NoConn
  /\ conn # NoConn => pc[conn] # "idle"
  /\ impatience \in 0..MaxImpatience
  /\ gaveUp \in BOOLEAN

Init ==
  /\ BatchInit
  /\ page = "open" /\ conn = NoConn
  /\ impatience = 0 /\ gaveUp = FALSE

-----------------------------------------------------------------------------
Request(p, from, o) ==
  /\ page = from
  /\ Arrive(p, o)
  /\ page' = "wait" /\ conn' = p
  /\ UNCHANGED <<impatience, gaveUp>>

\* batch_process() redirects to op=start, or the user comes back to it.
Open(p) == Request(p, "open", "start")

\* startMonitoring(), or the timer of the last answer: sendPing().
SendPing(p) == Request(p, "ping", "do")

\* window.location
Leave(p) == Request(p, "leave", "finished")

\* What the page makes of an answer: attach() starts the monitoring,
\* updateCallback() looks for 100, displayError() is the end of it.
AfterAnswer(o, a) ==
  CASE o = "finished"            -> IF a = "error" THEN "broken" ELSE "gone"
    [] a = "hundred" /\ o = "do" -> "leave"
    [] a = "noBatch"             -> IF o = "start" THEN "gone" ELSE "error"
    [] a = "error"               -> "error"
    [] OTHER                     -> "ping"

Receive(p) ==
  /\ conn = p
  /\ Respond(p)
  /\ page' = AfterAnswer(op[p], answer[p])
  /\ conn' = NoConn
  /\ UNCHANGED <<impatience, gaveUp>>

\* An answer nobody waits for any more.
Discard(p) ==
  /\ conn # p
  /\ Respond(p)
  /\ UNCHANGED pageVars

-----------------------------------------------------------------------------
(* The user and the network.                                               *)

\* Reload the page that is shown; a page that shows an error waits for this.
Reload ==
  /\ \/ /\ page \in {"wait", "ping"}
        /\ impatience < MaxImpatience
        /\ impatience' = impatience + 1
     \/ page \in {"error", "broken"} /\ UNCHANGED impatience
  /\ page' = IF page = "broken" \/ (page = "wait" /\ op[conn] = "finished")
               THEN "leave" ELSE "open"
  /\ conn' = NoConn
  /\ UNCHANGED <<batchVars, gaveUp>>

\* "Please continue to the error page".
FollowLink ==
  /\ page = "error"
  /\ page' = "leave"
  /\ gaveUp' = TRUE
  /\ UNCHANGED <<batchVars, conn, impatience>>

\* The connection breaks, or a proxy gives up on it.
Disconnect ==
  /\ page = "wait"
  /\ impatience < MaxImpatience
  /\ impatience' = impatience + 1
  /\ page' = IF op[conn] = "finished" THEN "broken" ELSE "error"
  /\ conn' = NoConn
  /\ UNCHANGED <<batchVars, gaveUp>>

-----------------------------------------------------------------------------
Serve(p) == Work(p) /\ UNCHANGED pageVars

Stop(p) == Kill(p) /\ UNCHANGED pageVars

Browse(p) == Open(p) \/ SendPing(p) \/ Leave(p) \/ Receive(p)

\* The batch is over: the page shows the summary and no request is left.
Over ==
  /\ page = "gone"
  /\ \A p \in Requests : pc[p] = "idle"
  /\ UNCHANGED vars

Next ==
  \/ \E p \in Requests : Serve(p) \/ Stop(p) \/ Discard(p) \/ Browse(p)
  \/ Reload \/ FollowLink \/ Disconnect
  \/ Over

Spec == Init /\ [][Next]_vars

\* Processes go on, scripts run and the user of a page that shows an error
\* does something about it.
Fairness ==
  /\ \A p \in Requests : WF_vars(Serve(p)) /\ WF_vars(Discard(p))
  /\ WF_vars(\E p \in Requests : Browse(p))
  /\ WF_vars((Reload /\ page \in {"error", "broken"}) \/ FollowLink)

FairSpec == Spec /\ Fairness

-----------------------------------------------------------------------------
(* Properties.                                                             *)

\* A batch that nobody disturbs or gives up on tells every finished callback of
\* success, after fatal errors, reloads and lost connections too.  (The page
\* leaves a batch of EarlyHundred before that.)
Completes ==
  <>(EarlyHundred \/ disturbed \/ gaveUp \/ \A s \in 1..Sets :
       [set |-> s, success |-> TRUE, left |-> FALSE] \in reported)
=============================================================================
