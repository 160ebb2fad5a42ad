-------------------------------- MODULE Ajax --------------------------------
(***************************************************************************)
(* Drupal.Ajax in one browser page: objects that each send a request,      *)
(* receive a list of commands, load the scripts that the new content needs *)
(* and insert the content.  The objects share the page's list of loaded    *)
(* libraries, its scripts and jQuery's count of active requests; answers   *)
(* arrive in any order, and fail.                                          *)
(*                                                                         *)
(* Scripts run between two steps of JavaScript only where a command waits  *)
(* for a file (add_js), so an exchange is a send, an arrival and, if it    *)
(* brings scripts, a load.  Libraries are footer scripts, aggregated into  *)
(* one file per answer, as they are on a site in operation.                *)
(***************************************************************************)
EXTENDS Integers, FiniteSets, Sequences

CONSTANTS
  Objects,    \* instances of Drupal.Ajax
  Libraries,  \* asset libraries
  PageLibs,   \* those the page came with
  MaxSends    \* bound on exchanges

ASSUME LibrariesAssumption == PageLibs \subseteq Libraries /\ IsFiniteSet(Libraries)
ASSUME SendsAssumption == MaxSends \in Nat
ASSUME NonEmpty == Objects # {}

VARIABLES
  sends,      \* exchanges so far
  phase,      \* where each exchange is
  owner,      \* owner[e]: the object that sent e
  known,      \* known[e]: ajax_page_state[libraries] of e's request
  needs,      \* needs[e]: libraries that the content of e's answer needs
  bound,      \* bound[e]: libraries whose behaviors are attached to that content
  libs,       \* drupalSettings.ajaxPageState.libraries
  running,    \* libraries whose scripts have run
  defined,    \* bundles of loadjs: the object and the file
  scripts,    \* exchanges whose script element is in the page and not yet run
  ajaxing, disabled, detached,  \* per object; detached: by beforeSerialize()
  active,     \* jQuery.active
  twice,      \* some library ran twice (history)
  failed,     \* libraries that failed to load (history)
  rejected,   \* rejected[o]: o's last command queue was rejected (history)
  refused,    \* refused[o]: an answer to o failed verification (history)
  overlapped, \* a request was sent while another was on the wire (history)
  untagged,   \* an answer was accepted without the token (history)
  errors      \* answers that ended in an AjaxError (history)

exchange == <<sends, phase, owner, known, needs>>
assets == <<libs, running, defined, scripts, bound>>
flags == <<ajaxing, disabled, detached, active>>
history == <<twice, failed, rejected, refused, overlapped, untagged, errors>>
vars == <<exchange, assets, flags, history>>

Exchanges == 1..MaxSends
Phases == {"unsent", "wire", "loading", "inserted", "dropped"}

InPhase(ph) == {e \in Exchanges : phase[e] = ph}
Live == InPhase("wire") \cup InPhase("loading")

\* The sequence s lists the exchanges of the set E, each once.
Lists(s, E) ==
  /\ s \in Seq(Exchanges)
  /\ {s[k] : k \in 1..Len(s)} = E
  /\ \A k, l \in 1..Len(s) : s[k] = s[l] => k = l

TypeOK ==
  /\ sends \in 0..MaxSends
  /\ phase \in [Exchanges -> Phases]
  /\ owner \in [Exchanges -> Objects]
  /\ known \in [Exchanges -> SUBSET Libraries]
  /\ needs \in [Exchanges -> SUBSET Libraries]
  /\ bound \in [Exchanges -> SUBSET Libraries]
  /\ libs \subseteq Libraries /\ running \subseteq Libraries
  /\ defined \subseteq (Objects \X SUBSET Libraries)
  /\ Lists(scripts, InPhase("loading"))
  /\ ajaxing \in [Objects -> BOOLEAN]
  /\ \A e \in Live : ajaxing[owner[e]]
  /\ disabled \in [Objects -> BOOLEAN]
  /\ detached \in [Objects -> BOOLEAN]
  /\ active \in Int
  /\ twice \in BOOLEAN /\ overlapped \in BOOLEAN /\ untagged \in BOOLEAN
  /\ failed \subseteq Libraries
  /\ rejected \in [Objects -> BOOLEAN]
  /\ refused \in [Objects -> BOOLEAN]
  /\ errors \in 0..MaxSends

Init ==
  /\ sends = 0
  /\ phase = [e \in Exchanges |-> "unsent"]
  /\ owner = [e \in Exchanges |-> CHOOSE o \in Objects : TRUE]
  /\ known = [e \in Exchanges |-> {}]
  /\ needs = [e \in Exchanges |-> {}]
  /\ bound = [e \in Exchanges |-> {}]
  /\ libs = PageLibs /\ running = PageLibs
  /\ defined = {} /\ scripts = <<>>
  /\ ajaxing = [o \in Objects |-> FALSE]
  /\ disabled = [o \in Objects |-> FALSE]
  /\ detached = [o \in Objects |-> FALSE]
  /\ active = 0
  /\ twice = FALSE /\ failed = {} /\ overlapped = FALSE /\ untagged = FALSE
  /\ rejected = [o \in Objects |-> FALSE]
  /\ refused = [o \in Objects |-> FALSE]
  /\ errors = 0

-----------------------------------------------------------------------------
(* Sending.                                                                *)

\* Mutant of Send: an object does not wait for the commands of its last answer.
SendAnyway(o) ==
  /\ sends < MaxSends
  /\ \A e \in InPhase("wire") : owner[e] # o
  /\ LET e == sends + 1 IN
       /\ sends' = e
       /\ phase' = [phase EXCEPT ![e] = "wire"]
       /\ owner' = [owner EXCEPT ![e] = o]
       /\ known' = [known EXCEPT ![e] = libs]
  /\ detached' = [detached EXCEPT ![o] = TRUE]
  /\ ajaxing' = [ajaxing EXCEPT ![o] = TRUE]
  /\ disabled' = [disabled EXCEPT ![o] = TRUE]
  /\ active' = active + 1
  /\ overlapped' = (overlapped \/ InPhase("wire") # {})
  /\ UNCHANGED <<needs, assets, twice, failed, rejected, refused, untagged, errors>>

\* eventResponse() or execute(): beforeSerialize() detaches the form's behaviors
\* and notes the page's libraries, jQuery.ajax() counts the request, beforeSend()
\* disables the element.
Send(o) ==
  /\ ~ajaxing[o]
  /\ sends < MaxSends
  /\ LET e == sends + 1 IN
       /\ sends' = e
       /\ phase' = [phase EXCEPT ![e] = "wire"]
       /\ owner' = [owner EXCEPT ![e] = o]
       /\ known' = [known EXCEPT ![e] = libs]
  /\ detached' = [detached EXCEPT ![o] = TRUE]
  /\ ajaxing' = [ajaxing EXCEPT ![o] = TRUE]
  /\ disabled' = [disabled EXCEPT ![o] = TRUE]
  /\ active' = active + 1
  /\ overlapped' = (overlapped \/ InPhase("wire") # {})
  /\ UNCHANGED <<needs, assets, twice, failed, rejected, refused, untagged, errors>>

-----------------------------------------------------------------------------
(* An answer without commands.                                             *)

\* Mutant of Fail: the element stays disabled.
FailKeepsDisabled(e) ==
  /\ phase[e] = "wire"
  /\ LET o == owner[e] IN
       /\ ajaxing' = [ajaxing EXCEPT ![o] = FALSE]
       /\ detached' = [detached EXCEPT ![o] = FALSE]
  /\ phase' = [phase EXCEPT ![e] = "dropped"]
  /\ errors' = errors + 1
  /\ UNCHANGED <<sends, owner, known, needs, assets, disabled, active>>
  /\ UNCHANGED <<twice, failed, rejected, refused, overlapped, untagged>>

\* An HTTP error, a broken connection or no JSON: options.error(), then
\* options.complete() and Ajax.error(), which throws through jQuery's done().
Fail(e) ==
  /\ phase[e] = "wire"
  /\ LET o == owner[e] IN
       /\ ajaxing' = [ajaxing EXCEPT ![o] = FALSE]
       /\ disabled' = [disabled EXCEPT ![o] = FALSE]
       /\ detached' = [detached EXCEPT ![o] = FALSE]
  /\ phase' = [phase EXCEPT ![e] = "dropped"]
  /\ errors' = errors + 1
  /\ UNCHANGED <<sends, owner, known, needs, assets, active>>
  /\ UNCHANGED <<twice, failed, rejected, refused, overlapped, untagged>>

\* options.success() finds neither the token nor a trusted URL: Ajax.error()
\* throws before options.complete(), and no one resets "ajaxing".
Refuse(e) ==
  /\ phase[e] = "wire"
  /\ LET o == owner[e] IN
       /\ disabled' = [disabled EXCEPT ![o] = FALSE]
       /\ detached' = [detached EXCEPT ![o] = FALSE]
       /\ refused' = [refused EXCEPT ![o] = TRUE]
  /\ phase' = [phase EXCEPT ![e] = "dropped"]
  /\ errors' = errors + 1
  /\ UNCHANGED <<sends, owner, known, needs, assets, ajaxing, active>>
  /\ UNCHANGED <<twice, failed, rejected, overlapped, untagged>>

-----------------------------------------------------------------------------
(* An answer with commands.                                                *)

\* AjaxResponseAttachmentsProcessor: the libraries that the page lacks, as far
\* as its request said, and the page's new list of libraries.
New(e, n) == n \ known[e]
NewList(e, n) == known[e] \cup n

\* jQuery counts a request as over once its callbacks have returned.
\* ajaxComplete() undoes this for an answer with the token, whose commands are
\* still under way.
Counted(token) == IF token THEN active ELSE active - 1

\* Ajax.success() at the end of the queue, and what follows it.  The form's
\* behaviors stay detached when the queue was rejected.
Finish(o, ok, count) ==
  /\ ajaxing' = [ajaxing EXCEPT ![o] = FALSE]
  /\ detached' = [detached EXCEPT ![o] = @ /\ ~ok]
  /\ rejected' = [rejected EXCEPT ![o] = ~ok]
  /\ active' = count - 1

\* The settings command merges the list before any script is loaded.  An answer
\* may bring other settings, and with them the list, but no library.
Settings(e, n) ==
  \/ libs' = NewList(e, n)
  \/ New(e, n) = {} /\ UNCHANGED libs

Tagged(token) == untagged' = (untagged \/ ~token)

\* The commands need no script: they run, insert() with what is loaded by now.
Insert(e, n, token) ==
  /\ phase[e] = "wire"
  /\ New(e, n) = {}
  /\ Settings(e, n) /\ Tagged(token)
  /\ disabled' = [disabled EXCEPT ![owner[e]] = FALSE]
  /\ needs' = [needs EXCEPT ![e] = n]
  /\ bound' = [bound EXCEPT ![e] = n \cap running]
  /\ phase' = [phase EXCEPT ![e] = "inserted"]
  /\ Finish(owner[e], TRUE, Counted(token))
  /\ UNCHANGED <<sends, owner, known, running, defined, scripts>>
  /\ UNCHANGED <<twice, failed, refused, overlapped, errors>>

\* Mutant of AddJs: the page's list is left as it is.
AddJsKeepsList(e, n, token) ==
  /\ phase[e] = "wire"
  /\ New(e, n) # {}
  /\ <<owner[e], New(e, n)>> \notin defined
  /\ Tagged(token)
  /\ defined' = defined \cup {<<owner[e], New(e, n)>>}
  /\ scripts' = Append(scripts, e)
  /\ disabled' = [disabled EXCEPT ![owner[e]] = FALSE]
  /\ needs' = [needs EXCEPT ![e] = n]
  /\ phase' = [phase EXCEPT ![e] = "loading"]
  /\ active' = Counted(token)
  /\ UNCHANGED <<sends, owner, known, libs, running, bound, ajaxing, detached>>
  /\ UNCHANGED <<twice, failed, rejected, refused, overlapped, errors>>

\* Mutant of AddJs: jQuery's count is not corrected for commands under way.
AddJsUncounted(e, n, token) ==
  /\ phase[e] = "wire"
  /\ New(e, n) # {}
  /\ <<owner[e], New(e, n)>> \notin defined
  /\ Settings(e, n) /\ Tagged(token)
  /\ defined' = defined \cup {<<owner[e], New(e, n)>>}
  /\ scripts' = Append(scripts, e)
  /\ disabled' = [disabled EXCEPT ![owner[e]] = FALSE]
  /\ needs' = [needs EXCEPT ![e] = n]
  /\ phase' = [phase EXCEPT ![e] = "loading"]
  /\ active' = active - 1
  /\ UNCHANGED <<sends, owner, known, running, bound, ajaxing, detached>>
  /\ UNCHANGED <<twice, failed, rejected, refused, overlapped, errors>>

\* add_js() puts the script into the page; the commands after it wait.
AddJs(e, n, token) ==
  /\ phase[e] = "wire"
  /\ New(e, n) # {}
  /\ <<owner[e], New(e, n)>> \notin defined
  /\ Settings(e, n) /\ Tagged(token)
  /\ defined' = defined \cup {<<owner[e], New(e, n)>>}
  /\ scripts' = Append(scripts, e)
  /\ disabled' = [disabled EXCEPT ![owner[e]] = FALSE]
  /\ needs' = [needs EXCEPT ![e] = n]
  /\ phase' = [phase EXCEPT ![e] = "loading"]
  /\ active' = Counted(token)
  /\ UNCHANGED <<sends, owner, known, running, bound, ajaxing, detached>>
  /\ UNCHANGED <<twice, failed, rejected, refused, overlapped, errors>>

\* loadjs() throws when this object has asked for this file before: the queue
\* is rejected and the content is not inserted.
AddJsAgain(e, n, token) ==
  /\ phase[e] = "wire"
  /\ New(e, n) # {}
  /\ <<owner[e], New(e, n)>> \in defined
  /\ Settings(e, n) /\ Tagged(token)
  /\ disabled' = [disabled EXCEPT ![owner[e]] = FALSE]
  /\ phase' = [phase EXCEPT ![e] = "dropped"]
  /\ Finish(owner[e], FALSE, Counted(token))
  /\ UNCHANGED <<sends, owner, known, needs, running, bound, defined, scripts>>
  /\ UNCHANGED <<twice, failed, refused, overlapped, errors>>

-----------------------------------------------------------------------------
(* Scripts run in the order of their elements ("async: false").            *)

Bundle(e) == New(e, needs[e])

\* Mutant of Loaded: behaviors are attached to the new content only.
LoadedForItself ==
  /\ scripts # <<>>
  /\ LET e == Head(scripts) IN
       /\ running' = running \cup Bundle(e)
       /\ twice' = (twice \/ Bundle(e) \cap running # {})
       /\ bound' = [bound EXCEPT ![e] = needs[e] \cap running']
       /\ phase' = [phase EXCEPT ![e] = "inserted"]
       /\ Finish(owner[e], TRUE, active)
  /\ scripts' = Tail(scripts)
  /\ UNCHANGED <<sends, owner, known, needs, libs, defined, disabled>>
  /\ UNCHANGED <<failed, refused, overlapped, untagged, errors>>

\* The script runs, behaviors are attached to all of the page, and the commands
\* that waited insert their content.
Loaded ==
  /\ scripts # <<>>
  /\ LET e == Head(scripts) IN
       /\ running' = running \cup Bundle(e)
       /\ twice' = (twice \/ Bundle(e) \cap running # {})
       /\ bound' = [f \in Exchanges |->
            IF phase[f] = "inserted" \/ f = e THEN needs[f] \cap running' ELSE bound[f]]
       /\ phase' = [phase EXCEPT ![e] = "inserted"]
       /\ Finish(owner[e], TRUE, active)
  /\ scripts' = Tail(scripts)
  /\ UNCHANGED <<sends, owner, known, needs, libs, defined, disabled>>
  /\ UNCHANGED <<failed, refused, overlapped, untagged, errors>>

\* Mutant of LoadFails: no one catches the rejection.
LoadFailsUncaught ==
  /\ scripts # <<>>
  /\ LET e == Head(scripts) IN
       /\ failed' = failed \cup Bundle(e)
       /\ phase' = [phase EXCEPT ![e] = "dropped"]
       /\ rejected' = [rejected EXCEPT ![owner[e]] = TRUE]
  /\ scripts' = Tail(scripts)
  /\ UNCHANGED <<sends, owner, known, needs, libs, running, bound, defined, flags>>
  /\ UNCHANGED <<twice, refused, overlapped, untagged, errors>>

\* The file cannot be loaded: the queue is rejected, the list keeps its libraries.
LoadFails ==
  /\ scripts # <<>>
  /\ LET e == Head(scripts) IN
       /\ failed' = failed \cup Bundle(e)
       /\ phase' = [phase EXCEPT ![e] = "dropped"]
       /\ Finish(owner[e], FALSE, active)
  /\ scripts' = Tail(scripts)
  /\ UNCHANGED <<sends, owner, known, needs, libs, running, bound, defined, disabled>>
  /\ UNCHANGED <<twice, refused, overlapped, untagged, errors>>

-----------------------------------------------------------------------------
Respond(e, n, token) ==
  Insert(e, n, token) \/ AddJs(e, n, token) \/ AddJsAgain(e, n, token)

Answer(e) ==
  \/ Fail(e) \/ Refuse(e)
  \/ \E n \in SUBSET Libraries, token \in BOOLEAN : Respond(e, n, token)

Load == Loaded \/ LoadFails

\* The page waits for its user, who may have made all the requests there are.
Rest == Live = {} /\ UNCHANGED vars

Next ==
  \/ \E o \in Objects : Send(o)
  \/ \E e \in Exchanges : Answer(e)
  \/ Load
  \/ Rest

Spec == Init /\ [][Next]_vars

\* A request comes to an end in the end, a file loads or fails to.
Fairness == (\A e \in Exchanges : WF_vars(Answer(e))) /\ WF_vars(Load)

FairSpec == Spec /\ Fairness

-----------------------------------------------------------------------------
(* Properties.                                                             *)

\* Libraries whose script is in the page and has not run.
Coming == UNION {Bundle(e) : e \in InPhase("loading")}

OneExchange ==
  \A e, f \in Live : owner[e] = owner[f] => e = f

\* Whatever order answers and files come in, an object has one exchange at a
\* time, the commands of an answer included.  An element is disabled only while
\* its request is on the wire, and the behaviors that beforeSerialize() detached
\* are back when its object is done, unless its last queue was rejected.
Restored ==
  /\ OneExchange
  /\ \A o \in Objects :
       /\ disabled[o] => \E e \in InPhase("wire") : owner[e] = o
       /\ detached[o] => ajaxing[o] \/ rejected[o]

\* Content that is inserted has the behaviors of all the libraries it needs,
\* save of those whose script is still to run or has failed to: also of those
\* that another object's answer was loading when the content was inserted.
ContentBound ==
  \A e \in InPhase("inserted") : needs[e] \subseteq bound[e] \cup failed \cup Coming

\* Unless two requests were on the wire at a time, no library runs twice, and
\* the page's list is what has run, is being loaded or has failed to load.
LibrariesOnce ==
  ~overlapped => ~twice /\ libs = running \cup failed \cup Coming

\* jQuery's count of active requests covers the exchanges whose commands are
\* under way, so that ajaxStop waits for them; each AjaxError leaves it one too
\* high, for good.  Answers accepted without the token are left aside.
StopWaits ==
  ~untagged => active = Cardinality(Live) + errors

\* An object that waits for an answer, a file or its commands is free again in
\* the end, or was refused an answer.
Responsive ==
  \A o \in Objects : ajaxing[o] ~> (~ajaxing[o] \/ refused[o])
=============================================================================
