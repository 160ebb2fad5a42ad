----------------------------- MODULE AjaxProofs -----------------------------
(***************************************************************************)
(* Proofs about Ajax, for any objects, libraries and number of exchanges.  *)
(***************************************************************************)
EXTENDS Ajax, FiniteSetTheorems, TLAPS

\* Libraries that ran, are being loaded or failed to load.
Accounted == running \cup failed \cup Coming

\* Exchanges are numbered as they are sent, and end in one AjaxError at most.
Numbered ==
  /\ \A e \in Exchanges : phase[e] = "unsent" <=> e > sends
  /\ errors + Cardinality(Live) <= sends

\* What a list of libraries or a bundle names is accounted for, and behaviors
\* are attached of libraries that ran only.
NothingUnknown ==
  /\ libs \subseteq Accounted
  /\ \A e \in Live : known[e] \subseteq Accounted
  /\ \A d \in defined : d[2] \subseteq Accounted
  /\ \A e \in Exchanges : bound[e] \subseteq running

\* The needs of inserted content are accounted for, and met as far as scripts ran.
NeedsMet ==
  \A e \in InPhase("inserted") :
    needs[e] \subseteq Accounted /\ needs[e] \cap running \subseteq bound[e]

\* Without overlapping requests the list that a request sends is still the
\* page's when its answer comes, and no script brings what another brought.
InTurn ==
  ~overlapped =>
    /\ ~twice
    /\ Accounted \subseteq libs
    /\ \A e \in InPhase("wire") : known[e] = libs
    /\ \A e, f \in InPhase("wire") : e = f
    /\ \A e \in InPhase("loading") : Bundle(e) \cap running = {}
    /\ \A e, f \in InPhase("loading") : e # f => Bundle(e) \cap Bundle(f) = {}

IInv ==
  /\ TypeOK /\ Numbered
  /\ Restored /\ StopWaits
  /\ NothingUnknown /\ NeedsMet
  /\ InTurn

-----------------------------------------------------------------------------
(* Exchanges under way.                                                    *)

\* There are finitely many.
LEMMA LiveFinite ==
  /\ Live \subseteq Exchanges
  /\ IsFiniteSet(Live)
  /\ Cardinality(Live) \in Nat
<1>1. Live \subseteq Exchanges
  BY DEF Live, InPhase
<1>2. IsFiniteSet(Exchanges)
  BY SendsAssumption, FS_Interval DEF Exchanges
<1>3. QED  BY <1>1, <1>2, FS_Subset, FS_CardinalityType

\* How their number changes with the phase of one exchange.
LEMMA LiveCounts ==
  ASSUME TypeOK, NEW e \in Exchanges, NEW ph \in Phases,
         phase' = [phase EXCEPT ![e] = ph]
  PROVE  /\ e \notin Live /\ ph = "wire" => Cardinality(Live') = Cardinality(Live) + 1
         /\ e \in Live /\ ph = "loading" => Live' = Live
         /\ e \in Live /\ ph \in {"inserted", "dropped"} =>
              Live' = Live \ {e} /\ Cardinality(Live') = Cardinality(Live) - 1
<1>1. \A f \in Exchanges : phase'[f] = IF f = e THEN ph ELSE phase[f]
  BY DEF TypeOK
<1>2. CASE e \notin Live /\ ph = "wire"
  <2>1. Live' = Live \cup {e}
    BY <1>1, <1>2 DEF Live, InPhase
  <2>2. QED  BY <1>2, <2>1, LiveFinite, FS_AddElement
<1>3. CASE e \in Live /\ ph = "loading"
  BY <1>1, <1>3 DEF Live, InPhase
<1>4. CASE e \in Live /\ ph \in {"inserted", "dropped"}
  <2>1. Live' = Live \ {e}
    BY <1>1, <1>4 DEF Live, InPhase
  <2>2. QED  BY <1>4, <2>1, LiveFinite, FS_RemoveElement
<1>5. QED  BY <1>2, <1>3, <1>4

-----------------------------------------------------------------------------
(* The list of scripts.                                                    *)

\* A new script comes last.
LEMMA AppendListed ==
  ASSUME NEW s, NEW L, Lists(s, L), NEW e \in Exchanges, e \notin L
  PROVE  Lists(Append(s, e), L \cup {e})
<1> DEFINE t == Append(s, e)
<1>1. /\ t \in Seq(Exchanges) /\ Len(t) = Len(s) + 1 /\ Len(s) \in Nat
      /\ t[Len(s) + 1] = e
      /\ \A k \in 1..Len(s) : t[k] = s[k] /\ s[k] \in L
  BY DEF Lists
<1>2. {t[k] : k \in 1..Len(t)} = L \cup {e}
  <2>1. \A k \in 1..Len(t) : t[k] \in L \cup {e}
    BY <1>1
  <2>2. \A f \in L \cup {e} : \E k \in 1..Len(t) : t[k] = f
    <3>1. \A f \in L : \E k \in 1..Len(s) : s[k] = f
      BY DEF Lists
    <3>2. QED  BY <1>1, <3>1
  <2>3. QED  BY <2>1, <2>2
<1>3. ASSUME NEW k \in 1..Len(t), NEW l \in 1..Len(t), t[k] = t[l]
      PROVE  k = l
  <2>1. CASE k \in 1..Len(s) /\ l \in 1..Len(s)
    BY <1>1, <1>3, <2>1 DEF Lists
  <2>2. CASE k \notin 1..Len(s) \/ l \notin 1..Len(s)
    BY <1>1, <1>3, <2>2
  <2>3. QED  BY <2>1, <2>2
<1>4. QED  BY <1>1, <1>2, <1>3 DEF Lists

\* The first script leaves.
LEMMA TailListed ==
  ASSUME NEW s, NEW L, Lists(s, L), s # <<>>
  PROVE  /\ Head(s) \in L /\ Head(s) \in Exchanges
         /\ Lists(Tail(s), L \ {Head(s)})
<1> DEFINE t == Tail(s)
<1>1. /\ s \in Seq(Exchanges) /\ Len(s) \in Nat \ {0} /\ Head(s) = s[1]
      /\ t \in Seq(Exchanges) /\ Len(t) = Len(s) - 1
      /\ \A k \in 1..Len(t) : t[k] = s[k + 1]
  BY DEF Lists
<1>2. \A k \in 1..Len(s) : s[k] \in L /\ s[k] \in Exchanges
  BY DEF Lists
<1>3. {t[k] : k \in 1..Len(t)} = L \ {s[1]}
  <2>1. \A k \in 1..Len(t) : t[k] \in L \ {s[1]}
    <3>1. \A k \in 1..Len(t) : k + 1 \in 1..Len(s) /\ k + 1 # 1 /\ 1 \in 1..Len(s)
      BY <1>1
    <3>2. QED  BY <1>1, <1>2, <3>1 DEF Lists
  <2>2. ASSUME NEW f \in L \ {s[1]}
        PROVE  \E k \in 1..Len(t) : t[k] = f
    <3>1. PICK k \in 1..Len(s) : s[k] = f
      BY DEF Lists
    <3>2. k - 1 \in 1..Len(t) /\ (k - 1) + 1 = k
      BY <1>1, <2>2, <3>1
    <3>3. QED  BY <1>1, <3>1, <3>2
  <2>3. QED  BY <2>1, <2>2
<1>4. ASSUME NEW k \in 1..Len(t), NEW l \in 1..Len(t), t[k] = t[l]
      PROVE  k = l
  <2>1. k + 1 \in 1..Len(s) /\ l + 1 \in 1..Len(s) /\ s[k + 1] = s[l + 1]
    BY <1>1, <1>4
  <2>2. k + 1 = l + 1
    BY <2>1 DEF Lists
  <2>3. QED  BY <2>2
<1>5. QED  BY <1>1, <1>2, <1>3, <1>4 DEF Lists

-----------------------------------------------------------------------------
(* What is accounted for.                                                  *)

\* A bundle is what it was when its script was put into the page.
LEMMA BundleKept ==
  ASSUME NEW e \in Exchanges, needs'[e] = needs[e], known'[e] = known[e]
  PROVE  Bundle(e)' = Bundle(e)
BY DEF Bundle, New

\* A step that neither puts a script into the page nor runs one.
LEMMA QuietStep ==
  ASSUME TypeOK, NEW e \in Exchanges, NEW ph \in Phases \ {"loading"},
         phase' = [phase EXCEPT ![e] = ph], phase[e] # "loading",
         running' = running, failed' = failed,
         \A f \in Exchanges \ {e} : needs'[f] = needs[f] /\ known'[f] = known[f]
  PROVE  /\ InPhase("loading")' = InPhase("loading")
         /\ \A f \in InPhase("loading") : Bundle(f)' = Bundle(f)
         /\ Accounted' = Accounted
<1>1. InPhase("loading")' = InPhase("loading")
  BY DEF InPhase, TypeOK
<1>2. \A f \in InPhase("loading") : Bundle(f)' = Bundle(f)
  BY BundleKept DEF InPhase
<1>3. Coming' = Coming
  BY <1>1, <1>2 DEF Coming
<1>4. QED  BY <1>1, <1>2, <1>3 DEF Accounted

\* A script is put into the page.
LEMMA ScriptComes ==
  ASSUME TypeOK, NEW e \in Exchanges, NEW n \in SUBSET Libraries,
         phase[e] = "wire", phase' = [phase EXCEPT ![e] = "loading"],
         needs' = [needs EXCEPT ![e] = n], known' = known,
         running' = running, failed' = failed
  PROVE  /\ InPhase("loading")' = InPhase("loading") \cup {e}
         /\ e \notin InPhase("loading")
         /\ Bundle(e)' = New(e, n)
         /\ \A f \in InPhase("loading") : Bundle(f)' = Bundle(f)
         /\ Accounted' = Accounted \cup New(e, n)
<1>1. InPhase("loading")' = InPhase("loading") \cup {e} /\ e \notin InPhase("loading")
  BY DEF InPhase, TypeOK, Phases
<1>2. Bundle(e)' = New(e, n)
  BY DEF Bundle, New, TypeOK
<1>3. \A f \in InPhase("loading") : Bundle(f)' = Bundle(f)
  <2>1. \A f \in InPhase("loading") : f \in Exchanges /\ needs'[f] = needs[f]
    BY <1>1 DEF InPhase, TypeOK
  <2>2. QED  BY <2>1, BundleKept
<1>4. Coming' = Coming \cup New(e, n)
  BY <1>1, <1>2, <1>3 DEF Coming
<1>5. QED  BY <1>1, <1>2, <1>3, <1>4 DEF Accounted

\* A script leaves the page's list: it runs, or fails to load.
LEMMA ScriptGoes ==
  ASSUME TypeOK, NEW e \in InPhase("loading"), NEW ph \in {"inserted", "dropped"},
         phase' = [phase EXCEPT ![e] = ph], needs' = needs, known' = known,
         \/ running' = running \cup Bundle(e) /\ failed' = failed
         \/ running' = running /\ failed' = failed \cup Bundle(e)
  PROVE  /\ InPhase("loading")' = InPhase("loading") \ {e}
         /\ \A f \in Exchanges : Bundle(f)' = Bundle(f)
         /\ Accounted' = Accounted
<1>1. InPhase("loading")' = InPhase("loading") \ {e}
  BY DEF InPhase, TypeOK
<1>2. \A f \in Exchanges : Bundle(f)' = Bundle(f)
  BY BundleKept
<1>3. Coming' \cup Bundle(e) = Coming
  <2> DEFINE L == InPhase("loading")
  <2>1. \A f \in L : f \in Exchanges
    BY DEF InPhase
  <2>2. Coming' = UNION {Bundle(f)' : f \in L \ {e}}
    BY <1>1 DEF Coming
  <2>3. Coming' = UNION {Bundle(f) : f \in L \ {e}}
    BY <1>2, <2>1, <2>2
  <2>4. QED  BY <2>3 DEF Coming
<1>4. QED  BY <1>1, <1>2, <1>3 DEF Accounted

\* A bundle names libraries.
LEMMA BundleType ==
  ASSUME TypeOK, NEW e \in Exchanges
  PROVE  Bundle(e) \subseteq Libraries
BY DEF Bundle, New, TypeOK

-----------------------------------------------------------------------------
(* The invariant holds in the beginning.                                   *)

LEMMA Initially == Init => IInv
<1> SUFFICES ASSUME Init PROVE IInv
  OBVIOUS
<1>1. Live = {} /\ InPhase("loading") = {} /\ InPhase("wire") = {} /\ InPhase("inserted") = {}
  BY DEF Init, Live, InPhase
<1>2. Cardinality(Live) = 0 /\ MaxSends \in Nat
  BY <1>1, FS_EmptySet, SendsAssumption
<1>3. Coming = {}
  BY <1>1 DEF Coming
<1>4. TypeOK
  <2>1. owner \in [Exchanges -> Objects]
    BY NonEmpty DEF Init
  <2>2. Lists(scripts, InPhase("loading"))
    BY <1>1 DEF Init, Lists
  <2>3. libs \subseteq Libraries /\ running \subseteq Libraries
    BY LibrariesAssumption DEF Init
  <2>4. phase \in [Exchanges -> Phases]
    BY DEF Init, Phases
  <2>5. /\ sends \in 0..MaxSends /\ errors \in 0..MaxSends
    BY <1>2 DEF Init
  <2>6. /\ known \in [Exchanges -> SUBSET Libraries]
        /\ needs \in [Exchanges -> SUBSET Libraries]
        /\ bound \in [Exchanges -> SUBSET Libraries]
        /\ defined \subseteq (Objects \X SUBSET Libraries)
        /\ failed \subseteq Libraries
    BY DEF Init
  <2>7. /\ ajaxing \in [Objects -> BOOLEAN] /\ disabled \in [Objects -> BOOLEAN]
        /\ detached \in [Objects -> BOOLEAN] /\ active \in Int
        /\ rejected \in [Objects -> BOOLEAN] /\ refused \in [Objects -> BOOLEAN]
    <3>1. /\ ajaxing = [o \in Objects |-> FALSE] /\ disabled = [o \in Objects |-> FALSE]
          /\ detached = [o \in Objects |-> FALSE] /\ active = 0
          /\ rejected = [o \in Objects |-> FALSE] /\ refused = [o \in Objects |-> FALSE]
      BY DEF Init
    <3>2. QED  BY <3>1
  <2>8. QED  BY <1>1, <2>1, <2>2, <2>3, <2>4, <2>5, <2>6, <2>7 DEF Init, TypeOK
<1>5. Numbered
  BY <1>2 DEF Init, Numbered, Exchanges
<1>6. Restored
  BY <1>1 DEF Init, Restored, OneExchange
<1>7. StopWaits
  BY <1>2 DEF Init, StopWaits
<1>8. NothingUnknown
  BY <1>1 DEF Init, NothingUnknown, Accounted
<1>9. NeedsMet
  BY <1>1 DEF NeedsMet
<1>10. InTurn
  BY <1>1, <1>3 DEF Init, InTurn, Accounted
<1>11. QED  BY <1>4, <1>5, <1>6, <1>7, <1>8, <1>9, <1>10 DEF IInv

-----------------------------------------------------------------------------
(* Types and numbers.                                                      *)

\* The exchange that a script belongs to.
LEMMA HeadLoads ==
  ASSUME TypeOK, scripts # <<>>
  PROVE  /\ Head(scripts) \in InPhase("loading")
         /\ Head(scripts) \in Exchanges
         /\ owner[Head(scripts)] \in Objects
         /\ Lists(Tail(scripts), InPhase("loading") \ {Head(scripts)})
<1>1. /\ Head(scripts) \in InPhase("loading") /\ Head(scripts) \in Exchanges
      /\ Lists(Tail(scripts), InPhase("loading") \ {Head(scripts)})
  BY TailListed DEF TypeOK
<1>2. QED  BY <1>1 DEF TypeOK

\* Every step keeps the types.
LEMMA TypeKept ==
  ASSUME IInv, Next
  PROVE  TypeOK'
<1>0. TypeOK /\ Numbered /\ Restored
  BY DEF IInv
<1> USE DEF Phases
<1>1. ASSUME NEW o \in Objects, Send(o)
      PROVE  TypeOK'
  <2> DEFINE e == sends + 1
  <2>1. e \in Exchanges /\ phase[e] = "unsent"
    BY <1>0, <1>1, SendsAssumption DEF Send, TypeOK, Numbered, Exchanges
  <2>2. /\ phase' \in [Exchanges -> Phases]
        /\ InPhase("loading")' = InPhase("loading")
        /\ Live' = Live \cup {e}
    BY <1>0, <1>1, <2>1 DEF Send, TypeOK, InPhase, Live
  <2>3. owner' \in [Exchanges -> Objects] /\ known' \in [Exchanges -> SUBSET Libraries]
    BY <1>0, <1>1, <2>1 DEF Send, TypeOK
  <2>4. \A f \in Live' : ajaxing'[owner'[f]]
    BY <1>0, <1>1, <2>1, <2>2, LiveFinite DEF Send, TypeOK
  <2>5. sends' \in 0..MaxSends
    BY <1>0, <1>1, SendsAssumption DEF Send, TypeOK
  <2>6. /\ ajaxing' \in [Objects -> BOOLEAN] /\ disabled' \in [Objects -> BOOLEAN]
        /\ detached' \in [Objects -> BOOLEAN] /\ active' \in Int /\ overlapped' \in BOOLEAN
    BY <1>0, <1>1 DEF Send, TypeOK
  <2>7. QED  BY <1>0, <1>1, <2>2, <2>3, <2>4, <2>5, <2>6 DEF Send, TypeOK, assets
<1>2. ASSUME NEW e \in Exchanges, phase[e] = "wire",
             phase' = [phase EXCEPT ![e] = "dropped"],
             errors' = errors + 1, scripts' = scripts,
             \/ ajaxing' = [ajaxing EXCEPT ![owner[e]] = FALSE]
             \/ ajaxing' = ajaxing,
             owner' = owner
      PROVE  /\ phase' \in [Exchanges -> Phases]
             /\ InPhase("loading")' = InPhase("loading")
             /\ \A f \in Live' : ajaxing'[owner'[f]]
             /\ errors' \in 0..MaxSends
  <2>1. /\ phase' \in [Exchanges -> Phases] /\ InPhase("loading")' = InPhase("loading")
        /\ e \in Live /\ Live' = Live \ {e}
    BY <1>0, <1>2 DEF TypeOK, InPhase, Live
  <2>2. \A f \in Live' : ajaxing'[owner'[f]]
    BY <1>0, <1>2, <2>1, LiveFinite DEF TypeOK, Restored, OneExchange
  <2>3. Cardinality(Live) >= 1
    <3>1. Cardinality(Live \ {e}) = Cardinality(Live) - 1
      BY <2>1, LiveFinite, FS_RemoveElement
    <3>2. Cardinality(Live \ {e}) \in Nat
      BY <2>1, LiveFinite, FS_RemoveElement, FS_CardinalityType
    <3>3. QED  BY <3>1, <3>2, LiveFinite
  <2>4. errors' \in 0..MaxSends
    BY <1>0, <1>2, <2>3, LiveFinite, SendsAssumption DEF Numbered, TypeOK
  <2>5. QED  BY <2>1, <2>2, <2>4
<1>3. ASSUME NEW e \in Exchanges, Fail(e)
      PROVE  TypeOK'
  <2>1. /\ phase[e] = "wire" /\ phase' = [phase EXCEPT ![e] = "dropped"]
        /\ errors' = errors + 1 /\ scripts' = scripts /\ owner' = owner
        /\ ajaxing' = [ajaxing EXCEPT ![owner[e]] = FALSE]
    BY <1>3 DEF Fail, assets
  <2>2. QED  BY <1>0, <1>2, <1>3, <2>1 DEF Fail, TypeOK, assets
<1>4. ASSUME NEW e \in Exchanges, Refuse(e)
      PROVE  TypeOK'
  <2>1. /\ phase[e] = "wire" /\ phase' = [phase EXCEPT ![e] = "dropped"]
        /\ errors' = errors + 1 /\ scripts' = scripts /\ owner' = owner
        /\ ajaxing' = ajaxing
    BY <1>4 DEF Refuse, assets
  <2>2. QED  BY <1>0, <1>2, <1>4, <2>1 DEF Refuse, TypeOK, assets
<1>5. ASSUME NEW e \in Exchanges, NEW n \in SUBSET Libraries, NEW token \in BOOLEAN,
             Settings(e, n)
      PROVE  libs' \subseteq Libraries
  BY <1>0, <1>5 DEF Settings, NewList, TypeOK
<1>6. ASSUME NEW o \in Objects, NEW ok \in BOOLEAN, NEW c \in Int, Finish(o, ok, c)
      PROVE  /\ ajaxing' \in [Objects -> BOOLEAN] /\ detached' \in [Objects -> BOOLEAN]
             /\ rejected' \in [Objects -> BOOLEAN] /\ active' \in Int
             /\ \A q \in Objects \ {o} : ajaxing'[q] = ajaxing[q]
  BY <1>0, <1>6 DEF Finish, TypeOK
<1>7. ASSUME NEW e \in Live, NEW ph \in {"inserted", "dropped"},
             phase' = [phase EXCEPT ![e] = ph], owner' = owner,
             \A q \in Objects \ {owner[e]} : ajaxing'[q] = ajaxing[q]
      PROVE  /\ phase' \in [Exchanges -> Phases]
             /\ \A f \in Live' : ajaxing'[owner'[f]]
  <2>1. phase' \in [Exchanges -> Phases] /\ Live' = Live \ {e}
    BY <1>0, <1>7, LiveFinite DEF TypeOK, InPhase, Live
  <2>2. QED  BY <1>0, <1>7, <2>1, LiveFinite DEF TypeOK, Restored, OneExchange
<1>8. ASSUME NEW e \in Exchanges, NEW n \in SUBSET Libraries, NEW token \in BOOLEAN,
             Insert(e, n, token)
      PROVE  TypeOK'
  <2>1. /\ phase[e] = "wire" /\ phase' = [phase EXCEPT ![e] = "inserted"] /\ owner' = owner
        /\ e \in Live /\ owner[e] \in Objects
    BY <1>0, <1>8 DEF Insert, Live, InPhase, TypeOK
  <2>2. /\ InPhase("loading")' = InPhase("loading")
    BY <1>0, <2>1 DEF InPhase, TypeOK
  <2>3. Finish(owner[e], TRUE, Counted(token)) /\ Counted(token) \in Int
    <3>1. active \in Int
      BY <1>0 DEF TypeOK
    <3>2. Counted(token) \in Int
      BY <3>1 DEF Counted
    <3>3. QED  BY <1>8, <3>2 DEF Insert
  <2>4. /\ libs' \subseteq Libraries
        /\ untagged' \in BOOLEAN
        /\ disabled' \in [Objects -> BOOLEAN]
        /\ needs' \in [Exchanges -> SUBSET Libraries]
        /\ bound' \in [Exchanges -> SUBSET Libraries]
    BY <1>0, <1>5, <1>8 DEF Insert, Tagged, TypeOK
  <2>5. QED  BY <1>0, <1>6, <1>7, <1>8, <2>1, <2>2, <2>3, <2>4 DEF Insert, TypeOK
<1>9. ASSUME NEW e \in Exchanges, NEW n \in SUBSET Libraries, NEW token \in BOOLEAN,
             AddJs(e, n, token)
      PROVE  TypeOK'
  <2>1. phase[e] = "wire" /\ phase' = [phase EXCEPT ![e] = "loading"] /\ owner' = owner
    BY <1>9 DEF AddJs
  <2>2. /\ phase' \in [Exchanges -> Phases] /\ Live' = Live
        /\ InPhase("loading")' = InPhase("loading") \cup {e}
        /\ e \notin InPhase("loading")
    BY <1>0, <2>1 DEF InPhase, TypeOK, Live
  <2>3. Lists(scripts', InPhase("loading")')
    BY <1>0, <1>9, <2>2, AppendListed DEF AddJs, TypeOK
  <2>4. /\ libs' \subseteq Libraries
        /\ untagged' \in BOOLEAN
        /\ disabled' \in [Objects -> BOOLEAN]
        /\ needs' \in [Exchanges -> SUBSET Libraries]
        /\ active' \in Int
    BY <1>0, <1>5, <1>9 DEF AddJs, Tagged, Counted, TypeOK
  <2>5. defined' \subseteq (Objects \X SUBSET Libraries)
    BY <1>0, <1>9 DEF AddJs, New, TypeOK
  <2>6. \A f \in Live' : ajaxing'[owner'[f]]
    BY <1>0, <1>9, <2>2 DEF AddJs, TypeOK
  <2>7. QED  BY <1>0, <1>9, <2>2, <2>3, <2>4, <2>5, <2>6 DEF AddJs, TypeOK
<1>10. ASSUME NEW e \in Exchanges, NEW n \in SUBSET Libraries, NEW token \in BOOLEAN,
              AddJsAgain(e, n, token)
       PROVE  TypeOK'
  <2>1. /\ phase[e] = "wire" /\ phase' = [phase EXCEPT ![e] = "dropped"] /\ owner' = owner
        /\ e \in Live /\ owner[e] \in Objects
    BY <1>0, <1>10 DEF AddJsAgain, Live, InPhase, TypeOK
  <2>2. /\ InPhase("loading")' = InPhase("loading")
    BY <1>0, <2>1 DEF InPhase, TypeOK
  <2>3. Finish(owner[e], FALSE, Counted(token)) /\ Counted(token) \in Int
    <3>1. active \in Int
      BY <1>0 DEF TypeOK
    <3>2. Counted(token) \in Int
      BY <3>1 DEF Counted
    <3>3. QED  BY <1>10, <3>2 DEF AddJsAgain
  <2>4. /\ libs' \subseteq Libraries
        /\ untagged' \in BOOLEAN
        /\ disabled' \in [Objects -> BOOLEAN]
    BY <1>0, <1>5, <1>10 DEF AddJsAgain, Tagged, TypeOK
  <2>5. QED  BY <1>0, <1>6, <1>7, <1>10, <2>1, <2>2, <2>3, <2>4 DEF AddJsAgain, TypeOK
<1>11. ASSUME Loaded
       PROVE  TypeOK'
  <2> DEFINE e == Head(scripts)
  <2>1. /\ e \in InPhase("loading") /\ e \in Exchanges /\ owner[e] \in Objects /\ e \in Live
        /\ phase' = [phase EXCEPT ![e] = "inserted"] /\ owner' = owner
        /\ Lists(scripts', InPhase("loading") \ {e})
    BY <1>0, <1>11, HeadLoads DEF Loaded, Live
  <2>2. InPhase("loading")' = InPhase("loading") \ {e}
    BY <1>0, <2>1 DEF InPhase, TypeOK
  <2>3. Finish(owner[e], TRUE, active) /\ active \in Int
    BY <1>0, <1>11 DEF Loaded, TypeOK
  <2>4. running' \subseteq Libraries /\ twice' \in BOOLEAN
    BY <1>0, <1>11, <2>1, BundleType DEF Loaded, TypeOK
  <2>5. bound' \in [Exchanges -> SUBSET Libraries]
    BY <1>0, <1>11 DEF Loaded, TypeOK
  <2>6. QED  BY <1>0, <1>6, <1>7, <1>11, <2>1, <2>2, <2>3, <2>4, <2>5 DEF Loaded, TypeOK
<1>12. ASSUME LoadFails
       PROVE  TypeOK'
  <2> DEFINE e == Head(scripts)
  <2>1. /\ e \in InPhase("loading") /\ e \in Exchanges /\ owner[e] \in Objects /\ e \in Live
        /\ phase' = [phase EXCEPT ![e] = "dropped"] /\ owner' = owner
        /\ Lists(scripts', InPhase("loading") \ {e})
    BY <1>0, <1>12, HeadLoads DEF LoadFails, Live
  <2>2. InPhase("loading")' = InPhase("loading") \ {e}
    BY <1>0, <2>1 DEF InPhase, TypeOK
  <2>3. Finish(owner[e], FALSE, active) /\ active \in Int
    BY <1>0, <1>12 DEF LoadFails, TypeOK
  <2>4. failed' \subseteq Libraries
    BY <1>0, <1>12, <2>1, BundleType DEF LoadFails, TypeOK
  <2>5. QED  BY <1>0, <1>6, <1>7, <1>12, <2>1, <2>2, <2>3, <2>4 DEF LoadFails, TypeOK
<1>13. ASSUME Rest
       PROVE  TypeOK'
  BY <1>0, <1>13 DEF Rest, vars, exchange, assets, flags, history, TypeOK, Live, InPhase
<1>14. QED
  BY <1>1, <1>3, <1>4, <1>8, <1>9, <1>10, <1>11, <1>12, <1>13 DEF Next, Answer, Respond, Load

-----------------------------------------------------------------------------
(* Counting.                                                               *)

\* Every step keeps the numbers, and jQuery's count with them.
LEMMA CountsKept ==
  ASSUME IInv, Next
  PROVE  Numbered' /\ StopWaits'
<1>0. /\ TypeOK /\ Numbered /\ StopWaits
      /\ Cardinality(Live) \in Nat /\ active \in Int /\ errors \in Nat /\ sends \in Nat
      /\ untagged \in BOOLEAN
  BY LiveFinite, SendsAssumption DEF IInv, TypeOK
<1> USE DEF Phases
<1>1. ASSUME NEW o \in Objects, Send(o)
      PROVE  Numbered' /\ StopWaits'
  <2> DEFINE e == sends + 1
  <2>1. e \in Exchanges /\ phase[e] = "unsent" /\ e \notin Live
    BY <1>0, <1>1, SendsAssumption DEF Send, Numbered, Exchanges, Live, InPhase
  <2>2. phase' = [phase EXCEPT ![e] = "wire"] /\ sends' = e /\ errors' = errors
        /\ active' = active + 1 /\ untagged' = untagged
    BY <1>1 DEF Send
  <2>3. Cardinality(Live') = Cardinality(Live) + 1
    BY <1>0, <2>1, <2>2, LiveCounts
  <2>4. \A f \in Exchanges : phase'[f] = "unsent" <=> f > sends'
    <3>1. \A f \in Exchanges : f \in Nat /\ phase'[f] = IF f = e THEN "wire" ELSE phase[f]
      BY <1>0, <2>2 DEF TypeOK, Exchanges
    <3>2. \A f \in Exchanges : phase[f] = "unsent" <=> f > sends
      BY <1>0 DEF Numbered
    <3>3. QED  BY <1>0, <2>2, <3>1, <3>2
  <2>5. errors' + Cardinality(Live') <= sends'
    BY <1>0, <2>2, <2>3 DEF Numbered
  <2>6. StopWaits'
    BY <1>0, <2>2, <2>3 DEF StopWaits
  <2>7. QED  BY <2>4, <2>5, <2>6 DEF Numbered
<1>2. ASSUME NEW e \in Exchanges, NEW ph \in Phases, phase[e] # "unsent", ph # "unsent",
             phase' = [phase EXCEPT ![e] = ph], sends' = sends
      PROVE  \A f \in Exchanges : phase'[f] = "unsent" <=> f > sends'
  BY <1>0, <1>2 DEF Numbered, TypeOK
<1>3. ASSUME NEW e \in Exchanges, Fail(e) \/ Refuse(e)
      PROVE  Numbered' /\ StopWaits'
  <2>1. /\ phase[e] = "wire" /\ phase' = [phase EXCEPT ![e] = "dropped"] /\ sends' = sends
        /\ errors' = errors + 1 /\ active' = active /\ untagged' = untagged
    BY <1>3 DEF Fail, Refuse
  <2>2. Cardinality(Live') = Cardinality(Live) - 1
    BY <1>0, <2>1, LiveCounts DEF Live, InPhase
  <2>3. errors' + Cardinality(Live') <= sends' /\ StopWaits'
    BY <1>0, <2>1, <2>2 DEF Numbered, StopWaits
  <2>4. QED  BY <1>2, <2>1, <2>3 DEF Numbered
<1>4. ASSUME NEW e \in Live, NEW ph \in {"inserted", "dropped"},
             phase' = [phase EXCEPT ![e] = ph], sends' = sends, errors' = errors,
             ~untagged' => ~untagged /\ active' = active - 1
      PROVE  Numbered' /\ StopWaits'
  <2>1. e \in Exchanges /\ phase[e] # "unsent" /\ ph # "unsent"
    BY DEF Live, InPhase
  <2>2. Cardinality(Live') = Cardinality(Live) - 1
    BY <1>0, <1>4, <2>1, LiveCounts
  <2>3. errors' + Cardinality(Live') <= sends' /\ StopWaits'
    BY <1>0, <1>4, <2>2 DEF Numbered, StopWaits
  <2>4. QED  BY <1>2, <1>4, <2>1, <2>3 DEF Numbered
<1>5. ASSUME NEW e \in Exchanges, NEW n \in SUBSET Libraries, NEW token \in BOOLEAN,
             Insert(e, n, token) \/ AddJsAgain(e, n, token)
      PROVE  Numbered' /\ StopWaits'
  <2>1. /\ e \in Live /\ sends' = sends /\ errors' = errors
        /\ \E ph \in {"inserted", "dropped"} : phase' = [phase EXCEPT ![e] = ph]
    BY <1>5 DEF Insert, AddJsAgain, Live, InPhase
  <2>2. active' = Counted(token) - 1 /\ untagged' = (untagged \/ ~token)
    BY <1>5 DEF Insert, AddJsAgain, Finish, Tagged
  <2>3. ~untagged' => ~untagged /\ active' = active - 1
    BY <2>2 DEF Counted
  <2>4. QED  BY <1>4, <2>1, <2>3
<1>6. ASSUME NEW e \in Exchanges, NEW n \in SUBSET Libraries, NEW token \in BOOLEAN,
             AddJs(e, n, token)
      PROVE  Numbered' /\ StopWaits'
  <2>1. /\ phase[e] = "wire" /\ phase' = [phase EXCEPT ![e] = "loading"] /\ sends' = sends
        /\ errors' = errors /\ active' = Counted(token) /\ untagged' = (untagged \/ ~token)
    BY <1>6 DEF AddJs, Tagged
  <2>2. Live' = Live
    BY <1>0, <2>1, LiveCounts DEF Live, InPhase
  <2>3. errors' + Cardinality(Live') <= sends' /\ StopWaits'
    BY <1>0, <2>1, <2>2 DEF Numbered, StopWaits, Counted
  <2>4. QED  BY <1>2, <2>1, <2>3 DEF Numbered
<1>7. ASSUME Loaded \/ LoadFails
      PROVE  Numbered' /\ StopWaits'
  <2> DEFINE e == Head(scripts)
  <2>1. e \in Live
    BY <1>0, <1>7, HeadLoads DEF Loaded, LoadFails, Live
  <2>2. /\ sends' = sends /\ errors' = errors /\ untagged' = untagged /\ active' = active - 1
        /\ \E ph \in {"inserted", "dropped"} : phase' = [phase EXCEPT ![e] = ph]
    BY <1>7 DEF Loaded, LoadFails, Finish
  <2>3. QED  BY <1>4, <2>1, <2>2
<1>8. ASSUME Rest
      PROVE  Numbered' /\ StopWaits'
  <2>1. Live' = Live
    BY <1>8 DEF Rest, vars, exchange, Live, InPhase
  <2>2. QED
    BY <1>0, <1>8, <2>1 DEF Rest, vars, exchange, flags, history, Numbered, StopWaits
<1>9. QED  BY <1>1, <1>3, <1>5, <1>6, <1>7, <1>8 DEF Next, Answer, Respond, Load

-----------------------------------------------------------------------------
(* Flags.                                                                  *)

\* Every step keeps the flags of the objects in step with their exchanges.
LEMMA RestoredKept ==
  ASSUME IInv, Next
  PROVE  Restored'
<1>0. TypeOK /\ Restored /\ Numbered
  BY DEF IInv
<1> USE DEF Phases
<1>1. ASSUME NEW o \in Objects, Send(o)
      PROVE  Restored'
  <2> DEFINE e == sends + 1
  <2>1. e \in Exchanges /\ phase[e] = "unsent" /\ \A f \in Live : owner[f] # o
    BY <1>0, <1>1, SendsAssumption DEF Send, TypeOK, Numbered, Exchanges
  <2>2. /\ Live' = Live \cup {e} /\ InPhase("wire")' = InPhase("wire") \cup {e}
        /\ e \notin Live
    BY <1>0, <1>1, <2>1 DEF Send, TypeOK, InPhase, Live
  <2>3. owner'[e] = o /\ \A f \in Live : owner'[f] = owner[f]
    BY <1>0, <1>1, <2>1, <2>2, LiveFinite DEF Send, TypeOK
  <2>4. OneExchange'
    BY <1>0, <2>1, <2>2, <2>3 DEF Restored, OneExchange
  <2>5. \A q \in Objects : disabled'[q] => \E f \in InPhase("wire")' : owner'[f] = q
    BY <1>0, <1>1, <2>2, <2>3 DEF Send, TypeOK, Restored, Live
  <2>6. \A q \in Objects : detached'[q] => ajaxing'[q] \/ rejected'[q]
    BY <1>0, <1>1 DEF Send, TypeOK, Restored
  <2>7. QED  BY <2>4, <2>5, <2>6 DEF Restored
<1>2. ASSUME NEW e \in Live, NEW ph \in Phases \ {"unsent", "wire"},
             phase' = [phase EXCEPT ![e] = ph], owner' = owner,
             \A q \in Objects \ {owner[e]} :
               /\ disabled'[q] = disabled[q] /\ ajaxing'[q] = ajaxing[q]
               /\ detached'[q] = detached[q] /\ rejected'[q] = rejected[q],
             ~disabled'[owner[e]],
             detached'[owner[e]] => ajaxing'[owner[e]] \/ rejected'[owner[e]]
      PROVE  Restored'
  <2>1. \A f \in Exchanges : phase'[f] = IF f = e THEN ph ELSE phase[f]
    BY <1>0, <1>2 DEF TypeOK
  <2>2. /\ Live' \subseteq Live
        /\ \A f \in InPhase("wire") : f # e => f \in InPhase("wire")'
    BY <1>2, <2>1 DEF Live, InPhase
  <2>3. OneExchange'
    BY <1>0, <1>2, <2>2 DEF Restored, OneExchange
  <2>4. \A q \in Objects : disabled'[q] => \E f \in InPhase("wire")' : owner'[f] = q
    BY <1>0, <1>2, <2>2 DEF Restored
  <2>5. \A q \in Objects : detached'[q] => ajaxing'[q] \/ rejected'[q]
    BY <1>0, <1>2 DEF Restored
  <2>6. QED  BY <2>3, <2>4, <2>5 DEF Restored
<1>3. ASSUME NEW e \in Live, NEW ok \in BOOLEAN, NEW c, Finish(owner[e], ok, c)
      PROVE  /\ \A q \in Objects \ {owner[e]} :
                  /\ ajaxing'[q] = ajaxing[q] /\ detached'[q] = detached[q]
                  /\ rejected'[q] = rejected[q]
             /\ detached'[owner[e]] => rejected'[owner[e]]
  <2>1. owner[e] \in Objects
    BY <1>0, LiveFinite DEF TypeOK
  <2>2. QED  BY <1>0, <1>3, <2>1 DEF Finish, TypeOK
<1>4. ASSUME NEW e \in Exchanges, Fail(e) \/ Refuse(e)
      PROVE  Restored'
  <2>1. e \in Live /\ owner[e] \in Objects
    BY <1>0, <1>4 DEF Fail, Refuse, Live, InPhase, TypeOK
  <2>2. /\ phase' = [phase EXCEPT ![e] = "dropped"] /\ owner' = owner /\ rejected' = rejected
        /\ disabled' = [disabled EXCEPT ![owner[e]] = FALSE]
        /\ detached' = [detached EXCEPT ![owner[e]] = FALSE]
        /\ \/ ajaxing' = [ajaxing EXCEPT ![owner[e]] = FALSE]
           \/ ajaxing' = ajaxing
    BY <1>4 DEF Fail, Refuse
  <2>3. /\ \A q \in Objects \ {owner[e]} :
             /\ disabled'[q] = disabled[q] /\ ajaxing'[q] = ajaxing[q]
             /\ detached'[q] = detached[q] /\ rejected'[q] = rejected[q]
        /\ ~disabled'[owner[e]] /\ ~detached'[owner[e]]
    BY <1>0, <2>1, <2>2 DEF TypeOK
  <2>4. QED  BY <1>2, <2>1, <2>2, <2>3
<1>5. ASSUME NEW e \in Exchanges, NEW n \in SUBSET Libraries, NEW token \in BOOLEAN,
             Insert(e, n, token) \/ AddJsAgain(e, n, token)
      PROVE  Restored'
  <2>1. e \in Live /\ owner[e] \in Objects
    BY <1>0, <1>5 DEF Insert, AddJsAgain, Live, InPhase, TypeOK
  <2>2. /\ \E ph \in {"inserted", "dropped"} : phase' = [phase EXCEPT ![e] = ph]
        /\ owner' = owner
        /\ disabled' = [disabled EXCEPT ![owner[e]] = FALSE]
        /\ \E ok \in BOOLEAN : Finish(owner[e], ok, Counted(token))
    BY <1>5 DEF Insert, AddJsAgain
  <2>3. /\ \A q \in Objects \ {owner[e]} : disabled'[q] = disabled[q]
        /\ ~disabled'[owner[e]]
    BY <1>0, <2>1, <2>2 DEF TypeOK
  <2>4. QED  BY <1>2, <1>3, <2>1, <2>2, <2>3
<1>6. ASSUME NEW e \in Exchanges, NEW n \in SUBSET Libraries, NEW token \in BOOLEAN,
             AddJs(e, n, token)
      PROVE  Restored'
  <2>1. e \in Live /\ owner[e] \in Objects
    BY <1>0, <1>6 DEF AddJs, Live, InPhase, TypeOK
  <2>2. /\ phase' = [phase EXCEPT ![e] = "loading"] /\ owner' = owner
        /\ disabled' = [disabled EXCEPT ![owner[e]] = FALSE]
        /\ ajaxing' = ajaxing /\ detached' = detached /\ rejected' = rejected
    BY <1>6 DEF AddJs
  <2>3. /\ \A q \in Objects \ {owner[e]} : disabled'[q] = disabled[q]
        /\ ~disabled'[owner[e]]
    BY <1>0, <2>1, <2>2 DEF TypeOK
  <2>4. detached'[owner[e]] => ajaxing'[owner[e]] \/ rejected'[owner[e]]
    BY <1>0, <2>1, <2>2 DEF Restored
  <2>5. QED  BY <1>2, <2>1, <2>2, <2>3, <2>4
<1>7. ASSUME Loaded \/ LoadFails
      PROVE  Restored'
  <2> DEFINE e == Head(scripts)
  <2>1. e \in Live /\ owner[e] \in Objects /\ phase[e] = "loading"
    BY <1>0, <1>7, HeadLoads DEF Loaded, LoadFails, Live, InPhase
  <2>2. /\ \E ph \in {"inserted", "dropped"} : phase' = [phase EXCEPT ![e] = ph]
        /\ owner' = owner /\ disabled' = disabled
        /\ \E ok \in BOOLEAN : Finish(owner[e], ok, active)
    BY <1>7 DEF Loaded, LoadFails
  <2>3. ~disabled[owner[e]]
    <3>1. \A f \in InPhase("wire") : f \in Live /\ f # e
      BY <2>1 DEF Live, InPhase
    <3>2. QED  BY <1>0, <2>1, <3>1 DEF Restored, OneExchange
  <2>4. QED  BY <1>2, <1>3, <2>1, <2>2, <2>3
<1>8. ASSUME Rest
      PROVE  Restored'
  BY <1>0, <1>8 DEF Rest, vars, exchange, flags, history, Restored, OneExchange, Live, InPhase
<1>9. QED  BY <1>1, <1>4, <1>5, <1>6, <1>7, <1>8 DEF Next, Answer, Respond, Load

-----------------------------------------------------------------------------
(* Libraries.                                                              *)

\* The steps that neither put a script into the page nor run one.
Quiet ==
  \/ \E o \in Objects : Send(o)
  \/ \E e \in Exchanges : Fail(e) \/ Refuse(e)
  \/ \E e \in Exchanges, n \in SUBSET Libraries, token \in BOOLEAN :
       Insert(e, n, token) \/ AddJsAgain(e, n, token)

\* They leave the scripts and what is accounted for as they are.
LEMMA QuietSteps ==
  ASSUME IInv, Quiet
  PROVE  /\ InPhase("loading")' = InPhase("loading")
         /\ \A f \in InPhase("loading") : Bundle(f)' = Bundle(f)
         /\ Accounted' = Accounted /\ running' = running /\ twice' = twice
<1>0. TypeOK /\ Numbered
  BY DEF IInv
<1> USE DEF Phases
<1>1. ASSUME NEW e \in Exchanges, NEW ph \in Phases \ {"loading"},
             phase' = [phase EXCEPT ![e] = ph], phase[e] # "loading",
             running' = running, failed' = failed, twice' = twice,
             \A f \in Exchanges \ {e} : needs'[f] = needs[f] /\ known'[f] = known[f]
      PROVE  /\ InPhase("loading")' = InPhase("loading")
             /\ \A f \in InPhase("loading") : Bundle(f)' = Bundle(f)
             /\ Accounted' = Accounted /\ running' = running /\ twice' = twice
  BY <1>0, <1>1, QuietStep
<1>2. CASE \E o \in Objects : Send(o)
  <2>1. PICK o \in Objects : Send(o)
    BY <1>2
  <2> DEFINE e == sends + 1
  <2>2. e \in Exchanges /\ phase[e] = "unsent"
    BY <1>0, <2>1, SendsAssumption DEF Send, TypeOK, Numbered, Exchanges
  <2>3. /\ phase' = [phase EXCEPT ![e] = "wire"] /\ running' = running /\ failed' = failed
        /\ twice' = twice
        /\ \A f \in Exchanges \ {e} : needs'[f] = needs[f] /\ known'[f] = known[f]
    BY <1>0, <2>1 DEF Send, assets, TypeOK
  <2>4. QED  BY <1>1, <2>2, <2>3
<1>3. CASE \E e \in Exchanges : Fail(e) \/ Refuse(e)
  <2>1. PICK e \in Exchanges : Fail(e) \/ Refuse(e)
    BY <1>3
  <2>2. /\ phase[e] = "wire" /\ phase' = [phase EXCEPT ![e] = "dropped"] /\ twice' = twice
        /\ running' = running /\ failed' = failed /\ needs' = needs /\ known' = known
    BY <2>1 DEF Fail, Refuse, assets
  <2>3. QED  BY <1>1, <2>2
<1>4. CASE \E e \in Exchanges, n \in SUBSET Libraries, token \in BOOLEAN :
             Insert(e, n, token) \/ AddJsAgain(e, n, token)
  <2>1. PICK e \in Exchanges, n \in SUBSET Libraries, token \in BOOLEAN :
          Insert(e, n, token) \/ AddJsAgain(e, n, token)
    BY <1>4
  <2>2. /\ phase[e] = "wire" /\ running' = running /\ failed' = failed /\ known' = known
        /\ twice' = twice
        /\ \E ph \in {"inserted", "dropped"} : phase' = [phase EXCEPT ![e] = ph]
        /\ \A f \in Exchanges \ {e} : needs'[f] = needs[f]
    BY <1>0, <2>1 DEF Insert, AddJsAgain, TypeOK
  <2>3. QED  BY <1>1, <2>2
<1>5. QED  BY <1>2, <1>3, <1>4 DEF Quiet

\* A step without effect changes nothing of this.
LEMMA RestSame ==
  ASSUME UNCHANGED vars
  PROVE  /\ Accounted' = Accounted /\ Live' = Live
         /\ \A ph : InPhase(ph)' = InPhase(ph)
         /\ \A e : Bundle(e)' = Bundle(e)
BY DEF vars, exchange, assets, history, Accounted, Coming, Bundle, New, InPhase, Live

\* What is accounted for never shrinks.
LEMMA AccountedGrows ==
  ASSUME IInv, Next
  PROVE  Accounted \subseteq Accounted'
<1>0. TypeOK
  BY DEF IInv
<1>1. ASSUME NEW e \in Exchanges, NEW n \in SUBSET Libraries, NEW token \in BOOLEAN,
             AddJs(e, n, token)
      PROVE  Accounted' = Accounted \cup New(e, n)
  BY <1>0, <1>1, ScriptComes DEF AddJs
<1>2. CASE Loaded
  BY <1>0, <1>2, HeadLoads, ScriptGoes DEF Loaded
<1>3. CASE LoadFails
  BY <1>0, <1>3, HeadLoads, ScriptGoes DEF LoadFails
<1>4. CASE Rest
  BY <1>4, RestSame DEF Rest
<1>5. CASE Quiet
  BY <1>5, QuietSteps
<1>6. QED  BY <1>1, <1>2, <1>3, <1>4, <1>5 DEF Next, Answer, Respond, Load, Quiet

\* Every step keeps the page's list, the requests' and the bundles within what
\* is accounted for.
LEMMA NothingUnknownKept ==
  ASSUME IInv, Next, TypeOK'
  PROVE  NothingUnknown'
<1>0. TypeOK /\ Numbered /\ NothingUnknown /\ Accounted \subseteq Accounted'
  BY AccountedGrows DEF IInv
<1> USE DEF Phases
<1>1. ASSUME Live' \subseteq Live, known' = known,
             libs' \subseteq Accounted', \A d \in defined' : d[2] \subseteq Accounted',
             running \subseteq running',
             \A e \in Exchanges : bound'[e] = bound[e] \/ bound'[e] \subseteq running'
      PROVE  NothingUnknown'
  BY <1>0, <1>1 DEF NothingUnknown
<1>2. ASSUME NEW o \in Objects, Send(o)
      PROVE  NothingUnknown'
  <2> DEFINE e == sends + 1
  <2>1. e \in Exchanges
    BY <1>0, <1>2, SendsAssumption DEF Send, TypeOK, Exchanges
  <2>2. Live' = Live \cup {e} /\ \A f \in Live' : known'[f] = IF f = e THEN libs ELSE known[f]
    BY <1>0, <1>2, <2>1, LiveFinite DEF Send, TypeOK, InPhase, Live
  <2>3. libs' = libs /\ defined' = defined /\ bound' = bound /\ running' = running
    BY <1>2 DEF Send, assets
  <2>4. \A f \in Live' : known'[f] \subseteq Accounted'
    BY <1>0, <2>2 DEF NothingUnknown
  <2>5. QED  BY <1>0, <2>3, <2>4 DEF NothingUnknown
<1>3. ASSUME NEW e \in Exchanges, Fail(e) \/ Refuse(e)
      PROVE  NothingUnknown'
  <2>1. /\ Live' \subseteq Live /\ known' = known /\ libs' = libs /\ defined' = defined
        /\ running' = running /\ bound' = bound
    BY <1>0, <1>3 DEF Fail, Refuse, assets, Live, InPhase, TypeOK
  <2>2. QED  BY <1>0, <1>1, <2>1 DEF NothingUnknown
<1>4. ASSUME NEW e \in Live, NEW n \in SUBSET Libraries, Settings(e, n),
             New(e, n) \subseteq Accounted'
      PROVE  libs' \subseteq Accounted'
  <2>1. known[e] \subseteq Accounted'
    BY <1>0 DEF NothingUnknown
  <2>2. NewList(e, n) \subseteq Accounted'
    BY <1>4, <2>1 DEF NewList, New
  <2>3. QED  BY <1>0, <1>4, <2>2 DEF Settings, NothingUnknown
<1>5. ASSUME NEW e \in Exchanges, NEW n \in SUBSET Libraries, NEW token \in BOOLEAN,
             Insert(e, n, token)
      PROVE  NothingUnknown'
  <2>1. e \in Live /\ libs' \subseteq Accounted'
    <3>1. e \in Live
      BY <1>5 DEF Insert, Live, InPhase
    <3>2. QED  BY <1>4, <1>5, <3>1 DEF Insert
  <2>2. /\ Live' \subseteq Live /\ known' = known /\ defined' = defined /\ running' = running
        /\ \A f \in Exchanges : bound'[f] = bound[f] \/ bound'[f] \subseteq running'
    BY <1>0, <1>5 DEF Insert, Live, InPhase, TypeOK
  <2>3. QED  BY <1>0, <1>1, <2>1, <2>2 DEF NothingUnknown
<1>6. ASSUME NEW e \in Exchanges, NEW n \in SUBSET Libraries, NEW token \in BOOLEAN,
             AddJs(e, n, token)
      PROVE  NothingUnknown'
  <2>1. e \in Live /\ New(e, n) \subseteq Accounted'
    BY <1>0, <1>6, ScriptComes DEF AddJs, Live, InPhase
  <2>2. libs' \subseteq Accounted'
    BY <1>4, <1>6, <2>1 DEF AddJs
  <2>3. \A d \in defined' : d[2] \subseteq Accounted'
    BY <1>0, <1>6, <2>1 DEF AddJs, NothingUnknown
  <2>4. Live' \subseteq Live /\ known' = known /\ running' = running /\ bound' = bound
    BY <1>0, <1>6 DEF AddJs, Live, InPhase, TypeOK
  <2>5. QED  BY <1>1, <2>2, <2>3, <2>4
<1>7. ASSUME NEW e \in Exchanges, NEW n \in SUBSET Libraries, NEW token \in BOOLEAN,
             AddJsAgain(e, n, token)
      PROVE  NothingUnknown'
  <2>1. e \in Live /\ New(e, n) \subseteq Accounted'
    <3>1. e \in Live /\ <<owner[e], New(e, n)>> \in defined
      BY <1>7 DEF AddJsAgain, Live, InPhase
    <3>2. New(e, n) \subseteq Accounted
      BY <1>0, <3>1 DEF NothingUnknown
    <3>3. QED  BY <1>0, <3>1, <3>2
  <2>2. libs' \subseteq Accounted'
    BY <1>4, <1>7, <2>1 DEF AddJsAgain
  <2>3. /\ Live' \subseteq Live /\ known' = known /\ running' = running /\ bound' = bound
        /\ defined' = defined
    BY <1>0, <1>7 DEF AddJsAgain, Live, InPhase, TypeOK
  <2>4. QED  BY <1>0, <1>1, <2>2, <2>3 DEF NothingUnknown
<1>8. ASSUME Loaded \/ LoadFails
      PROVE  NothingUnknown'
  <2> DEFINE e == Head(scripts)
  <2>1. /\ known' = known /\ libs' = libs /\ defined' = defined /\ running \subseteq running'
        /\ \E ph \in {"inserted", "dropped"} : phase' = [phase EXCEPT ![e] = ph]
    BY <1>8 DEF Loaded, LoadFails
  <2>2. Live' \subseteq Live
    BY <1>0, <2>1 DEF Live, InPhase, TypeOK
  <2>3. \A f \in Exchanges : bound'[f] = bound[f] \/ bound'[f] \subseteq running'
    BY <1>8 DEF Loaded, LoadFails
  <2>4. QED  BY <1>0, <1>1, <2>1, <2>2, <2>3 DEF NothingUnknown
<1>9. ASSUME Rest
      PROVE  NothingUnknown'
  <2>1. /\ Live' = Live /\ known' = known /\ libs' = libs /\ defined' = defined
        /\ running' = running /\ bound' = bound
    BY <1>9 DEF Rest, vars, exchange, assets, Live, InPhase
  <2>2. QED  BY <1>0, <2>1 DEF NothingUnknown
<1>10. QED  BY <1>2, <1>3, <1>5, <1>6, <1>7, <1>8, <1>9 DEF Next, Answer, Respond, Load

\* Every step keeps the needs of inserted content met.
LEMMA NeedsMetKept ==
  ASSUME IInv, Next
  PROVE  NeedsMet'
<1>0. TypeOK /\ NeedsMet /\ NothingUnknown /\ Accounted \subseteq Accounted'
  BY AccountedGrows DEF IInv
<1> USE DEF Phases
<1>1. ASSUME running' = running,
             \A f \in InPhase("inserted")' :
               /\ f \in InPhase("inserted")
               /\ needs'[f] = needs[f] /\ bound'[f] = bound[f]
      PROVE  NeedsMet'
  BY <1>0, <1>1 DEF NeedsMet
<1>2. ASSUME NEW o \in Objects, Send(o)
      PROVE  NeedsMet'
  BY <1>0, <1>1, <1>2 DEF Send, assets, InPhase, TypeOK
<1>3. ASSUME NEW e \in Exchanges, Fail(e) \/ Refuse(e)
      PROVE  NeedsMet'
  BY <1>0, <1>1, <1>3 DEF Fail, Refuse, assets, InPhase, TypeOK
<1>4. ASSUME NEW e \in Exchanges, NEW n \in SUBSET Libraries, NEW token \in BOOLEAN,
             Insert(e, n, token)
      PROVE  NeedsMet'
  <2>1. n \subseteq known[e] /\ known[e] \subseteq Accounted
    BY <1>0, <1>4 DEF Insert, New, NothingUnknown, Live, InPhase
  <2>2. needs'[e] = n /\ bound'[e] = n \cap running /\ running' = running
    BY <1>0, <1>4 DEF Insert, TypeOK
  <2>3. \A f \in InPhase("inserted")' :
          f # e => /\ f \in InPhase("inserted")
                   /\ needs'[f] = needs[f] /\ bound'[f] = bound[f]
    BY <1>0, <1>4 DEF Insert, TypeOK, InPhase
  <2>4. QED  BY <1>0, <2>1, <2>2, <2>3 DEF NeedsMet
<1>5. ASSUME NEW e \in Exchanges, NEW n \in SUBSET Libraries, NEW token \in BOOLEAN,
             AddJs(e, n, token) \/ AddJsAgain(e, n, token)
      PROVE  NeedsMet'
  BY <1>0, <1>1, <1>5 DEF AddJs, AddJsAgain, InPhase, TypeOK
<1>6. ASSUME Loaded
      PROVE  NeedsMet'
  <2> DEFINE e == Head(scripts)
  <2>1. e \in InPhase("loading") /\ e \in Exchanges
    BY <1>0, <1>6, HeadLoads DEF Loaded
  <2>2. needs[e] \subseteq Accounted
    <3>1. Bundle(e) \subseteq Accounted
      BY <2>1 DEF Accounted, Coming
    <3>2. known[e] \subseteq Accounted
      BY <1>0, <2>1 DEF NothingUnknown, Live
    <3>3. QED  BY <3>1, <3>2 DEF Bundle, New
  <2>3. \A f \in InPhase("inserted")' : f = e \/ f \in InPhase("inserted")
    BY <1>0, <1>6 DEF Loaded, InPhase, TypeOK
  <2>4. \A f \in InPhase("inserted")' : bound'[f] = needs[f] \cap running'
    BY <1>6, <2>1, <2>3 DEF Loaded, InPhase
  <2>5. \A f \in InPhase("inserted")' : needs[f] \subseteq Accounted
    BY <1>0, <2>2, <2>3 DEF NeedsMet
  <2>6. needs' = needs
    BY <1>6 DEF Loaded
  <2>7. QED  BY <1>0, <2>4, <2>5, <2>6 DEF NeedsMet
<1>7. ASSUME LoadFails
      PROVE  NeedsMet'
  BY <1>0, <1>1, <1>7 DEF LoadFails, InPhase, TypeOK
<1>8. ASSUME Rest
      PROVE  NeedsMet'
  BY <1>0, <1>1, <1>8 DEF Rest, vars, exchange, assets, InPhase
<1>9. QED  BY <1>2, <1>3, <1>4, <1>5, <1>6, <1>7, <1>8 DEF Next, Answer, Respond, Load

\* Every step keeps requests that do not overlap in turn.
LEMMA InTurnKept ==
  ASSUME IInv, Next
  PROVE  InTurn'
<1>0. TypeOK /\ InTurn /\ NothingUnknown /\ Numbered
  BY DEF IInv
<1> USE DEF Phases
<1>1. ASSUME Quiet, ~overlapped, libs' = libs,
             \A e \in InPhase("wire")' : e \in InPhase("wire") /\ known'[e] = known[e]
      PROVE  InTurn'
  <2>1. /\ InPhase("loading")' = InPhase("loading")
        /\ \A f \in InPhase("loading") : Bundle(f)' = Bundle(f)
        /\ Accounted' = Accounted /\ running' = running /\ twice' = twice
    BY <1>1, QuietSteps
  <2>2. \A e, f \in InPhase("loading")' : e # f => Bundle(e)' \cap Bundle(f)' = {}
    BY <1>0, <1>1, <2>1 DEF InTurn
  <2>3. \A e \in InPhase("loading")' : Bundle(e)' \cap running' = {}
    BY <1>0, <1>1, <2>1 DEF InTurn
  <2>4. /\ ~twice' /\ Accounted' \subseteq libs'
        /\ \A e \in InPhase("wire")' : known'[e] = libs'
        /\ \A e, f \in InPhase("wire")' : e = f
    BY <1>0, <1>1, <2>1 DEF InTurn
  <2>5. QED  BY <2>2, <2>3, <2>4 DEF InTurn
<1>2. ASSUME NEW o \in Objects, Send(o), ~overlapped'
      PROVE  InTurn'
  <2> DEFINE e == sends + 1
  <2>1. e \in Exchanges /\ ~overlapped /\ InPhase("wire") = {}
    <3>1. e \in Exchanges
      BY <1>0, <1>2, SendsAssumption DEF Send, TypeOK, Exchanges
    <3>2. overlapped' = (overlapped \/ InPhase("wire") # {})
      BY <1>2 DEF Send
    <3>3. ~overlapped /\ InPhase("wire") = {}
      BY <1>2, <3>2
    <3>4. QED  BY <3>1, <3>3
  <2>2. InPhase("wire")' \subseteq {e} /\ known'[e] = libs /\ libs' = libs
    BY <1>0, <1>2, <2>1 DEF Send, TypeOK, InPhase, assets
  <2>3. /\ InPhase("loading")' = InPhase("loading")
        /\ \A f \in InPhase("loading") : Bundle(f)' = Bundle(f)
        /\ Accounted' = Accounted /\ running' = running /\ twice' = twice
    BY <1>2, QuietSteps DEF Quiet
  <2>4. /\ \A d, f \in InPhase("loading")' : d # f => Bundle(d)' \cap Bundle(f)' = {}
        /\ \A f \in InPhase("loading")' : Bundle(f)' \cap running' = {}
    BY <1>0, <2>1, <2>3 DEF InTurn
  <2>5. /\ ~twice' /\ Accounted' \subseteq libs'
        /\ \A f \in InPhase("wire")' : known'[f] = libs'
        /\ \A d, f \in InPhase("wire")' : d = f
    BY <1>0, <2>1, <2>2, <2>3 DEF InTurn
  <2>6. QED  BY <2>4, <2>5 DEF InTurn
<1>3. ASSUME NEW e \in Exchanges, Fail(e) \/ Refuse(e), ~overlapped'
      PROVE  InTurn'
  <2>1. /\ ~overlapped /\ libs' = libs
        /\ \A f \in InPhase("wire")' : f \in InPhase("wire") /\ known'[f] = known[f]
    BY <1>0, <1>3 DEF Fail, Refuse, assets, InPhase, TypeOK
  <2>2. QED  BY <1>1, <1>3, <2>1 DEF Quiet
<1>4. ASSUME NEW e \in Exchanges, NEW n \in SUBSET Libraries, NEW token \in BOOLEAN,
             Insert(e, n, token), ~overlapped'
      PROVE  InTurn'
  <2>1. /\ ~overlapped /\ e \in InPhase("wire")
        /\ \A f \in InPhase("wire")' : f \in InPhase("wire") /\ known'[f] = known[f]
    BY <1>0, <1>4 DEF Insert, InPhase, TypeOK
  <2>2. libs' = libs
    BY <1>0, <1>4, <2>1 DEF Insert, Settings, NewList, New, InTurn
  <2>3. QED  BY <1>1, <1>4, <2>1, <2>2 DEF Quiet
<1>5. ASSUME NEW e \in Exchanges, NEW n \in SUBSET Libraries, NEW token \in BOOLEAN,
             AddJs(e, n, token), ~overlapped'
      PROVE  InTurn'
  <2>1. /\ ~overlapped /\ e \in InPhase("wire") /\ known[e] = libs
        /\ \A f \in InPhase("wire") : f = e
        /\ Accounted \subseteq libs /\ ~twice
    BY <1>0, <1>5 DEF AddJs, InPhase, InTurn
  <2>2. /\ libs' = libs \cup n /\ New(e, n) = n \ libs
        /\ running' = running /\ failed' = failed /\ twice' = twice
    BY <1>5, <2>1 DEF AddJs, Settings, NewList, New
  <2>3. InPhase("wire")' = {}
    BY <1>0, <1>5, <2>1 DEF AddJs, InPhase, TypeOK
  <2>4. /\ InPhase("loading")' = InPhase("loading") \cup {e}
        /\ e \notin InPhase("loading")
        /\ Bundle(e)' = New(e, n)
        /\ \A f \in InPhase("loading") : Bundle(f)' = Bundle(f)
        /\ Accounted' = Accounted \cup New(e, n)
    BY <1>0, <1>5, ScriptComes DEF AddJs
  <2>5. New(e, n) \cap Accounted = {}
    BY <2>1, <2>2
  <2>6. \A f \in InPhase("loading") : Bundle(f) \subseteq Accounted
    BY DEF Accounted, Coming
  <2>7. \A f \in InPhase("loading")' : Bundle(f)' \cap running' = {}
    <3>1. New(e, n) \cap running = {}
      BY <2>5 DEF Accounted
    <3>2. QED  BY <1>0, <2>1, <2>2, <2>4, <3>1 DEF InTurn
  <2>8. \A d, f \in InPhase("loading")' : d # f => Bundle(d)' \cap Bundle(f)' = {}
    <3>1. \A f \in InPhase("loading") : New(e, n) \cap Bundle(f) = {}
      BY <2>5, <2>6
    <3>2. QED  BY <1>0, <2>1, <2>4, <3>1 DEF InTurn
  <2>9. Accounted' \subseteq libs'
    BY <2>1, <2>2, <2>4
  <2>10. QED  BY <2>1, <2>2, <2>3, <2>7, <2>8, <2>9 DEF InTurn
<1>6. ASSUME NEW e \in Exchanges, NEW n \in SUBSET Libraries, NEW token \in BOOLEAN,
             AddJsAgain(e, n, token), ~overlapped'
      PROVE  InTurn'
  <2>1. /\ ~overlapped /\ e \in InPhase("wire") /\ New(e, n) # {}
        /\ <<owner[e], New(e, n)>> \in defined
    BY <1>6 DEF AddJsAgain, InPhase
  <2>2. New(e, n) \subseteq libs /\ known[e] = libs
    BY <1>0, <2>1 DEF InTurn, NothingUnknown
  <2>3. QED  BY <2>1, <2>2 DEF New
<1>7. ASSUME Loaded \/ LoadFails, ~overlapped'
      PROVE  InTurn'
  <2> DEFINE e == Head(scripts)
  <2>1. e \in InPhase("loading") /\ ~overlapped
    <3>1. scripts # <<>> /\ overlapped' = overlapped
      BY <1>7 DEF Loaded, LoadFails
    <3>2. QED  BY <1>0, <1>7, <3>1, HeadLoads
  <2>2. /\ InPhase("loading")' = InPhase("loading") \ {e}
        /\ \A f \in Exchanges : Bundle(f)' = Bundle(f)
        /\ Accounted' = Accounted
    BY <1>0, <1>7, <2>1, ScriptGoes DEF Loaded, LoadFails
  <2>3. libs' = libs /\ known' = known /\ InPhase("wire")' = InPhase("wire")
    BY <1>0, <1>7, <2>1 DEF Loaded, LoadFails, InPhase, TypeOK
  <2>4. /\ running' \subseteq running \cup Bundle(e)
        /\ ~twice'
    <3>1. ~twice /\ Bundle(e) \cap running = {}
      BY <1>0, <2>1 DEF InTurn
    <3>2. CASE Loaded
      <4>1. running' = running \cup Bundle(e) /\ twice' = (twice \/ Bundle(e) \cap running # {})
        BY <3>2 DEF Loaded
      <4>2. QED  BY <3>1, <4>1
    <3>3. CASE LoadFails
      <4>1. running' = running /\ twice' = twice
        BY <3>3 DEF LoadFails
      <4>2. QED  BY <3>1, <4>1
    <3>4. QED  BY <1>7, <3>2, <3>3
  <2>5. \A f \in InPhase("loading") : f \in Exchanges
    BY DEF InPhase
  <2>6. \A f \in InPhase("loading")' : Bundle(f)' \cap running' = {}
    BY <1>0, <2>1, <2>2, <2>4, <2>5 DEF InTurn
  <2>7. \A d, f \in InPhase("loading")' : d # f => Bundle(d)' \cap Bundle(f)' = {}
    BY <1>0, <2>1, <2>2, <2>5 DEF InTurn
  <2>8. /\ Accounted' \subseteq libs'
        /\ \A f \in InPhase("wire")' : known'[f] = libs'
        /\ \A d, f \in InPhase("wire")' : d = f
    BY <1>0, <2>1, <2>2, <2>3 DEF InTurn
  <2>9. QED  BY <2>4, <2>6, <2>7, <2>8 DEF InTurn
<1>8. ASSUME Rest
      PROVE  InTurn'
  <2>1. /\ libs' = libs /\ known' = known /\ running' = running /\ twice' = twice
        /\ overlapped' = overlapped
    BY <1>8 DEF Rest, vars, exchange, assets, history
  <2>2. /\ Accounted' = Accounted /\ InPhase("wire")' = InPhase("wire")
        /\ InPhase("loading")' = InPhase("loading") /\ \A f \in Exchanges : Bundle(f)' = Bundle(f)
    BY <1>8, RestSame DEF Rest
  <2>3. \A f \in InPhase("loading") : f \in Exchanges
    BY DEF InPhase
  <2>4. QED  BY <1>0, <2>1, <2>2, <2>3 DEF InTurn
<1>9. CASE overlapped'
  BY <1>9 DEF InTurn
<1>10. QED
  BY <1>2, <1>3, <1>4, <1>5, <1>6, <1>7, <1>8, <1>9 DEF Next, Answer, Respond, Load

-----------------------------------------------------------------------------
\* The invariant holds in every behaviour.
LEMMA Invariant == Spec => []IInv
<1>1. IInv /\ [Next]_vars => IInv'
  <2>1. ASSUME IInv, Next
        PROVE  IInv'
    BY <2>1, TypeKept, CountsKept, RestoredKept, NothingUnknownKept, NeedsMetKept, InTurnKept
       DEF IInv
  <2>2. ASSUME IInv, UNCHANGED vars
        PROVE  IInv'
    <3>2. TypeOK'
      BY <2>2, RestSame DEF IInv, TypeOK, vars, exchange, assets, flags, history
    <3>3. Numbered' /\ StopWaits'
      BY <2>2, RestSame DEF IInv, Numbered, StopWaits, vars, exchange, flags, history
    <3>4. Restored'
      BY <2>2 DEF IInv, Restored, OneExchange, Live, InPhase, vars, exchange, flags, history
    <3>5. NothingUnknown' /\ NeedsMet'
      BY <2>2, RestSame DEF IInv, NothingUnknown, NeedsMet, vars, exchange, assets
    <3>6. InTurn'
      BY <2>2, RestSame DEF IInv, InTurn, vars, exchange, assets, history
    <3>7. QED  BY <3>2, <3>3, <3>4, <3>5, <3>6 DEF IInv
  <2>3. QED  BY <2>1, <2>2
<1>2. QED  BY Initially, <1>1, PTL DEF Spec

\* The invariant implies what the runs check of it.
LEMMA InvMeans ==
  IInv => TypeOK /\ Restored /\ ContentBound /\ LibrariesOnce /\ StopWaits
<1>1. IInv => ContentBound
  BY DEF IInv, NeedsMet, ContentBound, Accounted
<1>2. IInv => LibrariesOnce
  BY DEF IInv, InTurn, NothingUnknown, LibrariesOnce, Accounted
<1>3. QED  BY <1>1, <1>2 DEF IInv

\* The types, for any objects and libraries; an object with an exchange under
\* way is marked so, and the script elements are those of the exchanges that
\* wait for one.
THEOREM TypeCorrect == Spec => []TypeOK
BY Invariant, InvMeans, PTL

\* Whatever order answers and files come in, an object has one exchange at a
\* time.  Its element is disabled only while a request of it is on the wire, and
\* its form's behaviors are back when it is done, unless its last command queue
\* was rejected.
THEOREM FlagsAreRestored == Spec => []Restored
BY Invariant, InvMeans, PTL

\* However exchanges of different objects meet, inserted content gets the
\* behaviors of every library it needs that has run.
THEOREM ContentIsBound == Spec => []ContentBound
BY Invariant, InvMeans, PTL

\* As long as requests do not overlap, no library runs twice and the page's
\* list of libraries is exact; files may still be loading while others are sent.
THEOREM LibrariesRunOnce == Spec => []LibrariesOnce
BY Invariant, InvMeans, PTL

\* jQuery's count of active requests is the number of exchanges under way and
\* one for each AjaxError, as long as no answer was accepted without the token.
THEOREM StopIsCounted == Spec => []StopWaits
BY Invariant, InvMeans, PTL
=============================================================================
