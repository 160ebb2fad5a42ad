------------------------- MODULE TransactionsProofs -------------------------
(***************************************************************************)
(* Proofs about Transactions, for any contents, depth and use of objects.  *)
(***************************************************************************)
EXTENDS Transactions, TLAPS, SequenceTheorems, FiniteSetTheorems,
        WellFoundedInduction

Layer  == [name : Name, active : BOOLEAN]
Object == [name : Name, rolledBack : BOOLEAN]
Saved  == [name : Name, data : Data]

-----------------------------------------------------------------------------
(* The helpers on sequences.                                               *)

\* A non-empty set of positions has a last one.
LEMMA LastPosition ==
  ASSUME NEW n \in Nat, NEW I, I \subseteq 1..n, I # {}
  PROVE  Max(I) \in I /\ \A j \in I : j <= Max(I)
<1> DEFINE Less == OpToRel(<, Nat)
           Back == {b \in Nat : n - b \in I}
<1>1. IsWellFoundedOn(Less, Nat)
  BY NatLessThanWellFounded
<1>2. \A i, j \in Nat : <<j, i>> \in Less <=> j < i
  BY Zenon DEF OpToRel
<1>3. Back \subseteq Nat /\ Back # {}
  <2>1. PICK i \in I : TRUE
    OBVIOUS
  <2>2. n - i \in Nat /\ n - (n - i) = i
    BY <2>1
  <2>3. QED  BY <2>1, <2>2
<1>4. \A b \in Back : b \in Nat /\ n - b \in I
  OBVIOUS
<1>5. \A i \in I : n - i \in Back
  OBVIOUS
<1> HIDE DEF Less, Back
<1>6. PICK b \in Back : \A c \in Back : ~(<<c, b>> \in Less)
  BY <1>1, <1>3, WFMin, Zenon
<1>7. \A j \in I : j <= n - b
  <2>1. TAKE j \in I
  <2>2. ~(n - j < b)
    BY <1>2, <1>3, <1>5, <1>6, Zenon
  <2>3. QED  BY <1>4, <2>2
<1>8. n - b \in I
  BY <1>4
<1>9. QED  BY <1>7, <1>8 DEF Max

\* The last active layer is active, and those above it are not.
LEMMA TopActiveIs ==
  ASSUME NEW stack \in Seq(Layer)
  PROVE  /\ TopActive(stack) \in 0..Len(stack)
         /\ TopActive(stack) > 0 => stack[TopActive(stack)].active
         /\ \A k \in 1..Len(stack) : k > TopActive(stack) => ~stack[k].active
<1> DEFINE I == {i \in 1..Len(stack) : stack[i].active}
<1>1. TopActive(stack) = IF I # {} THEN Max(I) ELSE 0
  BY DEF TopActive, SelectLastInSeq
<1>2. I \subseteq 1..Len(stack) /\ Len(stack) \in Nat
  OBVIOUS
<1>3. \A k \in I : stack[k].active
  OBVIOUS
<1>4. \A k \in 1..Len(stack) : k \notin I => ~stack[k].active
  OBVIOUS
<1> HIDE DEF I
<1>5. CASE I = {}
  BY <1>1, <1>2, <1>4, <1>5
<1>6. CASE I # {}
  <2>1. TopActive(stack) \in I /\ \A k \in I : k <= TopActive(stack)
    BY <1>1, <1>2, <1>6, LastPosition
  <2>2. TopActive(stack) \in 1..Len(stack) /\ stack[TopActive(stack)].active
    BY <1>2, <1>3, <2>1
  <2>3. ASSUME NEW k \in 1..Len(stack), k > TopActive(stack)
        PROVE  ~stack[k].active
    <3>1. k \notin I
      BY <1>2, <2>1, <2>2, <2>3
    <3>2. QED  BY <1>4, <3>1
  <2>4. QED  BY <1>2, <2>2, <2>3
<1>7. QED  BY <1>5, <1>6

\* The point where rollBack() ends is named or inactive; those above it have
\* another name and are active.
LEMMA RollBackPointIs ==
  ASSUME NEW name, layers \in Seq(Layer), Named(layers, name)
  PROVE  /\ RollBackPoint(name) \in 1..Len(layers)
         /\ \/ layers[RollBackPoint(name)].name = name
            \/ ~layers[RollBackPoint(name)].active
         /\ \A k \in 1..Len(layers) :
              k > RollBackPoint(name) => layers[k].name # name
<1> DEFINE I == {i \in 1..Len(layers) : layers[i].name = name \/ ~layers[i].active}
<1>1. RollBackPoint(name) = IF I # {} THEN Max(I) ELSE 0
  BY DEF RollBackPoint, SelectLastInSeq
<1>2. I \subseteq 1..Len(layers) /\ Len(layers) \in Nat
  OBVIOUS
<1>3. I # {}
  BY DEF Named
<1>4. \A k \in I : layers[k].name = name \/ ~layers[k].active
  OBVIOUS
<1>5. \A k \in 1..Len(layers) : k \notin I => layers[k].name # name
  OBVIOUS
<1> HIDE DEF I
<1>6. RollBackPoint(name) \in I /\ \A k \in I : k <= RollBackPoint(name)
  BY <1>1, <1>2, <1>3, LastPosition
<1>7. RollBackPoint(name) \in 1..Len(layers)
  BY <1>2, <1>6
<1>8. ASSUME NEW k \in 1..Len(layers), k > RollBackPoint(name)
      PROVE  layers[k].name # name
  <2>1. k \notin I
    BY <1>2, <1>6, <1>7, <1>8
  <2>2. QED  BY <1>5, <2>1
<1>9. QED  BY <1>4, <1>6, <1>7, <1>8

\* What IndexOf() finds has the name.
LEMMA IndexIs ==
  ASSUME NEW seq, NEW n, Named(seq, n)
  PROVE  IndexOf(seq, n) \in DOMAIN seq /\ seq[IndexOf(seq, n)].name = n
  BY DEF Named, IndexOf

\* Removing one element moves up those behind it.
LEMMA RemoveAtIs ==
  ASSUME NEW S, NEW s \in Seq(S), NEW i \in 1..Len(s)
  PROVE  /\ RemoveAt(s, i) \in Seq(S)
         /\ Len(RemoveAt(s, i)) = Len(s) - 1
         /\ \A k \in 1..(i - 1) : RemoveAt(s, i)[k] = s[k]
         /\ \A k \in i..(Len(s) - 1) : RemoveAt(s, i)[k] = s[k + 1]
<1> DEFINE s1 == SubSeq(s, 1, i - 1)
           s2 == SubSeq(s, i + 1, Len(s))
<1>1. /\ s1 \in Seq(S) /\ Len(s1) = i - 1
      /\ \A k \in 1..(i - 1) : s1[k] = s[k]
  OBVIOUS
<1>2. /\ s2 \in Seq(S) /\ Len(s2) = Len(s) - i
      /\ \A k \in 1..(Len(s) - i) : s2[k] = s[k + i]
  OBVIOUS
<1>3. RemoveAt(s, i) = s1 \o s2
  BY DEF RemoveAt
<1> HIDE DEF s1, s2
<1>4. /\ s1 \o s2 \in Seq(S) /\ Len(s1 \o s2) = Len(s1) + Len(s2)
      /\ \A k \in 1..(Len(s1) + Len(s2)) :
           (s1 \o s2)[k] = IF k <= Len(s1) THEN s1[k] ELSE s2[k - Len(s1)]
  BY <1>1, <1>2, ConcatProperties
<1>5. Len(s1) + Len(s2) = Len(s) - 1
  BY <1>1, <1>2
<1>6. ASSUME NEW k \in 1..(i - 1)
      PROVE  (s1 \o s2)[k] = s[k]
  <2>1. k \in 1..(Len(s1) + Len(s2)) /\ k <= Len(s1)
    BY <1>1, <1>2, <1>6
  <2>2. QED  BY <1>1, <1>4, <2>1
<1>7. ASSUME NEW k \in i..(Len(s) - 1)
      PROVE  (s1 \o s2)[k] = s[k + 1]
  <2>1. /\ k \in 1..(Len(s1) + Len(s2)) /\ ~(k <= Len(s1))
        /\ k - Len(s1) \in 1..(Len(s) - i) /\ k - Len(s1) + i = k + 1
    BY <1>1, <1>2, <1>7
  <2>2. QED  BY <1>2, <1>4, <2>1
<1>8. QED  BY <1>3, <1>4, <1>5, <1>6, <1>7

-----------------------------------------------------------------------------
(* The invariant.                                                          *)

\* Layers and savepoints are named by their place, and while the server has a
\* transaction open it has a savepoint for each layer but the root, and at most
\* one more: that of a layer rolled back to, which a SAVEPOINT replaces.
Stacked(stack, sv, isOpen) ==
  /\ \A k \in 1..Len(stack) : stack[k].name = k - 1
  /\ \A k \in 1..Len(sv) : sv[k].name = k
  /\ isOpen => Len(stack) > 0 /\ Len(stack) \in {Len(sv), Len(sv) + 1}
  /\ ~isOpen => sv = <<>>

\* Between operations, callbacks wait only while there are layers.
CallbacksOnlyInside == pc = "run" /\ ~inTransaction => callbacks = 0

IInv ==
  /\ TypeOK
  /\ Stacked(layers, saves, open)
  /\ NoDangling
  /\ CallbacksOnlyInside

\* Layers and savepoints named by their place are accounted for.
LEMMA StackedIsAccounted ==
  ASSUME TypeOK, Stacked(layers, saves, open)
  PROVE  Accounted
<1>1. DOMAIN layers = 1..Len(layers) /\ DOMAIN saves = 1..Len(saves)
      /\ Len(layers) \in Nat /\ Len(saves) \in Nat
  BY DEF TypeOK
<1>2. /\ \A k \in DOMAIN layers : layers[k].name = k - 1
      /\ \A k \in DOMAIN saves : saves[k].name = k
  BY <1>1, Zenon DEF Stacked
<1>3. ASSUME open
      PROVE  layers # <<>> /\ Len(layers) - 1 <= Len(saves)
  <2>1. Len(layers) > 0 /\ Len(layers) \in {Len(saves), Len(saves) + 1}
    BY <1>3, Zenon DEF Stacked
  <2>2. Len(layers) \in Nat /\ Len(saves) \in Nat
    BY <1>1
  <2>3. Len(layers) - 1 <= Len(saves)
    BY <2>1, <2>2
  <2>4. layers # <<>>
    BY <2>1
  <2>5. QED  BY <2>3, <2>4
<1>4. QED  BY <1>2, <1>3, Zenon DEF Accounted

\* Popping the committable layers leaves a part of the stack with its savepoints,
\* or commits.
LEMMA PopKeeps ==
  ASSUME NEW stack \in Seq(Layer), NEW sv \in Seq(Saved), NEW contents \in Data,
         TypeOK, Stacked(stack, sv, open),
         popCommittableTransactions(stack, sv, contents)
  PROVE  /\ layers' \in Seq(Layer) /\ saves' \in Seq(Saved)
         /\ Len(layers') <= Len(stack)
         /\ \A k \in 1..Len(layers') : layers'[k] = stack[k]
         /\ Stacked(layers, saves, open)'
         /\ open' \in BOOLEAN /\ durable' \in Data /\ pc' \in {"run", pc, "committed"}
         /\ open' => open
         /\ \/ layers' = stack /\ pc' = pc
            \/ layers' # <<>> /\ pc' = pc
            \/ layers' = <<>> /\ (pc' = "run" => callbacks = 0)
<1> DEFINE top == TopActive(stack)
<1>1. top \in 0..Len(stack)
  BY TopActiveIs
<1> HIDE DEF top
<1>2. CASE /\ top = Len(stack)
           /\ layers' = stack /\ saves' = sv
           /\ UNCHANGED <<open, durable, pc>>
  BY <1>2 DEF TypeOK, Stacked
<1>3. CASE /\ top \in 1 .. (Len(stack) - 1) /\ open
           /\ layers' = SubSeq(stack, 1, top)
           /\ saves'  = Release(sv, stack[top + 1].name)
           /\ UNCHANGED <<open, durable, pc>>
  <2>1. stack[top + 1].name = top
    BY <1>3 DEF Stacked
  <2>2. top \in 1..Len(sv) /\ sv[top].name = top
    BY <1>3 DEF Stacked
  <2>3. IndexOf(sv, top) = top
    <3>1. Named(sv, top)
      BY <2>2 DEF Named
    <3>2. QED  BY <3>1, <2>2, IndexIs DEF Stacked
  <2>4. saves' = SubSeq(sv, 1, top - 1)
    BY <1>3, <2>1, <2>3 DEF Release
  <2>5. /\ saves' \in Seq(Saved) /\ Len(saves') = top - 1
        /\ \A k \in 1..(top - 1) : saves'[k] = sv[k]
    BY <2>2, <2>4
  <2>6. /\ layers' \in Seq(Layer) /\ Len(layers') = top
        /\ \A k \in 1..top : layers'[k] = stack[k]
    BY <1>3
  <2>7. Stacked(layers, saves, open)'
    <3>1. ASSUME NEW k \in 1..Len(layers')
          PROVE  layers'[k].name = k - 1
      <4>1. k \in 1..Len(stack) /\ layers'[k] = stack[k]
        BY <1>1, <1>3, <2>6
      <4>2. stack[k].name = k - 1
        BY <4>1, Zenon DEF Stacked
      <4>3. QED  BY <4>1, <4>2, Zenon
    <3>2. \A k \in 1..Len(saves') : saves'[k].name = k
      BY <2>2, <2>5 DEF Stacked
    <3>3. Len(layers') > 0 /\ Len(layers') \in {Len(saves'), Len(saves') + 1}
      BY <1>3, <2>5, <2>6
    <3>4. open'
      BY <1>3, Zenon
    <3>5. QED  BY <3>1, <3>2, <3>3, <3>4, Zenon DEF Stacked
  <2>8. layers' # <<>>
    BY <1>3, <2>6
  <2>9. open' \in BOOLEAN /\ (open' => open) /\ durable' \in Data /\ pc' = pc
    BY <1>3, Zenon DEF TypeOK
  <2>10. Len(layers') <= Len(stack) /\ \A k \in 1..Len(layers') : layers'[k] = stack[k]
    BY <1>3, <2>6
  <2>11. QED  BY <2>5, <2>6, <2>7, <2>8, <2>9, <2>10
<1>4. CASE /\ top < Len(stack) /\ (top = 0 \/ ~open)
           /\ layers' = <<>>
           /\ doCommit(contents)
  <2>1. ~open' /\ open' \in BOOLEAN /\ saves' = <<>> /\ durable' = contents
    BY <1>4, Zenon DEF doCommit
  <2>2. pc' \in {"run", "committed"} /\ (pc' = "run" => callbacks = 0)
    BY <1>4 DEF doCommit, TypeOK
  <2>3. Stacked(layers, saves, open)'
    BY <1>4, <2>1 DEF Stacked
  <2>4. QED  BY <1>4, <2>1, <2>2, <2>3
<1>5. QED
  BY <1>2, <1>3, <1>4, Zenon DEF popCommittableTransactions, top

-----------------------------------------------------------------------------
(* The operations.                                                         *)

\* A SAVEPOINT named by the depth is the last one.
LEMMA SavepointKeeps ==
  ASSUME TypeOK, Stacked(layers, saves, open), open, Savepoint(Len(layers)),
         Len(layers) < MaxDepth
  PROVE  /\ saves' \in Seq(Saved) /\ Len(saves') = Len(layers)
         /\ \A k \in 1..Len(saves') : saves'[k].name = k
         /\ \A k \in 1..(Len(layers) - 1) : saves'[k] = saves[k]
         /\ saves'[Len(layers)].data = data
<1> DEFINE n == Len(layers)
           new == [name |-> n, data |-> data]
           kept == IF Named(saves, n) THEN RemoveAt(saves, IndexOf(saves, n)) ELSE saves
<1>1. n \in Nat \ {0} /\ n \in Name /\ new \in Saved
  BY BoundAssumption DEF TypeOK, Stacked, Name, Saved
<1>2. saves \in Seq(Saved) /\ Len(saves) \in {n, n - 1}
      /\ \A k \in 1..Len(saves) : saves[k].name = k
  BY <1>1 DEF TypeOK, Stacked, Saved
<1>3. /\ kept \in Seq(Saved) /\ Len(kept) = n - 1
      /\ \A k \in 1..(n - 1) : kept[k].name = k /\ kept[k] = saves[k]
  <2>1. CASE Named(saves, n)
    <3>1. IndexOf(saves, n) \in 1..Len(saves) /\ IndexOf(saves, n) = n
      BY <1>2, <2>1, IndexIs
    <3>2. kept = RemoveAt(saves, n) /\ n \in 1..Len(saves) /\ Len(saves) = n
      BY <1>1, <1>2, <2>1, <3>1
    <3>3. QED  BY <1>1, <1>2, <3>2, RemoveAtIs
  <2>2. CASE ~Named(saves, n)
    <3>1. Len(saves) = n - 1
      BY <1>1, <1>2, <2>2 DEF Named
    <3>2. QED  BY <1>2, <2>2, <3>1
  <2>3. QED  BY <2>1, <2>2
<1>4. saves' = Append(kept, new)
  BY Zenon DEF Savepoint
<1> HIDE DEF kept
<1>5. new.name = n /\ new.data = data
  OBVIOUS
<1> HIDE DEF n, new
<1>6. saves' \in Seq(Saved) /\ Len(saves') = n /\ saves'[n].data = data
      /\ (\A k \in 1..n : saves'[k].name = k) /\ \A k \in 1..(n - 1) : saves'[k] = saves[k]
  BY <1>1, <1>3, <1>4, <1>5, AppendProperties
<1>7. QED  BY <1>6 DEF n

\* A start keeps the invariant: its name is that of its place.
LEMMA StartKeeps ==
  ASSUME IInv, Start
  PROVE  IInv'
<1> DEFINE n == Len(layers)
           layer == [name |-> n, active |-> TRUE]
           object == [name |-> n, rolledBack |-> FALSE]
<1>1. TypeOK /\ Stacked(layers, saves, open) /\ NoDangling
  BY DEF IInv
<1>2. n \in Name /\ n \in Nat /\ layer \in Layer /\ object \in Object
  BY <1>1, BoundAssumption DEF Start, TypeOK, Name, Layer, Object
<1>3. layers \in Seq(Layer) /\ objects \in Seq(Object) /\ saves \in Seq(Saved)
  BY <1>1 DEF TypeOK, Layer, Object, Saved
<1>4. layers' = Append(layers, layer) /\ objects' = Append(objects, object)
  BY DEF Start
<1>5. UNCHANGED <<callbacks, pc, data, durable>>
  BY DEF Start
<1>6. layer.name = n /\ object.name = n /\ ~object.rolledBack
  OBVIOUS
<1>7. layers \in Seq(Layer) /\ Len(layers) < MaxDepth
  BY <1>3 DEF Start
<1>8. \/ layers = <<>> /\ open' /\ saves' = <<>>
      \/ layers # <<>> /\ open /\ open' /\ Savepoint(n)
      \/ ~open /\ ~open' /\ saves' = saves
  BY DEF Start, inTransaction, Savepoint
<1>9. open' \in BOOLEAN
  BY <1>1, Zenon DEF Start, TypeOK
<1> HIDE DEF layer, object
<1>10. /\ layers' \in Seq(Layer) /\ Len(layers') = n + 1
       /\ \A k \in 1..n : layers'[k] = layers[k]
       /\ layers'[n + 1] = layer
  BY <1>2, <1>3, <1>4, AppendProperties
<1>11. /\ objects' \in Seq(Object) /\ Len(objects') = Len(objects) + 1
       /\ \A i \in 1..Len(objects) : objects'[i] = objects[i]
       /\ objects'[Len(objects) + 1] = object
  BY <1>2, <1>3, <1>4, AppendProperties
<1>12. \A k \in 1..Len(layers') : layers'[k].name = k - 1
  BY <1>1, <1>2, <1>6, <1>10 DEF Stacked
<1>13. Stacked(layers, saves, open)' /\ saves' \in Seq(Saved)
  <2>1. CASE layers = <<>> /\ open' /\ saves' = <<>>
    BY <1>10, <1>12, <2>1 DEF Stacked
  <2>2. CASE layers # <<>> /\ open /\ open' /\ Savepoint(n)
    <3>1. /\ saves' \in Seq(Saved) /\ Len(saves') = n
          /\ \A k \in 1..Len(saves') : saves'[k].name = k
      BY <1>1, <1>7, <2>2, SavepointKeeps
    <3>2. Len(layers') > 0 /\ Len(layers') \in {Len(saves'), Len(saves') + 1}
      BY <1>2, <1>10, <3>1
    <3>3. QED  BY <1>12, <2>2, <3>1, <3>2, Zenon DEF Stacked
  <2>3. CASE ~open /\ ~open' /\ saves' = saves
    <3>1. saves = <<>>
      BY <1>1, <2>3, Zenon DEF Stacked
    <3>2. saves' = <<>> /\ Len(saves') = 0
      BY <2>3, <3>1
    <3>3. \A k \in 1..Len(saves') : saves'[k].name = k
      BY <3>2
    <3>4. QED  BY <1>3, <1>12, <2>3, <3>2, <3>3, Zenon DEF Stacked
  <2>4. QED  BY <1>8, <2>1, <2>2, <2>3
<1>14. TypeOK'
  <2>1. callbacks' \in 0..MaxCallbacks /\ pc' \in {"run", "committed"}
        /\ data' \in Data /\ durable' \in Data
    BY <1>1, <1>5 DEF TypeOK
  <2>2. QED  BY <1>9, <1>10, <1>11, <1>13, <2>1, Zenon DEF TypeOK, Layer, Object, Saved
<1>15. NoDangling'
  <2>1. SUFFICES ASSUME open', NEW k \in DOMAIN layers', layers'[k].active
                 PROVE  \E i \in DOMAIN objects' : /\ objects'[i].name = layers'[k].name
                                                  /\ ~objects'[i].rolledBack
    BY Zenon DEF NoDangling
  <2>2. CASE k = n + 1
    <3>1. Len(objects) + 1 \in DOMAIN objects'
      BY <1>3, <1>11
    <3>2. QED  BY <1>6, <1>10, <1>11, <2>2, <3>1
  <2>3. CASE k # n + 1
    <3>1. k \in 1..n /\ k \in DOMAIN layers /\ layers'[k] = layers[k]
      BY <1>2, <1>3, <1>10, <2>1, <2>3
    <3>2. open
      <4>1. layers # <<>>
        BY <3>1
      <4>2. QED  BY <1>8, <2>1, <4>1
    <3>3. PICK i \in DOMAIN objects : objects[i].name = layers[k].name /\ ~objects[i].rolledBack
      BY <1>1, <2>1, <3>1, <3>2, Zenon DEF NoDangling
    <3>4. i \in DOMAIN objects' /\ objects'[i] = objects[i]
      BY <1>3, <1>11
    <3>5. QED  BY <3>1, <3>3, <3>4
  <2>4. QED  BY <2>2, <2>3
<1>16. CallbacksOnlyInside'
  BY <1>2, <1>10 DEF CallbacksOnlyInside, inTransaction
<1>17. QED  BY <1>13, <1>14, <1>15, <1>16 DEF IInv

\* Rolling back a layer leaves layers below it, of other names, with their
\* savepoints, or no transaction.
LEMMA RollBackLayers ==
  ASSUME TypeOK, Stacked(layers, saves, open), NEW name, rollBack(name), pc = "run"
  PROVE  /\ layers' \in Seq(Layer) /\ saves' \in Seq(Saved)
         /\ callbacks' \in 0..MaxCallbacks /\ pc' \in {"run", "committed"}
         /\ open' \in BOOLEAN /\ data' \in Data /\ durable' \in Data
         /\ Stacked(layers, saves, open)'
         /\ Len(layers') <= Len(layers)
         /\ \A k \in 1..Len(layers') : layers'[k] = layers[k]
         /\ open' => open /\ \A k \in 1..Len(layers') : layers'[k].name # name
         /\ CallbacksOnlyInside'
<1> DEFINE k == RollBackPoint(name)
           stack == SubSeq(layers, 1, k - 1)
<1>1. open /\ Named(layers, name)
  BY Zenon DEF rollBack
<1>2. layers \in Seq(Layer) /\ saves \in Seq(Saved) /\ data \in Data /\ durable \in Data
      /\ callbacks \in 0..MaxCallbacks
  BY DEF TypeOK, Layer, Saved
<1>3. /\ k \in 1..Len(layers)
      /\ layers[k].name = name \/ ~layers[k].active
  BY <1>1, <1>2, RollBackPointIs
<1>4. \/ /\ layers[k].active /\ k > 1
         /\ data' = SavedContents(name)
         /\ popCommittableTransactions(stack, SavesUpTo(name), SavedContents(name))
         /\ UNCHANGED callbacks
      \/ /\ layers' = stack /\ callbacks' = 0
         /\ RollBackAll
         /\ UNCHANGED <<pc, durable>>
  BY Zenon DEF rollBack
<1>5. /\ stack \in Seq(Layer) /\ Len(stack) = k - 1 /\ k - 1 < Len(layers)
      /\ \A j \in 1..(k - 1) : stack[j] = layers[j]
  BY <1>2, <1>3
<1>6. ASSUME NEW j \in 1..Len(stack)
      PROVE  stack[j].name = j - 1
  <2>1. j \in 1..Len(layers) /\ stack[j] = layers[j]
    BY <1>2, <1>3, <1>5
  <2>2. layers[j].name = j - 1
    BY <2>1, Zenon DEF Stacked
  <2>3. QED  BY <2>1, <2>2, Zenon
<1> HIDE DEF k, stack
<1>7. CASE /\ layers[k].active /\ k > 1
           /\ data' = SavedContents(name)
           /\ popCommittableTransactions(stack, SavesUpTo(name), SavedContents(name))
           /\ UNCHANGED callbacks
  <2>1. name = k - 1
    BY <1>2, <1>3, <1>7 DEF Stacked
  <2>2. /\ k - 1 \in 1..Len(saves) /\ saves[k - 1].name = k - 1
        /\ \A j \in 1..Len(saves) : saves[j].name = j
    <3>1. Len(layers) \in {Len(saves), Len(saves) + 1}
      BY <1>1, Zenon DEF Stacked
    <3>2. \A j \in 1..Len(saves) : saves[j].name = j
      BY Zenon DEF Stacked
    <3>3. QED  BY <1>2, <1>3, <1>7, <3>1, <3>2
  <2>3. IndexOf(saves, name) = k - 1
    <3>1. Named(saves, name)
      BY <1>2, <2>1, <2>2 DEF Named
    <3>2. QED  BY <1>2, <2>1, <2>2, <3>1, IndexIs
  <2>4. SavedContents(name) = saves[k - 1].data /\ SavedContents(name) \in Data
    <3>1. saves[k - 1] \in Saved
      BY <1>2, <2>2, ElementOfSeq
    <3>2. QED  BY <2>3, <3>1 DEF SavedContents, Saved
  <2>5. /\ SavesUpTo(name) \in Seq(Saved) /\ Len(SavesUpTo(name)) = k - 1
        /\ \A j \in 1..(k - 1) : SavesUpTo(name)[j] = saves[j]
    BY <1>2, <2>2, <2>3 DEF SavesUpTo
  <2>6. Stacked(stack, SavesUpTo(name), open)
    <3>1. \A j \in 1..Len(SavesUpTo(name)) : SavesUpTo(name)[j].name = j
      BY <1>2, <2>2, <2>5
    <3>2. Len(stack) > 0 /\ Len(stack) \in {Len(SavesUpTo(name)), Len(SavesUpTo(name)) + 1}
      BY <1>3, <1>5, <1>7, <2>5
    <3>3. QED  BY <1>1, <1>6, <3>1, <3>2, Zenon DEF Stacked
  <2>7. /\ layers' \in Seq(Layer) /\ saves' \in Seq(Saved)
        /\ Len(layers') <= Len(stack)
        /\ \A j \in 1..Len(layers') : layers'[j] = stack[j]
        /\ Stacked(layers, saves, open)'
        /\ open' \in BOOLEAN /\ durable' \in Data /\ pc' \in {"run", pc, "committed"}
        /\ open' => open
        /\ \/ layers' = stack /\ pc' = pc
           \/ layers' # <<>> /\ pc' = pc
           \/ layers' = <<>> /\ (pc' = "run" => callbacks = 0)
    BY <1>5, <1>7, <2>4, <2>5, <2>6, PopKeeps
  <2>8. data' \in Data /\ callbacks' = callbacks
    BY <1>7, <2>4
  <2>9. /\ Len(layers') <= Len(layers)
        /\ \A j \in 1..Len(layers') : layers'[j] = layers[j] /\ layers'[j].name # name
    <3>1. /\ Len(layers') \in Nat /\ k \in 1..Len(layers) /\ Len(layers) \in Nat
          /\ Len(layers') <= k - 1
      BY <1>2, <1>3, <1>5, <2>7
    <3>2. ASSUME NEW j \in 1..Len(layers')
          PROVE  layers'[j] = layers[j] /\ layers'[j].name # name
      <4>1. j \in 1..(k - 1) /\ j - 1 # k - 1
        BY <3>1
      <4>2. layers'[j] = stack[j] /\ stack[j] = layers[j] /\ stack[j].name = j - 1
        BY <1>5, <1>6, <2>7, <4>1
      <4>3. QED  BY <2>1, <4>1, <4>2
    <3>3. QED  BY <3>1, <3>2
  <2>10. layers' = <<>> /\ pc' = "run" => callbacks' = 0
    <3>1. stack # <<>>
      BY <1>5, <1>3, <1>7
    <3>2. QED  BY <2>7, <2>8, <3>1
  <2>11. QED
    BY <1>2, <2>7, <2>8, <2>9, <2>10 DEF CallbacksOnlyInside, inTransaction
<1>8. CASE /\ layers' = stack /\ callbacks' = 0
           /\ RollBackAll
           /\ UNCHANGED <<pc, durable>>
  <2>1. ~open' /\ open' \in BOOLEAN /\ saves' = <<>> /\ data' = durable
    BY <1>8, Zenon DEF RollBackAll
  <2>2. Stacked(layers, saves, open)'
    BY <1>6, <1>8, <2>1 DEF Stacked
  <2>3. callbacks' \in 0..MaxCallbacks /\ saves' \in Seq(Saved) /\ CallbacksOnlyInside'
    BY <1>8, <2>1, BoundAssumption DEF CallbacksOnlyInside
  <2>4. Len(layers') <= Len(layers) /\ \A j \in 1..Len(layers') : layers'[j] = layers[j]
    BY <1>2, <1>3, <1>5, <1>8
  <2>5. layers' \in Seq(Layer) /\ pc' = "run" /\ durable' \in Data /\ data' \in Data
    BY <1>2, <1>5, <1>8, <2>1
  <2>6. QED  BY <2>1, <2>2, <2>3, <2>4, <2>5
<1>9. QED  BY <1>4, <1>7, <1>8, Zenon

\* A rollback of an active layer's object keeps the invariant.
LEMMA RollBackKeeps ==
  ASSUME IInv, NEW i \in DOMAIN objects, RollBack(i)
  PROVE  IInv'
<1>1. TypeOK /\ Stacked(layers, saves, open) /\ NoDangling /\ CallbacksOnlyInside /\ pc = "run"
  BY DEF IInv, RollBack
<1>2. /\ objects' \in Seq(Object) /\ Len(objects') = Len(objects)
      /\ objects' = [objects EXCEPT ![i].rolledBack = TRUE]
      /\ \A j \in DOMAIN objects : j # i => objects'[j] = objects[j]
      /\ DOMAIN objects' = DOMAIN objects
  <2>1. objects \in Seq(Object)
    BY <1>1 DEF TypeOK, Object
  <2>2. objects' = [objects EXCEPT ![i] = [objects[i] EXCEPT !.rolledBack = TRUE]]
    BY DEF RollBack
  <2>3. [objects[i] EXCEPT !.rolledBack = TRUE] \in Object
    <3>1. objects[i] \in Object
      BY <2>1
    <3>2. QED  BY <3>1, Zenon DEF Object
  <2>4. objects' \in Seq(Object) /\ Len(objects') = Len(objects)
    BY <2>1, <2>2, <2>3, ExceptSeq
  <2>5. QED  BY <2>1, <2>2, <2>4 DEF RollBack
<1>3. \A j \in DOMAIN objects :
        ~objects[j].rolledBack /\ objects[j].name # objects[i].name
          => /\ j \in DOMAIN objects' /\ objects'[j].name = objects[j].name
             /\ ~objects'[j].rolledBack
  BY <1>2, Zenon
<1>4. CASE RollBackNothing(i)
  <2>1. UNCHANGED <<layers, callbacks, pc, open, saves, data, durable>>
    BY <1>4 DEF RollBackNothing, db
  <2>2. TypeOK'
    BY <1>1, <1>2, <2>1 DEF TypeOK, Object
  <2>3. Stacked(layers, saves, open)' /\ CallbacksOnlyInside'
    BY <1>1, <2>1 DEF Stacked, CallbacksOnlyInside, inTransaction
  <2>4. NoDangling'
    <3>1. SUFFICES ASSUME open', NEW k \in DOMAIN layers', layers'[k].active
                   PROVE  \E j \in DOMAIN objects' : /\ objects'[j].name = layers'[k].name
                                                    /\ ~objects'[j].rolledBack
      BY Zenon DEF NoDangling
    <3>2. open /\ k \in DOMAIN layers /\ layers'[k] = layers[k]
      BY <2>1, <3>1, Zenon
    <3>3. PICK j \in DOMAIN objects : objects[j].name = layers[k].name /\ ~objects[j].rolledBack
      BY <1>1, <3>1, <3>2, Zenon DEF NoDangling
    <3>4. layers[k].name # objects[i].name
      BY <1>4, <3>2, Zenon DEF RollBackNothing, Named
    <3>5. QED  BY <1>3, <3>2, <3>3, <3>4, Zenon
  <2>5. QED  BY <2>2, <2>3, <2>4 DEF IInv
<1>5. CASE rollBack(objects[i].name)
  <2> DEFINE name == objects[i].name
  <2>1. /\ layers' \in Seq(Layer) /\ saves' \in Seq(Saved)
        /\ callbacks' \in 0..MaxCallbacks /\ pc' \in {"run", "committed"}
        /\ open' \in BOOLEAN /\ data' \in Data /\ durable' \in Data
        /\ Stacked(layers, saves, open)'
        /\ Len(layers') <= Len(layers)
        /\ \A k \in 1..Len(layers') : layers'[k] = layers[k]
        /\ open' => open /\ \A k \in 1..Len(layers') : layers'[k].name # name
        /\ CallbacksOnlyInside'
    BY <1>1, <1>5, RollBackLayers
  <2>2. TypeOK'
    BY <1>2, <2>1, Zenon DEF TypeOK, Layer, Object, Saved
  <2>3. NoDangling'
    <3>1. SUFFICES ASSUME open', NEW k \in DOMAIN layers', layers'[k].active
                   PROVE  \E j \in DOMAIN objects' : /\ objects'[j].name = layers'[k].name
                                                    /\ ~objects'[j].rolledBack
      BY Zenon DEF NoDangling
    <3>2. k \in 1..Len(layers') /\ k \in DOMAIN layers
      <4>1. layers \in Seq(Layer)
        BY <1>1 DEF TypeOK, Layer
      <4>2. Len(layers') <= Len(layers) /\ layers' \in Seq(Layer)
        BY <2>1, Zenon
      <4>3. QED  BY <3>1, <4>1, <4>2
    <3>3. open /\ layers'[k] = layers[k] /\ layers'[k].name # name
      BY <2>1, <3>1, <3>2, Zenon
    <3>4. PICK j \in DOMAIN objects : objects[j].name = layers[k].name /\ ~objects[j].rolledBack
      BY <1>1, <3>1, <3>2, <3>3, Zenon DEF NoDangling
    <3>5. QED  BY <1>3, <3>3, <3>4, Zenon
  <2>4. QED  BY <2>1, <2>2, <2>3 DEF IInv
<1>6. QED  BY <1>4, <1>5 DEF RollBack

\* So does the end of an object, in whatever order objects end.
LEMMA EndKeeps ==
  ASSUME IInv, NEW i \in DOMAIN objects, End(i)
  PROVE  IInv'
<1> DEFINE name == objects[i].name
           m == IndexOf(layers, name)
           stack == [layers EXCEPT ![m].active = FALSE]
           closed == [layers[m] EXCEPT !.active = FALSE]
<1>1. TypeOK /\ Stacked(layers, saves, open) /\ NoDangling /\ CallbacksOnlyInside /\ pc = "run"
  BY DEF IInv, End
<1>2. layers \in Seq(Layer) /\ objects \in Seq(Object) /\ saves \in Seq(Saved)
      /\ data \in Data /\ callbacks \in 0..MaxCallbacks
  BY <1>1 DEF TypeOK, Layer, Object, Saved
<1>3. objects' = RemoveAt(objects, i) /\ UNCHANGED <<callbacks, data>>
  BY DEF End
<1>4. i \in 1..Len(objects)
  BY <1>2
<1>5. /\ objects' \in Seq(Object) /\ Len(objects') = Len(objects) - 1
      /\ \A j \in 1..(i - 1) : objects'[j] = objects[j]
      /\ \A j \in i..(Len(objects) - 1) : objects'[j] = objects[j + 1]
  BY <1>2, <1>3, <1>4, RemoveAtIs
\* Every other object has its place.
<1>6. ASSUME NEW j \in DOMAIN objects, j # i
      PROVE  \E h \in DOMAIN objects' : objects'[h] = objects[j]
  <2>1. j \in 1..Len(objects)
    BY <1>2
  <2>2. CASE j < i
    <3>1. j \in DOMAIN objects' /\ objects'[j] = objects[j]
      BY <1>4, <1>5, <2>1, <2>2
    <3>2. QED  BY <3>1
  <2>3. CASE j > i
    <3>1. j - 1 \in DOMAIN objects' /\ objects'[j - 1] = objects[j]
      BY <1>4, <1>5, <2>1, <2>3
    <3>2. QED  BY <3>1
  <2>4. QED  BY <1>4, <1>6, <2>1, <2>2, <2>3
<1>7. CASE ~objects[i].rolledBack /\ Named(layers, name) /\ popTransaction(name)
  <2>1. m \in DOMAIN layers /\ layers[m].name = name
    BY <1>7, IndexIs
  <2>2. stack = [layers EXCEPT ![m] = closed]
    OBVIOUS
  <2>3. closed \in Layer /\ closed.name = layers[m].name /\ ~closed.active
    <3>1. layers[m] \in Layer
      BY <1>2, <2>1
    <3>2. QED  BY <3>1, Zenon DEF Layer
  <2>4. popCommittableTransactions(stack, saves, data)
    BY <1>7, Zenon DEF popTransaction
  <2> HIDE DEF name, m, closed, stack
  <2>5. m \in 1..Len(layers) /\ m \in Nat
    BY <1>2, <2>1
  <2>6. /\ stack \in Seq(Layer) /\ Len(stack) = Len(layers) /\ stack[m] = closed
        /\ \A k \in 1..Len(layers) : k # m => stack[k] = layers[k]
    BY <1>2, <2>2, <2>3, <2>5, ExceptSeq
  <2>7. \A k \in 1..Len(stack) : stack[k].name = k - 1 /\ stack[k].name = layers[k].name
    BY <1>1, <2>3, <2>6 DEF Stacked
  <2>8. Stacked(stack, saves, open)
    BY <1>1, <2>6, <2>7, Zenon DEF Stacked
  <2>9. /\ layers' \in Seq(Layer) /\ saves' \in Seq(Saved)
        /\ Len(layers') <= Len(stack)
        /\ \A k \in 1..Len(layers') : layers'[k] = stack[k]
        /\ Stacked(layers, saves, open)'
        /\ open' \in BOOLEAN /\ durable' \in Data /\ pc' \in {"run", pc, "committed"}
        /\ open' => open
        /\ \/ layers' = stack /\ pc' = pc
           \/ layers' # <<>> /\ pc' = pc
           \/ layers' = <<>> /\ (pc' = "run" => callbacks = 0)
    BY <1>1, <1>2, <2>6, <2>4, <2>8, PopKeeps
  <2>10. TypeOK'
    <3>1. callbacks' \in 0..MaxCallbacks /\ data' \in Data /\ pc' \in {"run", "committed"}
      BY <1>1, <1>2, <1>3, <2>9
    <3>2. QED  BY <1>5, <2>9, <3>1, Zenon DEF TypeOK, Layer, Object, Saved
  <2>11. NoDangling'
    <3>1. SUFFICES ASSUME open', NEW k \in DOMAIN layers', layers'[k].active
                   PROVE  \E j \in DOMAIN objects' : /\ objects'[j].name = layers'[k].name
                                                    /\ ~objects'[j].rolledBack
      BY Zenon DEF NoDangling
    <3>2. k \in 1..Len(layers') /\ k \in 1..Len(layers) /\ k \in DOMAIN layers
      <4>1. layers' \in Seq(Layer) /\ Len(layers') <= Len(layers)
        BY <2>6, <2>9
      <4>2. QED  BY <1>2, <3>1, <4>1
    <3>3. layers'[k] = stack[k] /\ k # m
      BY <2>3, <2>6, <2>9, <3>1, <3>2, Zenon
    <3>4. layers'[k] = layers[k] /\ layers[k].name # name
      <4>1. layers[k].name = k - 1 /\ layers[m].name = m - 1 /\ k \in Nat /\ m \in Nat
        BY <1>1, <2>5, <3>2 DEF Stacked
      <4>2. k - 1 # m - 1
        BY <3>3, <4>1
      <4>3. QED  BY <2>1, <2>6, <3>2, <3>3, <4>1, <4>2
    <3>5. PICK j \in DOMAIN objects : objects[j].name = layers[k].name /\ ~objects[j].rolledBack
      BY <1>1, <2>9, <3>1, <3>2, <3>4, Zenon DEF NoDangling
    <3>6. j # i
      BY <3>4, <3>5 DEF name
    <3>7. QED  BY <1>6, <3>4, <3>5, <3>6, Zenon
  <2>12. CallbacksOnlyInside'
    <3>1. CASE layers' = stack /\ pc' = pc
      <4>1. layers' # <<>>
        BY <1>2, <2>1, <2>6, <3>1
      <4>2. QED  BY <4>1 DEF CallbacksOnlyInside, inTransaction
    <3>2. CASE layers' # <<>>
      BY <3>2 DEF CallbacksOnlyInside, inTransaction
    <3>3. CASE layers' = <<>> /\ (pc' = "run" => callbacks = 0)
      BY <1>3, <3>3 DEF CallbacksOnlyInside, inTransaction
    <3>4. QED  BY <2>9, <3>1, <3>2, <3>3, Zenon
  <2>13. QED  BY <2>9, <2>10, <2>11, <2>12 DEF IInv
<1>8. CASE /\ objects[i].rolledBack \/ ~Named(layers, name)
           /\ UNCHANGED <<layers, pc, open, saves, durable>>
  <2>1. TypeOK'
    BY <1>1, <1>3, <1>5, <1>8 DEF TypeOK, Object
  <2>2. Stacked(layers, saves, open)' /\ CallbacksOnlyInside'
    BY <1>1, <1>3, <1>8 DEF Stacked, CallbacksOnlyInside, inTransaction
  <2>3. NoDangling'
    <3>1. SUFFICES ASSUME open', NEW k \in DOMAIN layers', layers'[k].active
                   PROVE  \E j \in DOMAIN objects' : /\ objects'[j].name = layers'[k].name
                                                    /\ ~objects'[j].rolledBack
      BY Zenon DEF NoDangling
    <3>2. open /\ k \in DOMAIN layers /\ layers'[k] = layers[k]
      BY <1>8, <3>1, Zenon
    <3>3. PICK j \in DOMAIN objects : objects[j].name = layers[k].name /\ ~objects[j].rolledBack
      BY <1>1, <3>1, <3>2, Zenon DEF NoDangling
    <3>4. j # i
      BY <1>8, <3>2, <3>3, Zenon DEF Named
    <3>5. QED  BY <1>6, <3>2, <3>3, <3>4, Zenon
  <2>4. QED  BY <2>1, <2>2, <2>3 DEF IInv
<1>9. QED  BY <1>7, <1>8, Zenon DEF End

\* The other operations change neither the stack nor the savepoints, or leave no
\* transaction open.
LEMMA QueryKeeps ==
  ASSUME IInv, NEW contents \in Data, Query(contents)
  PROVE  IInv'
<1>1. UNCHANGED <<objects, layers, callbacks, pc, open, saves>>
  BY DEF Query, php
<1>2. TypeOK'
  <2>1. data' \in Data /\ durable' \in Data
    BY DEF IInv, TypeOK, Query
  <2>2. QED  BY <1>1, <2>1 DEF IInv, TypeOK
<1>3. Stacked(layers, saves, open)' /\ NoDangling' /\ CallbacksOnlyInside'
  BY <1>1 DEF IInv, Stacked, NoDangling, CallbacksOnlyInside, inTransaction
<1>4. QED  BY <1>2, <1>3 DEF IInv

\* Callbacks are added only while a transaction is open.
LEMMA CallbacksKeep ==
  ASSUME IInv, addRootTransactionEndCallback \/ CallBack
  PROVE  IInv'
<1>1. UNCHANGED <<objects, layers, open, saves, data, durable>>
  BY DEF addRootTransactionEndCallback, CallBack, db
<1>2. callbacks' \in 0..MaxCallbacks /\ pc' \in {"run", "committed"}
  BY BoundAssumption DEF IInv, TypeOK, addRootTransactionEndCallback, CallBack
<1>3. TypeOK' /\ Stacked(layers, saves, open)' /\ NoDangling'
  BY <1>1, <1>2 DEF IInv, TypeOK, Stacked, NoDangling
<1>4. CallbacksOnlyInside'
  BY <1>1 DEF addRootTransactionEndCallback, CallBack, CallbacksOnlyInside, inTransaction
<1>5. QED  BY <1>1, <1>3, <1>4 DEF IInv

\* An implicit commit leaves the layers to be popped by their objects.
LEMMA CreateTableKeeps ==
  ASSUME IInv, CreateTable
  PROVE  IInv'
<1>1. ~open' /\ open' \in BOOLEAN /\ saves' = <<>> /\ durable' = data
      /\ UNCHANGED <<objects, layers, callbacks, pc, data>>
  BY Zenon DEF CreateTable, CommitAll, php
<1>2. Stacked(layers, saves, open)'
  BY <1>1 DEF IInv, Stacked
<1>3. TypeOK' /\ CallbacksOnlyInside'
  BY <1>1 DEF IInv, TypeOK, CallbacksOnlyInside, inTransaction
<1>4. NoDangling'
  BY <1>1, Zenon DEF NoDangling
<1>5. QED  BY <1>1, <1>2, <1>3, <1>4 DEF IInv

\* A request that dies leaves nothing.
LEMMA DieKeeps ==
  ASSUME IInv, Die
  PROVE  IInv'
<1>1. /\ objects' = <<>> /\ layers' = <<>> /\ callbacks' = 0 /\ pc' = "run"
      /\ ~open' /\ open' \in BOOLEAN /\ saves' = <<>> /\ data' = durable
      /\ durable' = durable
  BY Zenon DEF Die, RollBackAll
<1>2. TypeOK' /\ Stacked(layers, saves, open)' /\ CallbacksOnlyInside'
  BY <1>1, BoundAssumption DEF IInv, TypeOK, Stacked, CallbacksOnlyInside
<1>3. NoDangling'
  BY <1>1, Zenon DEF NoDangling
<1>4. QED  BY <1>2, <1>3 DEF IInv

\* A new connection has no layers.
LEMMA Initially == Init => IInv
<1> SUFFICES ASSUME Init PROVE IInv
  OBVIOUS
<1>1. ~open /\ open \in BOOLEAN
  BY Zenon DEF Init
<1>2. TypeOK /\ Stacked(layers, saves, open) /\ CallbacksOnlyInside
  BY <1>1, BoundAssumption DEF Init, TypeOK, Stacked, CallbacksOnlyInside
<1>3. NoDangling
  BY <1>1, Zenon DEF NoDangling
<1>4. QED  BY <1>2, <1>3 DEF IInv

\* Every step keeps the invariant.
LEMMA Inductive == IInv /\ [Next]_vars => IInv'
<1> SUFFICES ASSUME IInv, [Next]_vars PROVE IInv'
  OBVIOUS
<1>1. CASE Next
  BY <1>1, StartKeeps, QueryKeeps, CallbacksKeep, RollBackKeeps, EndKeeps,
     CreateTableKeeps, DieKeeps, Zenon DEF Next
<1>2. CASE UNCHANGED vars
  BY <1>2 DEF vars, IInv, TypeOK, Stacked, NoDangling, CallbacksOnlyInside, inTransaction
<1>3. QED  BY <1>1, <1>2

\* The invariant holds.
LEMMA Always == Spec => []IInv
  BY Initially, Inductive, PTL DEF Spec

-----------------------------------------------------------------------------
(* The theorems.                                                           *)

\* The variables keep their types, in particular no layer is named deeper than
\* MaxDepth.
THEOREM TypeCorrect == Spec => []TypeOK
<1>1. IInv => TypeOK
  BY DEF IInv
<1>2. QED  BY <1>1, Always, PTL

\* The layers the connection counts are those of the server's transaction and
\* savepoints, in any order of ends and rollbacks and with tables created between.
THEOREM LayersAccounted == Spec => []Accounted
<1>1. IInv => Accounted
  BY StackedIsAccounted DEF IInv
<1>2. QED  BY <1>1, Always, PTL

\* Every active layer of an open transaction has an object that will end it.
THEOREM NothingDangles == Spec => []NoDangling
<1>1. IInv => NoDangling
  BY DEF IInv
<1>2. QED  BY <1>1, Always, PTL

\* The server opens a transaction only where no callback of an earlier one is
\* waiting, and callbacks are forgotten only with the contents back to what was
\* durable.
THEOREM CallbacksEnd == Spec => NoOrphanCallbacks
<1>1. ASSUME IInv, [Next]_vars
      PROVE  [/\ ~open /\ open' => callbacks = 0
              /\ pc = "run" /\ callbacks > 0 /\ callbacks' = 0
                   => ~open' /\ data' = durable']_vars
  <2> DEFINE Orphans == /\ ~open /\ open' => callbacks = 0
                        /\ pc = "run" /\ callbacks > 0 /\ callbacks' = 0
                             => ~open' /\ data' = durable'
  <2>1. CASE Start
    <3>1. pc = "run" /\ callbacks' = callbacks /\ (inTransaction => open' = open)
      BY <2>1, Zenon DEF Start
    <3>2. CASE inTransaction
      BY <3>1, <3>2
    <3>3. CASE ~inTransaction
      BY <1>1, <3>1, <3>3 DEF IInv, CallbacksOnlyInside
    <3>4. QED  BY <3>2, <3>3
  <2>2. ASSUME NEW contents \in Data, Query(contents)
        PROVE  Orphans
    BY <2>2 DEF Query, php
  <2>3. CASE addRootTransactionEndCallback
    <3>1. callbacks' = callbacks + 1 /\ open' = open /\ callbacks \in Nat
      BY <1>1, <2>3, BoundAssumption DEF addRootTransactionEndCallback, db, IInv, TypeOK
    <3>2. QED  BY <3>1
  <2>4. CASE CallBack
    BY <2>4 DEF CallBack, db
  <2>5. ASSUME NEW i \in DOMAIN objects, RollBack(i)
        PROVE  Orphans
    <3>1. CASE RollBackNothing(i)
      BY <3>1 DEF RollBackNothing, db
    <3>2. CASE rollBack(objects[i].name)
      <4>1. \/ callbacks' = callbacks /\ open
            \/ open /\ RollBackAll /\ durable' = durable
        BY <3>2, Zenon DEF rollBack
      <4>2. QED  BY <4>1 DEF RollBackAll
    <3>3. QED  BY <2>5, <3>1, <3>2, Zenon DEF RollBack
  <2>6. ASSUME NEW i \in DOMAIN objects, End(i)
        PROVE  Orphans
    <3>1. callbacks' = callbacks
      BY <2>6, Zenon DEF End
    <3>2. CASE open' = open
      BY <3>1, <3>2
    <3>3. CASE ~open'
      BY <3>1, <3>3
    <3>4. open' = open \/ ~open'
      BY <2>6, Zenon DEF End, popTransaction, popCommittableTransactions, doCommit
    <3>5. QED  BY <3>2, <3>3, <3>4
  <2>7. CASE CreateTable
    BY <2>7 DEF CreateTable, CommitAll, php
  <2>8. CASE Die
    BY <2>8 DEF Die, RollBackAll
  <2>9. CASE UNCHANGED vars
    BY <2>9 DEF vars
  <2>10. QED  BY <1>1, <2>1, <2>2, <2>3, <2>4, <2>5, <2>6, <2>7, <2>8, <2>9, Zenon DEF Next
<1>2. QED  BY <1>1, Always, PTL DEF Spec, NoOrphanCallbacks

-----------------------------------------------------------------------------
(* Objects that end innermost first, and no tables created meanwhile.      *)

\* Every layer is active and the server's, and the objects not rolled back are
\* named after them in their order; NoDangling says that each layer has one.
ScopedInv ==
  /\ IInv
  /\ \A k \in 1..Len(layers) : layers[k].active
  /\ layers # <<>> => open
  /\ ~open => data = durable
  /\ \A i \in DOMAIN objects : ~objects[i].rolledBack => objects[i].name < Len(layers)
  /\ \A i, j \in DOMAIN objects :
       j < i /\ ~objects[i].rolledBack /\ ~objects[j].rolledBack
         => objects[j].name < objects[i].name

\* The types of what ScopedInv speaks about.
LEMMA ScopedTypes ==
  ASSUME ScopedInv
  PROVE  /\ layers \in Seq(Layer) /\ objects \in Seq(Object) /\ saves \in Seq(Saved)
         /\ Len(layers) \in Nat /\ Len(objects) \in Nat /\ Len(saves) \in Nat
         /\ DOMAIN objects = 1..Len(objects) /\ DOMAIN layers = 1..Len(layers)
         /\ \A i \in DOMAIN objects : objects[i].name \in Nat
         /\ \A k \in 1..Len(layers) : layers[k].name = k - 1
         /\ \A k \in 1..Len(saves) : saves[k].name = k
<1>1. layers \in Seq(Layer) /\ objects \in Seq(Object) /\ saves \in Seq(Saved)
  BY DEF ScopedInv, IInv, TypeOK, Layer, Object, Saved
<1>2. \A i \in DOMAIN objects : objects[i].name \in Nat
  <2>1. TAKE i \in DOMAIN objects
  <2>2. objects[i] \in Object
    BY <1>1
  <2>3. objects[i].name \in Name
    BY <2>2, Zenon DEF Object
  <2>4. QED  BY <2>3, BoundAssumption DEF Name
<1>3. /\ \A k \in 1..Len(layers) : layers[k].name = k - 1
      /\ \A k \in 1..Len(saves) : saves[k].name = k
  BY Zenon DEF ScopedInv, IInv, Stacked
<1>4. QED  BY <1>1, <1>2, <1>3

\* The innermost object, if it was not rolled back, is that of the last layer.
LEMMA LastIsTop ==
  ASSUME ScopedInv, objects # <<>>, ~objects[Len(objects)].rolledBack
  PROVE  open /\ layers # <<>> /\ objects[Len(objects)].name = Len(layers) - 1
<1> DEFINE n == Len(layers)  m == Len(objects)
<1>1. m \in DOMAIN objects /\ m \in Nat /\ n \in Nat /\ objects[m].name \in Nat
  BY ScopedTypes
<1>2. objects[m].name < n
  BY <1>1, Zenon DEF ScopedInv
<1>3. layers # <<>> /\ n \in DOMAIN layers /\ layers[n].name = n - 1
  BY <1>1, <1>2, ScopedTypes
<1>4. open /\ layers[n].active
  BY <1>3, ScopedTypes, Zenon DEF ScopedInv
<1>5. PICK i \in DOMAIN objects : objects[i].name = layers[n].name /\ ~objects[i].rolledBack
  BY <1>3, <1>4, Zenon DEF ScopedInv, IInv, NoDangling
<1>6. i \in 1..m /\ objects[i].name = n - 1
  BY <1>3, <1>5, ScopedTypes
<1>7. CASE i = m
  BY <1>3, <1>4, <1>6, <1>7
<1>8. CASE i < m
  <2>1. objects[i].name < objects[m].name
    BY <1>1, <1>5, <1>8, Zenon DEF ScopedInv
  <2>2. FALSE
    BY <1>1, <1>2, <1>6, <2>1
  <2>3. QED  BY <2>2
<1>9. QED  BY <1>1, <1>6, <1>7, <1>8

\* A server transaction is open just while an object is not rolled back.
LEMMA OpenIsOwned ==
  ASSUME ScopedInv
  PROVE  open <=> \E i \in DOMAIN objects : ~objects[i].rolledBack
<1>1. ASSUME open PROVE \E i \in DOMAIN objects : ~objects[i].rolledBack
  <2>1. Len(layers) > 0
    BY <1>1, Zenon DEF ScopedInv, IInv, Stacked
  <2>2. 1 \in DOMAIN layers /\ 1 \in 1..Len(layers)
    BY <2>1, ScopedTypes
  <2>3. layers[1].active
    BY <2>2, Zenon DEF ScopedInv
  <2>4. QED  BY <1>1, <2>2, <2>3, Zenon DEF ScopedInv, IInv, NoDangling
<1>2. ASSUME NEW i \in DOMAIN objects, ~objects[i].rolledBack PROVE open
  <2>1. objects[i].name < Len(layers)
    BY <1>2, Zenon DEF ScopedInv
  <2>2. layers # <<>>
    BY <2>1, ScopedTypes
  <2>3. QED  BY <2>2, Zenon DEF ScopedInv
<1>3. QED  BY <1>1, <1>2

\* The last layer goes, and the savepoints below it stay.
Popped ==
  /\ Len(layers') = Len(layers) - 1
  /\ \A k \in 1..(Len(layers) - 1) : layers'[k] = layers[k]
  /\ Len(layers) > 1 => open' /\ \A k \in 1..(Len(layers) - 2) : saves'[k] = saves[k]
  /\ Len(layers) = 1 => ~open'

\* With all layers active, rolling back the innermost object pops its layer
\* alone.
LEMMA ScopedRollBack ==
  ASSUME ScopedInv, Scoped, NEW i \in DOMAIN objects, RollBack(i)
  PROVE  /\ i = Len(objects) /\ Popped
         /\ data' = Begun(objects[i]) /\ durable' = durable
<1> DEFINE n == Len(layers)  name == objects[i].name
           stack == SubSeq(layers, 1, n - 1)
<1>1. i = Len(objects) /\ ~objects[i].rolledBack
  BY Zenon DEF RollBack
<1>2. open /\ layers # <<>> /\ name = n - 1
  BY <1>1, ScopedTypes, LastIsTop
<1>3. /\ n \in 1..n /\ n \in Nat /\ n - 1 \in Nat
      /\ layers \in Seq(Layer) /\ layers[n].name = name
  BY <1>2, ScopedTypes
<1>4. Named(layers, name)
  BY <1>3, ScopedTypes DEF Named
<1>5. rollBack(name)
  BY <1>2, <1>4, Zenon DEF RollBack, RollBackNothing
<1>6. RollBackPoint(name) = n
  <2>1. /\ RollBackPoint(name) \in 1..n
        /\ \A k \in 1..n : k > RollBackPoint(name) => layers[k].name # name
    BY <1>3, <1>4, RollBackPointIs
  <2>2. QED  BY <1>3, <2>1
<1>7. layers[n].active
  BY <1>3, Zenon DEF ScopedInv
<1>8. \/ /\ n > 1
         /\ data' = SavedContents(name)
         /\ popCommittableTransactions(stack, SavesUpTo(name), SavedContents(name))
      \/ /\ n = 1
         /\ layers' = stack
         /\ RollBackAll /\ UNCHANGED durable
  BY <1>5, <1>6, <1>7, Zenon DEF rollBack
<1>9. /\ stack \in Seq(Layer) /\ Len(stack) = n - 1
      /\ \A k \in 1..(n - 1) : stack[k] = layers[k]
  <2>1. \A k \in 1..(n - 1) : layers[k] \in Layer
    BY <1>3
  <2> HIDE DEF n
  <2>2. /\ SubSeq(layers, 1, n - 1) \in Seq(Layer) /\ Len(SubSeq(layers, 1, n - 1)) = n - 1
        /\ \A k \in 1..(n - 1) : SubSeq(layers, 1, n - 1)[k] = layers[k]
    BY <1>3, <2>1, SubSeqProperties
  <2>3. QED  BY <2>2
<1>10. CASE /\ n > 1
            /\ data' = SavedContents(name)
            /\ popCommittableTransactions(stack, SavesUpTo(name), SavedContents(name))
  <2>1. stack[n - 1].active /\ n - 1 \in 1..Len(stack)
    <3>1. n - 1 \in 1..n /\ stack[n - 1] = layers[n - 1] /\ n - 1 \in 1..Len(stack)
      BY <1>3, <1>9, <1>10
    <3>2. QED  BY <3>1, Zenon DEF ScopedInv
  <2>2. TopActive(stack) = Len(stack)
    <3>1. /\ TopActive(stack) \in 0..Len(stack)
          /\ ~(n - 1 > TopActive(stack))
      BY <1>9, <2>1, TopActiveIs, Zenon
    <3>2. QED  BY <1>3, <1>9, <3>1
  <2>3. /\ layers' = stack /\ saves' = SavesUpTo(name)
        /\ UNCHANGED <<open, durable>>
    <3>1. ~(TopActive(stack) \in 1..(Len(stack) - 1)) /\ ~(TopActive(stack) < Len(stack))
      BY <1>9, <2>2
    <3>2. QED  BY <1>10, <3>1, Zenon DEF popCommittableTransactions
  <2>4. IndexOf(saves, name) = n - 1 /\ n - 1 \in 1..Len(saves)
    <3>1. n \in {Len(saves), Len(saves) + 1}
      BY <1>2, Zenon DEF ScopedInv, IInv, Stacked
    <3>2. n - 1 \in 1..Len(saves) /\ saves[n - 1].name = name
      <4>1. Len(saves) \in Nat /\ n > 1
        BY <1>10, ScopedTypes
      <4>2. n - 1 \in 1..Len(saves)
        BY <1>3, <3>1, <4>1
      <4>3. QED  BY <1>2, <4>2, ScopedTypes, Zenon
    <3>3. Named(saves, name)
      BY <3>2, ScopedTypes DEF Named
    <3>4. QED  BY <1>2, <3>2, <3>3, IndexIs, ScopedTypes
  <2>5. \A k \in 1..(n - 2) : saves'[k] = saves[k]
    BY <1>3, <1>10, <2>3, <2>4, ScopedTypes DEF SavesUpTo
  <2>6. data' = Begun(objects[i])
    BY <1>2, <1>3, <1>10 DEF Begun
  <2>7. open'
    BY <1>2, <2>3, Zenon
  <2>8. n # 1 /\ Len(layers') = n - 1 /\ \A k \in 1..(n - 1) : layers'[k] = layers[k]
    BY <1>9, <1>10, <2>3
  <2>9. QED  BY <1>1, <2>3, <2>5, <2>6, <2>7, <2>8, Zenon DEF Popped
<1>11. CASE /\ n = 1
            /\ layers' = stack
            /\ RollBackAll /\ UNCHANGED durable
  <2>1. ~open' /\ data' = durable
    BY <1>11, Zenon DEF RollBackAll
  <2>2. Begun(objects[i]) = durable
    BY <1>2, <1>11 DEF Begun
  <2>3. ~(n > 1) /\ Len(layers') = n - 1 /\ \A k \in 1..(n - 1) : layers'[k] = layers[k]
    BY <1>9, <1>11
  <2>4. QED  BY <1>1, <1>11, <2>1, <2>2, <2>3, Zenon DEF Popped
<1>12. QED  BY <1>8, <1>10, <1>11

\* So does the end of the innermost object, if it was not rolled back; the end of
\* the outermost commits.
LEMMA ScopedEnd ==
  ASSUME ScopedInv, Scoped, NEW i \in DOMAIN objects, End(i), ~objects[i].rolledBack
  PROVE  /\ i = Len(objects) /\ Popped /\ data' = data
         /\ Len(layers) > 1 => durable' = durable
         /\ Len(layers) = 1 => durable' = data
<1> DEFINE n == Len(layers)  name == objects[i].name
           m == IndexOf(layers, name)
           stack == [layers EXCEPT ![m].active = FALSE]
           closed == [layers[m] EXCEPT !.active = FALSE]
<1>1. i = Len(objects) /\ data' = data
  BY Zenon DEF End
<1>2. open /\ layers # <<>> /\ name = n - 1
  BY <1>1, ScopedTypes, LastIsTop
<1>3. /\ n \in 1..n /\ n \in Nat /\ n - 1 \in Nat
      /\ layers \in Seq(Layer) /\ layers[n].name = name
  BY <1>2, ScopedTypes
<1>4. Named(layers, name)
  BY <1>3, ScopedTypes DEF Named
<1>5. m = n
  <2>1. m \in DOMAIN layers /\ layers[m].name = name
    BY <1>4, IndexIs, Zenon
  <2>2. m \in 1..n /\ layers[m].name = m - 1
    BY <2>1, ScopedTypes
  <2>3. QED  BY <1>2, <1>3, <2>1, <2>2
<1>0. n \in Nat /\ n >= 1
  BY <1>3
<1>6. popCommittableTransactions(stack, saves, data)
  BY <1>4, Zenon DEF End, popTransaction
<1>7. closed \in Layer /\ ~closed.active /\ stack = [layers EXCEPT ![n] = closed]
  <2>1. layers[m] \in Layer
    BY <1>3, <1>5
  <2>2. stack = [layers EXCEPT ![m] = closed]
    OBVIOUS
  <2>3. closed \in Layer /\ ~closed.active
    BY <2>1, Zenon DEF Layer
  <2>4. QED  BY <1>5, <2>2, <2>3
<1> HIDE DEF closed, stack, m, n
<1>8. /\ stack \in Seq(Layer) /\ Len(stack) = n /\ ~stack[n].active
      /\ \A k \in 1..n : k # n => stack[k] = layers[k]
  BY <1>3, <1>7, ExceptSeq DEF n
<1>9. TopActive(stack) = n - 1
  <2>1. /\ TopActive(stack) \in 0..n
        /\ TopActive(stack) > 0 => stack[TopActive(stack)].active
        /\ \A k \in 1..n : k > TopActive(stack) => ~stack[k].active
    BY <1>8, TopActiveIs
  <2>2. TopActive(stack) # n
    <3>1. SUFFICES ASSUME TopActive(stack) = n PROVE FALSE
      OBVIOUS
    <3>2. TopActive(stack) > 0
      BY <1>3, <3>1
    <3>3. stack[n].active
      BY <2>1, <3>1, <3>2, Zenon
    <3>4. QED  BY <1>8, <3>3, Zenon
  <2>3. CASE n = 1
    BY <1>3, <2>1, <2>2, <2>3
  <2>4. CASE n # 1
    <3>1. n - 1 \in 1..n /\ n - 1 # n
      BY <1>0, <2>4
    <3>2. stack[n - 1].active
      BY <1>8, <3>1, Zenon DEF ScopedInv, n
    <3>3. ~(n - 1 > TopActive(stack))
      BY <2>1, <3>1, <3>2, Zenon
    <3>4. QED  BY <1>3, <2>1, <2>2, <3>3
  <2>5. QED  BY <2>3, <2>4
<1>10. CASE n > 1
  <2>1. /\ layers' = SubSeq(stack, 1, n - 1) /\ saves' = Release(saves, stack[n - 1 + 1].name)
        /\ UNCHANGED <<open, durable>>
    <3>1. TopActive(stack) # Len(stack) /\ TopActive(stack) # 0
      BY <1>0, <1>8, <1>9, <1>10
    <3>2. QED  BY <1>2, <1>6, <1>9, <3>1, Zenon DEF popCommittableTransactions
  <2>2. stack[n - 1 + 1].name = n - 1
    <3>1. n - 1 + 1 = n /\ closed.name = layers[m].name
      BY <1>3 DEF closed
    <3>2. stack[n] = closed
      BY <1>3, <1>7, ExceptSeq DEF n
    <3>3. QED  BY <1>2, <1>3, <1>5, <3>1, <3>2
  <2>3. IndexOf(saves, n - 1) = n - 1 /\ n - 1 \in 1..Len(saves)
    <3>1. n \in {Len(saves), Len(saves) + 1}
      BY <1>2, Zenon DEF ScopedInv, IInv, Stacked, n
    <3>2. n - 1 \in 1..Len(saves)
      <4>1. Len(saves) \in Nat
        BY ScopedTypes
      <4>2. QED  BY <1>3, <1>10, <3>1, <4>1
    <3>3. Named(saves, n - 1)
      BY <3>2, ScopedTypes DEF Named
    <3>4. QED  BY <3>2, <3>3, IndexIs, ScopedTypes
  <2>4. \A k \in 1..(n - 2) : saves'[k] = saves[k]
    <3>1. saves' = SubSeq(saves, 1, n - 1 - 1)
      BY <2>1, <2>2, <2>3 DEF Release
    <3>2. QED  BY <1>3, <1>10, <2>3, <3>1, ScopedTypes
  <2>5. Len(layers') = n - 1 /\ \A k \in 1..(n - 1) : layers'[k] = layers[k]
    <3>1. Len(layers') = n - 1 /\ \A k \in 1..(n - 1) : layers'[k] = stack[k]
      BY <1>3, <1>8, <2>1
    <3>2. \A k \in 1..(n - 1) : k \in 1..n /\ k # n
      BY <1>3
    <3>3. QED  BY <1>8, <3>1, <3>2
  <2>6. open' /\ durable' = durable
    BY <1>2, <2>1, Zenon
  <2>7. n # 1
    BY <1>0, <1>10
  <2>8. QED  BY <1>1, <2>4, <2>5, <2>6, <2>7, Zenon DEF Popped, n
<1>11. CASE n = 1
  <2>1. layers' = <<>> /\ doCommit(data)
    <3>1. TopActive(stack) # Len(stack) /\ ~(TopActive(stack) \in 1..(Len(stack) - 1))
      BY <1>0, <1>8, <1>9, <1>11
    <3>2. QED  BY <1>6, <3>1, Zenon DEF popCommittableTransactions
  <2>2. ~open' /\ durable' = data
    BY <2>1, Zenon DEF doCommit
  <2>3. Len(layers') = n - 1 /\ (\A k \in 1..(n - 1) : layers'[k] = layers[k]) /\ ~(n > 1)
    BY <1>11, <2>1
  <2>4. QED  BY <1>1, <2>2, <2>3, Zenon DEF Popped, n
<1>12. QED
  <2>1. n > 1 \/ n = 1
    BY <1>0
  <2>2. QED  BY <1>10, <1>11, <2>1

\* Once the last layer is popped, what is left is named as before.
LEMMA PoppedKeeps ==
  ASSUME ScopedInv, IInv', Popped, layers # <<>>, ~open' => data' = durable',
         objects # <<>>, ~objects[Len(objects)].rolledBack,
         \A j \in DOMAIN objects' : ~objects'[j].rolledBack
            => /\ j \in DOMAIN objects /\ j < Len(objects)
               /\ objects'[j] = objects[j]
  PROVE  ScopedInv'
<1> DEFINE n == Len(layers)  m == Len(objects)
<1>1. /\ n \in Nat /\ n - 1 \in Nat /\ n > 0 /\ m \in DOMAIN objects /\ m \in Nat
      /\ objects[m].name = n - 1
  BY ScopedTypes, LastIsTop
<1>2. Len(layers') = n - 1 /\ \A k \in 1..(n - 1) : layers'[k] = layers[k]
  BY Zenon DEF Popped
<1>3. \A k \in 1..Len(layers') : layers'[k].active
  <2>1. TAKE k \in 1..Len(layers')
  <2>2. k \in 1..(n - 1) /\ k \in 1..n
    BY <1>1, <1>2
  <2>3. QED  BY <1>2, <2>2, Zenon DEF ScopedInv
<1>4. layers' # <<>> => open'
  <2>1. SUFFICES ASSUME layers' # <<>> PROVE open'
    OBVIOUS
  <2>2. Len(layers') > 0
    <3>1. layers' \in Seq(Layer)
      BY DEF IInv, TypeOK, Layer
    <3>2. QED  BY <2>1, <3>1
  <2>3. n > 1
    BY <1>1, <1>2, <2>2
  <2>4. QED  BY <2>3, Zenon DEF Popped
<1>5. \A j \in DOMAIN objects' : ~objects'[j].rolledBack => objects'[j].name < Len(layers')
  <2>1. TAKE j \in DOMAIN objects'
  <2>2. SUFFICES ASSUME ~objects'[j].rolledBack PROVE objects'[j].name < Len(layers')
    OBVIOUS
  <2>3. j \in DOMAIN objects /\ j < m /\ objects'[j] = objects[j]
    BY <2>2, Zenon
  <2>4. ~objects[j].rolledBack
    BY <2>2, <2>3, Zenon
  <2>5. objects[j].name < objects[m].name
    BY <1>1, <2>3, <2>4, Zenon DEF ScopedInv
  <2>6. QED  BY <1>1, <1>2, <2>3, <2>5
<1>6. \A i, j \in DOMAIN objects' :
        j < i /\ ~objects'[i].rolledBack /\ ~objects'[j].rolledBack
          => objects'[j].name < objects'[i].name
  <2>1. TAKE i, j \in DOMAIN objects'
  <2>2. HAVE j < i /\ ~objects'[i].rolledBack /\ ~objects'[j].rolledBack
  <2>3. i \in DOMAIN objects /\ j \in DOMAIN objects
        /\ objects'[i] = objects[i] /\ objects'[j] = objects[j]
    BY <2>2, Zenon
  <2>4. ~objects[i].rolledBack /\ ~objects[j].rolledBack
    BY <2>2, <2>3, Zenon
  <2>5. objects[j].name < objects[i].name
    BY <2>2, <2>3, <2>4, Zenon DEF ScopedInv
  <2>6. QED  BY <2>3, <2>5, Zenon
<1>7. QED  BY <1>3, <1>4, <1>5, <1>6, Zenon DEF ScopedInv

\* A start adds its object and its layer at the end.
LEMMA ScopedStart ==
  ASSUME ScopedInv, Start
  PROVE  /\ layers' = Append(layers, [name |-> Len(layers), active |-> TRUE])
         /\ objects' = Append(objects, [name |-> Len(layers), rolledBack |-> FALSE])
         /\ open' /\ data' = data /\ durable' = durable
         /\ layers = <<>> => data = durable
         /\ layers # <<>> =>
              /\ \A k \in 1..(Len(layers) - 1) : saves'[k] = saves[k]
              /\ saves'[Len(layers)].data = data
<1>1. TypeOK /\ Stacked(layers, saves, open) /\ Len(layers) < MaxDepth
  BY DEF ScopedInv, IInv, Start
<1>2. CASE layers = <<>>
  <2>1. open' /\ ~open
    <3>1. open'
      BY <1>2, Zenon DEF Start, inTransaction
    <3>2. ~(Len(layers) > 0)
      BY <1>2
    <3>3. QED  BY <1>1, <3>1, <3>2, Zenon DEF Stacked
  <2>2. data = durable
    BY <2>1, Zenon DEF ScopedInv
  <2>3. QED  BY <1>2, <2>1, <2>2, Zenon DEF Start
<1>3. CASE layers # <<>>
  <2>1. open /\ open' /\ Savepoint(Len(layers))
    BY <1>3, Zenon DEF ScopedInv, Start, inTransaction
  <2>2. /\ \A k \in 1..(Len(layers) - 1) : saves'[k] = saves[k]
        /\ saves'[Len(layers)].data = data
    BY <1>1, <2>1, SavepointKeeps
  <2>3. QED  BY <1>3, <2>1, <2>2, Zenon DEF Start
<1>4. QED  BY <1>2, <1>3

\* Every step keeps ScopedInv; what remains of the objects is what is left after
\* the innermost was rolled back or has ended.
LEMMA ScopedInductive ==
  ASSUME Scoped, ~DDL, ScopedInv, [Next]_vars
  PROVE  ScopedInv'
<1>1. IInv'
  BY Inductive, Zenon DEF ScopedInv
<1>2. CASE Start
  <2> DEFINE n == Len(layers)  m == Len(objects)
             layer == [name |-> n, active |-> TRUE]
             object == [name |-> n, rolledBack |-> FALSE]
  <2>1. layers' = Append(layers, layer) /\ objects' = Append(objects, object) /\ open'
    BY <1>2, ScopedStart, Zenon
  <2>2. /\ n \in Nat /\ m \in Nat /\ layers \in Seq(Layer) /\ objects \in Seq(Object)
        /\ DOMAIN objects = 1..m
    BY ScopedTypes, Zenon
  <2>3. n \in Name /\ layer \in Layer /\ object \in Object
    <3>1. n < MaxDepth
      BY <1>2 DEF Start
    <3>2. n \in Name
      BY <2>2, <3>1, BoundAssumption DEF Name
    <3>3. QED  BY <3>2, Zenon DEF Layer, Object
  <2>4. layer.active /\ object.name = n
    OBVIOUS
  <2> HIDE DEF layer, object, n, m
  <2>5. /\ Len(layers') = n + 1 /\ layers'[n + 1] = layer
        /\ \A k \in 1..n : layers'[k] = layers[k]
    BY <2>1, <2>2, <2>3, AppendProperties DEF n
  <2>6. /\ DOMAIN objects' = 1..(m + 1) /\ objects'[m + 1] = object
        /\ \A k \in 1..m : objects'[k] = objects[k]
    BY <2>1, <2>2, <2>3, AppendProperties DEF m
  <2>7. \A k \in 1..Len(layers') : layers'[k].active
    <3>1. TAKE k \in 1..Len(layers')
    <3>2. k = n + 1 \/ k \in 1..n
      BY <2>2, <2>5
    <3>3. QED  BY <2>4, <2>5, <3>2, Zenon DEF ScopedInv, n
  <2>8. \A i \in DOMAIN objects : ~objects[i].rolledBack => objects[i].name < n
    BY Zenon DEF ScopedInv, n
  <2>9. \A i \in DOMAIN objects' : ~objects'[i].rolledBack => objects'[i].name < Len(layers')
    <3>1. TAKE i \in DOMAIN objects'
    <3>2. CASE i = m + 1
      BY <2>2, <2>4, <2>5, <2>6, <3>2
    <3>3. CASE i # m + 1
      <4>1. i \in 1..m /\ i \in DOMAIN objects /\ objects'[i] = objects[i]
        BY <2>2, <2>6, <3>3
      <4>2. objects[i].name \in Nat
        BY <4>1, ScopedTypes, Zenon
      <4>3. HAVE ~objects'[i].rolledBack
      <4>4. objects[i].name < n
        BY <2>8, <4>1, <4>3, Zenon
      <4>5. QED  BY <2>2, <2>5, <4>1, <4>2, <4>4
    <3>4. QED  BY <3>2, <3>3
  <2>10. \A i, j \in DOMAIN objects' :
           j < i /\ ~objects'[i].rolledBack /\ ~objects'[j].rolledBack
             => objects'[j].name < objects'[i].name
    <3>1. TAKE i, j \in DOMAIN objects'
    <3>2. HAVE j < i /\ ~objects'[i].rolledBack /\ ~objects'[j].rolledBack
    <3>3. j \in 1..m /\ j \in DOMAIN objects /\ objects'[j] = objects[j]
      BY <2>2, <2>6, <3>2
    <3>4. CASE i = m + 1
      <4>1. objects[j].name < n
        BY <2>8, <3>2, <3>3, Zenon
      <4>2. QED  BY <2>4, <2>6, <3>3, <3>4, <4>1
    <3>5. CASE i # m + 1
      <4>1. i \in 1..m /\ i \in DOMAIN objects /\ objects'[i] = objects[i]
        BY <2>2, <2>6, <3>5
      <4>2. QED  BY <3>2, <3>3, <4>1, Zenon DEF ScopedInv
    <3>6. QED  BY <3>4, <3>5
  <2>11. QED  BY <1>1, <2>1, <2>7, <2>9, <2>10, Zenon DEF ScopedInv
<1>3. ASSUME NEW contents \in Data, Query(contents) PROVE ScopedInv'
  <2>1. UNCHANGED <<objects, layers, open>> /\ (~open => data' = durable')
    BY <1>3, Zenon DEF Query, php
  <2>2. QED  BY <1>1, <2>1 DEF ScopedInv
<1>4. CASE addRootTransactionEndCallback \/ CallBack
  <2>1. UNCHANGED <<objects, layers, open, data, durable>>
    BY <1>4 DEF addRootTransactionEndCallback, CallBack, db
  <2>2. QED  BY <1>1, <2>1 DEF ScopedInv
<1>5. ASSUME NEW i \in DOMAIN objects, RollBack(i) PROVE ScopedInv'
  <2>1. i = Len(objects) /\ Popped /\ data' = Begun(objects[i]) /\ durable' = durable
    BY <1>5, ScopedRollBack
  <2>2. ~objects[i].rolledBack /\ objects # <<>>
    <3>1. objects # <<>>
      BY ScopedTypes
    <3>2. QED  BY <1>5, <3>1, Zenon DEF RollBack
  <2>3. layers # <<>> /\ objects[i].name = Len(layers) - 1
    BY <2>1, <2>2, LastIsTop, Zenon
  <2>4. ~open' => data' = durable'
    <3>1. SUFFICES ASSUME ~open' PROVE data' = durable'
      OBVIOUS
    <3>2. ~(Len(layers) > 1)
      BY <2>1, <3>1, Zenon DEF Popped
    <3>3. objects[i].name = 0
      BY <2>3, <3>2, ScopedTypes
    <3>4. QED  BY <2>1, <3>3 DEF Begun
  <2>5. \A j \in DOMAIN objects' : ~objects'[j].rolledBack
          => j \in DOMAIN objects /\ j < Len(objects) /\ objects'[j] = objects[j]
    <3>1. objects[i] \in Object /\ DOMAIN objects = 1..Len(objects)
      BY ScopedTypes
    <3>2. objects' = [objects EXCEPT ![i] = [objects[i] EXCEPT !.rolledBack = TRUE]]
      BY <1>5 DEF RollBack
    <3>3. [objects[i] EXCEPT !.rolledBack = TRUE].rolledBack
      BY <3>1, Zenon DEF Object
    <3>4. TAKE j \in DOMAIN objects'
    <3>5. HAVE ~objects'[j].rolledBack
    <3>6. j \in DOMAIN objects
      BY <3>2
    <3>7. j # i
      <4>1. SUFFICES ASSUME j = i PROVE FALSE
        OBVIOUS
      <4>2. objects'[i] = [objects[i] EXCEPT !.rolledBack = TRUE]
        BY <3>2, Zenon
      <4>3. QED  BY <3>3, <3>5, <4>1, <4>2, Zenon
    <3>8. objects'[j] = objects[j]
      BY <3>2, <3>6, <3>7, Zenon
    <3>9. j < Len(objects)
      BY <2>1, <3>1, <3>6, <3>7, ScopedTypes
    <3>10. QED  BY <3>6, <3>8, <3>9
  <2>6. QED  BY <1>1, <2>1, <2>2, <2>3, <2>4, <2>5, PoppedKeeps, Zenon
<1>6. ASSUME NEW i \in DOMAIN objects, End(i) PROVE ScopedInv'
  <2>1. /\ i = Len(objects) /\ objects # <<>> /\ objects' = RemoveAt(objects, i)
        /\ objects \in Seq(Object) /\ Len(objects) \in Nat /\ DOMAIN objects = 1..Len(objects)
    <3>1. objects # <<>>
      BY ScopedTypes
    <3>2. i = Len(objects) /\ objects' = RemoveAt(objects, i)
      BY <1>6, Zenon DEF End
    <3>3. QED  BY <3>1, <3>2, ScopedTypes, Zenon
  <2>2. \A j \in DOMAIN objects' :
          j \in DOMAIN objects /\ j < Len(objects) /\ objects'[j] = objects[j]
    <3>1. /\ objects' \in Seq(Object) /\ Len(objects') = Len(objects) - 1
          /\ \A j \in 1..(Len(objects) - 1) : objects'[j] = objects[j]
      <4>1. i \in 1..Len(objects)
        BY <2>1
      <4>2. /\ objects' \in Seq(Object) /\ Len(objects') = Len(objects) - 1
            /\ \A j \in 1..(i - 1) : objects'[j] = objects[j]
        BY <2>1, <4>1, RemoveAtIs
      <4>3. QED  BY <2>1, <4>2
    <3>2. DOMAIN objects' = 1..(Len(objects) - 1)
      BY <3>1
    <3>3. QED  BY <2>1, <3>1, <3>2
  <2>3. CASE ~objects[i].rolledBack
    <3>1. /\ Popped /\ data' = data
          /\ Len(layers) = 1 => durable' = data
      BY <1>6, <2>3, ScopedEnd
    <3>2. layers # <<>>
      BY <2>1, <2>3, LastIsTop, Zenon
    <3>3. ~open' => data' = durable'
      <4>1. SUFFICES ASSUME ~open' PROVE data' = durable'
        OBVIOUS
      <4>2. ~(Len(layers) > 1)
        BY <3>1, <4>1, Zenon DEF Popped
      <4>3. Len(layers) = 1
        BY <3>2, <4>2, ScopedTypes
      <4>4. QED  BY <3>1, <4>3
    <3>4. QED  BY <1>1, <2>1, <2>2, <2>3, <3>1, <3>2, <3>3, PoppedKeeps, Zenon
  <2>4. CASE objects[i].rolledBack
    <3>1. UNCHANGED <<layers, open, durable, data>>
      BY <1>6, <2>4, Zenon DEF End
    <3>2. QED  BY <1>1, <2>2, <3>1, Zenon DEF ScopedInv
  <2>5. QED  BY <2>3, <2>4
<1>7. CASE CreateTable
  BY <1>7, Zenon DEF CreateTable
<1>8. CASE Die
  <2>1. objects' = <<>> /\ layers' = <<>> /\ data' = durable'
    BY <1>8 DEF Die, RollBackAll
  <2>2. DOMAIN objects' = {} /\ Len(layers') = 0
    BY <2>1
  <2>3. QED  BY <1>1, <2>1, <2>2 DEF ScopedInv
<1>9. CASE UNCHANGED vars
  BY <1>1, <1>9 DEF vars, ScopedInv
<1>10. QED
  BY <1>2, <1>3, <1>4, <1>5, <1>6, <1>7, <1>8, <1>9, Zenon DEF Next

\* A new connection has no objects either.
LEMMA ScopedInitially == Init => ScopedInv
<1> SUFFICES ASSUME Init PROVE ScopedInv
  OBVIOUS
<1>1. IInv
  BY Initially
<1>2. objects = <<>> /\ layers = <<>> /\ data = durable
  BY DEF Init
<1>3. DOMAIN objects = {} /\ Len(layers) = 0
  BY <1>2
<1>4. QED  BY <1>1, <1>2, <1>3 DEF ScopedInv

\* ScopedInv holds when the objects end in order and no tables are created.
LEMMA ScopedAlways ==
  ASSUME Scoped, ~DDL
  PROVE  Spec => []ScopedInv
<1>1. ScopedInv /\ [Next]_vars => ScopedInv'
  BY ScopedInductive
<1>2. QED  BY <1>1, ScopedInitially, PTL DEF Spec

\* With nested scopes, whatever is started, rolled back and ended within a
\* function, its own transaction is open on exactly one active layer afterwards.
THEOREM CallersStayAlive ==
  ASSUME Scoped, ~DDL
  PROVE  Spec => []StillAlive
<1>1. ScopedInv => StillAlive
  <2> SUFFICES ASSUME ScopedInv, NEW i \in DOMAIN objects, ~objects[i].rolledBack
               PROVE  /\ open
                      /\ Cardinality({k \in DOMAIN layers : /\ layers[k].name = objects[i].name
                                                            /\ layers[k].active}) = 1
                      /\ \A j \in 1 .. (i - 1) : ~objects[j].rolledBack =>
                                                    objects[j].name < objects[i].name
    BY DEF StillAlive
  <2> DEFINE name == objects[i].name
             same == {k \in DOMAIN layers : layers[k].name = name /\ layers[k].active}
  <2>1. open
    BY OpenIsOwned
  <2>2. name \in Nat /\ name < Len(layers) /\ Len(layers) \in Nat
    <3>1. name < Len(layers)
      BY Zenon DEF ScopedInv
    <3>2. QED  BY <3>1, ScopedTypes
  <2>3. /\ DOMAIN layers = 1..Len(layers) /\ name + 1 \in DOMAIN layers
        /\ \A k \in DOMAIN layers : layers[k].name = k - 1 /\ layers[k].active
    <3>1. DOMAIN layers = 1..Len(layers) /\ \A k \in 1..Len(layers) : layers[k].name = k - 1
      BY ScopedTypes
    <3>2. \A k \in 1..Len(layers) : layers[k].active
      BY Zenon DEF ScopedInv
    <3>3. QED  BY <2>2, <3>1, <3>2
  <2>4. \A k \in DOMAIN layers : layers[k].name = name <=> k = name + 1
    BY <2>2, <2>3
  <2>5. same = {name + 1}
    BY <2>3, <2>4, Zenon
  <2>6. Cardinality(same) = 1
    BY <2>5, FS_Singleton
  <2>7. ASSUME NEW j \in 1..(i - 1), ~objects[j].rolledBack
        PROVE  objects[j].name < objects[i].name
    <3>1. j \in DOMAIN objects /\ j < i
      BY ScopedTypes
    <3>2. QED  BY <2>7, <3>1, Zenon DEF ScopedInv
  <2>8. QED  BY <2>1, <2>6, <2>7
<1>2. QED  BY <1>1, ScopedAlways, PTL

\* With nested scopes and no tables created, the connection is out of the
\* transaction when the last function has returned.
THEOREM AllClosed ==
  ASSUME Scoped, ~DDL
  PROVE  Spec => []ClosedWhenDone
<1>1. ScopedInv => ClosedWhenDone
  <2> SUFFICES ASSUME ScopedInv, objects = <<>>
               PROVE  ~inTransaction
    BY DEF ClosedWhenDone
  <2>1. DOMAIN objects = {}
    OBVIOUS
  <2>2. ~open
    BY <2>1, OpenIsOwned
  <2>3. QED  BY <2>2, Zenon DEF ScopedInv, inTransaction
<1>2. QED  BY <1>1, ScopedAlways, PTL

-----------------------------------------------------------------------------
(* The nested transactions of NestedTransactions.                          *)

\* Functions on 1..n are sequences; and how to tell that one is another with an
\* element added or taken away.
LEMMA IsSequence ==
  ASSUME NEW n \in Nat, NEW f, NEW S, f \in [1..n -> S]
  PROVE  f \in Seq(S) /\ Len(f) = n
  OBVIOUS

\* A sequence with one element more.
LEMMA IsAppend ==
  ASSUME NEW n \in Nat, NEW S, NEW f \in [1..n -> S], NEW g \in [1..(n + 1) -> S],
         \A k \in 1..n : g[k] = f[k]
  PROVE  g = Append(f, g[n + 1])
<1>1. f \in Seq(S) /\ Len(f) = n /\ g \in Seq(S) /\ Len(g) = n + 1 /\ g[n + 1] \in S
  BY IsSequence
<1>2. /\ Append(f, g[n + 1]) \in Seq(S) /\ Len(Append(f, g[n + 1])) = n + 1
      /\ \A k \in 1..n : Append(f, g[n + 1])[k] = f[k]
      /\ Append(f, g[n + 1])[n + 1] = g[n + 1]
  BY <1>1, AppendProperties
<1>3. \A k \in 1..Len(g) : g[k] = Append(f, g[n + 1])[k]
  <2>1. TAKE k \in 1..Len(g)
  <2>2. k \in 1..n \/ k = n + 1
    BY <1>1
  <2>3. QED  BY <1>2, <2>2
<1>4. QED  BY <1>1, <1>2, <1>3, SeqEqual

\* A sequence without its last element.
LEMMA IsFront ==
  ASSUME NEW n \in Nat \ {0}, NEW S, NEW f \in [1..n -> S], NEW g \in [1..(n - 1) -> S],
         \A k \in 1..(n - 1) : g[k] = f[k]
  PROVE  g = Front(f)
<1>1. f \in Seq(S) /\ Len(f) = n /\ g \in Seq(S) /\ Len(g) = n - 1 /\ n - 1 \in Nat
  BY IsSequence
<1>2. \A k \in 1..(n - 1) : f[k] \in S
  OBVIOUS
<1>3. /\ SubSeq(f, 1, n - 1) \in Seq(S) /\ Len(SubSeq(f, 1, n - 1)) = n - 1
      /\ \A k \in 1..(n - 1) : SubSeq(f, 1, n - 1)[k] = f[k]
  BY <1>1, <1>2, SubSeqProperties
<1>4. g = SubSeq(f, 1, n - 1)
  BY <1>1, <1>3, SeqEqual
<1>5. QED  BY <1>1, <1>4 DEF Front

\* A sequence with another last element.
LEMMA IsReplaced ==
  ASSUME NEW n \in Nat \ {0}, NEW S, NEW f \in [1..n -> S], NEW g \in [1..n -> S],
         \A k \in 1..(n - 1) : g[k] = f[k]
  PROVE  g = Append(Front(f), g[n])
<1> DEFINE h == [k \in 1..(n - 1) |-> f[k]]
<1>1. h \in [1..(n - 1) -> S] /\ \A k \in 1..(n - 1) : h[k] = f[k]
  OBVIOUS
<1> HIDE DEF h
<1>2. h = Front(f)
  BY <1>1, IsFront
<1>3. n - 1 \in Nat /\ n - 1 + 1 = n
  OBVIOUS
<1>4. g = Append(h, g[n - 1 + 1])
  <2>1. g \in [1..(n - 1 + 1) -> S] /\ \A k \in 1..(n - 1) : g[k] = h[k]
    BY <1>1, <1>3
  <2>2. QED  BY <1>1, <1>3, <2>1, IsAppend
<1>5. QED  BY <1>2, <1>3, <1>4

\* What a savepoint named by its place keeps.
LEMMA SavedAt ==
  ASSUME NEW sv \in Seq(Saved), \A k \in 1..Len(sv) : sv[k].name = k,
         NEW n \in 1..Len(sv)
  PROVE  IndexOf(sv, n) = n
<1>1. Named(sv, n)
  BY DEF Named
<1>2. QED  BY <1>1, IndexIs

\* What the object at position i would restore.
LEMMA BegunIs ==
  ASSUME ScopedInv, NEW i \in DOMAIN objects, ~objects[i].rolledBack
  PROVE  /\ objects[i].name = 0 => Begun(objects[i]) = durable
         /\ objects[i].name # 0 => /\ objects[i].name \in 1..(Len(layers) - 1)
                                   /\ objects[i].name \in 1..Len(saves)
                                   /\ Begun(objects[i]) = saves[objects[i].name].data
<1> DEFINE n == objects[i].name
<1>1. n \in Nat /\ n < Len(layers) /\ Len(layers) \in Nat /\ Len(saves) \in Nat
  <2>1. n < Len(layers)
    BY Zenon DEF ScopedInv
  <2>2. QED  BY <2>1, ScopedTypes
<1>2. Len(layers) \in {Len(saves), Len(saves) + 1}
  BY OpenIsOwned, Zenon DEF ScopedInv, IInv, Stacked
<1>3. CASE n = 0
  BY <1>3 DEF Begun
<1>4. CASE n # 0
  <2>1. n \in 1..(Len(layers) - 1) /\ n \in 1..Len(saves)
    BY <1>1, <1>2, <1>4
  <2>2. IndexOf(saves, n) = n
    BY <2>1, SavedAt, ScopedTypes
  <2>3. QED  BY <1>4, <2>1, <2>2 DEF Begun, SavedContents
<1>5. QED  BY <1>3, <1>4

\* Nest is a sequence as long as the objects, and tells which are rolled back.
LEMMA NestIs ==
  /\ DOMAIN Nest = DOMAIN objects /\ Nest = [i \in DOMAIN objects |-> Nest[i]]
  /\ \A i \in DOMAIN objects :
       /\ objects[i].rolledBack => Nest[i] = N!Over
       /\ ~objects[i].rolledBack => Nest[i] = N!Begun(Begun(objects[i]))
  BY DEF Nest, N!Over, N!Begun

\* The same of the next state.
LEMMA NestIsNext ==
  /\ DOMAIN Nest' = DOMAIN objects' /\ Nest' = [i \in DOMAIN objects' |-> Nest'[i]]
  /\ \A i \in DOMAIN objects' :
       /\ objects'[i].rolledBack => Nest'[i] = N!Over
       /\ ~objects'[i].rolledBack => Nest'[i] = N!Begun(Begun(objects[i])')
  BY DEF Nest, N!Over, N!Begun

\* Only what is over is over.
LEMMA OverIs == N!Over.over /\ \A b : ~N!Begun(b).over /\ N!Begun(b).before = {b}
  BY Zenon DEF N!Over, N!Begun

\* An object whose savepoint, or whose outermost transaction, is as it was would
\* still restore what it would have.
LEMMA NestKept ==
  ASSUME ScopedInv, ScopedInv', NEW j \in DOMAIN objects, j \in DOMAIN objects',
         objects'[j] = objects[j],
         ~objects[j].rolledBack =>
           /\ objects[j].name = 0 => durable' = durable
           /\ objects[j].name # 0 => /\ objects[j].name \in 1..Len(saves')
                                     /\ saves'[objects[j].name] = saves[objects[j].name]
  PROVE  Nest'[j] = Nest[j]
<1> DEFINE n == objects[j].name
<1>1. CASE objects[j].rolledBack
  BY <1>1, NestIs, NestIsNext, Zenon
<1>2. CASE ~objects[j].rolledBack
  <2>1. Nest[j] = N!Begun(Begun(objects[j])) /\ Nest'[j] = N!Begun(Begun(objects[j])')
    BY <1>2, NestIs, NestIsNext, Zenon
  <2>2. Begun(objects[j])' = IF n = 0 THEN durable' ELSE saves'[IndexOf(saves', n)].data
    BY DEF Begun, SavedContents
  <2>3. CASE n = 0
    BY <1>2, <2>1, <2>2, <2>3, BegunIs
  <2>4. CASE n # 0
    <3>1. saves' \in Seq(Saved) /\ \A k \in 1..Len(saves') : saves'[k].name = k
      BY Zenon DEF ScopedInv, IInv, TypeOK, Stacked, Saved
    <3>2. IndexOf(saves', n) = n
      BY <1>2, <2>4, <3>1, SavedAt
    <3>3. Begun(objects[j])' = saves[n].data
      BY <1>2, <2>2, <2>4, <3>2
    <3>4. Begun(objects[j]) = saves[n].data
      BY <1>2, <2>4, BegunIs
    <3>5. QED  BY <2>1, <3>3, <3>4
  <2>5. QED  BY <2>3, <2>4
<1>3. QED  BY <1>1, <1>2

\* After the last layer was popped, the objects further out would restore what
\* they would have.
LEMMA PoppedNest ==
  ASSUME ScopedInv, ScopedInv', Popped, Len(layers) > 1 => durable' = durable,
         objects # <<>>, ~objects[Len(objects)].rolledBack,
         NEW j \in DOMAIN objects, j < Len(objects), j \in DOMAIN objects',
         objects'[j] = objects[j]
  PROVE  Nest'[j] = Nest[j]
<1> DEFINE n == Len(layers)  m == Len(objects)
<1>1. /\ n \in Nat /\ m \in DOMAIN objects /\ objects[m].name = n - 1
      /\ objects[j].name \in Nat
  BY ScopedTypes, LastIsTop
<1>2. SUFFICES ASSUME ~objects[j].rolledBack
               PROVE  /\ objects[j].name = 0 => durable' = durable
                      /\ objects[j].name # 0 =>
                           /\ objects[j].name \in 1..Len(saves')
                           /\ saves'[objects[j].name] = saves[objects[j].name]
  BY NestKept
<1>3. objects[j].name < n - 1
  <2>1. objects[j].name < objects[m].name
    BY <1>1, <1>2, Zenon DEF ScopedInv
  <2>2. QED  BY <1>1, <2>1
<1>4. n > 1
  BY <1>1, <1>3
<1>5. open' /\ Len(layers') = n - 1 /\ \A k \in 1..(n - 2) : saves'[k] = saves[k]
  BY <1>4, Zenon DEF Popped
<1>6. Len(layers') \in {Len(saves'), Len(saves') + 1}
  BY <1>5, Zenon DEF ScopedInv, IInv, Stacked
<1>7. Len(saves') \in Nat
  <2>1. saves' \in Seq(Saved)
    BY Zenon DEF ScopedInv, IInv, TypeOK, Saved
  <2>2. QED  BY <2>1
<1>8. ASSUME objects[j].name # 0
      PROVE  objects[j].name \in 1..(n - 2) /\ objects[j].name \in 1..Len(saves')
  BY <1>1, <1>3, <1>4, <1>5, <1>6, <1>7, <1>8
<1>9. QED  BY <1>4, <1>5, <1>8

\* A start is a start of NestedTransactions.
LEMMA NestedStart ==
  ASSUME ScopedInv, ScopedInv', Start
  PROVE  N!Start
<1> DEFINE n == Len(layers)  m == Len(objects)
           layer == [name |-> n, active |-> TRUE]
           object == [name |-> n, rolledBack |-> FALSE]
<1>1. /\ layers' = Append(layers, layer) /\ objects' = Append(objects, object)
      /\ open' /\ data' = data /\ durable' = durable
      /\ layers = <<>> => data = durable
      /\ layers # <<>> => /\ \A k \in 1..(n - 1) : saves'[k] = saves[k]
                          /\ saves'[n].data = data
  BY ScopedStart, Zenon
<1>2. /\ n \in Nat /\ m \in Nat /\ layers \in Seq(Layer) /\ objects \in Seq(Object)
      /\ DOMAIN objects = 1..m
  BY ScopedTypes, Zenon
<1>3. object \in Object /\ layer \in Layer /\ object.name = n /\ ~object.rolledBack
  <2>1. n < MaxDepth
    BY DEF Start
  <2>2. n \in Name
    BY <1>2, <2>1, BoundAssumption DEF Name
  <2>3. QED  BY <2>2, Zenon DEF Layer, Object
<1>4. layers # <<>> => n > 0
  BY <1>2
<1>5. layers = <<>> => n = 0
  OBVIOUS
<1> HIDE DEF object, layer, n, m
<1>6. /\ DOMAIN objects' = 1..(m + 1) /\ objects'[m + 1] = object
      /\ \A j \in 1..m : objects'[j] = objects[j]
  BY <1>1, <1>2, <1>3, AppendProperties DEF m
<1>7. Len(layers') = n + 1
  BY <1>1, <1>2, <1>3, AppendProperties DEF n
<1>8. /\ saves' \in Seq(Saved) /\ Len(saves') \in Nat /\ Len(saves') >= n
      /\ \A k \in 1..Len(saves') : saves'[k].name = k
  <2>1. saves' \in Seq(Saved) /\ \A k \in 1..Len(saves') : saves'[k].name = k
    BY Zenon DEF ScopedInv, IInv, TypeOK, Stacked, Saved
  <2>2. Len(layers') \in {Len(saves'), Len(saves') + 1}
    BY <1>1, Zenon DEF ScopedInv, IInv, Stacked
  <2>3. Len(saves') \in Nat
    BY <2>1
  <2>4. QED  BY <1>2, <1>7, <2>1, <2>2, <2>3
<1>9. \A j \in 1..m : Nest'[j] = Nest[j]
  <2>1. TAKE j \in 1..m
  <2>2. j \in DOMAIN objects /\ j \in DOMAIN objects' /\ objects'[j] = objects[j]
    BY <1>2, <1>6
  <2>3. ASSUME ~objects[j].rolledBack, objects[j].name # 0
        PROVE  objects[j].name \in 1..Len(saves') /\ saves'[objects[j].name] = saves[objects[j].name]
    <3>1. objects[j].name \in 1..(n - 1)
      BY <2>2, <2>3, BegunIs DEF n
    <3>2. layers # <<>>
      BY <1>2, <1>5, <3>1
    <3>3. objects[j].name \in 1..Len(saves')
      BY <1>2, <1>8, <3>1
    <3>4. QED  BY <1>1, <3>1, <3>2, <3>3
  <2>4. QED  BY <1>1, <2>2, <2>3, NestKept
<1>10. Nest'[m + 1] = N!Begun(data)
  <2>1. PICK i : i = m + 1
    OBVIOUS
  <2>2. i \in DOMAIN objects' /\ ~objects'[i].rolledBack /\ objects'[i].name = n
    BY <1>2, <1>3, <1>6, <2>1
  <2>3. Nest'[i] = N!Begun(Begun(objects[i])')
    BY <2>2, NestIsNext, Zenon
  <2>4. Begun(objects[i])' = IF n = 0 THEN durable' ELSE saves'[IndexOf(saves', n)].data
    BY <2>2 DEF Begun, SavedContents
  <2>5. Begun(objects[i])' = data
    <3>1. CASE n = 0
      <4>1. layers = <<>>
        BY <1>4, <3>1
      <4>2. QED  BY <1>1, <2>4, <3>1, <4>1
    <3>2. CASE n # 0
      <4>1. n \in 1..Len(saves') /\ layers # <<>>
        BY <1>2, <1>5, <1>8, <3>2
      <4>2. IndexOf(saves', n) = n
        BY <1>8, <4>1, SavedAt
      <4>3. QED  BY <1>1, <2>4, <3>2, <4>1, <4>2
    <3>3. QED  BY <3>1, <3>2
  <2>6. QED  BY <2>1, <2>3, <2>5
<1>11. Nest' = Append(Nest, N!Begun(data))
  <2> DEFINE S == {Nest[k] : k \in 1..m} \cup {Nest'[k] : k \in 1..(m + 1)}
  <2>1. Nest \in [1..m -> S] /\ Nest' \in [1..(m + 1) -> S]
    BY <1>2, <1>6, NestIs, NestIsNext
  <2> HIDE DEF S
  <2>2. Nest' = Append(Nest, Nest'[m + 1])
    BY <1>2, <1>9, <2>1, IsAppend
  <2>3. QED  BY <1>10, <2>2
<1>12. QED  BY <1>1, <1>11 DEF N!Start

\* Rolling back the innermost object replaces its entry.
LEMMA NestedRollBack ==
  ASSUME ScopedInv, ScopedInv', Scoped, NEW i \in DOMAIN objects, RollBack(i)
  PROVE  N!RollBack
<1> DEFINE m == Len(objects)
<1>1. i = m /\ Popped /\ data' = Begun(objects[i]) /\ durable' = durable
  BY ScopedRollBack
<1>2. ~objects[i].rolledBack /\ objects # <<>> /\ m \in Nat \ {0} /\ DOMAIN objects = 1..m
  <2>1. objects # <<>> /\ m \in Nat \ {0} /\ DOMAIN objects = 1..m
    BY ScopedTypes
  <2>2. QED  BY <2>1, Zenon DEF RollBack
<1>3. /\ DOMAIN objects' = 1..m /\ objects'[i].rolledBack
      /\ \A j \in 1..m : j # i => objects'[j] = objects[j]
  <2>1. objects' = [objects EXCEPT ![i] = [objects[i] EXCEPT !.rolledBack = TRUE]]
    BY DEF RollBack
  <2>2. [objects[i] EXCEPT !.rolledBack = TRUE].rolledBack
    <3>1. objects[i] \in Object
      BY ScopedTypes
    <3>2. QED  BY <3>1, Zenon DEF Object
  <2>3. QED  BY <1>2, <2>1, <2>2, Zenon
<1> HIDE DEF m
<1>4. \A j \in 1..(m - 1) : Nest'[j] = Nest[j]
  <2>1. TAKE j \in 1..(m - 1)
  <2>2. j \in 1..m /\ j < m /\ j # i
    BY <1>1, <1>2
  <2>3. QED  BY <1>1, <1>2, <1>3, <2>2, PoppedNest, Zenon DEF m
<1>5. Nest'[m] = N!Over /\ Nest[m] = N!Begun(data')
  BY <1>1, <1>2, <1>3, NestIs, NestIsNext, Zenon
<1>6. Nest' = Append(Front(Nest), N!Over)
  <2> DEFINE S == {Nest[k] : k \in 1..m} \cup {Nest'[k] : k \in 1..m}
  <2>1. Nest \in [1..m -> S] /\ Nest' \in [1..m -> S]
    BY <1>2, <1>3, NestIs, NestIsNext
  <2> HIDE DEF S
  <2>2. Nest' = Append(Front(Nest), Nest'[m])
    BY <1>2, <1>4, <2>1, IsReplaced
  <2>3. QED  BY <1>5, <2>2
<1>7. Nest # <<>> /\ Last(Nest) = Nest[m]
  <2> DEFINE S == {Nest[k] : k \in 1..m}
  <2>1. Nest \in [1..m -> S]
    BY <1>2, NestIs
  <2> HIDE DEF S
  <2>2. Nest \in Seq(S) /\ Len(Nest) = m
    BY <1>2, <2>1, IsSequence
  <2>3. QED  BY <1>2, <2>2 DEF Last
<1>8. Front(Nest) = N!Front(Nest) /\ Last(Nest) = N!Last(Nest)
  BY DEF Front, N!Front, Last, N!Last
<1>9. ~N!Last(Nest).over /\ data' \in N!Last(Nest).before
  <2>1. ~Nest[m].over /\ data' \in Nest[m].before
    BY <1>5, OverIs
  <2>2. QED  BY <1>7, <1>8, <2>1
<1>10. QED  BY <1>1, <1>6, <1>7, <1>8, <1>9, Zenon DEF N!RollBack

\* The end of the innermost object takes its entry away; the contents become
\* durable if no other is left that was not rolled back.
LEMMA NestedEnd ==
  ASSUME ScopedInv, ScopedInv', Scoped, NEW i \in DOMAIN objects, End(i)
  PROVE  N!End
<1> DEFINE m == Len(objects)
<1>1. /\ i = m /\ data' = data /\ objects' = RemoveAt(objects, i)
      /\ objects \in Seq(Object) /\ m \in Nat \ {0} /\ DOMAIN objects = 1..m
      /\ objects # <<>>
  <2>1. /\ objects \in Seq(Object) /\ m \in Nat \ {0} /\ DOMAIN objects = 1..m
        /\ objects # <<>>
    BY ScopedTypes
  <2>2. QED  BY <2>1, Zenon DEF End
<1>2. DOMAIN objects' = 1..(m - 1) /\ \A j \in 1..(m - 1) : objects'[j] = objects[j]
  <2>1. i \in 1..Len(objects)
    BY <1>1
  <2>2. /\ objects' \in Seq(Object) /\ Len(objects') = Len(objects) - 1
        /\ \A j \in 1..(i - 1) : objects'[j] = objects[j]
    BY <1>1, <2>1, RemoveAtIs
  <2>3. QED  BY <1>1, <2>2
<1> HIDE DEF m
<1>3. \A j \in 1..(m - 1) : j \in 1..m /\ j < m
  BY <1>1
\* What is left is kept, and decides about the commit.
<1>4. /\ \A j \in 1..(m - 1) : Nest'[j] = Nest[j]
      /\ durable' = IF \E j \in 1..(m - 1) : ~objects[j].rolledBack THEN durable ELSE data
  <2>1. CASE ~objects[i].rolledBack
    <3>1. /\ Popped
          /\ Len(layers) > 1 => durable' = durable
          /\ Len(layers) = 1 => durable' = data
      BY <2>1, ScopedEnd
    <3>2. open /\ layers # <<>> /\ objects[m].name = Len(layers) - 1
      BY <1>1, <2>1, LastIsTop DEF m
    <3>3. \A j \in 1..(m - 1) : Nest'[j] = Nest[j]
      BY <1>1, <1>2, <1>3, <2>1, <3>1, PoppedNest, Zenon DEF m
    <3>4. CASE Len(layers) > 1
      <4>1. 1 \in DOMAIN layers /\ 1 \in 1..Len(layers) /\ layers[1].name = 0
        BY <3>4, ScopedTypes
      <4>2. layers[1].active
        BY <4>1, Zenon DEF ScopedInv
      <4>3. PICK j \in DOMAIN objects : objects[j].name = layers[1].name /\ ~objects[j].rolledBack
        BY <3>2, <4>1, <4>2, Zenon DEF ScopedInv, IInv, NoDangling
      <4>4. j # m
        BY <3>2, <3>4, <4>1, <4>3, ScopedTypes
      <4>5. j \in 1..(m - 1)
        BY <1>1, <4>4
      <4>6. QED  BY <3>1, <3>3, <3>4, <4>3, <4>5
    <3>5. CASE ~(Len(layers) > 1)
      <4>1. Len(layers) = 1
        BY <3>2, <3>5, ScopedTypes
      <4>2. ASSUME NEW j \in 1..(m - 1), ~objects[j].rolledBack PROVE FALSE
        <5>1. j \in DOMAIN objects /\ m \in DOMAIN objects /\ j < m
          BY <1>1, <1>3
        <5>2. objects[j].name < objects[m].name
          BY <1>1, <2>1, <4>2, <5>1, Zenon DEF ScopedInv
        <5>3. QED  BY <3>2, <4>1, <5>1, <5>2, ScopedTypes
      <4>3. QED  BY <3>1, <3>3, <4>1, <4>2
    <3>6. QED  BY <3>4, <3>5
  <2>2. CASE objects[i].rolledBack
    <3>1. UNCHANGED <<layers, saves, durable>>
      BY <2>2, Zenon DEF End
    <3>2. \A j \in 1..(m - 1) : Nest'[j] = Nest[j]
      <4>1. TAKE j \in 1..(m - 1)
      <4>2. /\ j \in DOMAIN objects /\ j \in DOMAIN objects' /\ objects'[j] = objects[j]
        BY <1>1, <1>2, <1>3
      <4>3. ASSUME ~objects[j].rolledBack, objects[j].name # 0
            PROVE  objects[j].name \in 1..Len(saves')
        BY <3>1, <4>2, <4>3, BegunIs
      <4>4. QED  BY <3>1, <4>2, <4>3, NestKept
    <3>3. CASE \E j \in 1..(m - 1) : ~objects[j].rolledBack
      BY <3>1, <3>2, <3>3
    <3>4. CASE ~\E j \in 1..(m - 1) : ~objects[j].rolledBack
      <4>1. \A j \in DOMAIN objects : j \in 1..(m - 1) \/ j = m
        BY <1>1
      <4>2. ~open
        BY <1>1, <2>2, <3>4, <4>1, OpenIsOwned, Zenon
      <4>3. data = durable
        BY <4>2, Zenon DEF ScopedInv
      <4>4. QED  BY <3>1, <3>2, <3>4, <4>3
    <3>5. QED  BY <3>3, <3>4
  <2>3. QED  BY <2>1, <2>2
<1>5. Nest' = Front(Nest) /\ Nest # <<>>
  <2> DEFINE S == {Nest[k] : k \in 1..m} \cup {Nest'[k] : k \in 1..(m - 1)}
  <2>1. Nest \in [1..m -> S] /\ Nest' \in [1..(m - 1) -> S]
    BY <1>1, <1>2, NestIs, NestIsNext
  <2> HIDE DEF S
  <2>2. Nest' = Front(Nest)
    BY <1>1, <1>4, <2>1, IsFront
  <2>3. Nest \in Seq(S) /\ Len(Nest) = m
    BY <1>1, <2>1, IsSequence
  <2>4. QED  BY <1>1, <2>2, <2>3
<1>6. N!Open(Nest') <=> \E j \in 1..(m - 1) : ~objects[j].rolledBack
  <2>1. DOMAIN Nest' = 1..(m - 1)
    BY <1>2, NestIsNext, Zenon
  <2>2. \A j \in 1..(m - 1) : Nest'[j].over <=> objects[j].rolledBack
    <3>1. TAKE j \in 1..(m - 1)
    <3>2. j \in DOMAIN objects' /\ objects'[j] = objects[j]
      BY <1>2, Zenon
    <3>3. CASE objects[j].rolledBack
      <4>1. Nest'[j] = N!Over
        BY <3>2, <3>3, NestIsNext, Zenon
      <4>2. QED  BY <3>3, <4>1, OverIs, Zenon
    <3>4. CASE ~objects[j].rolledBack
      <4>1. Nest'[j] = N!Begun(Begun(objects[j])')
        BY <3>2, <3>4, NestIsNext, Zenon
      <4>2. QED  BY <3>4, <4>1, OverIs, Zenon
    <3>5. QED  BY <3>3, <3>4
  <2>3. QED  BY <2>1, <2>2, Zenon DEF N!Open
<1>7. durable' = IF N!Open(Nest') THEN durable ELSE data
  BY <1>4, <1>6, Zenon
<1>8. Front(Nest) = N!Front(Nest)
  BY DEF Front, N!Front
<1>9. QED  BY <1>1, <1>5, <1>7, <1>8, Zenon DEF N!End

\* Every step is one of NestedTransactions, or changes nothing it speaks of.
LEMMA NestedStep ==
  ASSUME Scoped, ~DDL, ScopedInv, [Next]_vars
  PROVE  N!Next \/ UNCHANGED <<Nest, data, durable>>
<1>1. ScopedInv'
  BY ScopedInductive
<1>2. CASE Start
  BY <1>1, <1>2, NestedStart, Zenon DEF N!Next
<1>3. ASSUME NEW i \in DOMAIN objects, RollBack(i) PROVE N!Next
  BY <1>1, <1>3, NestedRollBack, Zenon DEF N!Next
<1>4. ASSUME NEW i \in DOMAIN objects, End(i) PROVE N!Next
  BY <1>1, <1>4, NestedEnd, Zenon DEF N!Next
<1>5. ASSUME NEW contents \in Data, Query(contents) PROVE N!Next
  <2>1. /\ UNCHANGED <<objects, layers, saves>> /\ data' = contents
        /\ durable' = IF open THEN durable ELSE contents
    BY <1>5, Zenon DEF Query, php
  <2>2. N!Open(Nest) <=> open
    <3>1. DOMAIN Nest = DOMAIN objects
      BY NestIs, Zenon
    <3>2. \A i \in DOMAIN objects : Nest[i].over <=> objects[i].rolledBack
      <4>1. TAKE i \in DOMAIN objects
      <4>2. CASE objects[i].rolledBack
        <5>1. Nest[i] = N!Over
          BY <4>2, NestIs, Zenon
        <5>2. QED  BY <4>2, <5>1, OverIs, Zenon
      <4>3. CASE ~objects[i].rolledBack
        <5>1. Nest[i] = N!Begun(Begun(objects[i]))
          BY <4>3, NestIs, Zenon
        <5>2. QED  BY <4>3, <5>1, OverIs, Zenon
      <4>4. QED  BY <4>2, <4>3
    <3>3. QED  BY <3>1, <3>2, OpenIsOwned, Zenon DEF N!Open
  <2>3. Nest' = Nest
    <3>1. \A j \in DOMAIN objects : Nest'[j] = Nest[j]
      <4>1. TAKE j \in DOMAIN objects
      <4>2. j \in DOMAIN objects' /\ objects'[j] = objects[j]
        BY <2>1
      <4>3. ASSUME ~objects[j].rolledBack PROVE durable' = durable
        <5>1. open
          BY <4>3, OpenIsOwned
        <5>2. QED  BY <2>1, <5>1, Zenon
      <4>4. ASSUME ~objects[j].rolledBack, objects[j].name # 0
            PROVE  objects[j].name \in 1..Len(saves')
        BY <2>1, <4>4, BegunIs
      <4>5. QED  BY <1>1, <2>1, <4>2, <4>3, <4>4, NestKept
    <3>2. DOMAIN objects' = DOMAIN objects
      BY <2>1
    <3>3. QED  BY <3>1, <3>2, NestIs, NestIsNext
  <2>4. durable' = IF N!Open(Nest) THEN durable ELSE data'
    BY <2>1, <2>2, Zenon
  <2>5. N!Change
    BY <1>5, <2>1, <2>3, <2>4, Zenon DEF N!Change
  <2>6. QED  BY <2>5, Zenon DEF N!Next
<1>6. CASE addRootTransactionEndCallback \/ CallBack \/ UNCHANGED vars
  <2>1. UNCHANGED <<objects, saves, data, durable>>
    BY <1>6 DEF addRootTransactionEndCallback, CallBack, db, vars
  <2>2. QED  BY <2>1 DEF Nest, Begun, SavedContents
<1>7. CASE CreateTable
  BY <1>7, Zenon DEF CreateTable
<1>8. CASE Die
  <2>1. objects' = <<>> /\ data' = durable /\ durable' = durable
    BY <1>8 DEF Die, RollBackAll
  <2>2. Nest' = <<>>
    <3> DEFINE S == {Nest'[k] : k \in 1..0}
    <3>1. DOMAIN objects' = 1..0
      BY <2>1
    <3>2. Nest' \in [1..0 -> S]
      BY <3>1, NestIsNext
    <3> HIDE DEF S
    <3>3. Nest' \in Seq(S) /\ Len(Nest') = 0
      BY <3>2, IsSequence
    <3>4. QED  BY <3>3, EmptySeq
  <2>3. QED  BY <2>1, <2>2 DEF N!Next, N!Die
<1>9. QED
  BY <1>2, <1>3, <1>4, <1>5, <1>6, <1>7, <1>8, Zenon DEF Next

\* With nested scopes and no tables created, objects, layers and savepoints
\* implement transactions each of which undoes its own work and no other's.
THEOREM Refinement ==
  ASSUME Scoped, ~DDL
  PROVE  Spec => ImplementsNested
<1>1. ScopedInv /\ [Next]_vars => [N!Next]_(N!vars)
  BY NestedStep DEF N!vars
<1>2. Init => N!Init
  <2> SUFFICES ASSUME Init PROVE N!Init
    OBVIOUS
  <2>1. objects = <<>> /\ data \in Data /\ durable = data
    BY DEF Init
  <2>2. Nest = <<>>
    <3> DEFINE S == {Nest[k] : k \in 1..0}
    <3>1. DOMAIN objects = 1..0
      BY <2>1
    <3>2. Nest \in [1..0 -> S]
      BY <3>1, NestIs
    <3> HIDE DEF S
    <3>3. Nest \in Seq(S) /\ Len(Nest) = 0
      BY <3>2, IsSequence
    <3>4. QED  BY <3>3, EmptySeq
  <2>3. QED  BY <2>1, <2>2 DEF N!Init
<1>3. QED
  BY <1>1, <1>2, ScopedAlways, PTL DEF Spec, ImplementsNested, N!Spec
=============================================================================
