--------------------------- MODULE OpenFormProofs ---------------------------
(* Proofs about OpenForm, for any dictionaries, any names and any depth of  *)
(* chains.  What the round trip gives back is shown for platforms that have *)
(* single/multi at attribute 6 (UntouchedClean), the rest for all of them.  *)
(* First the round trip, then what columns mean on either side.             *)
EXTENDS OpenForm, FiniteSetTheorems, WellFoundedInduction, TLAPS

\* An expression and an item have their fields; what a checkout made of an
\* expression is a record whatever the chain came to.
IsExpression(e) == /\ e = [start |-> e.start, hops |-> e.hops, native |-> e.native]
                   /\ e.native \in BOOLEAN
IsField(r)  == /\ r.type \in {"D", "A"}
               /\ r = [type |-> r.type, loc |-> r.loc, six |-> r.six, seven |-> r.seven]
IsColumn(r) == /\ r.type = "I" /\ IsExpression(r.spec)
               /\ r = [type |-> "I", spec |-> r.spec, six |-> r.six, seven |-> r.seven]
IsItem(r)   == IsField(r) \/ IsColumn(r)
Shaped(t)   == DOMAIN t \subseteq Items /\ \A p \in DOMAIN t : IsItem(t[p])

\* Of the items that are not swapped, both attributes or neither.
Even(r) == ~Swaps(r) => (r.six = Blank <=> r.seven = Blank)

\* Trees t and u agree on item p.
Agree(t, u, p) == /\ p \in DOMAIN t <=> p \in DOMAIN u
                  /\ p \in DOMAIN u => t[p] = u[p]

Shapes   == Shaped(acct) /\ Shaped(index) /\ Shaped(head) /\ Shaped(base)
AllEven  == \A p \in DOMAIN acct : Even(acct[p])
Readable == Portable(index) /\ Portable(head)
AsWritten == \A p \in Items \ touched : Agree(acct, WrittenTree(base), p)
InStep    == (SmAt6 /\ base = head) =>
                \A p \in Items \ touched : Agree(index, head, p)

IInv == Shapes /\ AllEven /\ Readable /\ AsWritten /\ InStep

-----------------------------------------------------------------------------
(* One item                                                                *)

\* The records of the type invariant have the shape.
LEMMA TypedShape ==
    ASSUME NEW r \in ItemRecords
    PROVE  IsItem(r)
<1>1. CASE r \in [type : {"D", "A"}, loc : Attrs, six : {Blank, Multi, "assoc"},
                  seven : {Blank, Multi, "assoc"}]
  BY <1>1 DEF IsItem, IsField
<1>2. CASE r \in [type : {"I"}, spec : Expressions, six : {Blank, Multi, "assoc"},
                  seven : {Blank, Multi, "assoc"}]
  <2>1. r.spec \in Expressions
    BY <1>2
  <2>2. IsExpression(r.spec)
    BY <2>1 DEF Expressions, IsExpression
  <2> QED
    BY <1>2, <2>2 DEF IsItem, IsColumn
<1> QED
  BY <1>1, <1>2 DEF ItemRecords

\* A checkout writes an item of the same type, swapped and with a depth.
LEMMA WrittenShape ==
    ASSUME NEW t, NEW p, IsItem(t[p])
    PROVE  /\ IsItem(Written(t, p)) /\ Written(t, p).type = t[p].type
           /\ Written(t, p).six = Deep(Swap(t[p])).six
           /\ Written(t, p).seven = Deep(Swap(t[p])).seven
           /\ IsColumn(t[p]) => Written(t, p).spec =
                  IF HasNative(t, p[1], t[p].spec)
                  THEN ToNative(t, p[1], t[p].spec) ELSE t[p].spec
           /\ IsField(t[p]) => Written(t, p).loc = t[p].loc
<1> DEFINE r == Deep(Swap(t[p]))
<1>1. CASE IsField(t[p])
  <2>1. IsField(r) /\ r.type = t[p].type /\ r.loc = t[p].loc
    BY <1>1 DEF IsField, Deep, Swap, Swaps
  <2>2. Written(t, p) = r
    BY <2>1 DEF Written, IsField
  <2>3. ~IsColumn(t[p])
    BY <1>1 DEF IsField, IsColumn
  <2> QED
    BY <2>1, <2>2, <2>3 DEF IsItem
<1>2. CASE IsColumn(t[p])
  <2>1. IsColumn(r) /\ r.type = t[p].type /\ r.spec = t[p].spec
    BY <1>2 DEF IsColumn, Deep, Swap, Swaps
  <2>2. IsExpression(ToNative(t, p[1], t[p].spec))
    BY DEF IsExpression, ToNative
  <2>3. CASE HasNative(t, p[1], t[p].spec)
    <3>1. Written(t, p) = [r EXCEPT !.spec = ToNative(t, p[1], t[p].spec)]
      BY <2>1, <2>3 DEF Written, IsColumn
    <3>2. Written(t, p) = [type |-> "I", spec |-> ToNative(t, p[1], t[p].spec),
                           six |-> r.six, seven |-> r.seven]
      BY <3>1, <2>1 DEF IsColumn
    <3>3. IsColumn(Written(t, p))
      BY <3>2, <2>2 DEF IsColumn
    <3> QED
      BY <1>2, <3>2, <3>3, <2>3 DEF IsItem, IsColumn, IsField
  <2>4. CASE ~HasNative(t, p[1], t[p].spec)
    <3>1. Written(t, p) = r
      BY <2>1, <2>4 DEF Written
    <3> QED
      BY <1>2, <3>1, <2>1, <2>4 DEF IsItem, IsColumn, IsField
  <2> QED
    BY <2>3, <2>4
<1> QED
  BY <1>1, <1>2 DEF IsItem

\* Exchanging the two attributes of an item's record.
LEMMA FieldExchanged ==
    ASSUME NEW w, NEW a, NEW b, NEW c, NEW d,
           w = [type |-> a, loc |-> b, six |-> c, seven |-> d]
    PROVE  [w EXCEPT !.six = w.seven, !.seven = w.six]
             = [type |-> a, loc |-> b, six |-> d, seven |-> c]
<1> DEFINE v == [w EXCEPT !.six = w.seven, !.seven = w.six]
<1>1. v.type = a /\ v.loc = b /\ v.six = d /\ v.seven = c
  OBVIOUS
<1>2. v = [x \in {"type", "loc", "six", "seven"} |-> v[x]]
  <2>1. DOMAIN w = {"type", "loc", "six", "seven"}
    OBVIOUS
  <2>2. DOMAIN v = DOMAIN w /\ v = [x \in DOMAIN v |-> v[x]]
    BY Zenon
  <2> HIDE DEF v
  <2> QED
    BY <2>1, <2>2
<1> HIDE DEF v
<1>3. v = [type |-> v.type, loc |-> v.loc, six |-> v.six, seven |-> v.seven]
  BY <1>2
<1>4. v = [type |-> a, loc |-> b, six |-> d, seven |-> c]
  BY <1>1, <1>3
<1> QED
  BY <1>4 DEF v

LEMMA ColumnExchanged ==
    ASSUME NEW w, NEW a, NEW b, NEW c, NEW d,
           w = [type |-> a, spec |-> b, six |-> c, seven |-> d]
    PROVE  [w EXCEPT !.six = w.seven, !.seven = w.six]
             = [type |-> a, spec |-> b, six |-> d, seven |-> c]
<1> DEFINE v == [w EXCEPT !.six = w.seven, !.seven = w.six]
<1>1. v.type = a /\ v.spec = b /\ v.six = d /\ v.seven = c
  OBVIOUS
<1>2. v = [x \in {"type", "spec", "six", "seven"} |-> v[x]]
  <2>1. DOMAIN w = {"type", "spec", "six", "seven"}
    OBVIOUS
  <2>2. DOMAIN v = DOMAIN w /\ v = [x \in DOMAIN v |-> v[x]]
    BY Zenon
  <2> HIDE DEF v
  <2> QED
    BY <2>1, <2>2
<1> HIDE DEF v
<1>3. v = [type |-> v.type, spec |-> v.spec, six |-> v.six, seven |-> v.seven]
  BY <1>2
<1>4. v = [type |-> a, spec |-> b, six |-> d, seven |-> c]
  BY <1>1, <1>3
<1> QED
  BY <1>4 DEF v

\* What is written for a portable item is projected back to its own two
\* attributes: swapping twice is nothing, and the depth was there already.
LEMMA FlagsReturn ==
    ASSUME SmAt6 = TRUE, NEW t, NEW p, IsItem(t[p]), PortableItem(t[p])
    PROVE  LET w == Projected(Written(t, p))
           IN /\ IsField(t[p]) => w = t[p]
              /\ IsColumn(t[p]) => w = [type |-> "I", spec |-> Written(t, p).spec,
                                       six |-> t[p].six, seven |-> t[p].seven]
<1> DEFINE w == Written(t, p)  w2 == Projected(w)
<1>1. /\ IsItem(w) /\ w.type = t[p].type
      /\ w.six = Deep(Swap(t[p])).six /\ w.seven = Deep(Swap(t[p])).seven
      /\ IsField(t[p]) => w.loc = t[p].loc
  BY WrittenShape
<1>2. Blank # Multi
  BY ConstantsAssumption
<1>3. CASE Swaps(t[p])
  <2>1. t[p].six # Blank => t[p].seven # Blank
    BY <1>3 DEF PortableItem
  <2>2. w.six = t[p].seven /\ w.seven = t[p].six
    BY <1>1, <1>2, <1>3, <2>1 DEF Deep, Swap, IsItem, IsField, IsColumn
  <2>3. Swaps(w)
    BY <1>1, <1>3 DEF Swaps
  <2>4. w2 = [w EXCEPT !.six = w.seven, !.seven = w.six]
    BY <2>1, <2>2, <2>3, <1>1 DEF Projected, Swap, IsItem, IsField, IsColumn
  <2>5. CASE IsField(t[p])
    <3>1. w = [type |-> t[p].type, loc |-> t[p].loc, six |-> t[p].seven,
               seven |-> t[p].six]
      BY <1>1, <2>2, <2>5 DEF IsItem, IsField, IsColumn
    <3>2. t[p] = [type |-> t[p].type, loc |-> t[p].loc, six |-> t[p].six,
                  seven |-> t[p].seven] /\ ~IsColumn(t[p])
      BY <2>5 DEF IsField, IsColumn
    <3> HIDE DEF w, w2
    <3>3. w2 = [type |-> t[p].type, loc |-> t[p].loc, six |-> t[p].six,
                seven |-> t[p].seven]
      BY <2>4, <3>1, FieldExchanged
    <3> QED
      BY <3>2, <3>3 DEF w, w2
  <2>6. CASE IsColumn(t[p])
    <3>1. PICK s : s = w.spec
      OBVIOUS
    <3>2. w = [type |-> t[p].type, spec |-> s, six |-> t[p].seven,
               seven |-> t[p].six]
      BY <1>1, <2>2, <2>6, <3>1 DEF IsItem, IsField, IsColumn
    <3>3. ~IsField(t[p]) /\ t[p].type = "I"
      BY <2>6 DEF IsField, IsColumn
    <3> HIDE DEF w, w2
    <3>4. w2 = [type |-> t[p].type, spec |-> s, six |-> t[p].six,
                seven |-> t[p].seven]
      BY <2>4, <3>2, ColumnExchanged
    <3> QED
      BY <3>1, <3>3, <3>4 DEF w, w2
  <2> QED
    BY <2>5, <2>6 DEF IsItem
<1>4. CASE ~Swaps(t[p])
  <2>1. IsField(t[p]) /\ ~IsColumn(t[p])
    BY <1>4 DEF Swaps, IsItem, IsField, IsColumn
  <2>2. t[p].six = Blank <=> t[p].seven = Blank
    BY <1>4 DEF PortableItem
  <2>3. w = t[p]
    BY <1>1, <1>4, <2>1, <2>2 DEF Deep, Swap, IsItem, IsField, IsColumn
  <2>4. w2 = w
    BY <1>4, <2>1, <2>2, <2>3 DEF Projected, Swap
  <2> QED
    BY <2>1, <2>3, <2>4
<1> QED
  BY <1>3, <1>4

\* What is staged has the shape, and reads everywhere.
LEMMA StagedShape ==
    ASSUME NEW p \in DOMAIN acct, Shapes, Readable, Even(acct[p])
    PROVE  IsItem(Staged(p)) /\ PortableItem(Staged(p))
<1> DEFINE r == Projected(acct[p])
<1>1. IsItem(acct[p]) /\ Blank # Multi
  BY ConstantsAssumption DEF Shapes, Shaped
<1>2. CASE IsField(acct[p])
  <2>1. IsField(r) /\ PortableItem(r)
    BY <1>1, <1>2 DEF Projected, Swap, Swaps, IsField, PortableItem, Even
  <2>2. Staged(p) = r
    BY <2>1 DEF Staged, IsField
  <2> QED
    BY <2>1, <2>2 DEF IsItem
<1>3. CASE IsColumn(acct[p])
  <2> DEFINE e == acct[p].spec  c == CanonSpec(p, e)
  <2>1. /\ IsColumn(r) /\ r.spec = e
        /\ r.six # Blank => r.seven # Blank
    BY <1>1, <1>3 DEF Projected, Swap, Swaps, IsColumn
  <2>2. Staged(p) = [r EXCEPT !.spec = c]
    BY <2>1 DEF Staged, IsColumn
  <2>3. IsExpression(c) /\ (Single(c) /\ IsNum(c.start) => ~c.native)
    <3>1. CASE StillSays(p, e)
      <4>1. InGit(p) /\ Was(p).type = "I" /\ c = Was(p).spec
        BY <3>1 DEF CanonSpec, StillSays
      <4>2. IsItem(Was(p)) /\ PortableItem(Was(p))
        BY <4>1 DEF InGit, Was, Shapes, Shaped, Readable, Portable
      <4> QED
        BY <4>1, <4>2 DEF IsItem, IsField, IsColumn, PortableItem
    <3>2. CASE ~StillSays(p, e) /\ HasOpen(head, p[1], e)
      <4>1. c = ToOpen(head, p[1], e)
        BY <3>2 DEF CanonSpec
      <4>2. IsExpression(e)
        BY <1>3 DEF IsColumn
      <4> QED
        BY <4>1, <4>2 DEF ToOpen, IsExpression
    <3>3. CASE ~StillSays(p, e) /\ ~HasOpen(head, p[1], e)
      <4>1. c = e
        BY <3>3 DEF CanonSpec
      <4> QED
        BY <1>3, <3>3, <4>1 DEF HasOpen, IsColumn
    <3> QED
      BY <3>1, <3>2, <3>3
  <2> HIDE DEF c
  <2>4. Staged(p) = [type |-> "I", spec |-> c, six |-> r.six, seven |-> r.seven]
    BY <2>1, <2>2 DEF IsColumn
  <2> HIDE DEF r
  <2> QED
    BY <2>1, <2>3, <2>4 DEF IsItem, IsColumn, PortableItem, Swaps
<1> QED
  BY <1>1, <1>2, <1>3 DEF IsItem

\* A column that a checkout wrote goes back to the expression it came from.
LEMMA SpecReturns ==
    ASSUME Shapes, Readable, NEW p \in DOMAIN head, IsColumn(head[p]),
           p \in DOMAIN acct, acct[p] = Written(head, p),
           InGit(p), Was(p).type = "I", Was(p).spec = head[p].spec
    PROVE  CanonSpec(p, acct[p].spec) = head[p].spec
<1> DEFINE e == acct[p].spec
<1>1. IsItem(head[p]) /\ PortableItem(head[p])
  BY DEF Shapes, Shaped, Readable, Portable
<1>2. /\ head[p].type = "I" /\ IsExpression(head[p].spec)
      /\ e = IF HasNative(head, p[1], head[p].spec)
             THEN ToNative(head, p[1], head[p].spec) ELSE head[p].spec
  BY <1>1, WrittenShape DEF IsColumn
<1> HIDE DEF e
<1>3. CASE HasNative(head, p[1], head[p].spec)
  BY <1>2, <1>3 DEF CanonSpec, StillSays, e
<1>4. CASE ~HasNative(head, p[1], head[p].spec)
  <2>1. e = head[p].spec /\ ~StillSays(p, e)
    BY <1>2, <1>4 DEF StillSays
  <2>2. CASE HasOpen(head, p[1], e)
    <3>1. Single(e) /\ IsNum(e.start)
      BY <1>4, <2>1, <2>2 DEF HasOpen, HasNative, Single, Nested, Nameable
    <3>2. ~e.native
      BY <1>1, <1>2, <2>1, <3>1 DEF PortableItem
    <3>3. e = [start |-> e.start, hops |-> e.hops, native |-> e.native]
      BY <1>2, <2>1 DEF IsExpression
    <3>4. e.native = FALSE
      BY <1>2, <2>1, <3>2 DEF IsExpression
    <3>5. [e EXCEPT !.native = FALSE] = e
      BY <3>3, <3>4
    <3> QED
      BY <2>1, <2>2, <3>1, <3>5 DEF CanonSpec, ToOpen, e
  <2>3. CASE ~HasOpen(head, p[1], e)
    BY <2>1, <2>3 DEF CanonSpec, e
  <2> QED
    BY <2>2, <2>3
<1> QED
  BY <1>3, <1>4

\* What a checkout wrote and nobody edited is staged as it was committed.
LEMMA RoundTrip ==
    ASSUME SmAt6 = TRUE, Shapes, Readable, NEW p \in DOMAIN head,
           p \in DOMAIN acct, acct[p] = Written(head, p), Agree(index, head, p)
    PROVE  Staged(p) = head[p]
<1> DEFINE r == Projected(acct[p])
<1>1. IsItem(head[p]) /\ PortableItem(head[p])
  BY DEF Shapes, Shaped, Readable, Portable
<1>2. /\ IsField(head[p]) => r = head[p]
      /\ IsColumn(head[p]) => r = [type |-> "I", spec |-> acct[p].spec,
                                   six |-> head[p].six, seven |-> head[p].seven]
  BY <1>1, FlagsReturn
<1>3. InGit(p) /\ Was(p) = head[p]
  BY DEF InGit, Was, Agree
<1>4. CASE IsField(head[p])
  BY <1>2, <1>4 DEF Staged, IsField
<1>5. CASE IsColumn(head[p])
  <2> DEFINE e == acct[p].spec
  <2>1. /\ head[p].type = "I" /\ IsExpression(head[p].spec)
        /\ e = IF HasNative(head, p[1], head[p].spec)
               THEN ToNative(head, p[1], head[p].spec) ELSE head[p].spec
    BY <1>1, <1>5, WrittenShape DEF IsColumn
  <2> HIDE DEF e
  <2>2. CanonSpec(p, e) = head[p].spec
    BY <1>3, <1>5, <2>1, SpecReturns DEF e
  <2>3. r = [type |-> "I", spec |-> e, six |-> head[p].six, seven |-> head[p].seven]
    BY <1>2, <1>5 DEF e
  <2> HIDE DEF r
  <2>4. Staged(p) = [r EXCEPT !.spec = head[p].spec]
    BY <2>2, <2>3 DEF Staged, r
  <2>5. Staged(p) = [type |-> "I", spec |-> head[p].spec, six |-> head[p].six,
                     seven |-> head[p].seven]
    BY <2>3, <2>4
  <2> QED
    BY <1>5, <2>5 DEF IsColumn
<1> QED
  BY <1>1, <1>4, <1>5 DEF IsItem

\* The type and the expression of what is staged.
LEMMA StagedColumn ==
    ASSUME NEW p \in DOMAIN acct, Shapes
    PROVE  /\ Projected(acct[p]).type = "I" <=> acct[p].type = "I"
           /\ acct[p].type # "I" => Staged(p) = Projected(acct[p])
           /\ acct[p].type = "I" =>
                 /\ Projected(acct[p]).spec = acct[p].spec
                 /\ Staged(p).type = "I"
                 /\ Staged(p).spec = CanonSpec(p, acct[p].spec)
                 /\ Staged(p) = [Projected(acct[p]) EXCEPT
                                   !.spec = CanonSpec(p, acct[p].spec)]
<1> DEFINE r == Projected(acct[p])  c == CanonSpec(p, acct[p].spec)
<1>1. IsItem(acct[p])
  BY DEF Shapes, Shaped
<1>2. CASE IsField(acct[p])
  <2>1. r.type = acct[p].type /\ r.type # "I"
    BY <1>2 DEF Projected, Swap, Swaps, IsField
  <2> QED
    BY <2>1 DEF Staged
<1>3. CASE IsColumn(acct[p])
  <2>1. IsColumn(r) /\ r.spec = acct[p].spec
    BY <1>3 DEF Projected, Swap, Swaps, IsColumn
  <2>2. Staged(p) = [r EXCEPT !.spec = c]
    BY <2>1 DEF Staged, IsColumn
  <2> HIDE DEF c
  <2>3. Staged(p) = [type |-> "I", spec |-> c, six |-> r.six, seven |-> r.seven]
    BY <2>1, <2>2 DEF IsColumn
  <2>4. acct[p].type = "I" /\ r.type = "I"
    BY <1>3, <2>1 DEF IsColumn
  <2> HIDE DEF r
  <2>5. Staged(p).type = "I" /\ Staged(p).spec = c
    BY <2>3
  <2> QED
    BY <2>1, <2>2, <2>4, <2>5 DEF r, c
<1> QED
  BY <1>1, <1>2, <1>3 DEF IsItem

-----------------------------------------------------------------------------
(* The invariant                                                           *)

\* A checkout of a portable tree of the right shape writes such items.
LEMMA WrittenTreeShape ==
    ASSUME NEW t, Shaped(t), Portable(t)
    PROVE  /\ Shaped(WrittenTree(t))
           /\ \A p \in DOMAIN WrittenTree(t) : Even(WrittenTree(t)[p])
<1> SUFFICES ASSUME NEW p \in DOMAIN t
             PROVE  IsItem(Written(t, p)) /\ Even(Written(t, p))
  BY DEF Shaped, WrittenTree
<1>1. IsItem(t[p]) /\ PortableItem(t[p])
  BY DEF Shaped, Portable
<1>2. /\ IsItem(Written(t, p)) /\ Written(t, p).type = t[p].type
      /\ Written(t, p).six = Deep(Swap(t[p])).six
      /\ Written(t, p).seven = Deep(Swap(t[p])).seven
  BY <1>1, WrittenShape
<1>3. Even(Written(t, p))
  BY <1>1, <1>2 DEF Even, PortableItem, Swaps, Deep, Swap
<1> QED
  BY <1>2, <1>3

\* The trees that commits bring.
LEMMA ForeignShape ==
    ASSUME NEW t \in Foreign
    PROVE  Shaped(t) /\ Portable(t)
<1>1. IsTree(t) /\ Portable(t)
  BY ConstantsAssumption
<1> QED
  BY <1>1, TypedShape DEF IsTree, Shaped

LEMMA AtFirst == Init => IInv
<1> SUFFICES ASSUME Init PROVE IInv
  OBVIOUS
<1>1. Shaped(head) /\ Portable(head)
  BY ForeignShape DEF Init
<1>2. Shaped(acct) /\ AllEven
  BY <1>1, WrittenTreeShape DEF Init, AllEven
<1> QED
  BY <1>1, <1>2 DEF Init, IInv, Shapes, Readable, AsWritten, InStep, Agree

LEMMA WriteKeeps ==
    ASSUME IInv, NEW p \in Items, NEW r \in Authored[p], Write(p, r)
    PROVE  IInv'
<1>1. IsItem(r) /\ Even(r)
  BY ConstantsAssumption, TypedShape DEF Even
<1>2. Shapes' /\ AllEven' /\ Readable'
  BY <1>1 DEF IInv, Shapes, Shaped, AllEven, Readable, Write, Edits, Put
<1>3. AsWritten'
  BY DEF IInv, AsWritten, Agree, WrittenTree, Write, Edits, Put
<1>4. InStep'
  BY DEF IInv, InStep, Agree, Write, Edits
<1> QED
  BY <1>2, <1>3, <1>4 DEF IInv

LEMMA DeleteKeeps ==
    ASSUME IInv, NEW p \in Items, Delete(p)
    PROVE  IInv'
<1>1. Shapes' /\ AllEven' /\ Readable'
  BY DEF IInv, Shapes, Shaped, AllEven, Readable, Delete, Edits
<1>2. AsWritten'
  BY DEF IInv, AsWritten, Agree, WrittenTree, Delete, Edits
<1>3. InStep'
  BY DEF IInv, InStep, Agree, Delete, Edits
<1> QED
  BY <1>1, <1>2, <1>3 DEF IInv

\* An untouched item is staged as HEAD has it, while HEAD is what the account
\* was written from.
LEMMA UntouchedStaged ==
    ASSUME IInv, SmAt6, base = head, NEW p \in Items \ touched
    PROVE  /\ p \in DOMAIN acct <=> p \in DOMAIN head
           /\ p \in DOMAIN index <=> p \in DOMAIN head
           /\ p \in DOMAIN head => index[p] = head[p] /\ Staged(p) = head[p]
<1>1. Agree(acct, WrittenTree(head), p) /\ Agree(index, head, p)
  BY DEF IInv, AsWritten, InStep
<1>2. p \in DOMAIN head => p \in DOMAIN acct /\ acct[p] = Written(head, p)
  BY <1>1 DEF Agree, WrittenTree
<1>3. SmAt6 = TRUE
  BY ConstantsAssumption
<1>4. p \in DOMAIN head => Staged(p) = head[p]
  BY <1>1, <1>2, <1>3, RoundTrip DEF IInv
<1> QED
  BY <1>1, <1>4 DEF Agree, WrittenTree

LEMMA AddItemKeeps ==
    ASSUME IInv, NEW p \in Items, AddItem(p)
    PROVE  IInv'
<1>1. IsItem(Staged(p)) /\ PortableItem(Staged(p))
  BY StagedShape DEF IInv, AllEven, AddItem
<1>2. Shapes' /\ AllEven' /\ Readable'
  BY <1>1 DEF IInv, Shapes, Shaped, AllEven, Readable, Portable, AddItem, Put
<1>3. AsWritten'
  BY DEF IInv, AsWritten, Agree, WrittenTree, AddItem
<1>4. InStep'
  <2> SUFFICES ASSUME SmAt6, base = head, NEW q \in Items \ touched
               PROVE  Agree(index, head, q)'
    BY DEF InStep, AddItem
  <2>1. CASE q = p
    BY <2>1, UntouchedStaged DEF Agree, AddItem, Put
  <2>2. CASE q # p
    BY <2>2, UntouchedStaged DEF Agree, AddItem, Put
  <2> QED
    BY <2>1, <2>2
<1> QED
  BY <1>2, <1>3, <1>4 DEF IInv

LEMMA AddFileKeeps ==
    ASSUME IInv, NEW f \in FileNames, AddFile(f)
    PROVE  IInv'
<1>1. \A p \in DOMAIN acct : IsItem(Staged(p)) /\ PortableItem(Staged(p))
  BY StagedShape DEF IInv, AllEven
<1>2. /\ DOMAIN index' = (DOMAIN index \ Of(index, f)) \cup Of(acct, f)
      /\ \A p \in DOMAIN index' :
            index'[p] = IF p \in Of(acct, f) THEN Staged(p) ELSE index[p]
  BY DEF AddFile
<1>3. Of(acct, f) \subseteq DOMAIN acct /\ Of(index, f) \subseteq DOMAIN index
  BY DEF Of
<1>4. Shapes' /\ AllEven' /\ Readable'
  BY <1>1, <1>2, <1>3
     DEF IInv, Shapes, Shaped, AllEven, Readable, Portable, AddFile
<1>5. AsWritten'
  BY DEF IInv, AsWritten, Agree, WrittenTree, AddFile
<1>6. InStep'
  <2> SUFFICES ASSUME SmAt6, base = head, NEW q \in Items \ touched
               PROVE  Agree(index, head, q)'
    BY DEF InStep, AddFile
  <2>1. /\ q \in DOMAIN acct <=> q \in DOMAIN head
        /\ q \in DOMAIN index <=> q \in DOMAIN head
        /\ q \in DOMAIN head => index[q] = head[q] /\ Staged(q) = head[q]
    BY UntouchedStaged
  <2>2. q \in DOMAIN index' <=> q \in DOMAIN head
    BY <1>2, <2>1 DEF Of
  <2> QED
    BY <1>2, <2>1, <2>2 DEF Agree, AddFile
<1> QED
  BY <1>4, <1>5, <1>6 DEF IInv

LEMMA CommitKeeps ==
    ASSUME IInv, Commit
    PROVE  IInv'
BY DEF IInv, Shapes, AllEven, Readable, AsWritten, InStep, Agree, WrittenTree, Commit

LEMMA CheckoutKeeps ==
    ASSUME IInv, NEW t \in Pulled \cup {head}, Checkout(t)
    PROVE  IInv'
<1>1. Shaped(t) /\ Portable(t)
  BY ConstantsAssumption, ForeignShape DEF IInv, Shapes, Readable
<1>2. Shapes' /\ AllEven' /\ Readable'
  BY <1>1, WrittenTreeShape DEF Shapes, AllEven, Readable, Checkout
<1>3. AsWritten' /\ InStep'
  BY DEF AsWritten, InStep, Agree, WrittenTree, Written, Checkout
<1> QED
  BY <1>2, <1>3 DEF IInv

LEMMA InductiveInvariant == Spec => []IInv
<1>1. IInv /\ [Next]_vars => IInv'
  <2> SUFFICES ASSUME IInv, [Next]_vars PROVE IInv'
    OBVIOUS
  <2>1. ASSUME NEW p \in Items, NEW r \in Authored[p], Write(p, r) PROVE IInv'
    BY <2>1, WriteKeeps
  <2>2. ASSUME NEW p \in Items, Delete(p) PROVE IInv'
    BY <2>2, DeleteKeeps
  <2>3. ASSUME NEW p \in Items, AddItem(p) PROVE IInv'
    BY <2>3, AddItemKeeps
  <2>4. ASSUME NEW f \in FileNames, AddFile(f) PROVE IInv'
    BY <2>4, AddFileKeeps
  <2>5. ASSUME Commit PROVE IInv'
    BY <2>5, CommitKeeps
  <2>6. ASSUME NEW t \in Pulled \cup {head}, Checkout(t) PROVE IInv'
    BY <2>6, CheckoutKeeps
  <2>7. CASE UNCHANGED vars
    BY <2>7 DEF vars, IInv, Shapes, AllEven, Readable, AsWritten, InStep, Agree,
                WrittenTree, Written
  <2> QED
    BY <2>1, <2>2, <2>3, <2>4, <2>5, <2>6, <2>7 DEF Next
<1> QED
  BY <1>1, AtFirst, PTL DEF Spec

-----------------------------------------------------------------------------
(* The theorems                                                            *)

\* Whatever is edited, added, committed and checked out, an item nobody
\* touched makes no diff: its round trip through the native form is exact
\* (mv_git_project and open_dict_ispec), for any dictionaries.
THEOREM UntouchedClean ==
    ASSUME SmAt6 = TRUE
    PROVE  Spec => []UntouchedReadsClean
<1>1. IInv => UntouchedReadsClean
  <2> SUFFICES ASSUME IInv, base = head, NEW p \in Items \ touched
               PROVE  /\ p \in DOMAIN index <=> p \in DOMAIN head
                      /\ p \in DOMAIN head => index[p] = head[p]
                      /\ p \notin Reported
    BY DEF UntouchedReadsClean
  <2> QED
    BY UntouchedStaged DEF Reported
<1> QED
  BY <1>1, InductiveInvariant, PTL

\* Status makes of an item, with the entry just staged to go by, what add
\* made of it with the one before.
LEMMA StagedAgain ==
    ASSUME IInv, NEW p \in DOMAIN acct, acct' = acct, head' = head,
           p \in DOMAIN index', index'[p] = Staged(p)
    PROVE  Staged(p)' = Staged(p)
<1> DEFINE e == acct[p].spec
<1>1. CASE acct[p].type # "I"
  BY <1>1, StagedColumn DEF IInv, Staged
<1>2. CASE acct[p].type = "I"
  <2>1. /\ Staged(p).type = "I" /\ Staged(p).spec = CanonSpec(p, e)
        /\ Staged(p) = [Projected(acct[p]) EXCEPT !.spec = CanonSpec(p, e)]
        /\ Projected(acct[p]).type = "I" /\ Projected(acct[p]).spec = e
    BY <1>2, StagedColumn DEF IInv
  <2>2. /\ InGit(p)' /\ Was(p)' = Staged(p)
    BY DEF InGit, Was
  <2>3. Staged(p)' = [Projected(acct[p]) EXCEPT !.spec = CanonSpec(p, e)']
    BY <2>1 DEF Staged
  <2>4. CanonSpec(p, e)' = CanonSpec(p, e)
    <3>1. StillSays(p, e)' <=>
             /\ HasNative(head, p[1], CanonSpec(p, e))
             /\ ToNative(head, p[1], CanonSpec(p, e)) = e
      BY <2>1, <2>2 DEF StillSays
    <3>2. CASE StillSays(p, e)
      <4>1. CanonSpec(p, e) = Was(p).spec
        BY <3>2 DEF CanonSpec
      <4>2. StillSays(p, e)'
        BY <3>1, <3>2, <4>1 DEF StillSays
      <4>3. CanonSpec(p, e)' = Was(p)'.spec
        BY <4>2 DEF CanonSpec
      <4> QED
        BY <2>1, <2>2, <4>3
    <3>3. CASE StillSays(p, e)' /\ ~StillSays(p, e)
      <4>1. CanonSpec(p, e)' = Was(p)'.spec
        BY <3>3 DEF CanonSpec
      <4> QED
        BY <2>1, <2>2, <4>1
    <3>4. CASE ~StillSays(p, e)' /\ ~StillSays(p, e)
      BY <3>4 DEF CanonSpec
    <3> QED
      BY <3>2, <3>3, <3>4
  <2> QED
    BY <2>1, <2>3, <2>4
<1> QED
  BY <1>1, <1>2

\* After GIT ADD of a dictionary status has nothing to say of it, on any
\* platform and whatever was staged of it before (GITADD and GITSTATUS).
THEOREM AddLeavesNothing == Spec => AddSettles
<1>1. ASSUME IInv, NEW f \in FileNames, AddFile(f), NEW p \in Reported'
      PROVE  p[1] # f
  <2> SUFFICES ASSUME p[1] = f PROVE FALSE
    OBVIOUS
  <2>1. /\ acct' = acct /\ head' = head
        /\ p \in DOMAIN index' <=> p \in DOMAIN acct
        /\ p \in DOMAIN acct => index'[p] = Staged(p)
    BY <1>1 DEF AddFile, Of
  <2>2. p \in DOMAIN acct /\ p \in DOMAIN index' /\ index'[p] # Staged(p)'
    BY <1>1, <2>1 DEF Reported
  <2> QED
    BY <1>1, <2>1, <2>2, StagedAgain
<1>2. IInv /\ [Next]_vars =>
         [\A f \in FileNames : AddFile(f) => \A p \in Reported' : p[1] # f]_vars
  BY <1>1
<1> QED
  BY <1>2, InductiveInvariant, PTL DEF Spec, AddSettles

-----------------------------------------------------------------------------
(* Induction over the numbers, which rests on the finite sets being well   *)
(* founded, and what it gives of chains.                                   *)

LEMMA Induction ==
    ASSUME NEW S, 0 \in S, \A n \in Nat : n \in S => n + 1 \in S
    PROVE  \A n \in Nat : n \in S
<1> SUFFICES ASSUME NEW m \in Nat, m \notin S PROVE FALSE
  OBVIOUS
<1> DEFINE Below(n) == 0..(n - 1)
           Out      == {Below(n) : n \in Nat \ S}
<1>1. Out \subseteq FiniteSubsetsOf(Nat) /\ Out # {}
  <2>1. \A n \in Nat : Below(n) \in SUBSET Nat /\ IsFiniteSet(Below(n))
    BY FS_Interval
  <2> QED
    BY <2>1 DEF FiniteSubsetsOf
<1>2. IsWellFoundedOn(StrictSubsetOrdering(Nat), FiniteSubsetsOf(Nat))
  BY FS_StrictSubsetOrderingWellFounded
<1>3. PICK X \in Out : \A Y \in Out : ~(<<Y, X>> \in StrictSubsetOrdering(Nat))
  <2> HIDE DEF Out
  <2> QED
    BY <1>1, <1>2, WFMin
<1>4. PICK n \in Nat \ S : X = Below(n)
  OBVIOUS
<1>5. n # 0 /\ n - 1 \in Nat /\ n - 1 \notin S
  OBVIOUS
<1>6. Below(n - 1) \in Out
  BY <1>5
<1>7. <<Below(n - 1), Below(n)>> \in StrictSubsetOrdering(Nat)
  <2>1. /\ Below(n - 1) \subseteq Below(n) /\ Below(n) \subseteq Nat
        /\ n - 1 \in Below(n) /\ n - 1 \notin Below(n - 1)
    <3>1. (n - 1) - 1 < n - 1
      BY <1>5
    <3> QED
      BY <1>5, <3>1
  <2> QED
    BY <2>1 DEF StrictSubsetOrdering
<1> QED
  BY <1>3, <1>4, <1>6, <1>7

\* Of some names there is a lowest.
LEMMA LowestName ==
    ASSUME NEW D \in SUBSET Names, D # {}
    PROVE  \E n \in D : \A m \in D : Rank[n] <= Rank[m]
<1> SUFFICES ASSUME \A n \in D : \E m \in D : ~(Rank[n] <= Rank[m]) PROVE FALSE
  OBVIOUS
<1>1. \A n \in D : Rank[n] \in Nat
  BY ConstantsAssumption
<1> DEFINE S == {k \in Nat : \A m \in D : k <= Rank[m]}
<1>2. 0 \in S
  BY <1>1
<1>3. \A k \in Nat : k \in S => k + 1 \in S
  BY <1>1
<1>4. \A k \in Nat : k \in S
  <2> HIDE DEF S
  <2> QED
    BY <1>2, <1>3, Induction
<1> QED
  BY <1>1, <1>4

\* An attribute that can be named is named by a field of that attribute.
LEMMA NamesIt ==
    ASSUME NEW tree, NEW f, NEW k, IsNum(k), Nameable(tree, f, k)
    PROVE  /\ KeyName(tree, f, k) \in Names /\ ~IsNum(KeyName(tree, f, k))
           /\ Has(tree, f, KeyName(tree, f, k))
           /\ tree[<<f, KeyName(tree, f, k)>>].type = "D"
           /\ tree[<<f, KeyName(tree, f, k)>>].loc = k
<1> DEFINE D == Describing(tree, f, k)
<1>1. D \in SUBSET Names /\ D # {}
  BY DEF Nameable, Describing
<1>2. \E n \in D : \A m \in D : Rank[n] <= Rank[m]
  BY <1>1, LowestName
<1>3. NameFor(tree, f, k) \in D
  BY <1>2 DEF NameFor
<1> QED
  BY <1>3, ConstantsAssumption DEF KeyName, Describing, IsNum

\* A chain is followed Depth times, one item at a time.
LEMMA FlatSteps ==
    ASSUME NEW tree, NEW hops
    PROVE  \E s : /\ s[0] = hops /\ \A d \in 1..Depth : s[d] = Chained(tree, s[d - 1])
                  /\ Flattened(tree, hops) = s[Depth]
<1> DEFINE Is(f, n) == f = [d \in 0..n |->
                IF d = 0 THEN {hops} ELSE {Chained(tree, h) : h \in f[d - 1]}]
           S == {n \in Nat : \E f : Is(f, n)}
           after == CHOOSE f : Is(f, Depth)
           T == {n \in Nat : n <= Depth => \E h : after[n] = {h}}
           s == [d \in 0..Depth |-> CHOOSE h \in after[d] : TRUE]
<1>0. Depth \in Nat
  BY ConstantsAssumption
<1>1. 0 \in S
  <2>1. Is([d \in 0..0 |-> {hops}], 0)
    OBVIOUS
  <2> QED
    BY <2>1
<1>2. ASSUME NEW n \in Nat, n \in S PROVE n + 1 \in S
  <2>1. PICK f : Is(f, n)
    BY <1>2
  <2> DEFINE g == [d \in 0..(n + 1) |->
                      IF d = n + 1 THEN {Chained(tree, h) : h \in f[n]} ELSE f[d]]
  <2>2. \A d \in 0..n : g[d] = f[d]
    OBVIOUS
  <2>3. g[n + 1] = {Chained(tree, h) : h \in f[n]}
    OBVIOUS
  <2>0. \A d \in 0..n : f[d] = IF d = 0 THEN {hops} ELSE {Chained(tree, h) : h \in f[d - 1]}
    BY <2>1
  <2>4. ASSUME NEW d \in 0..(n + 1)
        PROVE  g[d] = IF d = 0 THEN {hops} ELSE {Chained(tree, h) : h \in g[d - 1]}
    <3> HIDE DEF g
    <3>1. CASE d = n + 1
      <4>1. d # 0 /\ d - 1 = n /\ g[d - 1] = f[n]
        BY <2>2, <3>1
      <4> QED
        BY <2>3, <3>1, <4>1
    <3>2. CASE d = 0
      <4>1. 0 \in 0..n
        OBVIOUS
      <4>2. f[0] = {hops} /\ g[0] = f[0]
        BY <2>0, <2>2, <4>1
      <4>3. g[d] = {hops}
        BY <3>2, <4>2
      <4> QED
        BY <3>2, <4>3
    <3>3. CASE d \in 1..n
      <4>1. d \in 0..n /\ d - 1 \in 0..n /\ d # 0
        BY <3>3
      <4>2. g[d - 1] = f[d - 1] /\ g[d] = f[d]
        BY <2>2, <4>1
      <4> QED
        BY <2>0, <4>1, <4>2
    <3> QED
      BY <3>1, <3>2, <3>3
  <2>5. DOMAIN g = 0..(n + 1) /\ g = [d \in 0..(n + 1) |-> g[d]]
    OBVIOUS
  <2> HIDE DEF g
  <2>6. Is(g, n + 1)
    BY <2>4, <2>5
  <2> QED
    BY <2>6
<1>3. Depth \in S
  <2> HIDE DEF S
  <2> QED
    BY <1>0, <1>1, <1>2, Induction
<1>4. Is(after, Depth)
  BY <1>3
<1>5. Flattened(tree, hops) = CHOOSE h \in after[Depth] : TRUE
  BY DEF Flattened
<1> HIDE DEF after
<1>6. /\ after[0] = {hops}
      /\ \A d \in 1..Depth : after[d] = {Chained(tree, h) : h \in after[d - 1]}
  BY <1>0, <1>4
<1>7. \A n \in Nat : n \in T
  <2>1. 0 \in T
    BY <1>6
  <2>2. ASSUME NEW n \in Nat, n \in T PROVE n + 1 \in T
    <3> SUFFICES ASSUME n + 1 <= Depth PROVE \E h : after[n + 1] = {h}
      OBVIOUS
    <3>0. n <= Depth
      BY <1>0
    <3>1. PICK h : after[n] = {h}
      <4>1. n <= Depth => \E h : after[n] = {h}
        BY <2>2
      <4> QED
        BY <3>0, <4>1
    <3>2. after[n + 1] = {Chained(tree, c) : c \in after[n]}
      <4>1. n + 1 \in 1..Depth /\ (n + 1) - 1 = n
        BY <1>0
      <4> QED
        BY <1>6, <4>1
    <3>3. after[n + 1] = {Chained(tree, h)}
      BY <3>1, <3>2
    <3> QED
      BY <3>3
  <2> HIDE DEF T
  <2> QED
    BY <2>1, <2>2, Induction
<1>8. \A d \in 0..Depth : after[d] = {s[d]}
  BY <1>0, <1>7
<1>9. s[0] = hops /\ \A d \in 1..Depth : s[d] = Chained(tree, s[d - 1])
  <2> HIDE DEF s
  <2>1. s[0] = hops
    BY <1>0, <1>6, <1>8
  <2>2. ASSUME NEW d \in 1..Depth PROVE s[d] = Chained(tree, s[d - 1])
    <3>1. d \in 0..Depth /\ d - 1 \in 0..Depth
      BY <1>0
    <3>2. after[d] = {s[d]} /\ after[d - 1] = {s[d - 1]}
      BY <1>8, <3>1
    <3>3. after[d] = {Chained(tree, h) : h \in after[d - 1]}
      BY <1>6
    <3> QED
      BY <3>2, <3>3
  <2> QED
    BY <2>1, <2>2
<1>10. Flattened(tree, hops) = s[Depth]
  BY <1>0, <1>5, <1>8
<1> QED
  BY <1>9, <1>10

\* And so does MVX follow it.
LEMMA MVXSteps ==
    ASSUME NEW tree, NEW f, NEW e
    PROVE  \E s : /\ s[0] = [path |-> <<<<f, e.start>>>>, hop |-> Outer(e)]
                  /\ \A d \in 1..Depth : s[d] = Followed(tree, s[d - 1])
                  /\ ChainEnd(tree, f, e) = s[Depth]
<1> DEFINE start == [path |-> <<<<f, e.start>>>>, hop |-> Outer(e)]
           Is(g, n) == g = [d \in 0..n |->
                IF d = 0 THEN {start} ELSE {Followed(tree, h) : h \in g[d - 1]}]
           S == {n \in Nat : \E g : Is(g, n)}
           after == CHOOSE g : Is(g, Depth)
           T == {n \in Nat : n <= Depth => \E h : after[n] = {h}}
           s == [d \in 0..Depth |-> CHOOSE h \in after[d] : TRUE]
<1>0. Depth \in Nat
  BY ConstantsAssumption
<1>1. 0 \in S
  <2>1. Is([d \in 0..0 |-> {start}], 0)
    OBVIOUS
  <2> QED
    BY <2>1
<1>2. ASSUME NEW n \in Nat, n \in S PROVE n + 1 \in S
  <2>1. PICK g : Is(g, n)
    BY <1>2
  <2> DEFINE next == [d \in 0..(n + 1) |->
                      IF d = n + 1 THEN {Followed(tree, h) : h \in g[n]} ELSE g[d]]
  <2>2. \A d \in 0..n : next[d] = g[d]
    OBVIOUS
  <2>3. next[n + 1] = {Followed(tree, h) : h \in g[n]}
    OBVIOUS
  <2>0. \A d \in 0..n : g[d] = IF d = 0 THEN {start} ELSE {Followed(tree, h) : h \in g[d - 1]}
    BY <2>1
  <2>4. ASSUME NEW d \in 0..(n + 1)
        PROVE  next[d] = IF d = 0 THEN {start} ELSE {Followed(tree, h) : h \in next[d - 1]}
    <3> HIDE DEF next
    <3>1. CASE d = n + 1
      <4>1. d # 0 /\ d - 1 = n /\ next[d - 1] = g[n]
        BY <2>2, <3>1
      <4> QED
        BY <2>3, <3>1, <4>1
    <3>2. CASE d = 0
      <4>1. 0 \in 0..n
        OBVIOUS
      <4>2. g[0] = {start} /\ next[0] = g[0]
        BY <2>0, <2>2, <4>1
      <4>3. next[d] = {start}
        BY <3>2, <4>2
      <4> QED
        BY <3>2, <4>3
    <3>3. CASE d \in 1..n
      <4>1. d \in 0..n /\ d - 1 \in 0..n /\ d # 0
        BY <3>3
      <4>2. next[d - 1] = g[d - 1] /\ next[d] = g[d]
        BY <2>2, <4>1
      <4> QED
        BY <2>0, <4>1, <4>2
    <3> QED
      BY <3>1, <3>2, <3>3
  <2>5. DOMAIN next = 0..(n + 1) /\ next = [d \in 0..(n + 1) |-> next[d]]
    OBVIOUS
  <2> HIDE DEF next
  <2>6. Is(next, n + 1)
    BY <2>4, <2>5
  <2> QED
    BY <2>6
<1>3. Depth \in S
  <2> HIDE DEF S
  <2> QED
    BY <1>0, <1>1, <1>2, Induction
<1>4. Is(after, Depth)
  BY <1>3
<1>5. ChainEnd(tree, f, e) = CHOOSE h \in after[Depth] : TRUE
  BY DEF ChainEnd
<1> HIDE DEF after
<1>6. /\ after[0] = {start}
      /\ \A d \in 1..Depth : after[d] = {Followed(tree, h) : h \in after[d - 1]}
  BY <1>0, <1>4
<1>7. \A n \in Nat : n \in T
  <2>1. 0 \in T
    BY <1>6
  <2>2. ASSUME NEW n \in Nat, n \in T PROVE n + 1 \in T
    <3> SUFFICES ASSUME n + 1 <= Depth PROVE \E h : after[n + 1] = {h}
      OBVIOUS
    <3>0. n <= Depth
      BY <1>0
    <3>1. PICK h : after[n] = {h}
      <4>1. n <= Depth => \E h : after[n] = {h}
        BY <2>2
      <4> QED
        BY <3>0, <4>1
    <3>2. after[n + 1] = {Followed(tree, c) : c \in after[n]}
      <4>1. n + 1 \in 1..Depth /\ (n + 1) - 1 = n
        BY <1>0
      <4> QED
        BY <1>6, <4>1
    <3>3. after[n + 1] = {Followed(tree, h)}
      BY <3>1, <3>2
    <3> QED
      BY <3>3
  <2> HIDE DEF T
  <2> QED
    BY <2>1, <2>2, Induction
<1>8. \A d \in 0..Depth : after[d] = {s[d]}
  BY <1>0, <1>7
<1>9. s[0] = start /\ \A d \in 1..Depth : s[d] = Followed(tree, s[d - 1])
  <2> HIDE DEF s
  <2>1. s[0] = start
    BY <1>0, <1>6, <1>8
  <2>2. ASSUME NEW d \in 1..Depth PROVE s[d] = Followed(tree, s[d - 1])
    <3>1. d \in 0..Depth /\ d - 1 \in 0..Depth
      BY <1>0
    <3>2. after[d] = {s[d]} /\ after[d - 1] = {s[d - 1]}
      BY <1>8, <3>1
    <3>3. after[d] = {Followed(tree, h) : h \in after[d - 1]}
      BY <1>6
    <3> QED
      BY <3>2, <3>3
  <2> QED
    BY <2>1, <2>2
<1>10. ChainEnd(tree, f, e) = s[Depth]
  BY <1>0, <1>5, <1>8
<1> QED
  BY <1>9, <1>10

-----------------------------------------------------------------------------
(* The types                                                               *)

Keys  == Attrs \cup Names \cup {Garbled}
Calls == [file : FileNames, get : Keys]
Chain == {h \in Seq(Calls) : h # <<>>}
Flags == {Blank, Multi, "assoc"}

LEMMA TypesOfItems ==
    /\ Expressions = [start : Keys, hops : Seq(Calls), native : BOOLEAN]
    /\ ItemRecords = [type : {"D", "A"}, loc : Attrs, six : Flags, seven : Flags]
                \cup [type : {"I"}, spec : Expressions, six : Flags, seven : Flags]
  BY DEF Expressions, ItemRecords, Keys, Calls, FileNames, Flags

LEMMA ItemTyped ==
    ASSUME NEW r \in ItemRecords
    PROVE  /\ r.type \in {"D", "A", "I"} /\ r.six \in Flags /\ r.seven \in Flags
           /\ r.type # "I" => r \in [type : {"D", "A"}, loc : Attrs, six : Flags, seven : Flags]
           /\ r.type = "I" => /\ r \in [type : {"I"}, spec : Expressions, six : Flags, seven : Flags]
                              /\ r.spec.start \in Keys /\ r.spec.hops \in Seq(Calls)
                              /\ r.spec.native \in BOOLEAN
<1>1. CASE r \in [type : {"D", "A"}, loc : Attrs, six : Flags, seven : Flags]
  BY <1>1
<1>2. CASE r \in [type : {"I"}, spec : Expressions, six : Flags, seven : Flags]
  <2>1. r.spec \in [start : Keys, hops : Seq(Calls), native : BOOLEAN]
    BY <1>2, TypesOfItems
  <2> QED
    BY <1>2, <2>1
<1> QED
  BY <1>1, <1>2, TypesOfItems

\* One step along a chain leaves it, or makes it longer by one.
LEMMA ChainedLonger ==
    ASSUME NEW tree, NEW hops \in Chain
    PROVE  \/ Chained(tree, hops) = hops
           \/ Len(Chained(tree, hops)) = Len(hops) + 1
<1> DEFINE link == tree[<<hops[Len(hops)].file, hops[Len(hops)].get>>].spec
           key  == IF Nested(link) THEN Garbled
                   ELSE KeyName(tree, hops[Len(hops)].file, link.start)
           cut  == [hops EXCEPT ![Len(hops)].get = key]
<1>1. Chained(tree, hops) = hops \/ Chained(tree, hops) = cut \o <<Outer(link)>>
  BY DEF Chained
<1>2. DOMAIN cut = 1..Len(hops) /\ Len(hops) \in Nat /\ cut = [i \in 1..Len(hops) |-> cut[i]]
  <2>1. hops \in Seq(Calls) /\ DOMAIN hops = 1..Len(hops) /\ Len(hops) \in Nat
    BY DEF Chain
  <2> DEFINE new == [hops[Len(hops)] EXCEPT !.get = key]
  <2>2. cut = [hops EXCEPT ![Len(hops)] = new]
    OBVIOUS
  <2> HIDE DEF new, cut
  <2>3. cut = [i \in 1..Len(hops) |-> IF i = Len(hops) THEN new ELSE hops[i]]
    BY <2>1, <2>2
  <2> QED
    BY <2>1, <2>3
<1> HIDE DEF cut, link
<1>3. cut \in Seq({cut[i] : i \in 1..Len(hops)}) /\ Len(cut) = Len(hops)
  BY <1>2
<1>4. Len(cut \o <<Outer(link)>>) = Len(hops) + 1
  BY <1>2, <1>3
<1> QED
  BY <1>1, <1>4

\* One step along a chain keeps it a chain.
LEMMA ChainedTyped ==
    ASSUME NEW tree, IsTree(tree), NEW hops \in Chain
    PROVE  Chained(tree, hops) \in Chain
<1> DEFINE n    == Len(hops)
           last == hops[n]
           link == tree[<<last.file, last.get>>].spec
           key  == IF Nested(link) THEN Garbled ELSE KeyName(tree, last.file, link.start)
           now  == [hops EXCEPT ![n].get = key] \o <<Outer(link)>>
<1>1. n \in Nat \ {0} /\ last \in Calls /\ hops \in Seq(Calls)
  BY DEF Chain
<1>2. CASE ~ChainsOn(tree, last)
  BY <1>2 DEF Chained
<1>3. CASE ChainsOn(tree, last)
  <2>1. /\ tree[<<last.file, last.get>>] \in ItemRecords
        /\ tree[<<last.file, last.get>>].type = "I"
        /\ IsTrans(link) /\ (Nested(link) \/ Nameable(tree, last.file, link.start))
    BY <1>3 DEF ChainsOn, Has, IsTree
  <2>2. link.start \in Keys /\ link.hops \in Seq(Calls) /\ link.hops # <<>>
    BY <2>1, ItemTyped DEF IsTrans
  <2>3. Outer(link) \in Calls
    BY <2>2 DEF Outer, Links
  <2>4. key \in Keys
    <3>1. CASE Nested(link)
      BY <3>1 DEF Keys
    <3>2. CASE ~Nested(link) /\ IsNum(link.start)
      BY <2>1, <3>2, NamesIt DEF Keys
    <3>3. CASE ~Nested(link) /\ ~IsNum(link.start)
      BY <2>2, <3>3 DEF KeyName
    <3> QED
      BY <3>1, <3>2, <3>3
  <2>5. Chained(tree, hops) = now
    BY <1>3 DEF Chained
  <2> HIDE DEF key, link
  <2>6. [last EXCEPT !.get = key] \in Calls
    BY <1>1, <2>4 DEF Calls
  <2>7. [hops EXCEPT ![n].get = key] \in Seq(Calls) /\ Len([hops EXCEPT ![n].get = key]) = n
    BY <1>1, <2>6
  <2>8. now \in Seq(Calls) /\ Len(now) = n + 1
    BY <1>1, <2>3, <2>7
  <2> QED
    BY <1>1, <2>5, <2>8 DEF Chain
<1> QED
  BY <1>2, <1>3

LEMMA FlatTyped ==
    ASSUME NEW tree, IsTree(tree), NEW hops \in Chain
    PROVE  Flattened(tree, hops) \in Chain
<1>0. Depth \in Nat
  BY ConstantsAssumption
<1>1. PICK s : /\ s[0] = hops /\ \A d \in 1..Depth : s[d] = Chained(tree, s[d - 1])
               /\ Flattened(tree, hops) = s[Depth]
  BY FlatSteps
<1> DEFINE S == {n \in Nat : n <= Depth => s[n] \in Chain}
<1>2. 0 \in S
  BY <1>1
<1>3. ASSUME NEW n \in Nat, n \in S PROVE n + 1 \in S
  <2> SUFFICES ASSUME n + 1 <= Depth PROVE s[n + 1] \in Chain
    OBVIOUS
  <2>1. s[n] \in Chain
    BY <1>0, <1>3
  <2>2. n + 1 \in 1..Depth /\ (n + 1) - 1 = n
    BY <1>0
  <2>3. s[n + 1] = Chained(tree, s[n])
    BY <1>1, <2>2
  <2> QED
    BY <2>1, <2>3, ChainedTyped
<1>4. \A n \in Nat : n \in S
  <2> HIDE DEF S
  <2> QED
    BY <1>2, <1>3, Induction
<1> QED
  BY <1>0, <1>1, <1>4

\* The native spelling of an expression that has one is an expression.
LEMMA NativeTyped ==
    ASSUME NEW tree, IsTree(tree), NEW f, NEW e \in Expressions, HasNative(tree, f, e)
    PROVE  ToNative(tree, f, e) \in Expressions
<1>1. e.start \in Keys /\ e.hops \in Seq(Calls) /\ e.hops # <<>>
  BY TypesOfItems DEF HasNative, IsTrans
<1>2. Flattened(tree, e.hops) \in Seq(Calls)
  BY <1>1, FlatTyped DEF Chain
<1>3. ~Nested(e) => KeyName(tree, f, e.start) \in Keys
  <2>1. CASE IsNum(e.start)
    BY <2>1, NamesIt DEF HasNative, Keys
  <2>2. CASE ~IsNum(e.start)
    BY <1>1, <2>2 DEF KeyName
  <2> QED
    BY <2>1, <2>2
<1> QED
  BY <1>1, <1>2, <1>3, TypesOfItems DEF ToNative

LEMMA WrittenTyped ==
    ASSUME NEW t, IsTree(t), NEW p \in DOMAIN t
    PROVE  Written(t, p) \in ItemRecords
<1> DEFINE r == Deep(Swap(t[p]))
<1>0. t[p] \in ItemRecords
  BY DEF IsTree
<1>1. CASE t[p].type # "I"
  <2>1. t[p] \in [type : {"D", "A"}, loc : Attrs, six : Flags, seven : Flags]
    BY <1>0, <1>1, ItemTyped
  <2>2. r \in [type : {"D", "A"}, loc : Attrs, six : Flags, seven : Flags]
    BY <2>1 DEF Deep, Swap, Flags
  <2>3. Written(t, p) = r
    BY <2>2 DEF Written
  <2> QED
    BY <2>2, <2>3, TypesOfItems
<1>2. CASE t[p].type = "I"
  <2>1. t[p] \in [type : {"I"}, spec : Expressions, six : Flags, seven : Flags]
    BY <1>0, <1>2, ItemTyped
  <2>2. r \in [type : {"I"}, spec : Expressions, six : Flags, seven : Flags] /\ r.spec = t[p].spec
    BY <2>1 DEF Deep, Swap, Flags
  <2> HIDE DEF r
  <2>3. CASE HasNative(t, p[1], r.spec)
    <3>1. ToNative(t, p[1], r.spec) \in Expressions
      BY <2>2, <2>3, NativeTyped
    <3>2. Written(t, p) = [r EXCEPT !.spec = ToNative(t, p[1], r.spec)]
      BY <2>2, <2>3 DEF Written, r
    <3>3. Written(t, p) \in [type : {"I"}, spec : Expressions, six : Flags, seven : Flags]
      BY <2>2, <3>1, <3>2
    <3> QED
      BY <3>3, TypesOfItems
  <2>4. CASE ~HasNative(t, p[1], r.spec)
    <3>1. Written(t, p) = r
      BY <2>4 DEF Written, r
    <3> QED
      BY <2>2, <3>1, TypesOfItems
  <2> QED
    BY <2>3, <2>4
<1> QED
  BY <1>1, <1>2

Trees == IsTree(acct) /\ IsTree(index) /\ IsTree(head) /\ IsTree(base)

LEMMA StagedTyped ==
    ASSUME Trees, NEW p \in DOMAIN acct
    PROVE  Staged(p) \in ItemRecords
<1> DEFINE r == Projected(acct[p])
<1>0. acct[p] \in ItemRecords
  BY DEF Trees, IsTree
<1>1. CASE acct[p].type # "I"
  <2>1. acct[p] \in [type : {"D", "A"}, loc : Attrs, six : Flags, seven : Flags]
    BY <1>0, <1>1, ItemTyped
  <2>2. r \in [type : {"D", "A"}, loc : Attrs, six : Flags, seven : Flags]
    BY <2>1 DEF Projected, Swap, Flags
  <2>3. Staged(p) = r
    BY <2>2 DEF Staged
  <2> QED
    BY <2>2, <2>3, TypesOfItems
<1>2. CASE acct[p].type = "I"
  <2>1. acct[p] \in [type : {"I"}, spec : Expressions, six : Flags, seven : Flags]
    BY <1>0, <1>2, ItemTyped
  <2>2. r \in [type : {"I"}, spec : Expressions, six : Flags, seven : Flags] /\ r.spec = acct[p].spec
    BY <2>1 DEF Projected, Swap, Flags
  <2> DEFINE e == acct[p].spec  c == CanonSpec(p, e)
  <2>3. c \in Expressions
    <3>1. CASE StillSays(p, e)
      <4>1. Was(p) \in ItemRecords /\ Was(p).type = "I" /\ c = Was(p).spec
        BY <3>1 DEF StillSays, CanonSpec, InGit, Was, Trees, IsTree
      <4> QED
        BY <4>1, ItemTyped
    <3>2. CASE ~StillSays(p, e) /\ HasOpen(head, p[1], e)
      <4>1. c = ToOpen(head, p[1], e)
        BY <3>2 DEF CanonSpec
      <4>2. e \in [start : Keys, hops : Seq(Calls), native : BOOLEAN]
        BY <2>1, TypesOfItems
      <4>3. CASE IsNum(e.start)
        BY <4>1, <4>2, <4>3, TypesOfItems DEF ToOpen
      <4>4. CASE ~IsNum(e.start)
        <5>1. /\ head[<<p[1], e.start>>] \in ItemRecords
              /\ head[<<p[1], e.start>>].type # "I"
          BY <3>2, <4>4 DEF HasOpen, Numbered, Has, Trees, IsTree
        <5>2. head[<<p[1], e.start>>].loc \in Keys
          BY <5>1, ItemTyped DEF Keys
        <5> QED
          BY <4>1, <4>2, <4>4, <5>2, TypesOfItems DEF ToOpen
      <4> QED
        BY <4>3, <4>4
    <3>3. CASE ~StillSays(p, e) /\ ~HasOpen(head, p[1], e)
      BY <2>1, <3>3 DEF CanonSpec
    <3> QED
      BY <3>1, <3>2, <3>3
  <2>4. Staged(p) = [r EXCEPT !.spec = c]
    BY <2>2 DEF Staged
  <2> HIDE DEF r, c
  <2>5. Staged(p) \in [type : {"I"}, spec : Expressions, six : Flags, seven : Flags]
    BY <2>2, <2>3, <2>4
  <2> QED
    BY <2>5, TypesOfItems
<1> QED
  BY <1>1, <1>2

\* The state has its type; with it go the parts of IInv, from which what is
\* staged can be read on every platform.
Counted == touched \subseteq Items /\ edits \in 0..MaxEdits /\ commits \in 0..MaxCommits

LEMMA TreesKept ==
    ASSUME IInv, Trees, Counted, [Next]_vars
    PROVE  Trees' /\ Counted'
<1>0. MaxEdits \in Nat /\ MaxCommits \in Nat
  BY ConstantsAssumption
<1>1. ASSUME NEW p \in Items, NEW r \in Authored[p], Write(p, r) PROVE Trees' /\ Counted'
  <2>1. r \in ItemRecords
    BY ConstantsAssumption
  <2> QED
    BY <1>0, <1>1, <2>1 DEF Trees, IsTree, Counted, Write, Edits, Put
<1>2. ASSUME NEW p \in Items, Delete(p) PROVE Trees' /\ Counted'
  BY <1>0, <1>2 DEF Trees, IsTree, Counted, Delete, Edits
<1>3. ASSUME NEW p \in Items, AddItem(p) PROVE Trees' /\ Counted'
  <2>1. Staged(p) \in ItemRecords
    BY <1>3, StagedTyped DEF AddItem
  <2> QED
    BY <1>3, <2>1 DEF Trees, IsTree, Counted, AddItem, Put
<1>4. ASSUME NEW f \in FileNames, AddFile(f) PROVE Trees' /\ Counted'
  <2>1. \A p \in DOMAIN acct : Staged(p) \in ItemRecords
    BY StagedTyped
  <2>2. Of(acct, f) \subseteq DOMAIN acct /\ Of(index, f) \subseteq DOMAIN index
    BY DEF Of
  <2> QED
    BY <1>4, <2>1, <2>2 DEF Trees, IsTree, Counted, AddFile
<1>5. ASSUME Commit PROVE Trees' /\ Counted'
  BY <1>0, <1>5 DEF Trees, IsTree, Counted, Commit
<1>6. ASSUME NEW t \in Pulled \cup {head}, Checkout(t) PROVE Trees' /\ Counted'
  <2>1. IsTree(t)
    BY ConstantsAssumption DEF Trees
  <2>2. IsTree(WrittenTree(t))
    BY <2>1, WrittenTyped DEF IsTree, WrittenTree
  <2> QED
    BY <1>6, <2>1, <2>2 DEF Trees, IsTree, Counted, Checkout
<1>7. CASE UNCHANGED vars
  BY <1>7 DEF vars, Trees, IsTree, Counted
<1> QED
  BY <1>1, <1>2, <1>3, <1>4, <1>5, <1>6, <1>7 DEF Next

LEMMA TypedInvariant == Spec => [](IInv /\ Trees /\ Counted)
<1>1. Init => Trees /\ Counted
  <2> SUFFICES ASSUME Init PROVE Trees /\ Counted
    OBVIOUS
  <2>1. IsTree(head)
    BY ConstantsAssumption DEF Init
  <2>2. IsTree(WrittenTree(head))
    BY <2>1, WrittenTyped DEF IsTree, WrittenTree
  <2> QED
    BY <2>1, <2>2, ConstantsAssumption DEF Init, Trees, Counted
<1> QED
  BY <1>1, TreesKept, InductiveInvariant, PTL DEF Spec

\* Every variable keeps its type, and whatever is staged or committed reads on
\* every platform, for chains of any length and any depth of following them
\* (mv_git_project, ispec_expand).
THEOREM TypeCorrect == Spec => []TypeOK
<1>1. IInv /\ Trees /\ Counted => TypeOK
  BY DEF IInv, Readable, Trees, Counted, TypeOK
<1> QED
  BY <1>1, TypedInvariant, PTL

-----------------------------------------------------------------------------
(* What a column means, here and on MVX                                    *)

Steps  == FileNames \X Attrs
Places == [path : {s \in Seq(Steps) : s # <<>>}, hop : Calls]

\* MVX goes on from c.
Goes(tree, c) ==
    /\ Has(tree, c.hop.file, c.hop.get)
    /\ tree[<<c.hop.file, c.hop.get>>].type = "I"
    /\ Canonical(tree[<<c.hop.file, c.hop.get>>].spec)

\* Nothing is read at a hop whose target is an I item.
LEMMA ReadsNothing ==
    ASSUME NEW tree, IsTree(tree), NEW hop \in Calls,
           Has(tree, hop.file, hop.get), tree[<<hop.file, hop.get>>].type = "I"
    PROVE  ~IsNum(hop.get) /\ Reads(tree, hop.file, hop.get) = Nothing
<1>1. <<hop.file, hop.get>> \in Items
  BY DEF Has, IsTree
<1>2. ~IsNum(hop.get)
  BY <1>1, ConstantsAssumption DEF IsNum
<1> QED
  BY <1>2 DEF Reads, Numbered

\* One step on MVX: the path grows by the key of the item that was led to.
LEMMA FollowedTyped ==
    ASSUME NEW tree, IsTree(tree), NEW c \in Places
    PROVE  /\ ~Goes(tree, c) => Followed(tree, c) = c
           /\ Goes(tree, c) =>
                 LET link == tree[<<c.hop.file, c.hop.get>>].spec
                 IN /\ link.start \in Attrs /\ IsTrans(link) /\ ~Nested(link)
                    /\ Outer(link) \in Calls
                    /\ Followed(tree, c).path = Append(c.path, <<c.hop.file, link.start>>)
                    /\ Followed(tree, c).hop = Outer(link)
           /\ Followed(tree, c) \in Places
           /\ Len(c.path) <= Len(Followed(tree, c).path)
           /\ \A i \in 1..Len(c.path) : Followed(tree, c).path[i] = c.path[i]
<1> DEFINE link == tree[<<c.hop.file, c.hop.get>>].spec
           next == [path |-> Append(c.path, <<c.hop.file, link.start>>), hop |-> Outer(link)]
<1>0. /\ c.path \in Seq(Steps) /\ c.path # <<>> /\ c.hop \in Calls /\ Len(c.path) \in Nat
      /\ c.hop.file \in FileNames
  BY DEF Places, Calls
<1>1. CASE ~Goes(tree, c)
  <2>1. Followed(tree, c) = c
    BY <1>1 DEF Followed, Goes
  <2> QED
    BY <1>0, <1>1, <2>1
<1>2. CASE Goes(tree, c)
  <2>1. /\ tree[<<c.hop.file, c.hop.get>>] \in ItemRecords
        /\ tree[<<c.hop.file, c.hop.get>>].type = "I"
    BY <1>2 DEF Goes, Has, IsTree
  <2>2. link.start \in Attrs /\ IsTrans(link) /\ ~Nested(link)
    BY <1>2 DEF Goes, Canonical, Single, IsNum
  <2>3. link.hops \in Seq(Calls) /\ link.hops # <<>>
    BY <2>1, <2>2, ItemTyped DEF IsTrans
  <2>4. Outer(link) \in Calls
    BY <2>3 DEF Outer, Links
  <2>5. Followed(tree, c) = next
    BY <1>2 DEF Followed, Goes
  <2> HIDE DEF link
  <2>6. next.path \in Seq(Steps) /\ Len(next.path) = Len(c.path) + 1
        /\ \A i \in 1..Len(c.path) : next.path[i] = c.path[i]
    <3>1. <<c.hop.file, link.start>> \in Steps
      BY <1>0, <2>2 DEF Steps
    <3> QED
      BY <1>0, <3>1
  <2>7. next \in Places
    BY <1>0, <2>4, <2>6 DEF Places
  <2> QED
    BY <1>0, <1>2, <2>2, <2>4, <2>5, <2>6, <2>7 DEF link
<1> QED
  BY <1>1, <1>2

\* The chain h that is written and the place c where MVX is: side by side; or the
\* native chain has stopped at a key without a name, where it reads nothing; or
\* MVX has stopped where it reads nothing.
Beside(tree, h, c) ==
    /\ Len(c.path) = Len(h) /\ c.hop = h[Len(h)]
    /\ \A i \in 1..(Len(h) - 1) :
          <<h[i].file, Reads(tree, h[i].file, h[i].get)>> = c.path[i + 1]

FlatStopped(tree, h, c) ==
    /\ ~ChainsOn(tree, h[Len(h)])
    /\ Reads(tree, h[Len(h)].file, h[Len(h)].get) = Nothing
    /\ \E i \in 1..Len(c.path) : ~Nameable(tree, c.path[i][1], c.path[i][2])

MVXStopped(tree, c) ==
    ~Goes(tree, c) /\ Reads(tree, c.hop.file, c.hop.get) = Nothing

Related(tree, h, c) ==
    Beside(tree, h, c) \/ FlatStopped(tree, h, c) \/ MVXStopped(tree, c)

\* Where every column of the tree has the form of MVX, MVX goes on wherever the
\* native chain does.
AllOpen(tree)      == \A q \in TransItems(tree) : Canonical(tree[q].spec)
InPace(tree, h, c) == Beside(tree, h, c) \/ FlatStopped(tree, h, c)

LEMMA OneMore ==
    ASSUME NEW S, NEW s \in Seq(S), NEW x \in S
    PROVE  /\ s \o <<x>> \in Seq(S) /\ Len(s \o <<x>>) = Len(s) + 1
           /\ (s \o <<x>>)[Len(s) + 1] = x
           /\ \A i \in 1..Len(s) : (s \o <<x>>)[i] = s[i]
OBVIOUS

LEMMA PairOf ==
    ASSUME NEW x, NEW y
    PROVE  Append(<<x>>, y) = <<x, y>>
<1> DEFINE S == {x, y}
           z == Append(<<x>>, y)
<1>1. <<x>> \in Seq(S) /\ Len(<<x>>) = 1 /\ <<x>>[1] = x /\ y \in S
  OBVIOUS
<1> HIDE DEF S
<1>2. z \in Seq(S) /\ Len(z) = 2 /\ z[1] = x /\ z[2] = y
  BY <1>1
<1> HIDE DEF z
<1>3. DOMAIN z = 1..2 /\ z = [i \in 1..2 |-> z[i]]
  BY <1>2
<1>4. z = [i \in 1..2 |-> IF i = 1 THEN x ELSE y]
  BY <1>2, <1>3
<1>5. <<x, y>> = [i \in 1..2 |-> IF i = 1 THEN x ELSE y]
  OBVIOUS
<1> QED
  BY <1>4, <1>5 DEF z

LEMMA StepTogether ==
    ASSUME NEW tree, IsTree(tree), NEW h \in Chain, NEW c \in Places, Related(tree, h, c)
    PROVE  /\ Related(tree, Chained(tree, h), Followed(tree, c))
           /\ AllOpen(tree) /\ InPace(tree, h, c) =>
                 InPace(tree, Chained(tree, h), Followed(tree, c))
<1> DEFINE n    == Len(h)
           last == h[n]
           link == tree[<<last.file, last.get>>].spec
           h2   == Chained(tree, h)
           c2   == Followed(tree, c)
<1>0. n \in Nat \ {0} /\ last \in Calls /\ h \in Seq(Calls)
  BY DEF Chain
<1>1. CASE MVXStopped(tree, c) /\ ~InPace(tree, h, c)
  BY <1>1, FollowedTyped DEF MVXStopped, Related, InPace
<1>2. CASE FlatStopped(tree, h, c)
  <2>1. h2 = h
    BY <1>2 DEF FlatStopped, Chained
  <2>2. PICK i \in 1..Len(c.path) : ~Nameable(tree, c.path[i][1], c.path[i][2])
    BY <1>2 DEF FlatStopped
  <2>3. i \in 1..Len(c2.path) /\ c2.path[i] = c.path[i]
    <3>1. /\ c2 \in Places /\ Len(c.path) <= Len(c2.path)
          /\ \A j \in 1..Len(c.path) : c2.path[j] = c.path[j]
      BY FollowedTyped
    <3> HIDE DEF c2
    <3>2. Len(c.path) \in Nat /\ Len(c2.path) \in Nat
      BY <3>1 DEF Places
    <3> QED
      BY <3>1, <3>2
  <2> HIDE DEF h2, c2
  <2>4. FlatStopped(tree, h2, c2)
    BY <1>2, <2>1, <2>2, <2>3 DEF FlatStopped
  <2> QED
    BY <2>4 DEF Related, InPace, h2, c2
<1>3. CASE Beside(tree, h, c) /\ Goes(tree, c)
  <2>0. /\ Len(c.path) = n /\ c.hop = last /\ c.path \in Seq(Steps)
        /\ \A i \in 1..(n - 1) :
              <<h[i].file, Reads(tree, h[i].file, h[i].get)>> = c.path[i + 1]
    BY <1>3 DEF Beside, Places
  <2>1. /\ Has(tree, last.file, last.get) /\ tree[<<last.file, last.get>>].type = "I"
        /\ ~IsNum(last.get) /\ Reads(tree, last.file, last.get) = Nothing
    BY <1>0, <1>3, <2>0, ReadsNothing DEF Goes
  <2>2. /\ link.start \in Attrs /\ IsTrans(link) /\ ~Nested(link) /\ Outer(link) \in Calls
        /\ c2.path = Append(c.path, <<last.file, link.start>>) /\ c2.hop = Outer(link)
    BY <1>3, <2>0, FollowedTyped
  <2>3. ChainsOn(tree, last) <=> Nameable(tree, last.file, link.start)
    BY <2>1, <2>2 DEF ChainsOn
  <2>4. last.file \in FileNames /\ <<last.file, link.start>> \in Steps
    BY <1>0, <2>2 DEF Calls, Steps
  <2>5. CASE Nameable(tree, last.file, link.start)
    <3> DEFINE key == KeyName(tree, last.file, link.start)
               cut == [h EXCEPT ![n].get = key]
    <3>1. h2 = cut \o <<Outer(link)>>
      BY <2>2, <2>3, <2>5 DEF Chained
    <3>2. /\ key \in Names /\ ~IsNum(key) /\ Has(tree, last.file, key)
          /\ tree[<<last.file, key>>].type = "D" /\ tree[<<last.file, key>>].loc = link.start
      BY <2>2, <2>5, NamesIt DEF IsNum
    <3>3. Reads(tree, last.file, key) = link.start
      BY <3>2 DEF Reads, Numbered
    <3> HIDE DEF key, link, h2, c2
    <3>4. [last EXCEPT !.get = key] \in Calls /\ [last EXCEPT !.get = key].file = last.file
          /\ [last EXCEPT !.get = key].get = key
      BY <1>0, <3>2 DEF Calls, Keys
    <3>5. /\ cut \in Seq(Calls) /\ Len(cut) = n
          /\ cut[n] = [last EXCEPT !.get = key]
          /\ \A i \in 1..(n - 1) : cut[i] = h[i]
      BY <1>0, <3>4
    <3> HIDE DEF cut
    <3>6. /\ Len(h2) = n + 1 /\ h2[n + 1] = Outer(link)
          /\ \A i \in 1..n : h2[i] = cut[i]
      BY <1>0, <2>2, <3>1, <3>5, OneMore
    <3>7. /\ Len(c2.path) = n + 1 /\ c2.path[n + 1] = <<last.file, link.start>>
          /\ \A i \in 1..n : c2.path[i] = c.path[i]
      BY <2>0, <2>2, <2>4
    <3>8. ASSUME NEW i \in 1..n
          PROVE  <<h2[i].file, Reads(tree, h2[i].file, h2[i].get)>> = c2.path[i + 1]
      <4>1. CASE i = n
        <5>1. h2[n] = [last EXCEPT !.get = key]
          BY <1>0, <3>5, <3>6
        <5>2. h2[n].file = last.file /\ h2[n].get = key
          BY <3>4, <5>1
        <5>3. Reads(tree, h2[n].file, h2[n].get) = link.start
          BY <3>3, <5>2
        <5> QED
          BY <3>7, <4>1, <5>2, <5>3
      <4>2. CASE i # n
        <5>1. i \in 1..(n - 1) /\ i + 1 \in 1..n
          BY <1>0, <4>2
        <5> QED
          BY <2>0, <3>5, <3>6, <3>7, <5>1
      <4> QED
        BY <4>1, <4>2
    <3>9. Beside(tree, h2, c2)
      <4>1. Len(h2) - 1 = n
        BY <1>0, <3>6
      <4> QED
        BY <2>2, <3>6, <3>7, <3>8, <4>1 DEF Beside
    <3> QED
      BY <3>9 DEF Related, InPace, h2, c2
  <2>6. CASE ~Nameable(tree, last.file, link.start)
    <3>1. h2 = h
      BY <2>3, <2>6 DEF Chained
    <3> HIDE DEF h2, c2, link
    <3>2. n + 1 \in 1..Len(c2.path) /\ c2.path[n + 1] = <<last.file, link.start>>
      BY <1>0, <2>0, <2>2, <2>4
    <3>3. ~Nameable(tree, c2.path[n + 1][1], c2.path[n + 1][2])
      BY <2>6, <3>2
    <3>4. FlatStopped(tree, h2, c2)
      BY <2>1, <2>3, <2>6, <3>1, <3>2, <3>3 DEF FlatStopped
    <3> QED
      BY <3>4 DEF Related, InPace, h2, c2
  <2> QED
    BY <2>5, <2>6
<1>4. CASE Beside(tree, h, c) /\ ~Goes(tree, c)
  <2>1. c2 = c /\ c.hop = last
    BY <1>4, FollowedTyped DEF Beside
  <2>2. CASE ChainsOn(tree, last)
    <3>1. Has(tree, last.file, last.get) /\ tree[<<last.file, last.get>>].type = "I"
      BY <2>2 DEF ChainsOn
    <3>2. MVXStopped(tree, c)
      BY <1>0, <1>4, <2>1, <3>1, ReadsNothing DEF MVXStopped
    <3>3. ~AllOpen(tree)
      <4>1. <<last.file, last.get>> \in TransItems(tree)
        BY <2>2, <3>1 DEF ChainsOn, Has, TransItems
      <4> QED
        BY <1>4, <2>1, <3>1, <4>1 DEF Goes, AllOpen
    <3> QED
      BY <2>1, <3>2, <3>3 DEF Related
  <2>3. CASE ~ChainsOn(tree, last)
    <3>1. h2 = h
      BY <2>3 DEF Chained
    <3> QED
      BY <1>4, <2>1, <3>1 DEF Related, InPace
  <2> QED
    BY <2>2, <2>3
<1> QED
  BY <1>1, <1>2, <1>3, <1>4 DEF Related, InPace

\* After any number of steps the two belong together, and MVX's path starts at
\* the key.
LEMMA EndsTogether ==
    ASSUME NEW tree, IsTree(tree), NEW f \in FileNames, NEW e \in Expressions, Canonical(e)
    PROVE  /\ Flattened(tree, e.hops) \in Chain /\ ChainEnd(tree, f, e) \in Places
           /\ ChainEnd(tree, f, e).path[1] = <<f, e.start>>
           /\ Related(tree, Flattened(tree, e.hops), ChainEnd(tree, f, e))
           /\ AllOpen(tree) => InPace(tree, Flattened(tree, e.hops), ChainEnd(tree, f, e))
<1>0. /\ Depth \in Nat /\ e.hops \in Chain /\ Len(e.hops) = 1 /\ e.start \in Attrs
      /\ Outer(e) = e.hops[1] /\ e.hops[1] \in Calls
  <2>1. e.hops \in Seq(Calls) /\ e.hops # <<>> /\ Len(e.hops) = 1
    BY TypesOfItems DEF Canonical, Single, Nested, IsTrans, Links
  <2> QED
    BY <2>1, ConstantsAssumption DEF Chain, Canonical, IsNum, Outer, Links
<1>1. PICK s : /\ s[0] = e.hops /\ \A d \in 1..Depth : s[d] = Chained(tree, s[d - 1])
               /\ Flattened(tree, e.hops) = s[Depth]
  BY FlatSteps
<1>2. PICK c : /\ c[0] = [path |-> <<<<f, e.start>>>>, hop |-> Outer(e)]
               /\ \A d \in 1..Depth : c[d] = Followed(tree, c[d - 1])
               /\ ChainEnd(tree, f, e) = c[Depth]
  BY MVXSteps
<1> DEFINE Holds(d) == /\ s[d] \in Chain /\ c[d] \in Places
                       /\ c[d].path[1] = <<f, e.start>> /\ Related(tree, s[d], c[d])
                       /\ AllOpen(tree) => InPace(tree, s[d], c[d])
           S == {n \in Nat : n <= Depth => Holds(n)}
<1>3. 0 \in S
  <2>1. <<f, e.start>> \in Steps
    BY <1>0 DEF Steps
  <2>2. /\ <<<<f, e.start>>>> \in Seq(Steps) /\ <<<<f, e.start>>>> # <<>>
        /\ Len(<<<<f, e.start>>>>) = 1
    BY <2>1
  <2>3. c[0] \in Places /\ c[0].path = <<<<f, e.start>>>> /\ c[0].hop = e.hops[1]
    BY <1>0, <1>2, <2>2 DEF Places
  <2>4. Beside(tree, s[0], c[0])
    BY <1>0, <1>1, <2>2, <2>3 DEF Beside
  <2> QED
    BY <1>0, <1>1, <2>3, <2>4 DEF Related, InPace
<1>4. ASSUME NEW n \in Nat, n \in S PROVE n + 1 \in S
  <2> SUFFICES ASSUME n + 1 <= Depth PROVE Holds(n + 1)
    OBVIOUS
  <2>1. Holds(n)
    BY <1>0, <1>4
  <2>2. n + 1 \in 1..Depth /\ (n + 1) - 1 = n
    BY <1>0
  <2>3. s[n + 1] = Chained(tree, s[n]) /\ c[n + 1] = Followed(tree, c[n])
    BY <1>1, <1>2, <2>2
  <2>4. /\ s[n + 1] \in Chain /\ Related(tree, s[n + 1], c[n + 1])
        /\ AllOpen(tree) => InPace(tree, s[n + 1], c[n + 1])
    BY <2>1, <2>3, ChainedTyped, StepTogether
  <2>5. c[n + 1] \in Places /\ c[n + 1].path[1] = <<f, e.start>>
    <3>1. 1 \in 1..Len(c[n].path)
      BY <2>1 DEF Places
    <3>2. /\ Followed(tree, c[n]) \in Places
          /\ \A i \in 1..Len(c[n].path) : Followed(tree, c[n]).path[i] = c[n].path[i]
      BY <2>1, FollowedTyped
    <3>3. Followed(tree, c[n]).path[1] = c[n].path[1]
      BY <3>1, <3>2
    <3> QED
      BY <2>1, <2>3, <3>2, <3>3
  <2> QED
    BY <2>4, <2>5
<1>5. \A n \in Nat : n \in S
  <2> HIDE DEF S
  <2> QED
    BY <1>3, <1>4, Induction
<1>6. Holds(Depth)
  BY <1>0, <1>5
<1> QED
  BY <1>1, <1>2, <1>6


\* What a checkout wrote reads as HEAD does: the attribute behind a name is
\* not changed by the way to the account.
LEMMA SameReading ==
    ASSUME IInv, Trees, base = head, touched = {}, NEW f, NEW k
    PROVE  Reads(acct, f, k) = Reads(head, f, k)
<1> DEFINE q == <<f, k>>
<1>1. q \in DOMAIN acct <=> q \in DOMAIN head
  BY DEF IInv, AsWritten, Agree, WrittenTree, Trees, IsTree
<1>2. ASSUME q \in DOMAIN head
      PROVE  acct[q].type = head[q].type /\ (head[q].type # "I" => acct[q].loc = head[q].loc)
  <2>1. q \in Items /\ head[q] \in ItemRecords
    BY <1>2 DEF Trees, IsTree
  <2>2. acct[q] = Written(head, q)
    BY <1>2, <2>1 DEF IInv, AsWritten, Agree, WrittenTree
  <2>3. IsItem(head[q])
    BY <2>1, TypedShape
  <2>4. /\ Written(head, q).type = head[q].type
        /\ IsField(head[q]) => Written(head, q).loc = head[q].loc
    BY <2>3, WrittenShape
  <2>5. head[q].type # "I" => IsField(head[q])
    BY <2>3 DEF IsItem, IsColumn
  <2> QED
    BY <2>2, <2>4, <2>5
<1>3. Numbered(acct, f, k) <=> Numbered(head, f, k)
  BY <1>1, <1>2 DEF Numbered, Has
<1>4. Numbered(head, f, k) => acct[q].loc = head[q].loc
  BY <1>2 DEF Numbered, Has
<1> QED
  BY <1>3, <1>4 DEF Reads

\* The attributes a native expression reads, one after the other.
ReadPath(tree, f, e) ==
    <<<<f, Reads(tree, f, e.start)>>>>
        \o [i \in 1..Links(e) |->
               <<e.hops[i].file, Reads(tree, e.hops[i].file, e.hops[i].get)>>]

LEMMA ReadPathIs ==
    ASSUME NEW tree, NEW f, NEW e, e.hops \in Seq(Calls)
    PROVE  /\ Len(e.hops) \in Nat /\ DOMAIN ReadPath(tree, f, e) = 1..(Len(e.hops) + 1)
           /\ ReadPath(tree, f, e) = [i \in 1..(Len(e.hops) + 1) |-> ReadPath(tree, f, e)[i]]
           /\ ReadPath(tree, f, e)[1] = <<f, Reads(tree, f, e.start)>>
           /\ \A i \in 1..Len(e.hops) : ReadPath(tree, f, e)[i + 1] =
                 <<e.hops[i].file, Reads(tree, e.hops[i].file, e.hops[i].get)>>
<1> DEFINE n    == Len(e.hops)
           x    == <<f, Reads(tree, f, e.start)>>
           at(i) == <<e.hops[i].file, Reads(tree, e.hops[i].file, e.hops[i].get)>>
           rest == [i \in 1..n |-> at(i)]
           S    == {x} \cup {at(i) : i \in 1..n}
<1>1. n \in Nat /\ ReadPath(tree, f, e) = <<x>> \o rest
  BY DEF ReadPath, Links
<1> HIDE DEF x, at
<1>2. rest \in Seq(S) /\ Len(rest) = n /\ \A i \in 1..n : rest[i] = at(i)
  BY <1>1
<1>3. x \in S
  OBVIOUS
<1> HIDE DEF n, rest, S
<1>4. /\ <<x>> \o rest \in Seq(S) /\ Len(<<x>> \o rest) = n + 1
      /\ (<<x>> \o rest)[1] = x
      /\ \A i \in 1..n : (<<x>> \o rest)[i + 1] = rest[i]
  BY <1>1, <1>2, <1>3
<1>5. /\ DOMAIN (<<x>> \o rest) = 1..(n + 1)
      /\ <<x>> \o rest = [i \in 1..(n + 1) |-> (<<x>> \o rest)[i]]
  BY <1>1, <1>4
<1> QED
  BY <1>1, <1>2, <1>4, <1>5 DEF x, at, n

\* What MVX reads, when it reads something.
LEMMA MVXReads ==
    ASSUME NEW tree, NEW f, NEW e, ChainEnd(tree, f, e) \in Places,
           CanonMeaning(tree, f, e) # Nothing
    PROVE  LET there == CanonMeaning(tree, f, e)
               c     == ChainEnd(tree, f, e)
               a     == Reads(tree, c.hop.file, c.hop.get)
               m     == Len(c.path)
           IN /\ a # Nothing /\ m \in Nat /\ m >= 1 /\ Len(there) = m + 1
              /\ there = [i \in 1..(m + 1) |-> there[i]]
              /\ \A i \in 1..m : there[i] = c.path[i]
              /\ there[m + 1] = <<c.hop.file, a>>
<1> DEFINE c == ChainEnd(tree, f, e)
           a == Reads(tree, c.hop.file, c.hop.get)
           m == Len(c.path)
           S == Steps \cup {<<c.hop.file, a>>}
<1>1. a # Nothing /\ CanonMeaning(tree, f, e) = Append(c.path, <<c.hop.file, a>>)
  BY DEF CanonMeaning
<1>2. c.path \in Seq(S) /\ m \in Nat /\ m >= 1
  <2>1. c.path \in Seq(Steps) /\ c.path # <<>>
    BY DEF Places
  <2> QED
    BY <2>1
<1>3. <<c.hop.file, a>> \in S
  OBVIOUS
<1> HIDE DEF c, a, S
<1>4. /\ Append(c.path, <<c.hop.file, a>>) \in Seq(S)
      /\ Len(Append(c.path, <<c.hop.file, a>>)) = m + 1
      /\ \A i \in 1..m : Append(c.path, <<c.hop.file, a>>)[i] = c.path[i]
      /\ Append(c.path, <<c.hop.file, a>>)[m + 1] = <<c.hop.file, a>>
  BY <1>2, <1>3
<1>5. Append(c.path, <<c.hop.file, a>>)
         = [i \in 1..(m + 1) |-> Append(c.path, <<c.hop.file, a>>)[i]]
  BY <1>2, <1>4
<1> QED
  BY <1>1, <1>2, <1>4, <1>5 DEF c, a

\* A column in the form of MVX that the platform has a spelling for.
LEMMA SpelledMeans ==
    ASSUME IInv, Trees, base = head, touched = {},
           NEW f \in FileNames, NEW e \in Expressions, Canonical(e), HasNative(head, f, e),
           CanonMeaning(head, f, e) # Nothing
    PROVE  LET there == CanonMeaning(head, f, e)
               here  == NativeMeaning(acct, f, ToNative(head, f, e))
           IN \/ here = there
              \/ /\ here = Nothing
                 /\ \E i \in 1..(Len(there) - 1) : ~Nameable(head, there[i][1], there[i][2])
<1> DEFINE there == CanonMeaning(head, f, e)
           x     == ToNative(head, f, e)
           here  == NativeMeaning(acct, f, x)
           path  == ReadPath(acct, f, x)
           h     == Flattened(head, e.hops)
           n     == Len(h)
           c     == ChainEnd(head, f, e)
           a     == Reads(head, c.hop.file, c.hop.get)
           m     == Len(c.path)
<1>1. /\ h \in Chain /\ c \in Places /\ c.path[1] = <<f, e.start>> /\ Related(head, h, c)
  BY EndsTogether DEF Trees
<1>2. /\ a # Nothing /\ m \in Nat /\ m >= 1 /\ Len(there) = m + 1
      /\ there = [i \in 1..(m + 1) |-> there[i]]
      /\ \A i \in 1..m : there[i] = c.path[i]
      /\ there[m + 1] = <<c.hop.file, a>>
  BY <1>1, MVXReads
<1>3. IsNum(e.start) /\ ~Nested(e) /\ Nameable(head, f, e.start)
  BY DEF Canonical, Single, HasNative
<1>4. x.start = KeyName(head, f, e.start) /\ x.hops = h
  BY <1>3 DEF ToNative
<1>5. ~IsNum(x.start) /\ Reads(head, f, x.start) = e.start
  BY <1>3, <1>4, NamesIt DEF Reads, Numbered
<1>6. /\ n \in Nat /\ n >= 1 /\ h \in Seq(Calls)
  BY <1>1 DEF Chain
<1> HIDE DEF h, c, x, m
<1>7. /\ DOMAIN path = 1..(n + 1) /\ path = [i \in 1..(n + 1) |-> path[i]]
      /\ path[1] = <<f, e.start>>
      /\ \A i \in 1..n : path[i + 1] = <<h[i].file, Reads(head, h[i].file, h[i].get)>>
  <2>1. /\ DOMAIN path = 1..(n + 1) /\ path = [i \in 1..(n + 1) |-> path[i]]
        /\ path[1] = <<f, Reads(acct, f, x.start)>>
        /\ \A i \in 1..n : path[i + 1] = <<h[i].file, Reads(acct, h[i].file, h[i].get)>>
    <3>1. x.hops \in Seq(Calls)
      BY <1>4, <1>6
    <3> QED
      BY <1>4, <3>1, ReadPathIs
  <2>2. \A g, k : Reads(acct, g, k) = Reads(head, g, k)
    BY SameReading
  <2> QED
    BY <1>5, <2>1, <2>2
<1>8. here = IF \E i \in DOMAIN path : path[i][2] = Nothing THEN Nothing ELSE path
  BY <1>5 DEF NativeMeaning, ReadPath
<1> HIDE DEF path, here, there
<1>12. there = [i \in 1..(m + 1) |-> there[i]]
  BY <1>2
<1>13. /\ Len(there) = m + 1 /\ there[m + 1] = <<c.hop.file, a>>
       /\ \A i \in 1..m : there[i] = c.path[i]
  BY <1>2
<1>9. CASE Beside(head, h, c)
  <2>1. /\ m = n /\ c.hop = h[n]
        /\ \A i \in 1..(n - 1) :
              <<h[i].file, Reads(head, h[i].file, h[i].get)>> = c.path[i + 1]
    BY <1>9 DEF Beside, m
  <2>2. \A i \in 1..(n + 1) : path[i] = there[i]
    <3> SUFFICES ASSUME NEW i \in 1..(n + 1) PROVE path[i] = there[i]
      OBVIOUS
    <3>1. CASE i = 1
      <4>1. there[1] = c.path[1]
        BY <1>6, <1>13, <2>1
      <4> QED
        BY <1>1, <1>7, <3>1, <4>1
    <3>2. CASE i = n + 1
      <4>1. n \in 1..n
        BY <1>6
      <4>2. path[n + 1] = <<h[n].file, Reads(head, h[n].file, h[n].get)>>
        BY <1>7, <4>1
      <4> QED
        BY <1>2, <2>1, <3>2, <4>2
    <3>3. CASE i # 1 /\ i # n + 1
      <4>1. i - 1 \in 1..(n - 1) /\ i - 1 \in 1..n /\ (i - 1) + 1 = i /\ i \in 1..m
        BY <1>6, <2>1, <3>3
      <4>2. path[i] = <<h[i - 1].file, Reads(head, h[i - 1].file, h[i - 1].get)>>
        BY <1>7, <4>1
      <4>3. c.path[i] = <<h[i - 1].file, Reads(head, h[i - 1].file, h[i - 1].get)>>
        BY <2>1, <4>1
      <4> QED
        BY <1>2, <4>1, <4>2, <4>3
    <3> QED
      BY <3>1, <3>2, <3>3
  <2>3. path = there
    BY <1>12, <1>7, <2>1, <2>2
  <2>4. \A i \in DOMAIN path : path[i][2] # Nothing
    <3> SUFFICES ASSUME NEW i \in 1..(n + 1) PROVE there[i][2] # Nothing
      BY <1>7, <2>3
    <3>1. CASE i = n + 1
      BY <1>2, <2>1, <3>1
    <3>2. CASE i # n + 1
      <4>1. i \in 1..m /\ there[i] = c.path[i]
        BY <1>13, <1>6, <2>1, <3>2
      <4>2. c.path[i] \in Steps
        BY <1>1, <4>1 DEF Places, m
      <4> QED
        BY <4>1, <4>2, ConstantsAssumption DEF Steps
    <3> QED
      BY <3>1, <3>2
  <2>5. here = there
    BY <1>8, <2>3, <2>4
  <2> QED
    BY <2>5 DEF here, there, x
<1>10. CASE FlatStopped(head, h, c)
  <2>1. Reads(head, h[n].file, h[n].get) = Nothing
    BY <1>10 DEF FlatStopped
  <2>2. n \in 1..n /\ n + 1 \in DOMAIN path
    BY <1>6, <1>7
  <2>3. path[n + 1] = <<h[n].file, Nothing>>
    BY <1>7, <2>1, <2>2
  <2>4. here = Nothing
    BY <1>8, <2>2, <2>3
  <2>5. PICK i \in 1..m : ~Nameable(head, c.path[i][1], c.path[i][2])
    BY <1>10 DEF FlatStopped, m
  <2>6. Len(there) - 1 = m /\ there[i] = c.path[i]
    <3>1. m \in Nat
      BY <1>2
    <3> QED
      BY <1>13, <2>5, <3>1
  <2>7. ~Nameable(head, there[i][1], there[i][2]) /\ i \in 1..(Len(there) - 1)
    BY <2>5, <2>6
  <2> QED
    BY <2>4, <2>7 DEF here, there, x
<1>11. CASE MVXStopped(head, c)
  BY <1>2, <1>11 DEF MVXStopped
<1> QED
  BY <1>1, <1>9, <1>10, <1>11 DEF Related

\* And one it has none for: it stays as it is, and reads nothing here.
LEMMA UnspelledMeans ==
    ASSUME IInv, Trees, NEW f \in FileNames, NEW e \in Expressions,
           Canonical(e), ~HasNative(head, f, e), CanonMeaning(head, f, e) # Nothing
    PROVE  LET there == CanonMeaning(head, f, e)
           IN /\ NativeMeaning(acct, f, e) = Nothing
              /\ \E i \in 1..(Len(there) - 1) : ~Nameable(head, there[i][1], there[i][2])
<1> DEFINE there == CanonMeaning(head, f, e)
           c     == ChainEnd(head, f, e)
           m     == Len(c.path)
<1>1. IsNum(e.start) /\ ~Nameable(head, f, e.start)
  BY DEF Canonical, Single, HasNative
<1>2. NativeMeaning(acct, f, e) = Nothing
  BY <1>1 DEF NativeMeaning
<1>3. c \in Places /\ c.path[1] = <<f, e.start>>
  BY EndsTogether DEF Trees
<1>4. /\ m \in Nat /\ m >= 1 /\ Len(there) = m + 1
      /\ \A i \in 1..m : there[i] = c.path[i]
  BY <1>3, MVXReads
<1> HIDE DEF c, there
<1>5. 1 \in 1..(Len(there) - 1) /\ there[1] = <<f, e.start>>
  BY <1>3, <1>4
<1>6. ~Nameable(head, there[1][1], there[1][2])
  BY <1>1, <1>5
<1> QED
  BY <1>2, <1>5, <1>6 DEF there

\* A column that comes in with a checkout reads here what it reads on MVX, or
\* nothing where a key of its chain has no name: for chains of any length, over
\* dictionaries of any size, also where they go round (ispec_to_udt,
\* ispec_expand).
THEOREM ColumnsKeepMeaning == Spec => []ColumnsMean
<1>1. ASSUME IInv, Trees, base = head, touched = {}, NEW p \in TransItems(head),
             Canonical(head[p].spec), CanonMeaning(head, p[1], head[p].spec) # Nothing
      PROVE  LET there == CanonMeaning(head, p[1], head[p].spec)
                 here  == NativeMeaning(acct, p[1], acct[p].spec)
             IN \/ here = there
                \/ /\ here = Nothing
                   /\ \E i \in 1..(Len(there) - 1) :
                         ~Nameable(head, there[i][1], there[i][2])
  <2>1. p \in DOMAIN head /\ p \in Items /\ head[p] \in ItemRecords /\ head[p].type = "I"
    BY <1>1 DEF TransItems, Trees, IsTree
  <2>2. p[1] \in FileNames /\ head[p].spec \in Expressions
    BY <2>1, ItemTyped, TypesOfItems DEF FileNames
  <2>3. IsItem(head[p]) /\ IsColumn(head[p])
    BY <2>1, TypedShape DEF IsItem, IsField
  <2>4. acct[p] = Written(head, p)
    BY <1>1, <2>1 DEF IInv, AsWritten, Agree, WrittenTree
  <2>5. acct[p].spec = IF HasNative(head, p[1], head[p].spec)
                       THEN ToNative(head, p[1], head[p].spec) ELSE head[p].spec
    BY <2>3, <2>4, WrittenShape
  <2>6. CASE HasNative(head, p[1], head[p].spec)
    BY <1>1, <2>2, <2>5, <2>6, SpelledMeans
  <2>7. CASE ~HasNative(head, p[1], head[p].spec)
    BY <1>1, <2>2, <2>5, <2>7, UnspelledMeans
  <2> QED
    BY <2>6, <2>7
<1>2. IInv /\ Trees => ColumnsMean
  BY <1>1 DEF ColumnsMean
<1> QED
  BY <1>2, TypedInvariant, PTL


-----------------------------------------------------------------------------
(* What is staged means                                                    *)

\* Names: what describes an attribute, an item nobody touched is the same in
\* the index, in HEAD and in the tree the account was written from.
SameNamed(t, u, q) ==
    /\ q \in DOMAIN t <=> q \in DOMAIN u
    /\ q \in DOMAIN t => /\ t[q].type = u[q].type
                         /\ t[q].type # "I" => t[q].loc = u[q].loc

\* Columns: the expression of one.
SameSpelled(t, u, q) ==
    (q \in DOMAIN t /\ t[q].type = "I") => t[q].spec = u[q].spec

\* A column in git whose key is a name that HEAD has was committed so.
KeyIsOld(t, p) ==
    (/\ p \in DOMAIN t /\ t[p].type = "I" /\ Single(t[p].spec)
     /\ ~IsNum(t[p].spec.start) /\ <<p[1], t[p].spec.start>> # p
     /\ Numbered(base, p[1], t[p].spec.start))
    => p \in DOMAIN base /\ base[p].type = "I" /\ t[p].spec = base[p].spec

Named   == \A q \in Items \ touched : SameNamed(index, base, q) /\ SameNamed(head, base, q)
Spelled == base = head => \A q \in Items \ touched : SameSpelled(index, head, q)
Old     == \A p \in Items : touched \subseteq {p} => KeyIsOld(index, p) /\ KeyIsOld(head, p)

Meant == Named /\ Spelled /\ Old

\* What add stages for a field has its attribute.
LEMMA StagedField ==
    ASSUME NEW p \in DOMAIN acct, Shapes
    PROVE  /\ Staged(p).type = acct[p].type
           /\ acct[p].type # "I" => Staged(p).loc = acct[p].loc
<1>1. IsItem(acct[p])
  BY DEF Shapes, Shaped
<1>2. CASE IsField(acct[p])
  <2>1. Projected(acct[p]).type = acct[p].type /\ Projected(acct[p]).loc = acct[p].loc
    BY <1>2 DEF Projected, Swap, Swaps, IsField
  <2>2. Staged(p) = Projected(acct[p])
    BY <1>2, StagedColumn DEF IsField
  <2> QED
    BY <2>1, <2>2
<1>3. CASE IsColumn(acct[p])
  BY <1>3, StagedColumn DEF IsColumn
<1> QED
  BY <1>1, <1>2, <1>3 DEF IsItem

\* What add stages for an item nobody touched has its name.
LEMMA StagedNamed ==
    ASSUME IInv, NEW q \in Items \ touched
    PROVE  /\ q \in DOMAIN acct <=> q \in DOMAIN base
           /\ q \in DOMAIN acct =>
                 /\ Staged(q).type = base[q].type
                 /\ base[q].type # "I" => Staged(q).loc = base[q].loc
<1>1. Agree(acct, WrittenTree(base), q) /\ Shapes
  BY DEF IInv, AsWritten
<1>2. q \in DOMAIN acct <=> q \in DOMAIN base
  BY <1>1 DEF Agree, WrittenTree
<1>3. ASSUME q \in DOMAIN acct
      PROVE  /\ Staged(q).type = base[q].type
             /\ base[q].type # "I" => Staged(q).loc = base[q].loc
  <2>1. acct[q] = Written(base, q) /\ IsItem(base[q])
    BY <1>1, <1>2, <1>3 DEF Agree, WrittenTree, Shapes, Shaped
  <2>2. /\ acct[q].type = base[q].type
        /\ IsField(base[q]) => acct[q].loc = base[q].loc
    BY <2>1, WrittenShape
  <2>3. base[q].type # "I" => IsField(base[q])
    BY <2>1 DEF IsItem, IsColumn
  <2> QED
    BY <1>1, <1>3, <2>2, <2>3, StagedField
<1> QED
  BY <1>2, <1>3

\* And its expression, while HEAD is what the account was written from.
LEMMA StagedSpelled ==
    ASSUME IInv, Meant, base = head, NEW q \in Items \ touched,
           q \in DOMAIN acct, Staged(q).type = "I"
    PROVE  q \in DOMAIN head /\ head[q].type = "I" /\ Staged(q).spec = head[q].spec
<1>1. Shapes /\ Readable /\ Agree(acct, WrittenTree(head), q)
  BY DEF IInv, AsWritten
<1>2. q \in DOMAIN head /\ acct[q] = Written(head, q) /\ IsItem(head[q])
  BY <1>1 DEF Agree, WrittenTree, Shapes, Shaped
<1>3. head[q].type = "I" /\ IsColumn(head[q]) /\ acct[q].type = "I"
  BY <1>1, <1>2, StagedNamed, StagedField DEF IsItem, IsField
<1>4. InGit(q) /\ Was(q).type = "I" /\ Was(q).spec = head[q].spec
  <2>1. SameNamed(index, head, q) /\ SameSpelled(index, head, q)
    BY DEF Meant, Named, Spelled
  <2> QED
    BY <1>2, <1>3, <2>1 DEF SameNamed, SameSpelled, InGit, Was
<1>5. Staged(q).spec = CanonSpec(q, acct[q].spec)
  BY <1>1, <1>3, StagedColumn
<1> QED
  BY <1>1, <1>2, <1>3, <1>4, <1>5, SpecReturns

\* An item's own column is staged with a name for its key only where HEAD had
\* no number for it, or as it was committed.
LEMMA StagedOld ==
    ASSUME IInv, Trees, Meant, NEW p \in Items, p \in DOMAIN acct, touched \subseteq {p},
           Staged(p).type = "I", Single(Staged(p).spec), ~IsNum(Staged(p).spec.start),
           <<p[1], Staged(p).spec.start>> # p, Numbered(base, p[1], Staged(p).spec.start)
    PROVE  p \in DOMAIN base /\ base[p].type = "I" /\ Staged(p).spec = base[p].spec
<1> DEFINE s == acct[p].spec
           c == CanonSpec(p, s)
           k == <<p[1], c.start>>
<1>1. acct[p].type = "I" /\ Staged(p).spec = c
  BY StagedField, StagedColumn DEF IInv
<1>2. CASE StillSays(p, s)
  <2>1. InGit(p) /\ Was(p).type = "I" /\ c = Was(p).spec
    BY <1>2 DEF StillSays, CanonSpec
  <2>2. KeyIsOld(index, p) /\ KeyIsOld(head, p)
    BY DEF Meant, Old
  <2> HIDE DEF c
  <2>3. CASE p \in DOMAIN index
    BY <1>1, <2>1, <2>2, <2>3 DEF Was, KeyIsOld
  <2>4. CASE p \notin DOMAIN index
    BY <1>1, <2>1, <2>2, <2>4 DEF Was, InGit, KeyIsOld
  <2> QED
    BY <2>3, <2>4
<1>3. CASE ~StillSays(p, s) /\ HasOpen(head, p[1], s)
  <2>1. c = ToOpen(head, p[1], s)
    BY <1>3 DEF CanonSpec
  <2>2. IsExpression(s)
    BY <1>1 DEF IInv, Shapes, Shaped, IsItem, IsField, IsColumn
  <2>3. CASE IsNum(s.start)
    <3>1. c.start = s.start
      BY <2>1, <2>2, <2>3 DEF ToOpen, IsExpression
    <3> QED
      BY <1>1, <2>3, <3>1
  <2>4. CASE ~IsNum(s.start)
    <3>1. c.start = head[<<p[1], s.start>>].loc
      BY <2>1, <2>2, <2>4 DEF ToOpen, IsExpression
    <3>2. <<p[1], s.start>> \in DOMAIN head /\ head[<<p[1], s.start>>].type # "I"
      BY <1>3, <2>4 DEF HasOpen, Numbered, Has
    <3>3. head[<<p[1], s.start>>].loc \in Attrs
      BY <3>2, ItemTyped DEF Trees, IsTree
    <3> QED
      BY <1>1, <3>1, <3>3 DEF IsNum
  <2> QED
    BY <2>3, <2>4
<1>4. CASE ~StillSays(p, s) /\ ~HasOpen(head, p[1], s)
  <2>1. c = s
    BY <1>4 DEF CanonSpec
  <2>2. ~Numbered(head, p[1], c.start)
    BY <1>1, <1>4, <2>1 DEF HasOpen
  <2>3. k \in DOMAIN base /\ base[k].type # "I"
    BY <1>1 DEF Numbered, Has
  <2>4. k \in Items \ touched
    BY <1>1, <2>3 DEF IInv, Shapes, Shaped
  <2>5. SameNamed(head, base, k)
    BY <2>4 DEF Meant, Named
  <2>6. Numbered(head, p[1], c.start)
    BY <2>3, <2>5 DEF SameNamed, Numbered, Has
  <2> QED
    BY <2>2, <2>6
<1> QED
  BY <1>2, <1>3, <1>4


\* Meant is kept.
LEMMA NamedKept ==
    ASSUME IInv, Meant, [Next]_vars
    PROVE  Named'
<1>1. ASSUME NEW p \in Items, NEW r \in Authored[p], Write(p, r) PROVE Named'
  BY <1>1 DEF Meant, Named, SameNamed, Write, Edits
<1>2. ASSUME NEW p \in Items, Delete(p) PROVE Named'
  BY <1>2 DEF Meant, Named, SameNamed, Delete, Edits
<1>3. ASSUME NEW p \in Items, AddItem(p) PROVE Named'
  <2> SUFFICES ASSUME NEW q \in Items \ touched
               PROVE  SameNamed(index, base, q)' /\ SameNamed(head, base, q)'
    BY <1>3 DEF Named, AddItem
  <2>1. SameNamed(index, base, q) /\ SameNamed(head, base, q)
    BY DEF Meant, Named
  <2>2. CASE q = p
    BY <1>3, <2>1, <2>2, StagedNamed DEF SameNamed, AddItem, Put
  <2>3. CASE q # p
    BY <1>3, <2>1, <2>3 DEF SameNamed, AddItem, Put
  <2> QED
    BY <2>2, <2>3
<1>4. ASSUME NEW f \in FileNames, AddFile(f) PROVE Named'
  <2> SUFFICES ASSUME NEW q \in Items \ touched
               PROVE  SameNamed(index, base, q)' /\ SameNamed(head, base, q)'
    BY <1>4 DEF Named, AddFile
  <2>1. SameNamed(index, base, q) /\ SameNamed(head, base, q)
    BY DEF Meant, Named
  <2>2. /\ DOMAIN index' = (DOMAIN index \ Of(index, f)) \cup Of(acct, f)
        /\ q \in DOMAIN index' => index'[q] = IF q \in Of(acct, f) THEN Staged(q) ELSE index[q]
    BY <1>4 DEF AddFile
  <2>3. /\ q \in Of(acct, f) <=> q \in DOMAIN acct /\ q[1] = f
        /\ q \in Of(index, f) <=> q \in DOMAIN index /\ q[1] = f
    BY DEF Of
  <2>4. /\ q \in DOMAIN acct <=> q \in DOMAIN base
        /\ q \in DOMAIN acct => /\ Staged(q).type = base[q].type
                                /\ base[q].type # "I" => Staged(q).loc = base[q].loc
    BY StagedNamed
  <2> QED
    BY <1>4, <2>1, <2>2, <2>3, <2>4 DEF SameNamed, AddFile
<1>5. ASSUME Commit PROVE Named'
  BY <1>5 DEF Meant, Named, SameNamed, Commit
<1>6. ASSUME NEW t \in Pulled \cup {head}, Checkout(t) PROVE Named'
  BY <1>6 DEF Named, SameNamed, Checkout
<1>7. CASE UNCHANGED vars
  BY <1>7 DEF vars, Meant, Named, SameNamed
<1> QED
  BY <1>1, <1>2, <1>3, <1>4, <1>5, <1>6, <1>7 DEF Next

LEMMA SpelledKept ==
    ASSUME IInv, Meant, [Next]_vars
    PROVE  Spelled'
<1>1. ASSUME NEW p \in Items, NEW r \in Authored[p], Write(p, r) PROVE Spelled'
  BY <1>1 DEF Meant, Spelled, SameSpelled, Write, Edits
<1>2. ASSUME NEW p \in Items, Delete(p) PROVE Spelled'
  BY <1>2 DEF Meant, Spelled, SameSpelled, Delete, Edits
<1>3. ASSUME NEW p \in Items, AddItem(p) PROVE Spelled'
  <2> SUFFICES ASSUME base = head, NEW q \in Items \ touched
               PROVE  SameSpelled(index, head, q)'
    BY <1>3 DEF Spelled, AddItem
  <2>1. SameSpelled(index, head, q)
    BY DEF Meant, Spelled
  <2>2. CASE q = p
    BY <1>3, <2>1, <2>2, StagedSpelled DEF SameSpelled, AddItem, Put
  <2>3. CASE q # p
    BY <1>3, <2>1, <2>3 DEF SameSpelled, AddItem, Put
  <2> QED
    BY <2>2, <2>3
<1>4. ASSUME NEW f \in FileNames, AddFile(f) PROVE Spelled'
  <2> SUFFICES ASSUME base = head, NEW q \in Items \ touched, q \in DOMAIN index',
                      index'[q].type = "I"
               PROVE  index'[q].spec = head[q].spec
    BY <1>4 DEF Spelled, SameSpelled, AddFile
  <2>1. SameSpelled(index, head, q)
    BY DEF Meant, Spelled
  <2>2. /\ DOMAIN index' = (DOMAIN index \ Of(index, f)) \cup Of(acct, f)
        /\ index'[q] = IF q \in Of(acct, f) THEN Staged(q) ELSE index[q]
    BY <1>4 DEF AddFile
  <2>3. CASE q \in Of(acct, f)
    <3>1. q \in DOMAIN acct
      BY <2>3 DEF Of
    <3> QED
      BY <2>2, <2>3, <3>1, StagedSpelled
  <2>4. CASE q \notin Of(acct, f)
    BY <2>1, <2>2, <2>4 DEF SameSpelled
  <2> QED
    BY <2>3, <2>4
<1>5. ASSUME Commit PROVE Spelled'
  BY <1>5 DEF Spelled, SameSpelled, Commit
<1>6. ASSUME NEW t \in Pulled \cup {head}, Checkout(t) PROVE Spelled'
  BY <1>6 DEF Spelled, SameSpelled, Checkout
<1>7. CASE UNCHANGED vars
  BY <1>7 DEF vars, Meant, Spelled, SameSpelled
<1> QED
  BY <1>1, <1>2, <1>3, <1>4, <1>5, <1>6, <1>7 DEF Next

LEMMA OldKept ==
    ASSUME IInv, Trees, Meant, [Next]_vars
    PROVE  Old'
<1>1. ASSUME NEW p \in Items, NEW r \in Authored[p], Write(p, r) PROVE Old'
  BY <1>1 DEF Meant, Old, KeyIsOld, Numbered, Has, Write, Edits
<1>2. ASSUME NEW p \in Items, Delete(p) PROVE Old'
  BY <1>2 DEF Meant, Old, KeyIsOld, Numbered, Has, Delete, Edits
<1>3. ASSUME NEW p \in Items, AddItem(p) PROVE Old'
  <2> SUFFICES ASSUME NEW q \in Items, touched \subseteq {q}
               PROVE  KeyIsOld(index, q)' /\ KeyIsOld(head, q)'
    BY <1>3 DEF Old, AddItem
  <2>1. KeyIsOld(index, q) /\ KeyIsOld(head, q)
    BY DEF Meant, Old
  <2>2. CASE q = p
    <3>1. q \in DOMAIN acct /\ index'[q] = Staged(q)
      BY <1>3, <2>2 DEF AddItem, Put
    <3> QED
      BY <1>3, <2>1, <3>1, StagedOld DEF KeyIsOld, Numbered, Has, AddItem
  <2>3. CASE q # p
    BY <1>3, <2>1, <2>3 DEF KeyIsOld, Numbered, Has, AddItem, Put
  <2> QED
    BY <2>2, <2>3
<1>4. ASSUME NEW f \in FileNames, AddFile(f) PROVE Old'
  <2> SUFFICES ASSUME NEW q \in Items, touched \subseteq {q}
               PROVE  KeyIsOld(index, q)' /\ KeyIsOld(head, q)'
    BY <1>4 DEF Old, AddFile
  <2>1. KeyIsOld(index, q) /\ KeyIsOld(head, q)
    BY DEF Meant, Old
  <2>2. /\ q \in DOMAIN index' => q \in DOMAIN index \/ q \in Of(acct, f)
        /\ q \in DOMAIN index' =>
              index'[q] = IF q \in Of(acct, f) THEN Staged(q) ELSE index[q]
        /\ base' = base /\ head' = head
    BY <1>4 DEF AddFile
  <2>3. CASE q \in Of(acct, f) /\ q \in DOMAIN index'
    <3>1. q \in DOMAIN acct /\ index'[q] = Staged(q)
      BY <2>2, <2>3 DEF Of
    <3> QED
      BY <2>1, <2>2, <3>1, StagedOld DEF KeyIsOld, Numbered, Has
  <2>4. CASE q \notin Of(acct, f) \/ q \notin DOMAIN index'
    BY <2>1, <2>2, <2>4 DEF KeyIsOld, Numbered, Has
  <2> QED
    BY <2>3, <2>4
<1>5. ASSUME Commit PROVE Old'
  BY <1>5 DEF Meant, Old, KeyIsOld, Numbered, Has, Commit
<1>6. ASSUME NEW t \in Pulled \cup {head}, Checkout(t) PROVE Old'
  BY <1>6 DEF Old, KeyIsOld, Numbered, Has, Checkout
<1>7. CASE UNCHANGED vars
  BY <1>7 DEF vars, Meant, Old, KeyIsOld, Numbered, Has
<1> QED
  BY <1>1, <1>2, <1>3, <1>4, <1>5, <1>6, <1>7 DEF Next

LEMMA MeantInvariant == Spec => [](IInv /\ Trees /\ Meant)
<1>1. Init => Meant
  BY DEF Init, Meant, Named, SameNamed, Spelled, SameSpelled, Old, KeyIsOld
<1>2. IInv /\ Trees /\ Meant /\ [Next]_vars => Meant'
  <2> SUFFICES ASSUME IInv, Trees, Meant, [Next]_vars PROVE Meant'
    OBVIOUS
  <2> QED
    BY NamedKept, SpelledKept, OldKept DEF Meant
<1> QED
  BY <1>1, <1>2, TypedInvariant, PTL DEF Spec


\* Flattening never drops a call, and keeps a chain that it does not lengthen.
LEMMA FlatLonger ==
    ASSUME NEW tree, IsTree(tree), NEW h \in Chain
    PROVE  /\ Len(Flattened(tree, h)) >= Len(h)
           /\ Len(Flattened(tree, h)) = Len(h) => Flattened(tree, h) = h
<1>0. Depth \in Nat /\ Len(h) \in Nat /\ h \in Seq(Calls)
  BY ConstantsAssumption DEF Chain
<1>1. PICK s : /\ s[0] = h /\ \A d \in 1..Depth : s[d] = Chained(tree, s[d - 1])
               /\ Flattened(tree, h) = s[Depth]
  BY FlatSteps
<1> DEFINE Holds(d) == s[d] \in Chain /\ Len(s[d]) >= Len(h) /\ (Len(s[d]) = Len(h) => s[d] = h)
           S == {n \in Nat : n <= Depth => Holds(n)}
<1>2. 0 \in S
  BY <1>0, <1>1
<1>3. ASSUME NEW n \in Nat, n \in S PROVE n + 1 \in S
  <2> SUFFICES ASSUME n + 1 <= Depth PROVE Holds(n + 1)
    OBVIOUS
  <2>1. Holds(n)
    BY <1>0, <1>3
  <2>2. n + 1 \in 1..Depth /\ (n + 1) - 1 = n
    BY <1>0
  <2>3. s[n + 1] = Chained(tree, s[n])
    BY <1>1, <2>2
  <2>4. s[n + 1] \in Chain
    BY <2>1, <2>3, ChainedTyped
  <2>5. s[n + 1] = s[n] \/ Len(s[n + 1]) = Len(s[n]) + 1
    BY <2>1, <2>3, ChainedLonger
  <2>6. Len(s[n]) \in Nat /\ Len(s[n + 1]) \in Nat
    BY <2>1, <2>4 DEF Chain
  <2> QED
    BY <1>0, <2>1, <2>4, <2>5, <2>6
<1>4. \A n \in Nat : n \in S
  <2> HIDE DEF S
  <2> QED
    BY <1>2, <1>3, Induction
<1>5. Holds(Depth)
  BY <1>0, <1>4
<1> QED
  BY <1>1, <1>5

\* Two trees that agree on every column of a chain lead to the same end.
LEMMA SameEnd ==
    ASSUME NEW t, IsTree(t), NEW u, IsTree(u), NEW X, NEW f \in FileNames,
           NEW e \in Expressions, Canonical(e),
           \A q : q \notin X => /\ (q \in DOMAIN t /\ t[q].type = "I")
                                     <=> (q \in DOMAIN u /\ u[q].type = "I")
                                /\ SameSpelled(t, u, q),
           \A q \in TransItems(t) : Target(t, q) \notin X,
           <<Outer(e).file, Outer(e).get>> \notin X
    PROVE  ChainEnd(t, f, e) = ChainEnd(u, f, e)
<1>0. Depth \in Nat
  BY ConstantsAssumption
<1>1. PICK c : /\ c[0] = [path |-> <<<<f, e.start>>>>, hop |-> Outer(e)]
               /\ \A d \in 1..Depth : c[d] = Followed(t, c[d - 1])
               /\ ChainEnd(t, f, e) = c[Depth]
  BY MVXSteps
<1>2. PICK b : /\ b[0] = [path |-> <<<<f, e.start>>>>, hop |-> Outer(e)]
               /\ \A d \in 1..Depth : b[d] = Followed(u, b[d - 1])
               /\ ChainEnd(u, f, e) = b[Depth]
  BY MVXSteps
<1> DEFINE Holds(d) == c[d] = b[d] /\ <<c[d].hop.file, c[d].hop.get>> \notin X
           S == {n \in Nat : n <= Depth => Holds(n)}
<1>3. 0 \in S
  BY <1>1, <1>2
<1>4. ASSUME NEW n \in Nat, n \in S PROVE n + 1 \in S
  <2> SUFFICES ASSUME n + 1 <= Depth PROVE Holds(n + 1)
    OBVIOUS
  <2>1. Holds(n)
    BY <1>0, <1>4
  <2>2. n + 1 \in 1..Depth /\ (n + 1) - 1 = n
    BY <1>0
  <2>3. c[n + 1] = Followed(t, c[n]) /\ b[n + 1] = Followed(u, b[n])
    BY <1>1, <1>2, <2>2
  <2> DEFINE q == <<c[n].hop.file, c[n].hop.get>>
  <2>4. /\ (q \in DOMAIN t /\ t[q].type = "I") <=> (q \in DOMAIN u /\ u[q].type = "I")
        /\ (q \in DOMAIN t /\ t[q].type = "I") => t[q].spec = u[q].spec
    BY <2>1 DEF SameSpelled
  <2>5. Followed(t, c[n]) = Followed(u, c[n])
    BY <2>4 DEF Followed, Has
  <2>6. CASE q \in DOMAIN t /\ t[q].type = "I" /\ Canonical(t[q].spec)
    <3>1. Followed(t, c[n]).hop = Outer(t[q].spec)
      BY <2>6 DEF Followed, Has
    <3>2. q \in TransItems(t)
      BY <2>6 DEF TransItems, Canonical, Single
    <3>3. Target(t, q) \notin X
      BY <3>2
    <3>4. <<Outer(t[q].spec).file, Outer(t[q].spec).get>> \notin X
      BY <3>3 DEF Target
    <3> QED
      BY <2>1, <2>3, <2>5, <3>1, <3>4
  <2>7. CASE ~(q \in DOMAIN t /\ t[q].type = "I" /\ Canonical(t[q].spec))
    <3>1. Followed(t, c[n]) = c[n]
      BY <2>7 DEF Followed, Has
    <3> QED
      BY <2>1, <2>3, <2>5, <3>1
  <2> QED
    BY <2>6, <2>7
<1>5. \A n \in Nat : n \in S
  <2> HIDE DEF S
  <2> QED
    BY <1>3, <1>4, Induction
<1>6. Holds(Depth)
  BY <1>0, <1>5
<1> QED
  BY <1>1, <1>2, <1>6


\* A column whose target is no column leads no further.
LEMMA StaysThere ==
    ASSUME NEW tree, NEW f, NEW e,
           ~(Has(tree, Outer(e).file, Outer(e).get)
               /\ tree[<<Outer(e).file, Outer(e).get>>].type = "I")
    PROVE  /\ ChainEnd(tree, f, e).path = <<<<f, e.start>>>>
           /\ ChainEnd(tree, f, e).hop = Outer(e)
<1> DEFINE c0 == [path |-> <<<<f, e.start>>>>, hop |-> Outer(e)]
<1>0. Depth \in Nat
  BY ConstantsAssumption
<1>1. PICK c : /\ c[0] = c0
               /\ \A d \in 1..Depth : c[d] = Followed(tree, c[d - 1])
               /\ ChainEnd(tree, f, e) = c[Depth]
  BY MVXSteps
<1>2. Followed(tree, c0) = c0
  BY DEF Followed
<1> HIDE DEF c0
<1> DEFINE S == {n \in Nat : n <= Depth => c[n] = c0}
<1>3. 0 \in S
  BY <1>1
<1>4. ASSUME NEW n \in Nat, n \in S PROVE n + 1 \in S
  <2> SUFFICES ASSUME n + 1 <= Depth PROVE c[n + 1] = c0
    OBVIOUS
  <2>1. c[n] = c0
    BY <1>0, <1>4
  <2>2. n + 1 \in 1..Depth /\ (n + 1) - 1 = n
    BY <1>0
  <2> QED
    BY <1>1, <1>2, <2>1, <2>2
<1>5. \A n \in Nat : n \in S
  <2> HIDE DEF S
  <2> QED
    BY <1>3, <1>4, Induction
<1> QED
  BY <1>0, <1>1, <1>5 DEF c0


\* The tree that add would make of the account.
Added == [q \in DOMAIN acct |-> Staged(q)]

\* The situation of EditsMean: one column p is edited, and reads something here.
Edited(p) ==
    /\ IInv /\ Trees /\ Meant /\ base = head /\ touched = {p}
    /\ p \in TransItems(acct) /\ NativeMeaning(acct, p[1], acct[p].spec) # Nothing

LEMMA EditedTyped ==
    ASSUME NEW p, Edited(p)
    PROVE  /\ p \in Items /\ p[1] \in FileNames /\ p \in DOMAIN acct /\ acct[p].type = "I"
           /\ acct[p].spec \in Expressions /\ IsTrans(acct[p].spec)
           /\ ~IsNum(acct[p].spec.start)
           /\ p \in DOMAIN Added /\ Added[p].type = "I"
           /\ Added[p].spec = CanonSpec(p, acct[p].spec)
           /\ IsTree(Added)
<1>1. /\ p \in DOMAIN acct /\ acct[p].type = "I" /\ IsTrans(acct[p].spec)
      /\ ~IsNum(acct[p].spec.start)
  BY DEF Edited, TransItems, NativeMeaning
<1>2. p \in Items /\ acct[p] \in ItemRecords /\ DOMAIN acct \subseteq Items
  BY <1>1 DEF Edited, Trees, IsTree
<1>3. acct[p].spec \in Expressions
  BY <1>1, <1>2, ItemTyped
<1>4. Added[p] = Staged(p)
  BY <1>1 DEF Added
<1>5. Added[p].type = "I" /\ Added[p].spec = CanonSpec(p, acct[p].spec)
  BY <1>1, <1>4, StagedColumn DEF Edited, IInv
<1>6. IsTree(Added)
  BY <1>2, StagedTyped DEF Edited, IsTree, Added
<1> QED
  BY <1>1, <1>2, <1>3, <1>5, <1>6 DEF FileNames, Added

\* What can be read here reads so from what is staged, and from HEAD.
LEMMA EditedReads ==
    ASSUME NEW p, Edited(p), NEW f, NEW k
    PROVE  /\ Reads(Added, f, k) = Reads(acct, f, k)
           /\ Reads(acct, f, k) # Nothing => /\ Reads(head, f, k) = Reads(acct, f, k)
                                             /\ ~IsNum(k) => Numbered(head, f, k) /\ <<f, k>> # p
<1> DEFINE q == <<f, k>>
<1>0. Shapes /\ IInv /\ Meant /\ DOMAIN acct \subseteq Items /\ DOMAIN head \subseteq Items
  BY DEF Edited, IInv, Trees, IsTree
<1>1. q \in DOMAIN Added <=> q \in DOMAIN acct
  BY DEF Added
<1>2. q \in DOMAIN acct => /\ Added[q].type = acct[q].type
                           /\ acct[q].type # "I" => Added[q].loc = acct[q].loc
  BY <1>0, StagedField DEF Added
<1>3. Reads(Added, f, k) = Reads(acct, f, k)
  BY <1>1, <1>2 DEF Reads, Numbered, Has
<1>4. CASE IsNum(k)
  BY <1>3, <1>4 DEF Reads
<1>5. CASE ~IsNum(k) /\ Reads(acct, f, k) # Nothing
  <2>1. q \in DOMAIN acct /\ acct[q].type # "I" /\ Reads(acct, f, k) = acct[q].loc
    BY <1>5 DEF Reads, Numbered, Has
  <2>2. q # p
    BY <2>1, EditedTyped
  <2>3. q \in Items \ touched
    BY <1>0, <2>1, <2>2 DEF Edited
  <2>4. /\ q \in DOMAIN head /\ acct[q].type = head[q].type
        /\ head[q].type # "I" => Staged(q).loc = head[q].loc
    BY <1>0, <2>1, <2>3, StagedNamed, StagedField DEF Edited
  <2>5. Staged(q).loc = acct[q].loc
    BY <1>0, <2>1, StagedField
  <2>6. Numbered(head, f, k) /\ Reads(head, f, k) = acct[q].loc
    BY <1>5, <2>1, <2>4, <2>5 DEF Reads, Numbered, Has
  <2> QED
    BY <1>3, <2>1, <2>2, <2>6
<1> QED
  BY <1>3, <1>4, <1>5

\* What is staged of the other columns is what HEAD has.
LEMMA EditedOthers ==
    ASSUME NEW p, Edited(p), NEW q, q # p
    PROVE  /\ (q \in DOMAIN Added /\ Added[q].type = "I")
                 <=> (q \in DOMAIN head /\ head[q].type = "I")
           /\ SameSpelled(Added, head, q)
<1>0. /\ IInv /\ Meant /\ base = head /\ touched = {p}
      /\ DOMAIN acct \subseteq Items /\ DOMAIN head \subseteq Items
  BY DEF Edited, Trees, IsTree
<1>1. CASE q \in Items
  <2>1. q \in Items \ touched
    BY <1>0, <1>1
  <2>2. /\ q \in DOMAIN acct <=> q \in DOMAIN head
        /\ q \in DOMAIN acct => Staged(q).type = head[q].type
    BY <1>0, <2>1, StagedNamed
  <2>3. q \in DOMAIN Added <=> q \in DOMAIN acct
    BY DEF Added
  <2>4. q \in DOMAIN acct => Added[q] = Staged(q)
    BY DEF Added
  <2>5. q \in DOMAIN acct /\ Staged(q).type = "I" => Staged(q).spec = head[q].spec
    BY <1>0, <2>1, StagedSpelled
  <2> QED
    BY <2>2, <2>3, <2>4, <2>5 DEF SameSpelled
<1>2. CASE q \notin Items
  <2>1. q \notin DOMAIN Added /\ q \notin DOMAIN head
    BY <1>0, <1>2 DEF Added
  <2> QED
    BY <2>1 DEF SameSpelled
<1> QED
  BY <1>1, <1>2

\* The path that is read here.
LEMMA EditedPath ==
    ASSUME NEW p, Edited(p)
    PROVE  LET s == acct[p].spec  here == NativeMeaning(acct, p[1], s)  n == Len(s.hops)
           IN /\ n \in Nat /\ n >= 1 /\ s.hops \in Seq(Calls)
              /\ DOMAIN here = 1..(n + 1) /\ here = [i \in 1..(n + 1) |-> here[i]]
              /\ here[1] = <<p[1], Reads(acct, p[1], s.start)>>
              /\ \A i \in 1..n : here[i + 1] =
                    <<s.hops[i].file, Reads(acct, s.hops[i].file, s.hops[i].get)>>
              /\ Reads(acct, p[1], s.start) # Nothing
              /\ \A i \in 1..n : Reads(acct, s.hops[i].file, s.hops[i].get) # Nothing
<1> DEFINE s    == acct[p].spec
           n    == Len(s.hops)
           here == NativeMeaning(acct, p[1], s)
           path == ReadPath(acct, p[1], s)
<1>1. s \in Expressions /\ IsTrans(s)
  BY EditedTyped
<1>2. s.hops \in Seq(Calls) /\ n \in Nat /\ n >= 1
  <2>1. s.hops \in Seq(Calls) /\ s.hops # <<>>
    BY <1>1, TypesOfItems DEF IsTrans
  <2> QED
    BY <2>1
<1>4. here = path /\ \A i \in DOMAIN path : path[i][2] # Nothing
  BY DEF Edited, NativeMeaning, ReadPath
<1> HIDE DEF here, s
<1>7. /\ DOMAIN path = 1..(n + 1) /\ path = [i \in 1..(n + 1) |-> path[i]]
      /\ path[1] = <<p[1], Reads(acct, p[1], s.start)>>
      /\ \A i \in 1..n : path[i + 1] =
            <<s.hops[i].file, Reads(acct, s.hops[i].file, s.hops[i].get)>>
  <2> DEFINE f == p[1]
  <2> HIDE DEF f
  <2>1. /\ DOMAIN ReadPath(acct, f, s) = 1..(Len(s.hops) + 1)
        /\ ReadPath(acct, f, s) = [i \in 1..(Len(s.hops) + 1) |-> ReadPath(acct, f, s)[i]]
        /\ ReadPath(acct, f, s)[1] = <<f, Reads(acct, f, s.start)>>
        /\ \A i \in 1..Len(s.hops) : ReadPath(acct, f, s)[i + 1] =
              <<s.hops[i].file, Reads(acct, s.hops[i].file, s.hops[i].get)>>
    BY <1>2, ReadPathIs
  <2> QED
    BY <2>1 DEF f
<1> HIDE DEF path
<1>3. /\ DOMAIN path = 1..(n + 1)
      /\ path[1] = <<p[1], Reads(acct, p[1], s.start)>>
      /\ \A i \in 1..n : path[i + 1] =
            <<s.hops[i].file, Reads(acct, s.hops[i].file, s.hops[i].get)>>
  BY <1>7
<1>5. Reads(acct, p[1], s.start) # Nothing
  <2>1. 1 \in DOMAIN path
    BY <1>2, <1>3
  <2> QED
    BY <1>3, <1>4, <2>1
<1>6. ASSUME NEW i \in 1..n PROVE Reads(acct, s.hops[i].file, s.hops[i].get) # Nothing
  <2>1. i + 1 \in DOMAIN path
    BY <1>2, <1>3
  <2> QED
    BY <1>3, <1>4, <2>1
<1> QED
  BY <1>2, <1>4, <1>5, <1>6, <1>7 DEF here, s

\* An expression turned into the form of MVX: its call is the only one, and its
\* target is no column.
LEMMA TurnedMeans ==
    ASSUME NEW p, Edited(p), ~StillSays(p, acct[p].spec),
           HasOpen(head, p[1], acct[p].spec)
    PROVE  LET e == Added[p].spec
           IN /\ Canonical(e)
              /\ CanonMeaning(Added, p[1], e) = NativeMeaning(acct, p[1], acct[p].spec)
<1> DEFINE f == p[1]
           s == acct[p].spec
           e == Added[p].spec
           hop == s.hops[1]
           a == Reads(acct, hop.file, hop.get)
           here == NativeMeaning(acct, f, s)
<1>1. /\ s \in Expressions /\ ~IsNum(s.start) /\ e = CanonSpec(p, s) /\ f \in FileNames
      /\ IsTree(Added)
  BY EditedTyped
<1>2. Single(s) /\ Len(s.hops) = 1
  BY DEF HasOpen, Single, Nested, Links
<1>3. /\ s.hops \in Seq(Calls) /\ DOMAIN here = 1..2 /\ here = [i \in 1..2 |-> here[i]]
      /\ here[1] = <<f, Reads(acct, f, s.start)>> /\ Reads(acct, f, s.start) # Nothing
      /\ here[2] = <<hop.file, a>> /\ a # Nothing
  <2> DEFINE n == Len(s.hops)
  <2> HIDE DEF here
  <2>6. here = [i \in 1..(n + 1) |-> here[i]] /\ DOMAIN here = 1..(n + 1)
    BY EditedPath DEF here
  <2>1. /\ s.hops \in Seq(Calls)
        /\ here[1] = <<f, Reads(acct, f, s.start)>> /\ Reads(acct, f, s.start) # Nothing
        /\ \A i \in 1..n :
              /\ here[i + 1] = <<s.hops[i].file, Reads(acct, s.hops[i].file, s.hops[i].get)>>
              /\ Reads(acct, s.hops[i].file, s.hops[i].get) # Nothing
    BY EditedPath DEF here
  <2>2. n = 1 /\ n + 1 = 2
    BY <1>2
  <2> HIDE DEF n
  <2>3. 1 \in 1..n
    BY <2>2
  <2>4. here[1 + 1] = <<hop.file, a>> /\ a # Nothing
    BY <2>1, <2>3
  <2>5. here = [i \in 1..2 |-> here[i]] /\ DOMAIN here = 1..2
    BY <2>6, <2>2
  <2> QED
    BY <2>1, <2>4, <2>5
<1>4. e = [s EXCEPT !.start = head[<<f, s.start>>].loc, !.native = FALSE]
  BY <1>1 DEF CanonSpec, ToOpen
<1>5. /\ e.start = head[<<f, s.start>>].loc /\ e.hops = s.hops
  BY <1>1, <1>4, TypesOfItems
<1>6. /\ Numbered(head, f, s.start) /\ Reads(head, f, s.start) = Reads(acct, f, s.start)
  BY <1>1, <1>3, EditedReads
<1>7. /\ e.start = Reads(acct, f, s.start) /\ e.start \in Attrs
  <2>1. e.start = Reads(acct, f, s.start)
    BY <1>1, <1>5, <1>6 DEF Reads
  <2>2. head[<<f, s.start>>] \in ItemRecords /\ head[<<f, s.start>>].type # "I"
    BY <1>6 DEF Numbered, Has, Edited, Trees, IsTree
  <2>3. head[<<f, s.start>>].loc \in Attrs
    BY <2>2, ItemTyped
  <2> QED
    BY <1>5, <2>1, <2>3
<1>8. Canonical(e) /\ Outer(e) = hop
  BY <1>2, <1>5, <1>7 DEF Canonical, Single, Nested, IsTrans, Links, IsNum, Outer
<1>9. Reads(Added, hop.file, hop.get) = a
  BY EditedReads
<1> HIDE DEF e, s, hop
<1>10. ~(Has(Added, hop.file, hop.get) /\ Added[<<hop.file, hop.get>>].type = "I")
  <2> SUFFICES ASSUME Has(Added, hop.file, hop.get),
                      Added[<<hop.file, hop.get>>].type = "I"
               PROVE  FALSE
    OBVIOUS
  <2>1. hop \in Calls
    BY <1>2, <1>3 DEF hop
  <2>2. Reads(Added, hop.file, hop.get) = Nothing
    BY <1>1, <2>1, ReadsNothing
  <2> QED
    BY <1>3, <1>9, <2>2
<1>11. /\ ChainEnd(Added, f, e).path = <<<<f, e.start>>>>
       /\ ChainEnd(Added, f, e).hop = hop
  <2> HIDE DEF f
  <2>1. Outer(e) = hop
    BY <1>8
  <2>2. ~(Has(Added, Outer(e).file, Outer(e).get)
            /\ Added[<<Outer(e).file, Outer(e).get>>].type = "I")
    BY <1>10, <2>1
  <2>3. /\ ChainEnd(Added, f, e).path = <<<<f, e.start>>>>
        /\ ChainEnd(Added, f, e).hop = Outer(e)
    BY <2>2, StaysThere
  <2> QED
    BY <2>1, <2>3
<1>12. CanonMeaning(Added, f, e) = Append(<<<<f, e.start>>>>, <<hop.file, a>>)
  BY <1>3, <1>9, <1>11 DEF CanonMeaning
<1>13. Append(<<<<f, e.start>>>>, <<hop.file, a>>) = here
  <2>1. Append(<<<<f, e.start>>>>, <<hop.file, a>>) = <<<<f, e.start>>, <<hop.file, a>>>>
    BY PairOf
  <2> HIDE DEF a, here
  <2>2. here[1] = <<f, e.start>>
    BY <1>3, <1>7
  <2>3. here = <<<<f, e.start>>, <<hop.file, a>>>>
    BY <1>3, <2>2
  <2> QED
    BY <2>1, <2>3
<1> QED
  BY <1>8, <1>12, <1>13 DEF e, s, hop

\* git's copy, kept: it has the form of MVX.
LEMMA KeptIsOpen ==
    ASSUME NEW p, Edited(p), AllOpen(head), StillSays(p, acct[p].spec),
           Canonical(Added[p].spec) \/ ~Nested(acct[p].spec)
    PROVE  Canonical(Added[p].spec)
<1> DEFINE f == p[1]
           s == acct[p].spec
           w == Added[p].spec
           h == Flattened(head, w.hops)
<1>1. /\ p \in Items /\ s \in Expressions /\ ~IsNum(s.start) /\ w = CanonSpec(p, s)
      /\ IsTree(head) /\ base = head /\ touched = {p}
  BY EditedTyped DEF Edited, Trees
<1>2. /\ InGit(p) /\ Was(p).type = "I" /\ w = Was(p).spec /\ HasNative(head, f, w)
      /\ s = ToNative(head, f, w)
  BY <1>1 DEF StillSays, CanonSpec
<1>3. w \in Expressions
  <2>1. Was(p) \in ItemRecords
    BY <1>2 DEF InGit, Was, Edited, Trees, IsTree
  <2> QED
    BY <1>2, <2>1, ItemTyped
<1>4. IsTrans(w) /\ w.hops \in Chain
  BY <1>2, <1>3, TypesOfItems DEF HasNative, IsTrans, Chain
<1> HIDE DEF w
<1>5. s.hops = h /\ h \in Chain
  <2>1. h \in Chain
    BY <1>1, <1>4, FlatTyped
  <2> QED
    BY <1>2, <2>1 DEF ToNative
<1> SUFFICES ASSUME ~Canonical(w) PROVE FALSE
  BY DEF w
<1>6. ~Nested(s)
  BY DEF w
<1>7. Len(h) = 1
  BY <1>5, <1>6 DEF Nested, IsTrans, Links, Chain
<1>8. Len(w.hops) = 1 /\ Single(w)
  <2>1. 1 >= Len(w.hops)
    <3>1. Len(h) >= Len(w.hops)
      BY <1>1, <1>4, FlatLonger
    <3> QED
      BY <1>7, <3>1
  <2>2. Len(w.hops) \in Nat /\ Len(w.hops) >= 1
    BY <1>4 DEF Chain
  <2>3. Len(w.hops) = 1
    <3>1. PICK m \in Nat : m = Len(w.hops)
      BY <2>2
    <3>2. m >= 1 /\ 1 >= m
      BY <2>1, <2>2, <3>1
    <3>3. m = 1
      BY <3>2
    <3> QED
      BY <3>1, <3>3
  <2> QED
    BY <1>4, <2>3 DEF Single, Nested, Links
<1>9. ~IsNum(w.start) /\ s.start = w.start
  BY <1>2, <1>8 DEF Canonical, ToNative, Single, KeyName
<1>10. Numbered(head, f, w.start) /\ <<f, w.start>> # p
  <2>1. Reads(acct, f, s.start) # Nothing
    BY EditedPath
  <2> QED
    BY <1>9, <2>1, EditedReads
<1>11. KeyIsOld(index, p) /\ KeyIsOld(head, p)
  BY <1>1 DEF Edited, Meant, Old
<1>12. p \in DOMAIN head /\ head[p].type = "I" /\ w = head[p].spec
  <2>1. CASE p \in DOMAIN index
    BY <1>1, <1>2, <1>8, <1>9, <1>10, <1>11, <2>1 DEF KeyIsOld, Was
  <2>2. CASE p \notin DOMAIN index
    BY <1>2, <2>2 DEF InGit, Was
  <2> QED
    BY <2>1, <2>2
<1>13. p \in TransItems(head)
  BY <1>4, <1>12 DEF TransItems
<1> QED
  BY <1>12, <1>13 DEF AllOpen


\* And it leads where the native chain leads.
LEMMA KeptEnds ==
    ASSUME NEW p, Edited(p), StillSays(p, acct[p].spec), Canonical(Added[p].spec),
           \/ p \in DOMAIN index => p \in DOMAIN head /\ index[p] = head[p]
           \/ \A q \in TransItems(Added) : Target(Added, q) # p
    PROVE  ChainEnd(Added, p[1], Added[p].spec) = ChainEnd(head, p[1], Added[p].spec)
<1> DEFINE w == Added[p].spec
<1>1. /\ IsTree(Added) /\ IsTree(head) /\ p[1] \in FileNames /\ p \in DOMAIN Added
      /\ Added[p].type = "I" /\ Added[p] \in ItemRecords
      /\ w = CanonSpec(p, acct[p].spec)
  BY EditedTyped DEF Edited, Trees, IsTree
<1>2. InGit(p) /\ Was(p).type = "I" /\ w = Was(p).spec
  BY <1>1 DEF StillSays, CanonSpec
<1>3. w \in Expressions
  BY <1>1, ItemTyped
<1>4. \A q : q # p => /\ (q \in DOMAIN Added /\ Added[q].type = "I")
                            <=> (q \in DOMAIN head /\ head[q].type = "I")
                      /\ SameSpelled(Added, head, q)
  BY EditedOthers
<1>5. CASE p \in DOMAIN index => p \in DOMAIN head /\ index[p] = head[p]
  <2>1. p \in DOMAIN head /\ head[p].type = "I" /\ head[p].spec = w
    BY <1>2, <1>5 DEF InGit, Was
  <2>2. \A q : q \notin {} => /\ (q \in DOMAIN Added /\ Added[q].type = "I")
                                   <=> (q \in DOMAIN head /\ head[q].type = "I")
                              /\ SameSpelled(Added, head, q)
    <3> SUFFICES ASSUME NEW q
                 PROVE  /\ (q \in DOMAIN Added /\ Added[q].type = "I")
                             <=> (q \in DOMAIN head /\ head[q].type = "I")
                        /\ SameSpelled(Added, head, q)
      OBVIOUS
    <3>1. CASE q = p
      BY <1>1, <2>1, <3>1 DEF SameSpelled
    <3> QED
      BY <1>4, <3>1
  <2> HIDE DEF w
  <2>3. \A q \in TransItems(Added) : Target(Added, q) \notin {}
    OBVIOUS
  <2>4. <<Outer(w).file, Outer(w).get>> \notin {}
    OBVIOUS
  <2> QED
    BY <1>1, <1>3, <2>2, <2>3, <2>4, SameEnd DEF w
<1>6. CASE \A q \in TransItems(Added) : Target(Added, q) # p
  <2>1. p \in TransItems(Added)
    BY <1>1 DEF TransItems, Canonical, Single
  <2>2. <<Outer(w).file, Outer(w).get>> # p
    BY <1>6, <2>1 DEF Target
  <2>3. \A q : q \notin {p} => /\ (q \in DOMAIN Added /\ Added[q].type = "I")
                                   <=> (q \in DOMAIN head /\ head[q].type = "I")
                               /\ SameSpelled(Added, head, q)
    BY <1>4
  <2>4. <<Outer(w).file, Outer(w).get>> \notin {p}
    BY <2>2
  <2>5. \A q \in TransItems(Added) : Target(Added, q) \notin {p}
    BY <1>6
  <2> HIDE DEF w
  <2> QED
    BY <1>1, <1>3, <2>3, <2>4, <2>5, SameEnd DEF w
<1> QED
  BY <1>5, <1>6

LEMMA KeptMeans ==
    ASSUME NEW p, Edited(p), AllOpen(head), StillSays(p, acct[p].spec),
           Canonical(Added[p].spec),
           \/ p \in DOMAIN index => p \in DOMAIN head /\ index[p] = head[p]
           \/ \A q \in TransItems(Added) : Target(Added, q) # p
    PROVE  CanonMeaning(Added, p[1], Added[p].spec)
               = NativeMeaning(acct, p[1], acct[p].spec)
<1> DEFINE f     == p[1]
           s     == acct[p].spec
           w     == Added[p].spec
           h     == Flattened(head, w.hops)
           n     == Len(h)
           c     == ChainEnd(head, f, w)
           m     == Len(c.path)
           here  == NativeMeaning(acct, f, s)
           there == CanonMeaning(Added, f, w)
<1>1. /\ ~IsNum(s.start) /\ w = CanonSpec(p, s) /\ IsTree(head) /\ IsTree(Added)
      /\ f \in FileNames /\ p \in DOMAIN Added /\ Added[p].type = "I"
  BY EditedTyped DEF Edited, Trees
<1>2. HasNative(head, f, w) /\ s = ToNative(head, f, w)
  BY <1>1 DEF StillSays, CanonSpec
<1>3. w \in Expressions
  <2>1. Added[p] \in ItemRecords
    BY <1>1 DEF IsTree
  <2> QED
    BY <1>1, <2>1, ItemTyped
<1>4. ChainEnd(Added, f, w) = c
  BY KeptEnds
<1>5. /\ h \in Chain /\ c \in Places /\ c.path[1] = <<f, w.start>>
      /\ InPace(head, h, c)
  BY <1>1, <1>3, EndsTogether
<1>6. IsNum(w.start) /\ ~Nested(w) /\ Nameable(head, f, w.start)
  BY <1>2 DEF Canonical, Single, HasNative
<1>7. s.start = KeyName(head, f, w.start) /\ s.hops = h
  BY <1>2, <1>6 DEF ToNative
<1>8. Reads(head, f, s.start) = w.start
  BY <1>6, <1>7, NamesIt DEF Reads, Numbered
<1>9. n \in Nat /\ n >= 1
  BY <1>5 DEF Chain
<1> HIDE DEF w, c, h, s
<1>10. /\ DOMAIN here = 1..(n + 1) /\ here = [i \in 1..(n + 1) |-> here[i]]
       /\ here[1] = <<f, Reads(acct, f, s.start)>>
       /\ \A i \in 1..n : here[i + 1] =
             <<h[i].file, Reads(acct, h[i].file, h[i].get)>>
       /\ Reads(acct, f, s.start) # Nothing
       /\ \A i \in 1..n : Reads(acct, h[i].file, h[i].get) # Nothing
  BY <1>7, EditedPath DEF s
<1> HIDE DEF here, there, m
<1>11. /\ DOMAIN here = 1..(n + 1) /\ here[1] = <<f, w.start>>
       /\ \A i \in 1..n : /\ here[i + 1] = <<h[i].file, Reads(head, h[i].file, h[i].get)>>
                          /\ Reads(head, h[i].file, h[i].get) # Nothing
                          /\ Reads(Added, h[i].file, h[i].get) = Reads(head, h[i].file, h[i].get)
  <2>1. \A g, k : Reads(acct, g, k) # Nothing =>
                     /\ Reads(head, g, k) = Reads(acct, g, k)
                     /\ Reads(Added, g, k) = Reads(acct, g, k)
    BY EditedReads
  <2>2. /\ DOMAIN here = 1..(n + 1)
        /\ here[1] = <<f, Reads(acct, f, s.start)>> /\ Reads(acct, f, s.start) # Nothing
        /\ \A i \in 1..n : /\ here[i + 1] = <<h[i].file, Reads(acct, h[i].file, h[i].get)>>
                           /\ Reads(acct, h[i].file, h[i].get) # Nothing
    BY <1>10
  <2> QED
    BY <1>8, <2>1, <2>2
<1>12. n \in 1..n
  BY <1>9
<1>13. Beside(head, h, c)
  <2>1. Reads(head, h[n].file, h[n].get) # Nothing
    BY <1>11, <1>12
  <2> QED
    BY <1>5, <2>1 DEF InPace, FlatStopped
<1>14. /\ m = n /\ c.hop = h[n]
       /\ \A i \in 1..(n - 1) :
              <<h[i].file, Reads(head, h[i].file, h[i].get)>> = c.path[i + 1]
  BY <1>13 DEF Beside, m
<1>15. Reads(Added, c.hop.file, c.hop.get) = Reads(head, h[n].file, h[n].get)
       /\ Reads(head, h[n].file, h[n].get) # Nothing
       /\ here[n + 1] = <<c.hop.file, Reads(Added, c.hop.file, c.hop.get)>>
  BY <1>11, <1>12, <1>14
<1>16. there = Append(c.path, <<c.hop.file, Reads(Added, c.hop.file, c.hop.get)>>)
  BY <1>4, <1>15 DEF CanonMeaning, there, w
<1> DEFINE a == Reads(Added, c.hop.file, c.hop.get)
           S == Steps \cup {<<c.hop.file, a>>}
<1>17. c.path \in Seq(S) /\ Len(c.path) = n /\ <<c.hop.file, a>> \in S
  BY <1>5, <1>14 DEF Places, m
<1> HIDE DEF a, S
<1>18. /\ there \in Seq(S) /\ Len(there) = n + 1
       /\ \A i \in 1..n : there[i] = c.path[i]
       /\ there[n + 1] = <<c.hop.file, a>>
  BY <1>9, <1>16, <1>17 DEF a
<1>19. there = [i \in 1..(n + 1) |-> there[i]]
  BY <1>9, <1>18
<1>20. ASSUME NEW i \in 1..(n + 1) PROVE here[i] = there[i]
  <2>1. CASE i = 1
    <3>1. there[1] = c.path[1]
      BY <1>9, <1>18
    <3> QED
      BY <1>5, <1>11, <2>1, <3>1
  <2>2. CASE i = n + 1
    BY <1>15, <1>18, <2>2 DEF a
  <2>3. CASE i # 1 /\ i # n + 1
    <3>1. i - 1 \in 1..(n - 1) /\ i - 1 \in 1..n /\ (i - 1) + 1 = i /\ i \in 1..n
      BY <1>9, <2>3
    <3>2. here[i] = <<h[i - 1].file, Reads(head, h[i - 1].file, h[i - 1].get)>>
      BY <1>11, <3>1
    <3>3. c.path[i] = <<h[i - 1].file, Reads(head, h[i - 1].file, h[i - 1].get)>>
      BY <1>14, <3>1
    <3> QED
      BY <1>18, <3>1, <3>2, <3>3
  <2> QED
    BY <2>1, <2>2, <2>3
<1>21. here = [i \in 1..(n + 1) |-> here[i]]
  BY <1>10
<1> QED
  BY <1>19, <1>20, <1>21 DEF here, there, w, s

\* A column edited here is staged as an expression that reads on MVX what it
\* reads here, for chains of any length: turned into the form of MVX, or left as
\* git has it where that still says the same (ispec_to_open, open_dict_ispec).
THEOREM EditsKeepMeaning == Spec => []EditsMean
<1>1. ASSUME IInv, Trees, Meant, base = head, NEW p \in TransItems(acct), touched = {p},
             NativeMeaning(acct, p[1], acct[p].spec) # Nothing, AllOpen(head),
             \/ p \in DOMAIN index => p \in DOMAIN head /\ index[p] = head[p]
             \/ \A q \in TransItems(Added) : Target(Added, q) # p,
             Canonical(Added[p].spec) \/ ~Nested(acct[p].spec)
      PROVE  /\ Canonical(Added[p].spec)
             /\ CanonMeaning(Added, p[1], Added[p].spec)
                    = NativeMeaning(acct, p[1], acct[p].spec)
  <2>0. Edited(p)
    BY <1>1 DEF Edited
  <2>1. CASE StillSays(p, acct[p].spec)
    BY <1>1, <2>0, <2>1, KeptIsOpen, KeptMeans
  <2>2. CASE ~StillSays(p, acct[p].spec) /\ HasOpen(head, p[1], acct[p].spec)
    BY <2>0, <2>2, TurnedMeans
  <2>3. CASE ~StillSays(p, acct[p].spec) /\ ~HasOpen(head, p[1], acct[p].spec)
    <3> DEFINE s == acct[p].spec
    <3>1. Added[p].spec = s /\ ~IsNum(s.start) /\ IsTrans(s)
      BY <2>0, <2>3, EditedTyped DEF CanonSpec
    <3>2. ~Nested(s)
      BY <1>1, <3>1 DEF Canonical
    <3>3. Numbered(head, p[1], s.start)
      <4>1. Reads(acct, p[1], s.start) # Nothing
        BY <2>0, EditedPath
      <4> QED
        BY <2>0, <3>1, <4>1, EditedReads
    <3> QED
      BY <2>3, <3>1, <3>2, <3>3 DEF HasOpen, Single
  <2> QED
    BY <2>1, <2>2, <2>3
<1>2. IInv /\ Trees /\ Meant => EditsMean
  BY <1>1 DEF EditsMean, Added, AllOpen
<1> QED
  BY <1>2, MeantInvariant, PTL

=============================================================================
