------------------------------- MODULE OpenForm -------------------------------
(***************************************************************************)
(* How the engine (src/src/mvxgit.c) takes the dictionaries of an open     *)
(* account from git to a platform and back.  In git an item has the form   *)
(* of MVX: association before single/multi, and the key of a TRANS given   *)
(* by the number of an attribute, with a target that may be an I item and  *)
(* so chain.  UniData and jBASE have single/multi first, name the key,     *)
(* quote, and do not chain: a chain is flattened into nested calls.        *)
(*                                                                         *)
(* An expression is the list of its calls from the innermost outwards:     *)
(* TRANS(F,k,t) is [start |-> k, hops |-> <<[file |-> F, get |-> t]>>],    *)
(* and each further hop has the one before for its key.  `native` says     *)
(* whether it is written with quotes; no hops at all is an expression      *)
(* other than TRANS.  HEAD has a commit: the account is a clone, or has    *)
(* committed before.                                                       *)
(***************************************************************************)
EXTENDS Integers, Sequences, FiniteSets

CONSTANTS
    Items,       \* the dictionary items there may be: <<file, name>>
    Names,       \* names of items; an item whose name is a number is left out
    Rank,        \* name -> its place in the order of names
    Attrs,       \* numbers of attributes; 0 is the record's id
    Garbled,     \* a target that is a whole expression in quotes
    Nothing,     \* what an expression reads that reads nothing
    Blank, Multi,    \* an empty attribute, and the M of a multivalued one
    SmAt6,       \* whether the platform has single/multi at attribute 6
    Depth,       \* how many chained items are followed (8 in the code)
    Foreign,     \* what the commits hold that other platforms make
    Pulled,      \* those of them that come later than the first checkout
    Authored,    \* item -> what the users of this account write there
    MaxEdits, MaxCommits      \* bounds on the edits and commits made here

Links(e)   == Len(e.hops)
IsTrans(e) == e.hops # <<>>
Nested(e)  == IsTrans(e) /\ Links(e) # 1
Single(e)  == IsTrans(e) /\ ~Nested(e)
Outer(e)   == e.hops[Links(e)]
IsNum(k)   == k \in Attrs

Swaps(r) == r.type \in {"D", "I"}

\* A tree as every platform leaves it: an association comes with a depth,
\* an item of another type has both attributes or neither, and a key that is
\* a number stands without quotes.
PortableItem(r) ==
    /\ Swaps(r) => (r.six # Blank => r.seven # Blank)
    /\ ~Swaps(r) => (r.six = Blank <=> r.seven = Blank)
    /\ (r.type = "I" /\ Single(r.spec) /\ IsNum(r.spec.start)) => ~r.spec.native
Portable(tree) == \A p \in DOMAIN tree : PortableItem(tree[p])

Expressions == [start : Attrs \cup Names \cup {Garbled},
                hops : Seq([file : {p[1] : p \in Items},
                            get : Attrs \cup Names \cup {Garbled}]),
                native : BOOLEAN]
ItemRecords == [type : {"D", "A"}, loc : Attrs, six : {Blank, Multi, "assoc"},
                seven : {Blank, Multi, "assoc"}]
          \cup [type : {"I"}, spec : Expressions, six : {Blank, Multi, "assoc"},
                seven : {Blank, Multi, "assoc"}]
IsTree(t) == DOMAIN t \subseteq Items /\ \A p \in DOMAIN t : t[p] \in ItemRecords

ASSUME ConstantsAssumption ==
    /\ \A p \in Items : p[2] \in Names
    /\ Names \cap Attrs = {} /\ Nothing \notin Attrs
    /\ Rank \in [Names -> Nat] /\ Attrs \subseteq Nat
    /\ Blank # Multi /\ SmAt6 \in BOOLEAN
    /\ {Depth, MaxEdits, MaxCommits} \subseteq Nat
    /\ \A t \in Foreign : IsTree(t) /\ Portable(t)
    /\ Pulled \subseteq Foreign
    /\ Authored \in [Items -> SUBSET ItemRecords]
    /\ \A p \in Items : \A r \in Authored[p] :
          ~Swaps(r) => (r.six = Blank <=> r.seven = Blank)

VARIABLES
    acct,      \* the dictionary items of the account, as the platform has them
    index,     \* the git index
    head,      \* the tree of HEAD
    base,      \* the tree the account was last written from
    touched,   \* the items users have edited since
    edits, commits    \* how many were made here

vars == <<acct, index, head, base, touched, edits, commits>>

-----------------------------------------------------------------------------
(* Names and numbers of attributes                                         *)

Has(tree, f, n) == <<f, n>> \in DOMAIN tree

Describing(tree, f, a) ==
    {n \in Names : Has(tree, f, n) /\ tree[<<f, n>>].type = "D"
                                   /\ tree[<<f, n>>].loc = a}

\* The name for attribute a is the lowest, if there is one.
NameFor(tree, f, a) ==
    LET D == Describing(tree, f, a)
    IN CHOOSE n \in D : \A m \in D : Rank[n] <= Rank[m]

\* A key can be named: it is a name already, or that of some attribute.
Nameable(tree, f, k) == IsNum(k) => k # 0 /\ Describing(tree, f, k) # {}
KeyName(tree, f, k)  == IF IsNum(k) THEN NameFor(tree, f, k) ELSE k

-----------------------------------------------------------------------------
(* From git to the account                                                 *)

\* The target of the last call is an I item of its file, and a TRANS; a key
\* that is a call itself is passed on as it is.
ChainsOn(tree, hop) ==
    /\ ~IsNum(hop.get)
    /\ Has(tree, hop.file, hop.get) /\ tree[<<hop.file, hop.get>>].type = "I"
    /\ LET link == tree[<<hop.file, hop.get>>].spec
       IN /\ IsTrans(link)
          /\ Nested(link) \/ Nameable(tree, hop.file, link.start)

\* A slip: the link's key is named by the dictionary it leads to.
ChainedAstray(tree, hops) ==
    LET last == hops[Len(hops)]
        link == tree[<<last.file, last.get>>].spec
        key  == IF Nested(link) THEN Garbled
                ELSE KeyName(tree, Outer(link).file, link.start)
    IN IF ChainsOn(tree, last)
       THEN [hops EXCEPT ![Len(hops)].get = key] \o <<Outer(link)>>
       ELSE hops

\* One step along a chain: the call fetches the key of the item it names,
\* and becomes the key of that item's own call.
Chained(tree, hops) ==
    LET last == hops[Len(hops)]
        link == tree[<<last.file, last.get>>].spec
        key  == IF Nested(link) THEN Garbled
                ELSE KeyName(tree, last.file, link.start)
    IN IF ChainsOn(tree, last)
       THEN [hops EXCEPT ![Len(hops)].get = key] \o <<Outer(link)>>
       ELSE hops

Flattened(tree, hops) ==
    LET after[d \in 0..Depth] ==
            IF d = 0 THEN {hops} ELSE {Chained(tree, h) : h \in after[d - 1]}
    IN CHOOSE h \in after[Depth] : TRUE

\* The platform's spelling of e in the dictionary of f, where it has one.
HasNative(tree, f, e) == IsTrans(e) /\ (Nested(e) \/ Nameable(tree, f, e.start))
ToNative(tree, f, e) ==
    [start |-> IF Nested(e) THEN e.start ELSE KeyName(tree, f, e.start),
     hops |-> Flattened(tree, e.hops), native |-> TRUE]

Swap(r) == IF Swaps(r) THEN [r EXCEPT !.six = r.seven, !.seven = r.six] ELSE r

\* An item of an association is multivalued.
Deep(r) == IF r.six = Blank /\ r.seven # Blank THEN [r EXCEPT !.six = Multi] ELSE r

\* What a checkout of tree writes for item p.
Written(tree, p) ==
    LET r == Deep(Swap(tree[p]))
    IN IF r.type = "I" /\ HasNative(tree, p[1], r.spec)
       THEN [r EXCEPT !.spec = ToNative(tree, p[1], r.spec)] ELSE r

WrittenTree(tree) == [p \in DOMAIN tree |-> Written(tree, p)]

-----------------------------------------------------------------------------
(* From the account to git                                                 *)

\* git's spelling of e in the dictionary of f, where it has one: a call with
\* a number for its key, or with the name of an item that has one.
Numbered(tree, f, k) == Has(tree, f, k) /\ tree[<<f, k>>].type # "I"
HasOpen(tree, f, e) ==
    Single(e) /\ (IsNum(e.start) \/ Numbered(tree, f, e.start))

\* A slip: a key that is a number is taken to be in git's spelling already.
ToOpenQuoted(tree, f, e) ==
    IF IsNum(e.start) THEN e
    ELSE [e EXCEPT !.start = tree[<<f, e.start>>].loc, !.native = FALSE]

\* A slip: the key keeps its name, and only the quotes go.
ToOpenNamed(tree, f, e) == [e EXCEPT !.native = FALSE]

ToOpen(tree, f, e) ==
    IF IsNum(e.start) THEN [e EXCEPT !.native = FALSE]
    ELSE [e EXCEPT !.start = tree[<<f, e.start>>].loc, !.native = FALSE]

Projected(r) ==
    LET s == IF SmAt6 THEN Swap(r) ELSE r
    IN IF s.six # Blank /\ s.seven = Blank THEN [s EXCEPT !.seven = Multi] ELSE s

\* git's copy of p: the staged one, or else HEAD's.
InGit(p) == p \in DOMAIN index \cup DOMAIN head
Was(p)   == IF p \in DOMAIN index THEN index[p] ELSE head[p]

\* A slip: the names are taken from the index, as before mv_git#90 on jBASE.
StillSaysByIndex(p, e) ==
    /\ InGit(p) /\ Was(p).type = "I" /\ HasNative(index, p[1], Was(p).spec)
    /\ ToNative(index, p[1], Was(p).spec) = e

\* git's copy still translates to the expression e that the account has.
StillSays(p, e) ==
    /\ InGit(p) /\ Was(p).type = "I" /\ HasNative(head, p[1], Was(p).spec)
    /\ ToNative(head, p[1], Was(p).spec) = e

CanonSpec(p, e) ==
    IF StillSays(p, e) THEN Was(p).spec
    ELSE IF HasOpen(head, p[1], e) THEN ToOpen(head, p[1], e) ELSE e

\* What add stages for item p, and what status hashes.
Staged(p) ==
    LET r == Projected(acct[p])
    IN IF r.type = "I" THEN [r EXCEPT !.spec = CanonSpec(p, r.spec)] ELSE r

\* What status reports: untracked, deleted, modified.
Reported ==
    {p \in Items : \/ p \in DOMAIN acct /\ p \notin DOMAIN index
                   \/ p \in DOMAIN index /\ p \notin DOMAIN acct
                   \/ /\ p \in DOMAIN acct \cap DOMAIN index
                      /\ index[p] # Staged(p)}

-----------------------------------------------------------------------------
Init ==
    /\ head \in Foreign
    /\ index = head /\ acct = WrittenTree(head) /\ base = head
    /\ touched = {} /\ edits = 0 /\ commits = 0

Put(tree, p, r) == [q \in DOMAIN tree \cup {p} |-> IF q = p THEN r ELSE tree[q]]

\* A user writes an item, or deletes one.
Edits(p) ==
    /\ edits < MaxEdits /\ edits' = edits + 1
    /\ touched' = touched \cup {p}
    /\ UNCHANGED <<index, head, base, commits>>

Write(p, r) == acct' = Put(acct, p, r) /\ Edits(p)

Delete(p) ==
    /\ p \in DOMAIN acct
    /\ acct' = [q \in DOMAIN acct \ {p} |-> acct[q]]
    /\ Edits(p)

\* GIT ADD of one item.
AddItem(p) ==
    /\ p \in DOMAIN acct
    /\ index' = Put(index, p, Staged(p))
    /\ UNCHANGED <<acct, head, base, touched, edits, commits>>

Of(tree, f) == {p \in DOMAIN tree : p[1] = f}

\* A slip: staging only adds, as it did before the reconcile.
AddFileOnly(f) ==
    /\ index' = [p \in DOMAIN index \cup Of(acct, f) |->
                    IF p \in Of(acct, f) THEN Staged(p) ELSE index[p]]
    /\ UNCHANGED <<acct, head, base, touched, edits, commits>>

\* GIT ADD of the dictionary of f: every item is read and staged, and the
\* entries of those that cannot be read are removed.
AddFile(f) ==
    /\ index' = [p \in (DOMAIN index \ Of(index, f)) \cup Of(acct, f) |->
                    IF p \in Of(acct, f) THEN Staged(p) ELSE index[p]]
    /\ UNCHANGED <<acct, head, base, touched, edits, commits>>

Commit ==
    /\ index # head /\ commits < MaxCommits
    /\ head' = index /\ commits' = commits + 1
    /\ UNCHANGED <<acct, index, base, touched, edits>>

\* A checkout, of HEAD again or of what came from another platform.
Checkout(t) ==
    /\ head' = t /\ index' = t /\ acct' = WrittenTree(t)
    /\ base' = t /\ touched' = {}
    /\ UNCHANGED <<edits, commits>>

FileNames == {p[1] : p \in Items}

Next ==
    \/ \E p \in Items : \E r \in Authored[p] : Write(p, r)
    \/ \E p \in Items : Delete(p)
    \/ \E p \in Items : AddItem(p)
    \/ \E f \in FileNames : AddFile(f)
    \/ Commit
    \/ \E t \in Pulled \cup {head} : Checkout(t)

Spec == Init /\ [][Next]_vars

-----------------------------------------------------------------------------
(* What an expression means: the attributes it reads one after the other,  *)
(* the file of each with it, or Nothing.                                   *)

\* The attribute that k stands for in the dictionary of f.
Reads(tree, f, k) ==
    IF IsNum(k) THEN k
    ELSE IF Numbered(tree, f, k) THEN tree[<<f, k>>].loc ELSE Nothing

\* On the platform: the key is a name, and no target chains.
NativeMeaning(tree, f, e) ==
    LET path == <<<<f, Reads(tree, f, e.start)>>>>
             \o [i \in 1..Links(e) |->
                   <<e.hops[i].file, Reads(tree, e.hops[i].file, e.hops[i].get)>>]
    IN IF IsNum(e.start) \/ \E i \in DOMAIN path : path[i][2] = Nothing
       THEN Nothing ELSE path

Canonical(e) == Single(e) /\ IsNum(e.start)

\* On MVX: the key is a number, and a target that is an I item chains.
Followed(tree, now) ==
    LET q == <<now.hop.file, now.hop.get>>
    IN IF Has(tree, q[1], q[2]) /\ tree[q].type = "I" /\ Canonical(tree[q].spec)
       THEN [path |-> Append(now.path, <<q[1], tree[q].spec.start>>),
             hop  |-> Outer(tree[q].spec)]
       ELSE now

ChainEnd(tree, f, e) ==
    LET after[d \in 0..Depth] ==
            IF d = 0 THEN {[path |-> <<<<f, e.start>>>>, hop |-> Outer(e)]}
            ELSE {Followed(tree, c) : c \in after[d - 1]}
    IN CHOOSE c \in after[Depth] : TRUE

CanonMeaning(tree, f, e) ==
    LET end == ChainEnd(tree, f, e)
        a   == Reads(tree, end.hop.file, end.hop.get)
    IN IF a = Nothing THEN Nothing ELSE Append(end.path, <<end.hop.file, a>>)

TransItems(tree) == {p \in DOMAIN tree : tree[p].type = "I" /\ IsTrans(tree[p].spec)}

\* The item that a column leads to.
Target(tree, p) == <<Outer(tree[p].spec).file, Outer(tree[p].spec).get>>

-----------------------------------------------------------------------------
(* Properties                                                              *)

\* Every variable keeps its type, and what is staged or committed is
\* readable everywhere: no key that is a number stays in quotes, no
\* association goes without a depth (mv_git_project and its callers).
TypeOK ==
    /\ \A t \in {acct, index, head, base} : IsTree(t)
    /\ Portable(index) /\ Portable(head)
    /\ touched \subseteq Items /\ edits \in 0..MaxEdits /\ commits \in 0..MaxCommits

\* An item nobody touched makes no diff: while HEAD is the commit the account
\* was written from, add and status take every item that was not edited for
\* what HEAD has, whatever else was edited and staged (open_dict_ispec).
UntouchedReadsClean ==
    base = head =>
        \A p \in Items \ touched :
            /\ p \in DOMAIN index <=> p \in DOMAIN head
            /\ p \in DOMAIN head => index[p] = head[p]
            /\ p \notin Reported

\* A column keeps its meaning on the way in: an expression written by a
\* checkout reads here what it reads on MVX.  It reads nothing, and never
\* something else, where a key in the chain has no name (ispec_to_udt).
ColumnsMean ==
    (base = head /\ touched = {}) =>
        \A p \in TransItems(head) :
            LET there == CanonMeaning(head, p[1], head[p].spec)
                here  == NativeMeaning(acct, p[1], acct[p].spec)
            IN (Canonical(head[p].spec) /\ there # Nothing) =>
                 \/ here = there
                 \/ /\ here = Nothing
                    /\ \E i \in 1..(Len(there) - 1) :
                          ~Nameable(head, there[i][1], there[i][2])

\* And on the way out: the one item edited is staged as an expression that
\* reads on MVX what it reads here (ispec_to_open).  What was committed in the
\* native spelling, its key being new in the same commit, stays in it.  git's
\* copy is kept where HEAD's columns translate it to what is here, which tells
\* nothing of a copy HEAD does not have if it is a link of its own chain.
EditsMean ==
    base = head =>
        \A p \in TransItems(acct) :
            LET tree == [q \in DOMAIN acct |-> Staged(q)]
                here == NativeMeaning(acct, p[1], acct[p].spec)
                e    == tree[p].spec
            IN (/\ touched = {p} /\ here # Nothing
                /\ \A q \in TransItems(head) : Canonical(head[q].spec)
                /\ \/ p \in DOMAIN index => p \in DOMAIN head /\ index[p] = head[p]
                   \/ \A q \in TransItems(tree) : Target(tree, q) # p
                /\ Canonical(e) \/ ~Nested(acct[p].spec))
               => Canonical(e) /\ CanonMeaning(tree, p[1], e) = here

\* After GIT ADD of a dictionary status has nothing to say of it: what status
\* makes of an item, with the entry just staged to go by, is what add made of
\* it with the one before (mv_git#95, mv_git#108).
AddSettles ==
    [][\A f \in FileNames :
          AddFile(f) => \A p \in Reported' : p[1] # f]_vars
=============================================================================
