----------------------------- MODULE MCOpenForm -----------------------------
(* Two dictionaries for TLC: orders O and clients C.                        *)
EXTENDS OpenForm

CONSTANTS O, C,              \* two files
          K, L, R, N, J,     \* two key fields and a column of O, two of C
          Missing            \* no item

OrderedNames == [n \in {K, L, R, N, J} |->
                    CASE n = K -> 1 [] n = L -> 2 [] n = R -> 3
                      [] n = N -> 4 [] n = J -> 5]
AllItems == {<<O, K>>, <<O, L>>, <<O, R>>, <<C, N>>, <<C, J>>}

Field(a)       == [type |-> "D", loc |-> a, six |-> Blank, seven |-> Blank]
Grouped(a)     == [Field(a) EXCEPT !.six = "assoc", !.seven = Multi]
Other(a)       == [Field(a) EXCEPT !.type = "A"]
Hop(f, n)      == [file |-> f, get |-> n]
Column(k, hops, quoted) ==
    [type |-> "I", spec |-> [start |-> k, hops |-> hops, native |-> quoted],
     six |-> Blank, seven |-> Blank]

Account(k, l, r, n, j) ==
    [p \in AllItems |-> CASE p[2] = K -> k [] p[2] = L -> l [] p[2] = R -> r
                          [] p[2] = N -> n [] p[2] = J -> j]

Present(t) == [p \in {q \in AllItems : t[q] # Missing} |-> t[p]]

\* What an MVX account may have committed: keys with a name, with two and
\* without, chains of one link and of two, one that closes on itself.
MVXTrees ==
    {Present(Account(k, l, r, n, j)) :
        k \in {Missing, Grouped(1)},
        l \in {Field(1), Field(2), Other(2)},
        r \in {Column(1, <<Hop(C, N)>>, FALSE), Column(2, <<Hop(C, J)>>, FALSE),
               Column(0, <<Hop(C, 1)>>, FALSE)},
        n \in {Field(1), Column(K, <<>>, FALSE)},
        j \in {Field(2), Column(1, <<Hop(O, L)>>, FALSE),
               Column(1, <<Hop(O, R)>>, FALSE)}}

\* A chain that comes with a pull.
Chains == {Account(Grouped(1), Field(2), Column(2, <<Hop(C, J)>>, FALSE),
                   Field(1), Column(1, <<Hop(O, L)>>, FALSE))}

\* What the users here write.
Native == Account(
    {Field(2), [Field(1) EXCEPT !.seven = "assoc"]},
    {Field(1), Other(1)},
    {Column(K, <<Hop(C, N)>>, TRUE), Column(1, <<Hop(C, N)>>, TRUE),
     Column(L, <<Hop(C, N), Hop(O, L)>>, TRUE)},
    {Column(K, <<>>, FALSE)},
    {Column(N, <<Hop(O, K)>>, TRUE)})
=============================================================================
