---------------------------- MODULE MCPathQuery ----------------------------
EXTENDS PathQuery
Pairs == {<<2, 1>>, <<3, 1>>, <<3, 2>>, <<4, 2>>, <<4, 3>>}
\* The ranks of the calls; 3 is none.
EdgeRanks == {g \in [Pairs -> 0..3] :
              g[<<3, 1>>] \in {1, 3} /\ g[<<2, 1>>] \in {0, 3} /\ g[<<4, 2>>] \in {1, 2}}
Calls(f) == {[from |-> p[1], to |-> p[2], kind |-> "calls", rank |-> f[p]] :
                 p \in {q \in Pairs : f[q] # 3}}
ContainsOf(c) == {[from |-> p[1], to |-> p[2], kind |-> "contains", rank |-> 0] : p \in c}
MCInit ==
    /\ \E f \in EdgeRanks, c \in SUBSET {<<2, 1>>, <<4, 1>>, <<3, 2>>} :
          edges = Calls(f) \cup ContainsOf(c)
    /\ owner \in {[n \in Node |-> 0], [n \in Node |-> IF n = 1 THEN 4 ELSE 0]}
    /\ seeds \in {{1}, {1, 3}} /\ candidates = Node
    /\ rank = 0 /\ Blank
MCSpec == MCInit /\ [][Next]_vars
=============================================================================
