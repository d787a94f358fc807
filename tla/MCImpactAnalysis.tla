-------------------------- MODULE MCImpactAnalysis --------------------------
EXTENDS ImpactAnalysis
Import(f, t, o) == [from |-> f, to |-> t, of |-> o]
ImportSets == {m \cup t \cup u : m \in {{}, {Import(3, 2, "module")}},
                    t \in {{}, {Import(2, 1, "a")}, {Import(2, 1, "module")}},
                    u \in {{}, {Import(3, 1, "b")}}}
Edits == {<<{}, {"a"}>>, <<{"b"}, {"b"}>>, <<{"top"}, {}>>}
Both(x) == [v \in Version |-> x]
MCInit ==
    /\ stage = "start" /\ Blank /\ listed = {3}
    /\ \E present \in {{1, 2, 3}, {2, 3}} :
          exists = [v \in Version |-> IF v = "before" THEN {1, 2, 3} ELSE present]
    /\ imports \in {g \in [Version -> ImportSets] :
                        \A v \in Version : \A e \in g[v] : e.to \in exists[v]}
    /\ \E second \in {"source", "config"} : kind = <<"source", second, "test">>
    /\ \/ /\ calls \in {Both({}), Both({[file |-> 1, from |-> "a", to |-> "b"]})}
          /\ changes \in {{[path |-> 1, old |-> 1, before |-> p[1], after |-> p[2]]} :
                               p \in Edits} \cup {{}}
          /\ owner = Both(<<1, 1, 2>>) /\ broken = Both({}) /\ dirs = TRUE
          /\ shared = {} /\ support = {} /\ budget = 3 /\ kind[2] = "source"
       \/ /\ calls = Both({})
          /\ changes \in {{[path |-> f, old |-> f, before |-> {"b"}, after |-> {"b"}]} :
                               f \in {1, 2}}
          /\ imports["before"] \in {{}, {Import(3, 2, "module"), Import(2, 1, "a")}}
          /\ owner \in {Both(<<1, 1, 1>>), Both(<<1, 2, 2>>),
                         [v \in Version |-> IF v = "after" THEN <<1, 1, 2>> ELSE <<1, 0, 2>>]}
          /\ broken \in {Both({}), Both({2})} /\ dirs \in BOOLEAN
          /\ shared \in {{}, {3}} /\ support \in {{}, {2}} /\ budget \in 2..3
MCSpec == MCInit /\ [][Next]_vars
=============================================================================
