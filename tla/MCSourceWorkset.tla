-------------------------- MODULE MCSourceWorkset --------------------------
EXTENDS SourceWorkset, FiniteSetsExt
WorksetMCInit ==
    /\ targets \in {g \in [Source -> SUBSET Source] :
                        /\ g[NSource] = {} /\ \A f \in Source : f \notin g[f]
                        /\ FoldSet(LAMBDA f, n : n + Cardinality(g[f]), 0, Source) <= 3}
    /\ content \in {[f \in Source |-> IF f = NSource THEN last ELSE IF f = 3 THEN third ELSE "source"] :
                   third \in Parsed,
                   last \in Parsed \cup {"outside", "gitlink", "vendored", "absent"}}
    /\ package \in {{}, {1, 2}}
    /\ NothingAdded /\ adds = 0
WorksetMCNext ==
    \/ \E fs \in {{f} : f \in Source} \cup {{1, 3}} : BeginAdd(fs)
    \/ Revisit \/ Skip \/ Omit \/ Parse \/ EndAdd
=============================================================================
