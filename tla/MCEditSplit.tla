---------------------------- MODULE MCEditSplit ----------------------------
EXTENDS EditSplit
Hunk(o, n, s) == [old |-> o, new |-> n, lines |-> s]
MCInit ==
    /\ \E one \in SeqOf(Type, 4), two \in {<<>>, <<"added">>, <<"deleted", "added">>} :
          LET first == Hunk(1, 1, one) IN
          hunks = IF one = <<>> THEN <<>>
                  ELSE IF two = <<>> THEN <<first>>
                  ELSE <<first, Hunk(Before(first, Len(one) + 1) + 1,
                                     After(first, Len(one) + 1) + 1, two)>>
    /\ elements \in [Side -> {{}, {<<1, 2>>, <<3, 4>>}, {<<1, 5>>, <<2, 3>>}}]
    /\ stage = "split" /\ out = <<>>
    /\ hunk = 1 /\ i = 1
    /\ oldLine = (IF hunks = <<>> THEN 0 ELSE hunks[1].old)
    /\ newLine = (IF hunks = <<>> THEN 0 ELSE hunks[1].new)
MCSpec == MCInit /\ [][Next]_vars
=============================================================================
