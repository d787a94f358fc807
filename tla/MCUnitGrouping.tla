--------------------------- MODULE MCUnitGrouping ---------------------------
EXTENDS UnitGrouping
Fact(s, t, k, b) == [source |-> s, target |-> t, kind |-> k, touched |-> b]
None == [f \in Fragment |-> <<>>]
MCInit ==
    /\ stage = "relate" /\ Blank
    /\ heights \in {<<0, 1>>, <<1, 1>>}
    /\ \/ /\ path \in {<<1, 1, 2, 2>>, <<1, 2, 2, 1>>, <<1, 1, 1, 2>>, <<1, 1, 1, 1>>}
          /\ size \in {<<1, 1, 1, 1>>, <<2, 1, 2, 1>>, <<1, 2, 2, 2>>}
          /\ kind \in {<<a, "code", b, c>> : a, c \in {"code", "unknown"}, b \in {"code", "import"}}
          /\ owners = [f \in Fragment |-> IF kind[f] = "code" /\ path[f] = 1 THEN {1} ELSE {}]
             \/ owners = [f \in Fragment |-> {}]
          /\ facts \in {{Fact("x", "y", "calls", TRUE)},
                         {Fact("y", "alias", "calls", TRUE), Fact("x", "y", "contains", FALSE)},
                        {Fact("y", "alias", "calls", FALSE), Fact("alias", "x", "calls", TRUE)}}
          /\ aliases \in {{}, {"x"}} /\ scopes = None
          /\ ((fileOnly = FALSE /\ maxUnits \in {0, 2, 3}) \/ (fileOnly = TRUE /\ maxUnits = 0))
       \/ /\ path = <<1, 2, 3, 3>> /\ size \in {<<1, 1, 1, 1>>, <<2, 1, 1, 2>>}
          /\ kind = [f \in Fragment |-> "code"] /\ owners = [f \in Fragment |-> {}]
          /\ facts = {} /\ aliases = {} /\ fileOnly = FALSE /\ maxUnits = 1
          /\ scopes \in [Fragment -> {<<>>, [n \in {1} |-> 1], [n \in {2} |-> 2],
                                       [n \in {1, 2} |-> n], [n \in {1, 2} |-> 2 - n]}]
    /\ position = [f \in Fragment |-> IF kind[f] = "unknown" THEN 0 ELSE (f * f) % 5]
    /\ binds = [f \in Fragment |-> IF kind[f] = "unknown" THEN {}
                                   ELSE CASE f = 1 -> {"x"} [] f = 3 -> {"alias"} [] OTHER -> {"y"}]
MCSpec == MCInit /\ [][Next]_vars
=============================================================================
