----------------------------- MODULE MCGraphRun -----------------------------
(***************************************************************************)
(* Small definition graphs for TLC.  A graph is chosen by its prefix in    *)
(* the .cfg; node keys are strings and their alphabetical order is the     *)
(* order of the listing in KeyOrder.                                       *)
(***************************************************************************)
EXTENDS GraphRun, Sequences

Ranked(keys) == [n \in {keys[k] : k \in 1 .. Len(keys)} |->
                    CHOOSE k \in 1 .. Len(keys) : keys[k] = n]

\* Fork into two parallel tasks, join them, announce the end.
DiamondKeys == <<"b1", "b2", "j", "n", "s">>
DiamondNode == {"s", "b1", "b2", "j", "n"}
DiamondEdge == {<<"s", "b1">>, <<"s", "b2">>, <<"b1", "j">>, <<"b2", "j">>, <<"j", "n">>}
DiamondType == [n \in DiamondNode |-> IF n = "n" THEN "notice" ELSE "task"]
DiamondJoin == [n \in DiamondNode |-> "all"]
DiamondRouting == [n \in DiamondNode |-> "inclusive"]
DiamondCondition == [e \in DiamondEdge |-> "always"]
DiamondPriority == [e \in DiamondEdge |-> 0]
DiamondOrder == Ranked(DiamondKeys)
DiamondPolicy == [n \in DiamondNode |-> IF n \in {"s", "j"} THEN "submit" ELSE "review"]

\* Two tasks race for an any-join; the second also feeds a branch of its own.
RaceKeys == <<"b1", "b2", "e", "j", "k">>
RaceNode == {"b1", "b2", "j", "k", "e"}
RaceEdge == {<<"b1", "j">>, <<"b2", "j">>, <<"b2", "k">>, <<"j", "e">>, <<"k", "e">>}
RaceType == [n \in RaceNode |-> "task"]
RaceJoin == [n \in RaceNode |-> IF n = "j" THEN "any" ELSE "all"]
RaceRouting == [n \in RaceNode |-> "inclusive"]
RaceCondition == [e \in RaceEdge |-> "always"]
RacePriority == [e \in RaceEdge |-> 0]
RaceOrder == Ranked(RaceKeys)
RacePolicy == [n \in RaceNode |-> CASE n = "b1" -> "submit" [] n \in {"b2", "j"} -> "review" [] OTHER -> "none"]

\* A managed approval and a task race for an any-join, which chooses between a notice
\* whose only route is conditional (the template of
\* test_no_route_fails_with_diagnostic_on_postgres), a task and, else, the end where
\* both meet.
ChoiceKeys == <<"e", "f", "j", "n", "p", "t">>
ChoiceNode == {"p", "t", "j", "n", "e", "f"}
ChoiceEdge == {<<"p", "j">>, <<"t", "j">>,
               <<"j", "n">>, <<"j", "e">>, <<"j", "f">>, <<"n", "f">>, <<"e", "f">>}
ChoiceType == [n \in ChoiceNode |-> CASE n \in {"n", "f"} -> "notice"
                                      [] n = "p" -> "approval"
                                      [] OTHER -> "task"]
ChoiceJoin == [n \in ChoiceNode |-> IF n = "j" THEN "any" ELSE "all"]
ChoiceRouting == [n \in ChoiceNode |-> IF n = "j" THEN "exclusive" ELSE "inclusive"]
ChoiceCondition ==
    [e \in ChoiceEdge |->
        IF e \in {<<"j", "n">>, <<"j", "e">>, <<"n", "f">>} THEN "test"
        ELSE IF e = <<"j", "f">> THEN "else" ELSE "always"]
ChoicePriority == [e \in ChoiceEdge |-> IF e = <<"j", "e">> THEN 1 ELSE 0]
ChoiceOrder == Ranked(ChoiceKeys)
ChoicePolicy == [n \in ChoiceNode |-> CASE n = "j" -> "submit" [] n = "t" -> "review" [] OTHER -> "none"]
=============================================================================
