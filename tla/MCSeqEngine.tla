---------------------------- MODULE MCSeqEngine ----------------------------
(* Small workflows and outputs for SeqEngine. *)
EXTENDS SeqEngine

MCNode == {"a", "b", "c", "d"}
MCLabel == {"hit"}

Plain == [error |-> FALSE, skipped |-> FALSE, tag |-> {}]
WithError == [Plain EXCEPT !.error = TRUE]
Tagged == [Plain EXCEPT !.tag = {"hit"}]

MCOutputs == {Plain, WithError, Tagged}
TwoOutputs == {Plain, Tagged}
MCInputs == {Plain, WithError}
PlainInput == {Plain}

E(s, on, d) == [src |-> s, dst |-> d, on |-> on]

W(nodes, edges, order, ff) ==
  [node |-> nodes, edge |-> edges, order |-> order, failFast |-> ff,
   retries |-> [n \in Node |-> IF n = "b" THEN 1 ELSE 0],
   gpu |-> {"c"} \cap Node, concurrency |-> 1]

\* A conditional diamond, a failure branch with a join, a cycle behind a
\* chain, and two fail_fast workflows.
Diamond == W(MCNode, {E("a", "hit", "b"), E("a", "success", "c"),
                      E("b", "success", "d"), E("c", "hit", "d")},
             <<"a", "c", "b", "d">>, FALSE)
Rescue == W(MCNode, {E("a", "success", "b"), E("a", "failure", "c"),
                     E("c", "success", "d"), E("a", "failure", "d")},
            <<"a", "c", "d", "b">>, FALSE)
Cyclic == W(MCNode, {E("a", "success", "b"), E("b", "hit", "c"),
                     E("d", "success", "c"), E("c", "success", "d")},
            <<"a", "b">>, FALSE)
Hasty == W({"a", "b", "c"}, {E("a", "success", "b"), E("a", "hit", "c")},
           <<"a", "c", "b">>, TRUE)
HastyPair == W({"a", "b"}, {}, <<"b", "a">>, TRUE)

\* The web server's sample pipeline: its first node is called "input".
InputFirst == W({"input", "a", "b"}, {E("input", "success", "a"), E("a", "success", "b")},
                <<"input", "a", "b">>, FALSE)
Chain == W({"a", "b"}, {E("a", "success", "b")}, <<"a", "b">>, FALSE)

MCNodeInput == {"input", "a", "b"}
InputWorkflows == {InputFirst}
ChainWorkflows == {Chain}
MCWorkflows == {Diamond, Rescue, Cyclic, Hasty, HastyPair}
=============================================================================
