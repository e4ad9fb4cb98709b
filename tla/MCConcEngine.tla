---------------------------- MODULE MCConcEngine ----------------------------
(* Small workflows and outputs for ConcEngine. *)
EXTENDS ConcEngine

MCNode == {"a", "b", "c", "d"}
MCLabel == {"hit"}

Plain == [error |-> FALSE, skipped |-> FALSE, tag |-> {}]
WithError == [Plain EXCEPT !.error = TRUE]
Tagged == [Plain EXCEPT !.tag = {"hit"}]

MCOutputs == {Plain, WithError, Tagged}
TwoOutputs == {Plain, Tagged}
PlainInput == {Plain}

\* "b", the node that is retried, is a parallel node with two branches.
MCBranch == {"left", "right"}
MCBranchesOf == [n \in Node |-> IF n = "b" THEN MCBranch ELSE {}]

E(s, on, d) == [src |-> s, dst |-> d, on |-> on]

W(nodes, edges, order, slots) ==
  [node |-> nodes, edge |-> edges, order |-> order, failFast |-> FALSE,
   retries |-> [n \in Node |-> IF n = "b" THEN 1 ELSE 0],
   gpu |-> {}, concurrency |-> slots]

\* A conditional diamond with a double edge, three independent nodes, a cycle
\* behind a source, and a fan-in with a failure edge; a setting of 0 means 1.
Diamond == W(MCNode, {E("a", "hit", "b"), E("a", "success", "c"),
                      E("b", "success", "d"), E("c", "hit", "d"), E("c", "failure", "d")},
             <<"a", "c", "b", "d">>, 2)
Wide == W({"b", "c", "d"}, {}, <<"d", "c", "b">>, 2)
Cyclic == W(MCNode, {E("b", "hit", "c"), E("d", "success", "c"), E("c", "success", "d")},
            <<"b", "a">>, 2)
FanIn == W(MCNode, {E("a", "success", "d"), E("b", "failure", "d"), E("c", "hit", "d")},
           <<"a", "c", "b", "d">>, 2)
Single == W({"a", "b", "c"}, {E("a", "hit", "c"), E("b", "success", "c")},
            <<"b", "a", "c">>, 0)

MCWorkflows == {Diamond, Wide, Cyclic, FanIn, Single}
=============================================================================
