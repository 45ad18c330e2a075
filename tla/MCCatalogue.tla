----------------------------- MODULE MCCatalogue -----------------------------
EXTENDS Catalogue, TLC

\* One course with one written lesson, whose vocabulary section has practice
\* that yields questions, and a section without content of its own.
TwoSections == <<
    [path |-> <<1>>, has |-> {}, practice |-> FALSE, written |-> TRUE],
    [path |-> <<1, 1>>, has |-> {}, practice |-> FALSE, written |-> TRUE],
    [path |-> <<1, 1, 1>>, has |-> {"card"}, practice |-> TRUE, written |-> TRUE],
    [path |-> <<1, 1, 2>>, has |-> {}, practice |-> FALSE, written |-> TRUE] >>

SomeLaunches == {<<"seed", "force">>, <<"courses", "missing">>,
                 <<"notion", "default">>, <<"notion", "safe">>}

Symmetric == Permutations(Run) \cup Permutations(Ask)
==============================================================================
