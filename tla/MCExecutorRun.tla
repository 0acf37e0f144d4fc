--------------------------- MODULE MCExecutorRun ---------------------------
EXTENDS ExecutorRun

Plain == [kind |-> "ticket", declared |-> <<"a", "b">>, names |-> {}, scoping |-> FALSE,
          comps |-> {}, prefer |-> <<>>, own |-> <<>>, blockers |-> <<>>, cli |-> {}]

On(repo, branch) == [repo |-> repo, branch |-> branch]
Blocker(k, done, reports) ==
  [key |-> k, done |-> done, observed |-> TRUE, reports |-> reports]

\* Work of its own in "a"; two open blockers in "b", one of them also in a
\* repository that is not mounted; one that is done, one that reported nothing.
Continued == [Plain EXCEPT !.own = <<<<>>, <<On("a", "x")>>>>,
  !.blockers = <<Blocker("K1", FALSE, <<<<>>, <<On("b", "y"), On("docs", "y")>>>>),
                 Blocker("K2", FALSE, <<<<On("b", "z")>>>>),
                 Blocker("K3", TRUE,  <<<<On("a", "y")>>>>),
                 Blocker("K4", FALSE, <<>>)>>]

\* A diamond whose branches do not merge, narrowed to "a" by its Components.
Diamond == [Plain EXCEPT !.scoping = TRUE, !.comps = {"a", "design"},
  !.blockers = <<Blocker("K1", FALSE, <<<<On("a", "x")>>>>),
                 Blocker("K2", FALSE, <<<<On("a", "y")>>>>)>>]

\* Runs that end before any repository is touched, or without one.
Unscoped == [Plain EXCEPT !.scoping = TRUE, !.comps = {"design"}]
Unknown  == [Plain EXCEPT !.names = {"c"}]
Triage   == [Plain EXCEPT !.kind = "triage"]
OnlyA    == [Plain EXCEPT !.names = {"a"}]

Loud(t)  == [t EXCEPT !.cli = Habits]

\* One run with every behaviour of its process, or two that share the clones.
MCTasks ==
  {[r \in {"r1", "r2"} |-> IF r = "r1" THEN t ELSE u] :
     t \in {Loud(OnlyA), Loud(Triage)}, u \in {Unscoped, Unknown}}
  \cup {[r \in {"r1", "r2"} |-> IF r = "r1" THEN Continued ELSE Diamond]}
MCLosable == {<<"a", "x">>, <<"b", "y">>}
MCConflicts == {{"x", "y"}}
MCTries == [r \in Runs |-> IF r = "r1" THEN 2 ELSE 1]
=============================================================================
