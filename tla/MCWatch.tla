---- MODULE MCWatch ----
EXTENDS Watch, TLC

\* Lines of which none is on the board at first, and watches, are alike.
Symmetry == Permutations(Watcher) \cup Permutations(Line)
====
