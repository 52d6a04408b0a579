---- MODULE MCCloudEvents ----
EXTENDS CloudEvents

\* Only lines are alike: one author may be the ignored one.
LineSymmetry == Permutations(Line)
====
