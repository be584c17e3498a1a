-------------------------- MODULE MCCombatTestRun --------------------------
EXTENDS CombatTestRun, TLC

\* Runs are interchangeable: the specification compares them only for equality.
Symmetry == Permutations(Run)

\* Bound: how many kinds of lapse are explored in one behaviour.
MaxLapses == 2
Few == Orderly /\ Cardinality(lapses) <= MaxLapses
=============================================================================
