----------------------------- MODULE MCGoalTree -----------------------------
EXTENDS GoalTree, TLC

\* The keys are told apart by nothing but equality.
KeySymmetry == Permutations(Keys)
==============================================================================
