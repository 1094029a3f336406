-------------------------- MODULE MCRecurringPlans --------------------------
(* Small instances of RecurringPlans. *)
EXTENDS RecurringPlans, TLC

Symmetry == Permutations(Run)

\* Where a number was taken back the invariants promise little: such states are
\* explored only as long as no plan has been edited.
Bounded == given = {} \/ saves <= 1

=============================================================================
