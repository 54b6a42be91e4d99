------------------------ MODULE MCSagaOrchestrator ------------------------
(* Instances of SagaOrchestrator for TLC. *)
EXTENDS SagaOrchestrator, TLC

\* BookingFlow: one compensatable step, then a pause for the user.
BookingPlan == <<"reserve_slot">>
\* CareerGrowthFlow: no pause, no circuit breaker of its own.  The CV and the
\* lessons are compensatable, but only the adapter of the lessons has compensate;
\* a failed outreach keeps both.
CareerPlan ==
    <<"generate_cv", "discover_jobs", "generate_learning_path", "apply_for_jobs">>

Symmetry == Permutations(Tasks)
=============================================================================
