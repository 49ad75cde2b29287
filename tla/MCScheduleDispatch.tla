------------------------- MODULE MCScheduleDispatch -------------------------
(* ScheduleDispatch on small instances: run slots, dispatchers and callers are
   interchangeable. *)
EXTENDS ScheduleDispatch, TLC

SlotSymmetry ==
    Permutations(Runs) \cup Permutations(Dispatchers) \cup Permutations(Callers)
=============================================================================
