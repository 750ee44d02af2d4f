-------------------------- MODULE MCEventLifecycle --------------------------
(* Small instances of EventLifecycle for TLC. *)
EXTENDS EventLifecycle, TLC

\* Users but the creator are interchangeable.
MCSymmetry == Permutations(Users \ {Creator})

\* With concurrent requests only.
MCSlotSymmetry == Permutations(Slots) \cup Permutations(Users \ {Creator})
=============================================================================
