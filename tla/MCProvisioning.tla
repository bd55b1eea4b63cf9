---------------------------- MODULE MCProvisioning ----------------------------
(* Instances of Provisioning for TLC. *)
EXTENDS Provisioning, TLC

Symmetry == Permutations(Workers) \cup Permutations(Users) \cup Permutations(Devices)

(* Only the oldest session lives beyond its thirty minutes, and the third  *)
(* only counts against the cap: two sessions, one per user or both of one, *)
(* go the whole way to a binding.                                          *)
TwoBind ==
  /\ \A s \in Sessions : s > 1 => session[s].age = "fresh"
  /\ \A s \in Sessions : s > 2 =>
       session[s].status \in {"absent", "created", "cancelled"} /\ session[s].hw = None
=============================================================================
