--------------------------- MODULE MCConfigStore ---------------------------
(* Instances of ConfigStore for TLC. *)
EXTENDS ConfigStore, TLC

CONSTANTS p1, p2, a1

(* Two processes of the application that owns the suite's settings, so that *)
(* both files are shared.                                                   *)
TwoWindows == [p \in Proc |-> a1]

(* The first window does more: it may start again, and makes two changes.   *)
TwoAndOne == [p \in Proc |-> IF p = p1 THEN 2 ELSE 1]
=============================================================================
