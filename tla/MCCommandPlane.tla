---------------------------- MODULE MCCommandPlane ----------------------------
(* Instances of CommandPlane for TLC. *)
EXTENDS CommandPlane, TLC

CONSTANTS k1, k2, k3, k4, k5, k6

Snap(enabled, homed, link, held, mode, unfinished) ==
  [enabled |-> enabled, homed |-> homed, link |-> link, fault |-> FALSE,
   held |-> held, mode |-> mode, unfinished |-> unfinished]

ReadySnap   == Snap(TRUE, TRUE, TRUE, FALSE, "idle", FALSE)
BrakingSnap == Snap(TRUE, TRUE, TRUE, FALSE, "exec", TRUE)
DisabledSnap == [Snap(FALSE, TRUE, TRUE, FALSE, "error", FALSE) EXCEPT !.fault = TRUE]
UnhomedSnap == Snap(TRUE, FALSE, TRUE, FALSE, "idle", FALSE)

ReadyOnly == {ReadySnap}
WorldSnaps == {ReadySnap, UnhomedSnap, DisabledSnap}
ReadyOrBusy == {ReadySnap, BrakingSnap}

KeySymmetry == Permutations(Keys)
=============================================================================
