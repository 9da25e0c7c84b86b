------------------------- MODULE MCDeviceProperty --------------------------
(* Instantiation of DeviceProperty for TLC: two client tasks, two paths.   *)
EXTENDS DeviceProperty, TLC

CONSTANTS t1, t2, k1, k2, d1, d2, ty1, ty2

(* Each task publishes on its own path: calls on one path never overlap.  *)
MCTaskKeyDistinct == [t \in Tasks |-> IF t = t1 THEN k1 ELSE k2]

(* Both tasks publish on the same path, as two clones of the client may.  *)
MCTaskKeyShared == [t \in Tasks |-> k1]

MCSymmetry == Permutations({d1, d2})
=============================================================================
