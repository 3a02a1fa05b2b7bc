------------------------ MODULE MCNotificationSlots ------------------------
(* The instance of NotificationSlots that TLC explores: sweeps are alike.  *)
EXTENDS NotificationSlots, TLC

Symmetry == Permutations(Sweeps)
=============================================================================
