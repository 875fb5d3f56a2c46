--------------------------- MODULE MCWriteCommand ---------------------------
(***************************************************************************)
(* Five drives for three names: the live medium and the mirror of it that  *)
(* the system started from, both removable, a stick, a fixed drive that    *)
(* says the same of itself as the stick does, and a larger one of the same *)
(* model.  A listing may mark both drives of the system, one, or none.     *)
(***************************************************************************)
EXTENDS WriteCommand

CONSTANTS live, mirror, stick, lookalike, large

MCDrives == {live, mirror, stick, lookalike, large}

MCFacts ==
  LET fact(size, model, removable, system) ==
        [size |-> size, model |-> model, serial |-> "", removable |-> removable,
         system |-> system]
  IN  [d \in MCDrives |->
         CASE d = live  -> fact(3, "ssd", TRUE, TRUE)
           [] d = mirror    -> fact(3, "disk", TRUE, TRUE)
           [] d = stick     -> fact(2, "usb", TRUE, FALSE)
           [] d = lookalike -> fact(2, "usb", FALSE, FALSE)
           [] d = large     -> fact(3, "usb", TRUE, FALSE)]

=============================================================================
