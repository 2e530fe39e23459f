----------------------------- MODULE MCUnattended -----------------------------
(* Small instances of Unattended: a day of four hours, one order per instance. *)
EXTENDS UnattendedProperties

CONSTANTS i1, i2, harmless, flagged

MCSql     == {harmless, flagged}
MCFlagged == {flagged}
MCOrders  == {1, 2}
MCInsOf   == [o \in MCOrders |-> IF o = 1 THEN i1 ELSE i2]

MCHour   == {1, 3}
MCZero   == {0}
At0(h)   == [h |-> h, m |-> 0, s |-> 0]
MCNight  == {[begin |-> At0(3), end |-> At0(1)]}
MCDay    == {[begin |-> At0(1), end |-> At0(3)]}
=============================================================================
