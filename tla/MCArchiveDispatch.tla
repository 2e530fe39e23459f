------------------------- MODULE MCArchiveDispatch -------------------------
(* Small instances of ArchiveDispatch: a frequent rule and a rare one. *)
EXTENDS ArchiveDispatchProperties, TLC

CONSTANTS k1, k2

MCTask     == {k1, k2}
MCOnce     == {k1}
MCSchedule == (k1 :> {1, 2}) @@ (k2 :> {1})
=============================================================================
