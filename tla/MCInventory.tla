---------------------------- MODULE MCInventory ----------------------------
(* The small instances of Inventory need no definitions of their own. *)
EXTENDS InventoryProperties
=============================================================================
