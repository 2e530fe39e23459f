----------------------------- MODULE MCSqlOrder -----------------------------
(* Small instances of SqlOrder: symmetric ids, one flagged text. *)
EXTENDS SqlOrderProperties, TLC

CONSTANTS harmless, flagged

MCSql     == {harmless, flagged}
MCFlagged == {flagged}
MCOneSql  == {harmless}

Symmetry == Permutations(Web) \cup Permutations(OrderId) \cup Permutations(TaskId)
=============================================================================
