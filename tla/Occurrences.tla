----------------------------- MODULE Occurrences -----------------------------
(***************************************************************************)
(* What a scheduler that prefers to skip promises: an occurrence of a      *)
(* task's schedule is claimed when it is due, never after a later one of   *)
(* the same task, and a claimed occurrence is started at most once.  It    *)
(* may be skipped, and a claimed one may be lost.                          *)
(***************************************************************************)
EXTENDS Naturals

CONSTANT Occurrence  \* pairs of a task and a time of its schedule

VARIABLES
  clock,
  claims, starts  \* per occurrence, how often it was claimed and started

vars == <<clock, claims, starts>>

Init ==
  /\ clock = 0
  /\ claims = [o \in Occurrence |-> 0]
  /\ starts = [o \in Occurrence |-> 0]

Tick == clock' = clock + 1 /\ UNCHANGED <<claims, starts>>

Claim(o) ==
  /\ o[2] <= clock
  /\ \A c \in Occurrence : c[1] = o[1] /\ claims[c] > 0 => c[2] < o[2]
  /\ claims' = [claims EXCEPT ![o] = @ + 1]
  /\ UNCHANGED <<clock, starts>>

Start(o) ==
  /\ starts[o] < claims[o]
  /\ starts' = [starts EXCEPT ![o] = @ + 1]
  /\ UNCHANGED <<clock, claims>>

Next == Tick \/ \E o \in Occurrence : Claim(o) \/ Start(o)

Spec == Init /\ [][Next]_vars
=============================================================================
