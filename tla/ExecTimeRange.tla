---------------------------- MODULE ExecTimeRange ----------------------------
(***************************************************************************)
(* The time range in which auto_verify may have orders executed: a pure    *)
(* test on times of day (ui/task/auto_verify.py, isInExecTimeRange), and   *)
(* what the two columns of the table mean by it.                           *)
(***************************************************************************)
EXTENDS Naturals

CONSTANTS Hour, Minute, Second   \* 0 .. 23, 0 .. 59 and 0 .. 59, or less

ASSUME TimeAssumption ==
  Hour \subseteq Nat /\ Minute \subseteq Nat /\ Second \subseteq Nat

Time == [h: Hour, m: Minute, s: Second]

\* The order of the day, by hour, then minute, then second.
Before(t, u) ==
  \/ t.h < u.h
  \/ t.h = u.h /\ t.m < u.m
  \/ t.h = u.h /\ t.m = u.m /\ t.s < u.s

\* A variant for mutation: the end is part of the range.
isInExecTimeRangeClosed(begin, end, t) ==
  IF t.h >= begin.h THEN ~Before(t, begin)
                    ELSE t.h <= end.h /\ ~Before(end, t)

\* The outer test is "hour >= bHour or hour <= eHour"; from the first hour on
\* only the begin is looked at, and before it only the end.
isInExecTimeRange(begin, end, t) ==
  IF t.h >= begin.h THEN ~Before(t, begin)
                    ELSE t.h <= end.h /\ Before(t, end)

-----------------------------------------------------------------------------
(* The meaning: from the begin on and before the end, over midnight if the *)
(* end comes earlier in the day.                                           *)

InRange(begin, end, t) ==
  IF Before(begin, end) THEN ~Before(t, begin) /\ Before(t, end)
                        ELSE ~Before(t, begin) \/ Before(t, end)

OverMidnight(begin, end) == end.h < begin.h
=============================================================================
