----------------------------- MODULE MCSchedule -----------------------------
(* Schedule for TLC: a day of six ticks, a poll at least every other tick, *)
(* an interval in minutes and an aligned one.                              *)
EXTENDS Schedule

Minutes == [interval |-> 2, aligned |-> FALSE]
Daily == [interval |-> 4, aligned |-> TRUE]

TwoCadences == {Minutes, Daily}
OnlyMinutes == {Minutes}

=============================================================================
