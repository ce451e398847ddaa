---------------------------- MODULE MCSendalerts ------------------------------
(* Small instances of Sendalerts for TLC. *)
EXTENDS Sendalerts, TLC

CONSTANTS c1, c2, s1, s2, q1, q2, r1    \* model values
CONSTANT MaxTime                        \* bound: the clock stops here

MCInstants == 0 .. MaxTime

SenderSymmetry == Permutations(Senders)

\* A period and a grace time of one.
Simple == [kind |-> "simple", timeout |-> 1, schedule |-> "none", grace |-> 1]

\* Due at every other instant, the odd ones.
Cron == [kind |-> "cron", timeout |-> 1, schedule |-> "everyOther", grace |-> 1]

\* Due once.
Once == [kind |-> "oncalendar", timeout |-> 1, schedule |-> "once", grace |-> 1]

OneSimple  == {Simple}
SimpleCron == {Simple, Cron}
SimpleOnce == {Simple, Once}

\* The schedules of the instances: odd times; time 2 and never again.
MCNextElapse(schedule, t) ==
    CASE schedule = "everyOther" -> 2 * ((t + 1) \div 2) + 1
      [] schedule = "once"       -> IF t < 2 THEN 2 ELSE None
      [] OTHER                   -> t + 1
=============================================================================
