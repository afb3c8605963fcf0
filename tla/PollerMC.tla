------------------------------ MODULE PollerMC ------------------------------
(* Values for the constants of Poller. *)
EXTENDS Poller, TLC

CONSTANTS m1, m2, t1, t2, t3

TwoMachines == {m1, m2}
ThreeTasks == {t1, t2, t3}
OneStuck == {t1}
=============================================================================
