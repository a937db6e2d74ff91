---------------------------- MODULE MCCheckQueue ----------------------------
(* Two workers and the master, on blocks of up to four checks that are     *)
(* handed out one or two at a time.                                        *)
EXTENDS CheckQueue

CONSTANTS w1, w2

MCWorkers == {w1, w2}
MCChecks == 1 .. 4
MCBatchSize == 2
=============================================================================
