---------------------------- MODULE MCWorkQueue ----------------------------
EXTENDS WorkQueue, TLC

CONSTANTS c1, timed, plain
=============================================================================
