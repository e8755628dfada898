---------------------------- MODULE MCScheduler ----------------------------
EXTENDS Scheduler

CONSTANTS t1, t2, t3
=============================================================================
