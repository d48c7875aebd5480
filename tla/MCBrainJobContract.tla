------------------------- MODULE MCBrainJobContract -------------------------
(* An instance of BrainJobContract for TLC: one job whose task is           *)
(* interactive and durable and may ask, and one that only answers at once.  *)
EXTENDS BrainJobContract

CONSTANTS full, quick
AllJobs == {full, quick}
FullJobs == {full}
=============================================================================
