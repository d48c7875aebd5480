-------------------------- MODULE MCBrainExecution --------------------------
(* Instances of BrainExecution for TLC.                                     *)
EXTENDS BrainExecution

CONSTANTS j1, j2, w1, w2
OneJob == {j1}
TwoJobs == {j1, j2}
NoJobs == {}
OneWorker == {w1}
TwoWorkers == {w1, w2}
Withdrawn == {"ACCESS_WITHDRAWN"}
NoRefusal == {}

=============================================================================
