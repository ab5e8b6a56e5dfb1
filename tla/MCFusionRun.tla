---------------------------- MODULE MCFusionRun ----------------------------
(***************************************************************************)
(* Small instances of FusionRun for TLC.                                   *)
(***************************************************************************)
EXTENDS FusionRunInvariant, TLC

CONSTANTS q1, q2
OneRequest  == {q1}
TwoRequests == {q1, q2}
Symmetric   == Permutations({q1, q2})

AllDials  == {"monitor-only", "resolve-ci", "autopilot-merge"}
TwoDials  == {"resolve-ci", "autopilot-merge"}
HoldOrMerge == {"monitor-only", "autopilot-merge"}
Direct    == {FALSE}
Planned   == {TRUE}
BothModes == BOOLEAN

=============================================================================
