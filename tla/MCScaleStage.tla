---------------------------- MODULE MCScaleStage ----------------------------
EXTENDS ScaleStage

AllFaults == {"setup", "thread", "start", "crash", "stubborn", "slow",
              "sample", "interrupt"}
=============================================================================
