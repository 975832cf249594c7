SPECIFICATION Spec
CONSTANTS
  Tools = {"aislinn", "civl", "hermes", "isp", "itac", "mpisv", "must", "parcoach", "simgrid", "smpi", "smpivg"}
  MaxMarks = 3
  MaxWarnings = 10
INVARIANTS NotRunUnjudged NoErrorAccepted SilentTimeoutUnjudged TimeoutsAreLate
CHECK_DEADLOCK FALSE
