\* Two jobs and the ticker, fair goroutines, no fair poll timer.
CONSTANTS
  Jobs = {j1, j2}
  Probes = {run}
SPECIFICATION FairSpec
INVARIANTS
  NoRefillDuringJob
PROPERTIES
  SkippedIsRetried
  RefillResumes
