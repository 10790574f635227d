\* Two runs of three days; the pipeline runs on the first and the last.
SPECIFICATION FairSpec
CONSTANTS
    Jobs = {j1, j2}
    Days = 3
    RebalanceDays = {1, 3}
INVARIANTS RecordsSound
PROPERTIES CancelStops RunsEnd
