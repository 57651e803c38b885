CONSTANT ProbeMisses = 3
SPECIFICATION FairSpec
INVARIANTS TypeOK OnlyInARow
PROPERTIES SilenceFound WatchersReturn ReportsFaithfully
