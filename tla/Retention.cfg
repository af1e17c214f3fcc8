SPECIFICATION Spec
CONSTANTS
    Committers = {c1}
    Readers = {r1}
    Windows = {0, 1, 2}
    MaxEpoch = 6
    MaxRun = 5
INVARIANT PinnedSeesTruth
INVARIANT HistoryQueryable
INVARIANT CurrentReadable
INVARIANT GenerationFilesKept
CHECK_DEADLOCK FALSE
VIEW View
