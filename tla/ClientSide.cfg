\* Two contributors whose specs change; somebody else writes a label, a status
\* write is lost, and a pass begins with an old tracker.
SPECIFICATION Spec
CONSTANTS
    Contributors = {1, 2}
    Patches <- MCPatches
    Rendered <- MCRendered
    Original <- MCOriginal
    Trees <- MCTrees
    ForeignPath <- MCForeignPath
    ForeignValues <- MCForeignValues
    Others <- MCOthers
    MaxChanges = 3
    MaxForeign = 1
    MaxLost = 1
    MaxStale = 1
INVARIANT FieldsAsRecorded
INVARIANT Restored
INVARIANT OthersKept
INVARIANT PathsLawful
