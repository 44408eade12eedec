\* Two contributors, and a pass that begins before the cache has the status of the
\* one before.
SPECIFICATION Spec
CONSTANTS
    Contributors = {1, 2}
    Patches <- MCPatches
    Rendered <- MCRendered
    Original <- MCOriginal
    Trees <- MCTrees
    ForeignPath <- MCForeignPath
    ForeignValues <- MCForeignValues
    Others <- MCOthers
    MaxChanges = 0
    MaxForeign = 0
    MaxLost = 0
    MaxStale = 1
INVARIANT AlwaysRestored
