SPECIFICATION Spec
CONSTANTS
    Run = {r1, r2}
    File = {f1, f2, f3}
    Base = {b1}
    Worker = {w1, w2}
    Quality <- AllFiles
    MaxVersion = 2
    MaxFaults = 2
    Nothing = Nothing
    f1 = f1
    f2 = f2
    f3 = f3
SYMMETRY Symmetry
INVARIANT TypeOK
INVARIANT CommitIsWhole
INVARIANT VersionsWithoutGap
INVARIANT DoneIsPublished
PROPERTY ImplementsLedger
