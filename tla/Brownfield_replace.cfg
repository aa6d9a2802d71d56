SPECIFICATION Spec
CONSTANTS
    Run = {r1, r2}
    File = {f1, f2}
    Base = {b1}
    Worker = {w1, w2}
    Quality <- GoodFiles
    MaxVersion = 2
    MaxFaults = 0
    Nothing = Nothing
    f1 = f1
    f2 = f2
    f3 = f3
SYMMETRY Symmetry
INVARIANT PublishedIsWhatWasCommitted
