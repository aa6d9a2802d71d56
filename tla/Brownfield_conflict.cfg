SPECIFICATION FairSpec
CONSTANTS
    Run = {r1, r2}
    File = {f1, f2}
    Base = {b1}
    Worker = {w1}
    Quality <- GoodFiles
    MaxVersion = 2
    MaxFaults = 1
    Nothing = Nothing
    f1 = f1
    f2 = f2
    f3 = f3
PROPERTY CommittedGetsPublished
