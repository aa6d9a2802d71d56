CONSTANTS
    Project = {p1}
    Session = {s1}
    Run = {r1, r2}
    PolicyRecorder = TRUE
    Answer <- AnyAnswer
    ModelTrigger <- AnyTrigger
    MayCrash = TRUE
    Unserializable = TRUE
    NoProject = NoProject
SPECIFICATION FairSpec
INVARIANTS TypeOK StageBacked UserGateNeedsUser AuditMatchesManifest
PROPERTIES CommandEnds
CHECK_DEADLOCK FALSE
