CONSTANTS
    Project = {p1, p2}
    Session = {s1}
    Run = {}
    PolicyRecorder = TRUE
    Answer <- AnyAnswer
    ModelTrigger <- AnyTrigger
    MayCrash = FALSE
    Unserializable = FALSE
    NoProject = NoProject
SPECIFICATION Spec
INVARIANTS UserGateNeedsUser
CHECK_DEADLOCK FALSE
