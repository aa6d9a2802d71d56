CONSTANTS
    Project = {p1}
    Session = {s1}
    Run = {}
    PolicyRecorder = FALSE
    Answer <- AnyAnswer
    ModelTrigger <- AnyTrigger
    MayCrash = FALSE
    Unserializable = FALSE
    NoProject = NoProject
SPECIFICATION Spec
INVARIANTS PassedGateCheckSuffices
CHECK_DEADLOCK FALSE
