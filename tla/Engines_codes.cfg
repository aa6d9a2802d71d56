SPECIFICATION Spec
CONSTANTS
    Component = {"growth"}
    p1 = p1
    p2 = p2
    v1 = v1
    k1 = k1
    k2 = k2
    ida = ida
    idb = idb
    idx = idx
    c1 = c1
    c2 = c2
    bx = bx
    by = by
    cx = cx
    cy = cy
    o1 = o1
    Absent = Absent
    Error = Error
    Infinity = Infinity
    Latest = Latest
    None = None
    Torn = Torn
    DataKey = {k1, k2}
    Field = {1, 2}
    Id = {ida, idb, idx}
    Contents <- FilesSaid
    Map <- Maps
    Client = {c1, c2}
    Bytes = {bx, by}
    Damage = TRUE
    MaxArtifacts = 2
    MaxClock = 1
    MaxResets = 2
    Column = {"ledgers.progress", "value_store"}
    OutcomeId = {o1}
    Context = {cx, cy}
    MaxRuns = 2
    MaxSaves = 1
    Process = {c1, c2}
    Lifetime = 2
    MaxHour = 3
    MaxFiles = 2
    MaxObservations = 2
    Pack = {p1}
    Base = {}
    Bundle = {bx, by}
    PackSpec <- Appended
    Lineage = {}
    Question = {}
    MaxVersions = 3
    MaxContexts = 0
    Engine = {c1, c2}
    Registered <- NamesGiven
    Observation = {o1, ida}
    About <- WhatIsLearned
    MaxUpdates = 3
    MaxNotes = 0
CHECK_DEADLOCK FALSE
INVARIANTS CodesAreLearned
