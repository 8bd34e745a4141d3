SPECIFICATION Spec
CONSTANTS
    Humans = {a, b}
    Texts = {t1}
    Contents = {c1}
    Renderers = {r1, r2}
    FrozenContents = c1
    FrozenRenderer = r1
    Times = {now, later}
    Runs = {x, y}
    None = None
    MaxPublications = 0
    MaxEdits = 2
    MaxReviews = 2
CHECK_DEADLOCK FALSE
INVARIANTS
    AdmittedPacketIsFrozen
    VerdictIsOfOneSubmission
