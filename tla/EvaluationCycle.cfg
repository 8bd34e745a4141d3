SPECIFICATION Spec
CONSTANTS
    Humans = {a, b}
    Texts = {t1}
    Contents = {c1, c2}
    Renderers = {r1}
    FrozenContents = c1
    FrozenRenderer = r1
    Times = {now}
    Runs = {x, y}
    None = None
    MaxPublications = 1
    MaxEdits = 2
    MaxReviews = 2
CHECK_DEADLOCK FALSE
INVARIANTS
    ScoresRestOnAttestedWork
    VerdictIsOfOneDataset
