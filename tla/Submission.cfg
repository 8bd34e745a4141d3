SPECIFICATION FairSpec
CONSTANTS
    Submissions = {s1, s2, s3}
    Keys = {k1, k2}
    Documents = {d1, d2}
    Descriptions = {a}
    NoRequest = NoRequest
    NoOne = NoOne
    MaxFaults = 1
INVARIANTS
    SubmissionsAreSound
PROPERTIES
    ImplementsSubmitOnce
    EverySubmissionIsAnswered
