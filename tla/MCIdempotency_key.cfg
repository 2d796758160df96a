\* Four requests with one key and one of two bodies, two failures, one crash.
SPECIFICATION Spec
CONSTANTS
    Request = {r1, r2, r3, r4}
    Body = {b1, b2}
    None = None
    MaxFailures = 2
    MaxCrashes = 1
SYMMETRY Symmetric
INVARIANTS OneBodyPerKey RetriesFollowFailures AnswersAgree
PROPERTY StoredIsFinal
CHECK_DEADLOCK FALSE
