\* Two enrollments of one account, two concurrent requests, one correction.
\* Deadlock is not checked: a decided enrollment rests when the clock ends.
SPECIFICATION Spec
CONSTANTS
    None = None
    Enrollments = {e1, e2}
    Applicant <- SameApplicant
    Workers = {w1, w2}
    SingleAccount = TRUE
    MaxTime = 1
    MaxRevision = 1
SYMMETRY Symmetry
INVARIANTS
    TypeOK
    ApprovedHasOneDeveloper
    NotificationsAgree
    ApprovalsAreAudited
    StateIsExplained
PROPERTIES
    DecisionIsFinal
    AnswerIsOnRecord
    ImplementsEnrollmentReview
CHECK_DEADLOCK FALSE
