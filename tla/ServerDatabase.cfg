SPECIFICATION Spec
CONSTANTS
    Thread = {t1, t2}
    InitialUsers = 3
    MaxRequests = 3
SYMMETRY ThreadSymmetry
INVARIANTS
    CommittedConsistent
    RegistrationDurable
    CommitIsDurable
    FailureLeavesNothing
    PersonalChatPair
