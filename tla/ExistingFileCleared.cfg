SPECIFICATION Spec
CONSTANTS
    User = {ann, bob, cleo}
    Spaced = {cleo}
    NoUser = NoUser
INVARIANT
    ExistingFileCleared
