SPECIFICATION Spec
CONSTANTS
    Thread = {t1}
    InitialUsers = 2
    MaxRequests = 4
PROPERTY StoresAtomically
