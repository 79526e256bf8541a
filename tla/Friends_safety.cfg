SPECIFICATION Spec
CONSTANTS
    ada = ada
    bob = bob
    Users <- MCUsers
    MaxNotes = 1
    MaxEdits = 1
    MaxRows = 2
    MaxCalls = 2
SYMMETRY Symmetric
INVARIANTS
    FriendsBothWanted
    NoRowOverlooked
    NoteShownOnce
CHECK_DEADLOCK FALSE
