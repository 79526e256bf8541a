CONSTANTS
    Fds <- LowFds
    Nicks = {n1, n2, n3}
    Chans = {c1}
    Keys = {k1}
    Limits <- OneLimit
    NoNick = NoNick
    NoKey = NoKey
SPECIFICATION IrcSpec
INVARIANTS
    TablesAgree
PROPERTIES
    EntryObeysModes
    OperatorsAreAppointed
CHECK_DEADLOCK FALSE
