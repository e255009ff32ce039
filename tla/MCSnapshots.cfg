CONSTANTS
    a = a
    b = b
    unix = unix
    dos = dos
    Big = Big
    Absent = Absent
    Torn = Torn
    Files <- MCFiles
    Contents <- MCContents
    AsRead <- MCAsRead
    MaxTurns = 2
    MaxChanges = 3
    MaxOthers = 1
SPECIFICATION Spec
SYMMETRY Symmetric
INVARIANTS TypeOK UndoableTurns
PROPERTIES UndoRevertsTurn UndoIsConfined
CHECK_DEADLOCK FALSE
