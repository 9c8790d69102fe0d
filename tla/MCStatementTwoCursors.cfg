\* Two cursors of one statement alive at once, which run_with_cursor(&self) allows.
CONSTANTS
    SqlTexts <- MCSqlTexts
    SqlKind <- MCSqlKind
    NCols = 2
    ColDescs <- MCColDescs
    Rows <- MCRows
    Values <- MCValues
    Cursors <- MCCursors
    v1 = v1
    v2 = v2
    c1 = c1
    c2 = c2
    Null = Null
    Zero = Zero
    Empty = Empty
    NoRow = NoRow
    NoCursor = NoCursor
    MaxBinds = 1
    MaxExec = 2
    MaxFetch = 4
    Disciplined = FALSE
    CanFail = FALSE
    ErrorWithoutRecord = FALSE
SPECIFICATION Spec
INVARIANT OpenCursorOwnsDefines
CHECK_DEADLOCK FALSE
