\* One cursor used the way the spec assumes, with fetch errors that
\* OCIErrorGet finds no record for.
CONSTANTS
    SqlTexts <- MCSqlTexts
    SqlKind <- MCSqlKind
    NCols = 2
    ColDescs <- MCColDescs
    Rows <- MCRows
    Values <- MCValues
    Cursors <- MCOneCursor
    v1 = v1
    v2 = v2
    c1 = c1
    c2 = c2
    Null = Null
    Zero = Zero
    Empty = Empty
    NoRow = NoRow
    NoCursor = NoCursor
    MaxBinds = 1
    MaxExec = 2
    MaxFetch = 4
    Disciplined = TRUE
    CanFail = TRUE
    ErrorWithoutRecord = TRUE
SPECIFICATION Spec
INVARIANT CursorYieldsResultSet
CHECK_DEADLOCK FALSE
