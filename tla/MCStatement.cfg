\* The statement used the way the spec assumes (one active cursor at a
\* time), with every native call able to fail, checked against the
\* abstract cursor machine as well.
CONSTANTS
    SqlTexts <- MCSqlTexts
    SqlKind <- MCSqlKind
    NCols = 2
    ColDescs <- MCColDescs
    Rows <- MCRows
    Values <- MCValues
    Cursors <- MCCursors
    v1 = v1
    v2 = v2
    c1 = c1
    c2 = c2
    Null = Null
    Zero = Zero
    Empty = Empty
    NoRow = NoRow
    NoCursor = NoCursor
    MaxBinds = 1
    MaxExec = 2
    MaxFetch = 4
    Disciplined = TRUE
    CanFail = TRUE
    ErrorWithoutRecord = FALSE
SPECIFICATION Spec
INVARIANT OpenCursorOwnsDefines
INVARIANT CursorYieldsResultSet
PROPERTY CursorRefinesCodeCursor
\* A statement's life ends when it is dropped or its prepare fails.
CHECK_DEADLOCK FALSE
