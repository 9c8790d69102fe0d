\* Up to three bind calls, any of which may fail, followed by a run and
\* fetches in which an OCI_ERROR may come without a diagnostic record.
CONSTANTS
    SqlTexts <- MCSqlTexts
    SqlKind <- MCSqlKind
    NCols = 2
    ColDescs <- MCColDescs
    Rows <- MCRows
    Values <- MCValues
    Cursors <- MCOneCursor
    v1 = v1
    v2 = v2
    c1 = c1
    c2 = c2
    Null = Null
    Zero = Zero
    Empty = Empty
    NoRow = NoRow
    NoCursor = NoCursor
    MaxBinds = 3
    MaxExec = 1
    MaxFetch = 2
    Disciplined = TRUE
    CanFail = TRUE
    ErrorWithoutRecord = TRUE
SPECIFICATION Spec
INVARIANT BindPositionsFollowCalls
\* A statement's life ends when it is dropped or its prepare fails.
CHECK_DEADLOCK FALSE
