\* A connection with four statements sharing its Rc, every native call of
\* establish and Drop able to fail.
CONSTANTS
    Stmts <- MCStmts
    s1 = s1
    s2 = s2
    s3 = s3
    s4 = s4
    CanFail = TRUE
    EnvWithInfo = FALSE
SPECIFICATION Spec
INVARIANT EachHandleReleasedOnce
\* The connection's life ends when it is dropped or establish fails.
CHECK_DEADLOCK FALSE
