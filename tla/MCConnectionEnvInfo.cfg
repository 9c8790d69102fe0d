\* OCIEnvNlsCreate returning OCI_SUCCESS_WITH_INFO.
CONSTANTS
    Stmts <- MCStmts
    s1 = s1
    s2 = s2
    s3 = s3
    s4 = s4
    CanFail = FALSE
    EnvWithInfo = TRUE
SPECIFICATION Spec
INVARIANT EachHandleReleasedOnce
\* The connection's life ends when it is dropped or establish fails.
CHECK_DEADLOCK FALSE
