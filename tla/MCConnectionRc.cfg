\* Statements and the owner dropping their Rc clones in every order, with
\* every outcome of OCIEnvNlsCreate and of the native calls of Drop.
CONSTANTS
    Stmts <- MCStmts
    s1 = s1
    s2 = s2
    s3 = s3
    s4 = s4
    CanFail = TRUE
    EnvWithInfo = TRUE
SPECIFICATION Spec
INVARIANT NoCallOnFreedHandle
\* The connection's life ends when it is dropped or establish fails.
CHECK_DEADLOCK FALSE
