------------------------------ MODULE Connection ------------------------------
(***************************************************************************)
(* RawConnection and ConnectionEnviroment (src/src/oracle/connection/      *)
(* raw.rs): establish, Drop for RawConnection, Drop for                    *)
(* ConnectionEnviroment, and the statements that share the connection      *)
(* through Rc<RawConnection> (stmt.rs, Statement::prepare and Drop).       *)
(*                                                                         *)
(* Each native handle is "none", "live" or "freed"; frees counts the       *)
(* OCIHandleFree calls that reached it, explicit or implicit (freeing an   *)
(* environment frees the handles allocated under it).  attached and        *)
(* session are the server attachment and the user session at the server.  *)
(* The connection's Rc is shared by its owner and by every live           *)
(* Statement; RawConnection is dropped when the last of them goes.         *)
(***************************************************************************)
EXTENDS Naturals

CONSTANTS
    Stmts,       \* identities of the Statements prepared on the connection
    CanFail,     \* native calls may return OCI_ERROR
    EnvWithInfo  \* OCIEnvNlsCreate may return OCI_SUCCESS_WITH_INFO

ASSUME ConnAssumption ==
    /\ CanFail \in BOOLEAN /\ EnvWithInfo \in BOOLEAN

\* The handles of ConnectionEnviroment and RawConnection, in allocation order.
Handles == {"env", "err", "server", "svcctx", "session", "trans"}

\* The handles allocated under the environment handle.
Children == Handles \ {"env"}

VARIABLES
    phase,     \* "init" | "parsed" | "env" | "allocated" | "attached" | "ready"
               \* | "failed" (establish returned Err) | "dropped"
    hs,        \* handle -> "none" | "live" | "freed"
    frees,     \* handle -> OCIHandleFree calls that freed it
    attached,  \* OCIServerAttach succeeded and no OCIServerDetach since
    session,   \* OCISessionBegin succeeded and no OCISessionEnd since
    owner,     \* the owner's Rc<RawConnection> is alive
    stmt,      \* statement -> "none" | "live" | "released"
    misuse     \* a native call was made with a freed handle

connVars == <<phase, hs, frees, attached, session>>
vars == <<connVars, owner, stmt, misuse>>

Init ==
    /\ phase = "init"
    /\ hs = [h \in Handles |-> "none"]
    /\ frees = [h \in Handles |-> 0]
    /\ attached = FALSE /\ session = FALSE
    /\ owner = FALSE
    /\ stmt = [s \in Stmts |-> "none"]
    /\ misuse = FALSE

\* Drop for ConnectionEnviroment, after RawConnection's Drop freed the
\* handles in connFrees (none when establish fails): OCIHandleFree of the
\* error handle, then of the environment handle, which frees every child
\* that is still allocated under it.
DropEnv(connFrees) ==
    LET envFrees == {"err", "env"}
        implicit == {h \in Children : hs[h] = "live"} \ (connFrees \cup envFrees)
        gone     == connFrees \cup envFrees \cup implicit
        Count(h, S) == IF h \in S THEN 1 ELSE 0
    IN  /\ hs' = [h \in Handles |-> IF h \in gone THEN "freed" ELSE hs[h]]
        /\ frees' = [h \in Handles |->
                       frees[h] + Count(h, connFrees) + Count(h, envFrees)
                                + Count(h, implicit)]

-----------------------------------------------------------------------------
(* establish                                                               *)

\* parse_db_string: an Err (wrong scheme) or a panic (assert_eq on the
\* segments, userandpw[1]) ends establish before any handle exists.
ParseDbString ==
    /\ phase = "init"
    /\ phase' \in {"parsed", "failed"}
    /\ UNCHANGED <<hs, frees, attached, session, owner, stmt, misuse>>

\* ConnectionEnviroment::new: OCIEnvNlsCreate; any code other than 0 is
\* returned as Err, OCI_SUCCESS_WITH_INFO (1) after the handle was
\* created.  Then alloc_handle(OCI_HTYPE_ERROR) and the charset lookup.
EnvNew ==
    /\ phase = "parsed"
    /\ \/ /\ phase' = "env"
          /\ hs' = [hs EXCEPT !["env"] = "live", !["err"] = "live"]
       \/ /\ CanFail
          /\ phase' = "failed" /\ UNCHANGED hs
       \/ /\ EnvWithInfo
          /\ phase' = "failed" /\ hs' = [hs EXCEPT !["env"] = "live"]
    /\ UNCHANGED <<frees, attached, session, owner, stmt, misuse>>

\* The four alloc_handle calls of establish (their status is ignored).
AllocHandles ==
    /\ phase = "env"
    /\ phase' = "allocated"
    /\ hs' = [h \in Handles |-> IF h \in {"server", "svcctx", "session", "trans"}
                                THEN "live" ELSE hs[h]]
    /\ UNCHANGED <<frees, attached, session, owner, stmt, misuse>>

\* OCIServerAttach; on Err the `?` drops env.
ServerAttach ==
    /\ phase = "allocated"
    /\ \/ /\ phase' = "attached" /\ attached' = TRUE
          /\ UNCHANGED <<hs, frees>>
       \/ /\ CanFail
          /\ phase' = "failed" /\ UNCHANGED attached
          /\ DropEnv({})
    /\ UNCHANGED <<session, owner, stmt, misuse>>

\* The attribute sets (status ignored), OCISessionBegin, and the session
\* and transaction set into the service context; on Err the `?` drops
\* env, with the server still attached.  Success hands the Rc to the owner.
SessionBegin ==
    /\ phase = "attached"
    /\ \/ /\ phase' = "ready" /\ session' = TRUE /\ owner' = TRUE
          /\ UNCHANGED <<hs, frees>>
       \/ /\ CanFail
          /\ phase' = "failed" /\ UNCHANGED <<session, owner>>
          /\ DropEnv({})
    /\ UNCHANGED <<attached, stmt, misuse>>

-----------------------------------------------------------------------------
(* The Rc<RawConnection> and the statements that share it.                 *)

\* Handles a statement's native calls go through: the service context and
\* the error handle (OCIStmtPrepare2, OCIStmtRelease).
StmtHandles == {"svcctx", "err"}

UsesFreed(hset) == \E h \in hset : hs[h] # "live"

\* Statement::prepare clones the Rc (raw_connection.clone()).
PrepareStmt(s) ==
    /\ phase = "ready" /\ owner
    /\ stmt[s] = "none"
    /\ stmt' = [stmt EXCEPT ![s] = "live"]
    /\ misuse' = (misuse \/ UsesFreed(StmtHandles))
    /\ UNCHANGED <<connVars, owner>>

\* The statements still holding a clone of the Rc.
LiveStmts == {s \in Stmts : stmt[s] = "live"}

\* Mutant of DropConnection (RawConnection's Drop also freeing the
\* environment's error handle).
DropConnectionFreesErr ==
    /\ phase' = "dropped"
    /\ misuse' = (misuse \/ UsesFreed({"svcctx", "server", "session", "err"}))
    /\ session' = FALSE /\ attached' = FALSE
    /\ DropEnv({"session", "svcctx", "server", "trans", "err"})

\* Drop for RawConnection: OCISessionEnd, OCIServerDetach, then
\* OCIHandleFree of session, service context, server (with
\* OCI_HTYPE_ENV) and transaction; then the env field's Drop.  Statuses
\* are ignored.  The free with the wrong handle type is rejected or frees
\* the server handle.
DropConnection ==
    /\ phase' = "dropped"
    /\ misuse' = (misuse \/ UsesFreed({"svcctx", "server", "session", "err"}))
    /\ \/ session' = FALSE
       \/ CanFail /\ UNCHANGED session
    /\ \/ attached' = FALSE
       \/ CanFail /\ UNCHANGED attached
    /\ \E serverFreed \in BOOLEAN :
          DropEnv({"session", "svcctx", "trans"}
                  \cup (IF serverFreed THEN {"server"} ELSE {}))

\* Drop for Statement: OCIStmtRelease, then the Rc clone goes; the last
\* Rc to go drops the RawConnection.
DropStmt(s) ==
    /\ stmt[s] = "live"
    /\ stmt' = [stmt EXCEPT ![s] = "released"]
    /\ IF ~owner /\ LiveStmts = {s}
       THEN DropConnection
       ELSE /\ misuse' = (misuse \/ UsesFreed(StmtHandles))
            /\ UNCHANGED connVars
    /\ UNCHANGED owner

\* Mutant of DropOwner (the connection dropped with its owner, whatever
\* statements still hold a clone of the Rc).
DropOwnerIgnoresRc ==
    /\ owner
    /\ owner' = FALSE
    /\ DropConnection
    /\ UNCHANGED stmt

\* The owner (the diesel connection object) drops its Rc.
DropOwner ==
    /\ owner
    /\ owner' = FALSE
    /\ IF LiveStmts = {}
       THEN DropConnection
       ELSE UNCHANGED <<connVars, misuse>>
    /\ UNCHANGED stmt

Next ==
    \/ ParseDbString \/ EnvNew \/ AllocHandles \/ ServerAttach \/ SessionBegin
    \/ \E s \in Stmts : PrepareStmt(s) \/ DropStmt(s)
    \/ DropOwner

Spec == Init /\ [][Next]_vars

-----------------------------------------------------------------------------
(* Properties.                                                             *)

TypeOK ==
    /\ phase \in {"init", "parsed", "env", "allocated", "attached", "ready",
                  "failed", "dropped"}
    /\ hs \in [Handles -> {"none", "live", "freed"}]
    /\ frees \in [Handles -> Nat]
    /\ attached \in BOOLEAN /\ session \in BOOLEAN /\ owner \in BOOLEAN
    /\ stmt \in [Stmts -> {"none", "live", "released"}]
    /\ misuse \in BOOLEAN

\* Every handle establish allocated is freed exactly once, and none is
\* left once the connection is gone, on the success path, on each
\* failure exit of establish, and in Drop (spec: every native handle is
\* released exactly once on every exit path, including failure).
EachHandleReleasedOnce ==
    /\ \A h \in Handles : frees[h] <= 1
    /\ phase \in {"failed", "dropped"} => \A h \in Handles : hs[h] # "live"

\* No native call of a Statement or of the connection's Drop goes through
\* a handle that is already freed: the Rc keeps RawConnection alive while
\* a Statement can still call OCIStmtRelease.
NoCallOnFreedHandle == ~misuse

\* The server handle is freed only after the server was detached and the
\* session ended (spec: teardown must not leak partial state).
ServerDetachedBeforeFree ==
    hs["server"] = "freed" => ~attached /\ ~session

=============================================================================
