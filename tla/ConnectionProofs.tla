-------------------------- MODULE ConnectionProofs --------------------------
(***************************************************************************)
(* Proofs about Connection for every set of statements.                    *)
(***************************************************************************)
EXTENDS Connection, TLAPS

(***************************************************************************)
(* NoCallOnFreedHandle is not inductive: it needs the link the Rc makes    *)
(* between the holders of the connection and its handles.  RcInv says that *)
(* the connection is "ready" exactly while the owner or some Statement     *)
(* holds an Rc, that every handle is allocated from AllocHandles until the *)
(* connection is dropped, and that statements exist only then.             *)
(***************************************************************************)
AllLive == \A h \in Handles : hs[h] = "live"

RcInv ==
    /\ TypeOK
    /\ ~misuse
    /\ (phase = "ready") <=> (owner \/ LiveStmts # {})
    /\ phase \in {"allocated", "attached", "ready"} => AllLive
    /\ phase = "env" => hs["env"] = "live" /\ hs["err"] = "live"

\* RcInv split into its data part and its Boolean part: the SMT backend
\* handles the first, Zenon the second.
DataInv ==
    /\ phase \in {"init", "parsed", "env", "allocated", "attached", "ready",
                  "failed", "dropped"}
    /\ hs \in [Handles -> {"none", "live", "freed"}]
    /\ frees \in [Handles -> Nat]
    /\ stmt \in [Stmts -> {"none", "live", "released"}]
    /\ phase \in {"allocated", "attached", "ready"} => AllLive
    /\ phase = "env" => hs["env"] = "live" /\ hs["err"] = "live"
BoolInv ==
    /\ attached \in BOOLEAN /\ session \in BOOLEAN /\ owner \in BOOLEAN
    /\ misuse \in BOOLEAN /\ ~misuse
    /\ (phase = "ready") <=> (owner \/ LiveStmts # {})

LEMMA RcInvSplit ==
    /\ RcInv <=> DataInv /\ BoolInv
    /\ RcInv' <=> DataInv' /\ BoolInv'
BY Zenon DEF RcInv, TypeOK, DataInv, BoolInv

LEMMA RcInvInit == Init => RcInv
<1> SUFFICES ASSUME Init PROVE DataInv /\ BoolInv
  BY RcInvSplit
<1>1. DataInv
  BY DEF Init, DataInv, AllLive
<1>2. LiveStmts = {}
  BY DEF Init, LiveStmts
<1>3. BoolInv
  BY <1>2, Zenon DEF Init, BoolInv
<1>4. QED
  BY <1>1, <1>3

\* A step of establish: no Rc holder before or after it.
LEMMA EstablishBool ==
    ASSUME BoolInv, phase # "ready", phase' # "ready",
           UNCHANGED <<owner, stmt, misuse>>,
           attached' \in BOOLEAN, session' \in BOOLEAN
    PROVE  BoolInv'
<1>1. LiveStmts' = LiveStmts
  BY DEF LiveStmts
<1>2. QED
  BY <1>1, Zenon DEF BoolInv

\* What DropEnv leaves typed.
LEMMA DropEnvTypes ==
    ASSUME NEW connFrees \in SUBSET Children, DataInv, DropEnv(connFrees)
    PROVE  hs' \in [Handles -> {"none", "live", "freed"}] /\ frees' \in [Handles -> Nat]
BY DEF DropEnv, DataInv

\* The connection's Drop, entered with every handle allocated: no call
\* through a freed handle, and everything typed after it.
LEMMA DropConnectionSafe ==
    ASSUME DataInv, BoolInv, AllLive, DropConnection
    PROVE  /\ phase' = "dropped" /\ misuse' = FALSE
           /\ hs' \in [Handles -> {"none", "live", "freed"}] /\ frees' \in [Handles -> Nat]
           /\ attached' \in BOOLEAN /\ session' \in BOOLEAN
<1>1. PICK serverFreed \in BOOLEAN :
        DropEnv({"session", "svcctx", "trans"} \cup (IF serverFreed THEN {"server"} ELSE {}))
  BY DEF DropConnection
<1>2. ({"session", "svcctx", "trans"} \cup (IF serverFreed THEN {"server"} ELSE {}))
        \in SUBSET Children
  BY DEF Children, Handles
<1>3. ~UsesFreed({"svcctx", "server", "session", "err"})
  BY DEF UsesFreed, AllLive, Handles
<1>4. misuse' = FALSE
  BY <1>3, Zenon DEF DropConnection, BoolInv
<1>5. attached' \in BOOLEAN /\ session' \in BOOLEAN
  BY Zenon DEF DropConnection, BoolInv
<1>6. QED
  BY <1>1, <1>2, <1>4, <1>5, DropEnvTypes DEF DropConnection

LEMMA RcInvNext == RcInv /\ [Next]_vars => RcInv'
<1> SUFFICES ASSUME DataInv, BoolInv, [Next]_vars PROVE DataInv' /\ BoolInv'
  BY RcInvSplit
<1> USE ConnAssumption
<1>1. phase # "ready" => ~owner /\ LiveStmts = {}
  BY Zenon DEF BoolInv
<1>2. CASE ParseDbString
  <2>1. DataInv'
    BY <1>2 DEF ParseDbString, DataInv, AllLive
  <2>2. BoolInv'
    BY <1>2, EstablishBool DEF ParseDbString, BoolInv
  <2>3. QED
    BY <2>1, <2>2
<1>3. CASE EnvNew
  <2>1. DataInv'
    <3>1. CASE phase' = "env" /\ hs' = [hs EXCEPT !["env"] = "live", !["err"] = "live"]
      BY <1>3, <3>1 DEF EnvNew, DataInv, Handles
    <3>2. CASE phase' = "failed" /\ UNCHANGED hs
      BY <1>3, <3>2 DEF EnvNew, DataInv
    <3>3. CASE phase' = "failed" /\ hs' = [hs EXCEPT !["env"] = "live"]
      BY <1>3, <3>3 DEF EnvNew, DataInv, Handles
    <3>4. QED
      BY <1>3, <3>1, <3>2, <3>3 DEF EnvNew
  <2>2. BoolInv'
    BY <1>3, EstablishBool DEF EnvNew, BoolInv
  <2>3. QED
    BY <2>1, <2>2
<1>4. CASE AllocHandles
  <2>1. DataInv'
    BY <1>4 DEF AllocHandles, DataInv, AllLive, Handles
  <2>2. BoolInv'
    BY <1>4, EstablishBool DEF AllocHandles, BoolInv
  <2>3. QED
    BY <2>1, <2>2
<1>5. CASE ServerAttach
  <2>1. CASE phase' = "attached" /\ attached' = TRUE /\ UNCHANGED <<hs, frees>>
    <3>1. DataInv'
      BY <1>5, <2>1 DEF ServerAttach, DataInv, AllLive
    <3>2. BoolInv'
      BY <1>5, <2>1, EstablishBool DEF ServerAttach, BoolInv
    <3>3. QED
      BY <3>1, <3>2
  <2>2. CASE CanFail /\ phase' = "failed" /\ UNCHANGED attached /\ DropEnv({})
    <3>1. DataInv'
      BY <1>5, <2>2, DropEnvTypes DEF ServerAttach, DataInv
    <3>2. BoolInv'
      BY <1>5, <2>2, EstablishBool DEF ServerAttach, BoolInv
    <3>3. QED
      BY <3>1, <3>2
  <2>3. QED
    BY <1>5, <2>1, <2>2 DEF ServerAttach
<1>6. CASE SessionBegin
  <2>1. CASE phase' = "ready" /\ session' = TRUE /\ owner' = TRUE /\ UNCHANGED <<hs, frees>>
    <3>1. DataInv'
      BY <1>6, <2>1 DEF SessionBegin, DataInv, AllLive
    <3>2. misuse' = FALSE /\ attached' \in BOOLEAN
      BY <1>6, Zenon DEF SessionBegin, BoolInv
    <3>3. QED
      BY <2>1, <3>1, <3>2, Zenon DEF BoolInv
  <2>2. CASE CanFail /\ phase' = "failed" /\ UNCHANGED <<session, owner>> /\ DropEnv({})
    <3>1. DataInv'
      BY <1>6, <2>2, DropEnvTypes DEF SessionBegin, DataInv
    <3>2. BoolInv'
      BY <1>6, <2>2, EstablishBool DEF SessionBegin, BoolInv
    <3>3. QED
      BY <3>1, <3>2
  <2>3. QED
    BY <1>6, <2>1, <2>2 DEF SessionBegin
<1>7. ASSUME NEW s \in Stmts, PrepareStmt(s) PROVE DataInv' /\ BoolInv'
  <2>1. phase = "ready" /\ AllLive
    BY <1>7 DEF PrepareStmt, DataInv
  <2>2. ~UsesFreed(StmtHandles)
    BY <2>1 DEF AllLive, UsesFreed, StmtHandles, Handles
  <2>3. DataInv'
    BY <1>7, <2>1 DEF PrepareStmt, DataInv, AllLive, connVars
  <2>4. misuse' = FALSE /\ UNCHANGED <<phase, owner, attached, session>>
    BY <1>7, <2>2, Zenon DEF PrepareStmt, BoolInv, connVars
  <2>5. s \in LiveStmts'
    BY <1>7 DEF PrepareStmt, LiveStmts, DataInv
  <2>6. QED
    BY <2>1, <2>3, <2>4, <2>5, Zenon DEF BoolInv
<1>8. ASSUME NEW s \in Stmts, DropStmt(s) PROVE DataInv' /\ BoolInv'
  <2>1. s \in LiveStmts
    BY <1>8 DEF DropStmt, LiveStmts
  <2>2. phase = "ready" /\ AllLive
    BY <1>1, <2>1 DEF DataInv
  <2>3. LiveStmts' = LiveStmts \ {s} /\ stmt' \in [Stmts -> {"none", "live", "released"}]
    BY <1>8 DEF DropStmt, LiveStmts, DataInv
  <2>4. CASE ~owner /\ LiveStmts = {s}
    <3>1. DropConnection /\ UNCHANGED owner
      BY <1>8, <2>4 DEF DropStmt
    <3>2. /\ phase' = "dropped" /\ misuse' = FALSE
          /\ hs' \in [Handles -> {"none", "live", "freed"}] /\ frees' \in [Handles -> Nat]
          /\ attached' \in BOOLEAN /\ session' \in BOOLEAN
      BY <2>2, <3>1, DropConnectionSafe
    <3>3. DataInv'
      BY <2>3, <3>2 DEF DataInv
    <3>4. LiveStmts' = {}
      BY <2>3, <2>4
    <3>5. QED
      BY <2>4, <3>1, <3>2, <3>3, <3>4, Zenon DEF BoolInv
  <2>5. CASE ~(~owner /\ LiveStmts = {s})
    <3>1. UNCHANGED <<connVars, owner>>
      BY <1>8, <2>5 DEF DropStmt
    <3>2. ~UsesFreed(StmtHandles)
      BY <2>2 DEF AllLive, UsesFreed, StmtHandles, Handles
    <3>3. misuse' = FALSE
      BY <1>8, <2>5, <3>2, Zenon DEF DropStmt, BoolInv
    <3>4. owner \/ LiveStmts' # {}
      BY <2>1, <2>3, <2>5
    <3>5. DataInv'
      BY <2>2, <2>3, <3>1 DEF DataInv, connVars, AllLive
    <3>6. QED
      BY <2>2, <3>1, <3>3, <3>4, <3>5, Zenon DEF BoolInv, connVars
  <2>6. QED
    BY <2>4, <2>5
<1>9. CASE DropOwner
  <2>1. owner /\ owner' = FALSE /\ UNCHANGED stmt
    BY <1>9 DEF DropOwner
  <2>2. phase = "ready" /\ AllLive
    BY <2>1, Zenon DEF BoolInv, DataInv
  <2>3. CASE LiveStmts = {}
    <3>1. DropConnection
      BY <1>9, <2>3 DEF DropOwner
    <3>2. /\ phase' = "dropped" /\ misuse' = FALSE
          /\ hs' \in [Handles -> {"none", "live", "freed"}] /\ frees' \in [Handles -> Nat]
          /\ attached' \in BOOLEAN /\ session' \in BOOLEAN
      BY <2>2, <3>1, DropConnectionSafe
    <3>3. LiveStmts' = {}
      BY <2>1, <2>3 DEF LiveStmts
    <3>4. DataInv'
      BY <2>1, <3>2 DEF DataInv
    <3>5. QED
      BY <2>1, <3>2, <3>3, <3>4, Zenon DEF BoolInv
  <2>4. CASE LiveStmts # {}
    <3>1. UNCHANGED <<connVars, misuse>>
      BY <1>9, <2>4 DEF DropOwner
    <3>2. LiveStmts' # {}
      BY <2>1, <2>4 DEF LiveStmts
    <3>3. DataInv'
      BY <2>1, <3>1 DEF DataInv, connVars, AllLive
    <3>4. QED
      BY <2>1, <2>2, <3>1, <3>2, <3>3, Zenon DEF BoolInv, connVars
  <2>5. QED
    BY <2>3, <2>4
<1>10. CASE UNCHANGED vars
  <2>1. LiveStmts' = LiveStmts
    BY <1>10 DEF vars, LiveStmts
  <2>2. QED
    BY <1>10, <2>1, Zenon DEF vars, connVars, DataInv, BoolInv, AllLive
<1>11. QED
  BY <1>2, <1>3, <1>4, <1>5, <1>6, <1>7, <1>8, <1>9, <1>10 DEF Next

\* The Rc<RawConnection> that every Statement holds keeps the connection's
\* handles allocated for as long as any Statement (or the owner) can make
\* a native call through them: no OCIStmtPrepare2 or OCIStmtRelease, and
\* no native call of Drop for RawConnection, goes through a freed handle.
THEOREM NoCallOnFreedHandleHolds == Spec => []NoCallOnFreedHandle
<1>1. Spec => []RcInv
  BY RcInvInit, RcInvNext, PTL DEF Spec
<1>2. QED
  BY <1>1, PTL DEF RcInv, NoCallOnFreedHandle

-----------------------------------------------------------------------------
(***************************************************************************)
(* EachHandleReleasedOnce.  Handles are freed only by DropEnv, and DropEnv *)
(* runs once, on the step into "failed" or "dropped", which are final.     *)
(* When it runs every handle is live (RcInv) and none was freed before, so *)
(* each is freed exactly once: by RawConnection's Drop, by the            *)
(* environment's Drop, or implicitly with the environment.  The only step  *)
(* into "failed" that leaves a handle live is OCIEnvNlsCreate returning    *)
(* OCI_SUCCESS_WITH_INFO, hence the assumption ~EnvWithInfo.               *)
(***************************************************************************)
NoneFreed == \A h \in Handles : frees[h] = 0

HandleFacts ==
    /\ phase \in {"init", "parsed"} => \A h \in Handles : hs[h] = "none"
    /\ phase \notin {"failed", "dropped"} => NoneFreed
    /\ phase \in {"failed", "dropped"} =>
           \A h \in Handles : frees[h] <= 1 /\ hs[h] # "live"

HInv == RcInv /\ HandleFacts

\* Freeing the environment when every handle is live and none was freed
\* frees each handle once, whichever handles RawConnection's Drop freed
\* before (none of the environment's own).
LEMMA DropEnvFreesAll ==
    ASSUME NEW connFrees \in SUBSET {"server", "svcctx", "session", "trans"},
           hs \in [Handles -> {"none", "live", "freed"}],
           frees \in [Handles -> Nat],
           AllLive, NoneFreed, DropEnv(connFrees)
    PROVE  \A h \in Handles : hs'[h] = "freed" /\ frees'[h] = 1
BY DEF DropEnv, AllLive, NoneFreed, Handles, Children

LEMMA DropConnectionFreesAll ==
    ASSUME hs \in [Handles -> {"none", "live", "freed"}],
           frees \in [Handles -> Nat],
           AllLive, NoneFreed, DropConnection
    PROVE  \A h \in Handles : hs'[h] = "freed" /\ frees'[h] = 1
<1>1. PICK serverFreed \in BOOLEAN :
        DropEnv({"session", "svcctx", "trans"} \cup (IF serverFreed THEN {"server"} ELSE {}))
  BY DEF DropConnection
<1>2. ({"session", "svcctx", "trans"} \cup (IF serverFreed THEN {"server"} ELSE {}))
        \in SUBSET {"server", "svcctx", "session", "trans"}
  OBVIOUS
<1>3. QED
  BY <1>1, <1>2, DropEnvFreesAll

LEMMA HInvInit == Init => HInv
<1>1. Init => RcInv
  BY RcInvInit
<1>2. Init => HandleFacts
  BY DEF Init, HandleFacts, NoneFreed
<1>3. QED
  BY <1>1, <1>2 DEF HInv

LEMMA HInvNext ==
    ASSUME ~EnvWithInfo, HInv, [Next]_vars
    PROVE  HInv'
<1> USE ConnAssumption
<1>1. RcInv'
  BY RcInvNext DEF HInv
<1>2. /\ DataInv /\ BoolInv /\ HandleFacts
  BY RcInvSplit DEF HInv
<1>3. /\ hs \in [Handles -> {"none", "live", "freed"}] /\ frees \in [Handles -> Nat]
      /\ phase \in {"allocated", "attached", "ready"} => AllLive
  BY <1>2 DEF DataInv
<1> SUFFICES HandleFacts'
  BY <1>1 DEF HInv
<1>4. CASE ParseDbString
  BY <1>2, <1>4 DEF ParseDbString, HandleFacts, NoneFreed
<1>5. CASE EnvNew
  <2>1. CASE phase' = "env" /\ hs' = [hs EXCEPT !["env"] = "live", !["err"] = "live"]
    BY <1>2, <1>5, <2>1 DEF EnvNew, HandleFacts, NoneFreed
  <2>2. CASE CanFail /\ phase' = "failed" /\ UNCHANGED hs
    BY <1>2, <1>5, <2>2 DEF EnvNew, HandleFacts, NoneFreed
  <2>3. QED
    BY <1>5, <2>1, <2>2 DEF EnvNew
<1>6. CASE AllocHandles
  BY <1>2, <1>6 DEF AllocHandles, HandleFacts, NoneFreed
<1>7. CASE ServerAttach
  <2>1. CASE phase' = "attached" /\ attached' = TRUE /\ UNCHANGED <<hs, frees>>
    BY <1>2, <1>7, <2>1 DEF ServerAttach, HandleFacts, NoneFreed
  <2>2. CASE CanFail /\ phase' = "failed" /\ UNCHANGED attached /\ DropEnv({})
    <3>1. \A h \in Handles : hs'[h] = "freed" /\ frees'[h] = 1
      BY <1>2, <1>3, <1>7, <2>2, DropEnvFreesAll DEF ServerAttach, HandleFacts
    <3>2. QED
      BY <2>2, <3>1 DEF HandleFacts
  <2>3. QED
    BY <1>7, <2>1, <2>2 DEF ServerAttach
<1>8. CASE SessionBegin
  <2>1. CASE phase' = "ready" /\ session' = TRUE /\ owner' = TRUE /\ UNCHANGED <<hs, frees>>
    BY <1>2, <1>8, <2>1 DEF SessionBegin, HandleFacts, NoneFreed
  <2>2. CASE CanFail /\ phase' = "failed" /\ UNCHANGED <<session, owner>> /\ DropEnv({})
    <3>1. \A h \in Handles : hs'[h] = "freed" /\ frees'[h] = 1
      BY <1>2, <1>3, <1>8, <2>2, DropEnvFreesAll DEF SessionBegin, HandleFacts
    <3>2. QED
      BY <2>2, <3>1 DEF HandleFacts
  <2>3. QED
    BY <1>8, <2>1, <2>2 DEF SessionBegin
<1>9. ASSUME NEW s \in Stmts, PrepareStmt(s) PROVE HandleFacts'
  BY <1>2, <1>9 DEF PrepareStmt, HandleFacts, NoneFreed, connVars
\* A drop of an Rc clone happens while the connection is "ready".
<1>10. ASSUME NEW s \in Stmts, DropStmt(s) PROVE HandleFacts'
  <2>1. phase = "ready"
    BY <1>2, <1>10, Zenon DEF DropStmt, LiveStmts, BoolInv
  <2>2. CASE ~owner /\ LiveStmts = {s}
    <3>1. \A h \in Handles : hs'[h] = "freed" /\ frees'[h] = 1
      BY <1>2, <1>3, <1>10, <2>1, <2>2, DropConnectionFreesAll DEF DropStmt, HandleFacts
    <3>2. QED
      BY <1>10, <2>2, <3>1 DEF DropStmt, DropConnection, HandleFacts
  <2>3. CASE ~(~owner /\ LiveStmts = {s})
    BY <1>2, <1>10, <2>3 DEF DropStmt, HandleFacts, NoneFreed, connVars
  <2>4. QED
    BY <2>2, <2>3
<1>11. CASE DropOwner
  <2>1. phase = "ready"
    BY <1>2, <1>11, Zenon DEF DropOwner, BoolInv
  <2>2. CASE LiveStmts = {}
    <3>1. \A h \in Handles : hs'[h] = "freed" /\ frees'[h] = 1
      BY <1>2, <1>3, <1>11, <2>1, <2>2, DropConnectionFreesAll DEF DropOwner, HandleFacts
    <3>2. QED
      BY <1>11, <2>2, <3>1 DEF DropOwner, DropConnection, HandleFacts
  <2>3. CASE LiveStmts # {}
    BY <1>2, <1>11, <2>3 DEF DropOwner, HandleFacts, NoneFreed, connVars
  <2>4. QED
    BY <2>2, <2>3
<1>12. CASE UNCHANGED vars
  BY <1>2, <1>12 DEF vars, connVars, HandleFacts, NoneFreed
<1>13. QED
  BY <1>4, <1>5, <1>6, <1>7, <1>8, <1>9, <1>10, <1>11, <1>12 DEF Next

\* When OCIEnvNlsCreate never returns OCI_SUCCESS_WITH_INFO, every handle
\* establish allocates is freed exactly once and none is left once the
\* connection is gone: on each failure exit of establish (the `?` drops
\* the environment) and in Drop for RawConnection, whoever drops the last
\* Rc clone and whether or not the server free with OCI_HTYPE_ENV works.
THEOREM EachHandleReleasedOnceHolds ==
    ASSUME ~EnvWithInfo PROVE Spec => []EachHandleReleasedOnce
<1>1. Spec => []HInv
  BY HInvInit, HInvNext, PTL DEF Spec
<1>2. HInv => EachHandleReleasedOnce
  BY DEF HInv, HandleFacts, EachHandleReleasedOnce, NoneFreed, RcInv, TypeOK
<1>3. QED
  BY <1>1, <1>2, PTL

=============================================================================
