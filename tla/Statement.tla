------------------------------ MODULE Statement ------------------------------
(***************************************************************************)
(* One Statement (src/src/oracle/connection/stmt.rs) on a live connection, *)
(* the native OCI statement behind it, and the Cursors                     *)
(* (src/src/oracle/connection/cursor.rs) that borrow it.                   *)
(*                                                                         *)
(* Rust side: the statement's phase, its native handle(s), bind_index and  *)
(* the retained bind buffers and indicators, is_select; per cursor its     *)
(* Fields (zero-filled output buffers and null indicators) and the items   *)
(* its Iterator::next returned.  Native side: which bind positions are     *)
(* registered, whether the statement is executed with an open result set, *)
(* the fetch position in it, and for every column the cursor whose Field   *)
(* the last OCIDefineByPos registered as the output target.                *)
(*                                                                         *)
(* Any native call may fail when CanFail holds.  Disciplined is the usage  *)
(* the spec assumes (at most one active cursor per statement, no re-run    *)
(* while it is active, no advance after an error item); the API itself    *)
(* (run and run_with_cursor take &self) does not enforce it.               *)
(***************************************************************************)
EXTENDS Integers, Sequences, FiniteSets, SqlText, OciTypes

CONSTANTS
    SqlTexts,     \* SQL texts a caller may prepare
    SqlKind,      \* what the server takes each text for: "query", "dml", "ddl"
    NCols,        \* number of columns of a query's result set
    ColDescs,     \* the native descriptor of each result column
    Rows,         \* the rows the server returns for a query
    Values,       \* column and bind values
    Null,         \* SQL NULL in a row
    Zero,         \* the contents of a zero-filled buffer
    Empty,        \* the zero-length buffer bind(None) registers
    NoRow,        \* the payload of an item that carries no row
    NoCursor,     \* no define registered for a column
    Cursors,      \* identities of the cursors run_with_cursor may create
    MaxBinds,     \* bound on bind calls
    MaxExec,      \* bound on run / run_with_cursor calls
    MaxFetch,     \* bound on next calls per cursor
    Disciplined,  \* the caller follows the spec's single-active-cursor usage
    CanFail,      \* native calls may return OCI_ERROR
    ErrorWithoutRecord \* OCIErrorGet may find no diagnostic record for an OCI_ERROR

Cols == 1..NCols

RowVals == [Cols -> Values \cup {Null}]

ASSUME ConstAssumption ==
    /\ NCols \in Nat
    /\ MaxBinds \in Nat /\ MaxExec \in Nat /\ MaxFetch \in Nat
    /\ SqlKind \in [SqlTexts -> {"query", "dml", "ddl"}]
    /\ Rows \in Seq(RowVals)
    /\ {Null, Zero, Empty, NoRow} \cap Values = {}
    /\ NoCursor \notin Cursors
    /\ Disciplined \in BOOLEAN /\ CanFail \in BOOLEAN
    /\ ErrorWithoutRecord \in BOOLEAN

VARIABLES
    phase,        \* "init" | "live" | "failed" (prepare returned Err) | "dropped"
    sqlText,      \* the text given to prepare
    nPrepared,    \* native statement handles OCIStmtPrepare2 returned: 1..nPrepared
    inner,        \* inner_statement: the handle the Statement holds
    released,     \* handles OCIStmtRelease released
    is_select,
    bind_index,
    buffers,      \* bind buffers, in bind order (Empty for a NULL bind)
    indicators,   \* bind null indicators, in bind order
    natBound,     \* <<position, value>> pairs OCIBindByPos registered
    natState,     \* native statement: "idle" | "open" (result set) | "done" (DML/DDL)
    pos,          \* rows of the open result set fetched so far
    natDefine,    \* column -> cursor whose Field is the registered output target
    execs,        \* run / run_with_cursor calls so far
    cst,          \* cursor -> "unused" | "open" | "dropped"
    fields,       \* cursor -> number of Fields it owns
    buf,          \* cursor -> column -> contents of the Field's buffer
    ind,          \* cursor -> column -> the Field's null indicator
    out           \* cursor -> the items next() returned, in order

stmtVars   == <<phase, sqlText, nPrepared, inner, released, is_select>>
bindVars   == <<bind_index, buffers, indicators, natBound>>
nativeVars == <<natState, pos, natDefine>>
cursorVars == <<cst, fields, buf, ind, out>>
vars == <<stmtVars, bindVars, nativeVars, execs, cursorVars>>

\* The text of a statement not yet prepared.
NoSql == "unprepared"

Item(kind, vals) == [kind |-> kind, vals |-> vals]

NoOpenCursor == \A c \in Cursors : cst[c] # "open"

Init ==
    /\ phase = "init" /\ sqlText = NoSql /\ nPrepared = 0 /\ inner = 0
    /\ released = {} /\ is_select = FALSE
    /\ bind_index = 0 /\ buffers = <<>> /\ indicators = <<>> /\ natBound = {}
    /\ natState = "idle" /\ pos = 0 /\ natDefine = [k \in Cols |-> NoCursor]
    /\ execs = 0
    /\ cst = [c \in Cursors |-> "unused"]
    /\ fields = [c \in Cursors |-> 0]
    /\ buf = [c \in Cursors |-> [k \in Cols |-> Zero]]
    /\ ind = [c \in Cursors |-> [k \in Cols |-> -1]]
    /\ out = [c \in Cursors |-> <<>>]

-----------------------------------------------------------------------------
(* Native behaviour the Rust code relies on.                               *)

\* OCI copies a fetched row into the Fields registered by define: the
\* value into the buffer unless it is NULL, the indicator -1 or 0.
FetchedBuf(r) == [c \in Cursors |-> [k \in Cols |->
                    IF natDefine[k] = c /\ r[k] # Null THEN r[k] ELSE buf[c][k]]]
FetchedInd(r) == [c \in Cursors |-> [k \in Cols |->
                    IF natDefine[k] = c THEN (IF r[k] = Null THEN -1 ELSE 0)
                    ELSE ind[c][k]]]

WriteRow(r) == buf' = FetchedBuf(r) /\ ind' = FetchedInd(r)

\* OCIStmtExecute with the iteration count `iters`, succeeding: a query
\* with iters = 0 opens its result set, a non-query with iters = 1 is
\* applied.
ExecuteOk(iters) ==
    \/ /\ SqlKind[sqlText] = "query" /\ iters = 0
       /\ natState' = "open"
    \/ /\ SqlKind[sqlText] # "query" /\ iters = 1
       /\ natState' = "done"

\* OCIStmtExecute failing: on any native error; always for a non-query
\* with iters = 0 (ORA-24333 zero iteration count); always for a query
\* with iters = 1, which fetches its first row at execution into defines
\* that must already be registered (ORA-24374), and defines are only
\* registered after a successful execution of the same text.
ExecuteErr(iters) ==
    /\ \/ CanFail
       \/ SqlKind[sqlText] # "query" /\ iters = 0
       \/ SqlKind[sqlText] = "query" /\ iters = 1
    /\ natState' = "idle"

-----------------------------------------------------------------------------
(* Statement operations.                                                   *)

\* Statement::prepare: OCIStmtPrepare2, and a second one replacing the
\* handle when "CREATE" occurs in the first 10 bytes.  An Err on either
\* call returns before the Statement exists, so nothing releases what the
\* calls already returned.
Prepare(sql) ==
    /\ phase = "init"
    /\ sqlText' = sql
    /\ is_select' = IsSelectText(sql)
    /\ \/ /\ CanFail
          /\ phase' = "failed" /\ nPrepared' = 0 /\ inner' = 0
       \/ /\ ~NeedsRePrepare(sql)
          /\ phase' = "live" /\ nPrepared' = 1 /\ inner' = 1
       \/ /\ NeedsRePrepare(sql)
          /\ phase' = "live" /\ nPrepared' = 2 /\ inner' = 2
       \/ /\ NeedsRePrepare(sql) /\ CanFail
          /\ phase' = "failed" /\ nPrepared' = 1 /\ inner' = 0
    /\ UNCHANGED <<released, bindVars, nativeVars, execs, cursorVars>>

\* Mutant of Bind (bind_index advanced only once OCIBindByPos succeeded).
BindIndexOnSuccess(v) ==
    /\ phase = "live" /\ NoOpenCursor
    /\ Len(buffers) < MaxBinds
    /\ buffers' = Append(buffers, v)
    /\ indicators' = Append(indicators, IF v = Empty THEN -1 ELSE 0)
    /\ \/ natBound' = natBound \cup {<<bind_index + 1, v>>}
          /\ bind_index' = bind_index + 1
       \/ CanFail /\ UNCHANGED <<natBound, bind_index>>
    /\ UNCHANGED <<stmtVars, nativeVars, execs, cursorVars>>

\* Statement::bind (&mut self, so no cursor borrows the statement): the
\* index is incremented and the buffer and indicator retained before the
\* status of OCIBindByPos is checked.  v = Empty is bind(None).
Bind(v) ==
    /\ phase = "live" /\ NoOpenCursor
    /\ bind_index < MaxBinds
    /\ bind_index' = bind_index + 1
    /\ buffers' = Append(buffers, v)
    /\ indicators' = Append(indicators, IF v = Empty THEN -1 ELSE 0)
    /\ \/ natBound' = natBound \cup {<<bind_index + 1, v>>}
       \/ CanFail /\ UNCHANGED natBound
    /\ UNCHANGED <<stmtVars, nativeVars, execs, cursorVars>>

\* Statement::run: `iters = if self.is_select { 0 } else { 1 }`.
Iters == IF is_select THEN 0 ELSE 1

Run ==
    /\ phase = "live" /\ execs < MaxExec
    /\ Disciplined => NoOpenCursor
    /\ execs' = execs + 1
    /\ ExecuteOk(Iters) \/ ExecuteErr(Iters)
    /\ pos' = 0
    /\ UNCHANGED <<stmtVars, bindVars, natDefine, cursorVars>>

\* get_column_count: OCI_ATTR_PARAM_COUNT of the executed statement.
ColCount == IF SqlKind[sqlText] = "query" THEN NCols ELSE 0

Supported(k) == GetAttrTypeAndSize(ColDescs[k]).ok

\* The numbers of leading columns define_all_columns may register: the
\* loop stops at the end, at the first column get_attr_type_and_size
\* rejects, or, when a native call fails, at any supported column.
DefinedCounts ==
    {j \in 0..ColCount :
        /\ \A k \in 1..j : Supported(k)
        /\ CanFail \/ j = ColCount \/ ~Supported(j + 1)}

\* Mutant of DefineAllColumns (a loop `for col_number in 1..col_count`
\* that never defines the last column).
DefineAllColumnsSkipLast(c, defined) ==
    /\ natDefine' = [k \in Cols |-> IF k < defined THEN c ELSE natDefine[k]]
    /\ fields' = [fields EXCEPT ![c] = defined]
    /\ cst' = [cst EXCEPT ![c] = IF defined = ColCount THEN "open" ELSE "dropped"]

\* define_all_columns: OCIAttrGet(PARAM_COUNT), then for col_number in
\* 1..=col_count OCIParamGet, get_attr_type_and_size and define
\* (OCIDefineByPos of a fresh Field of cursor c).  `defined` columns get
\* registered before the first failing call; on a failure the Fields
\* built so far are dropped while their registrations stay.
DefineAllColumns(c, defined) ==
    /\ natDefine' = [k \in Cols |-> IF k <= defined THEN c ELSE natDefine[k]]
    /\ fields' = [fields EXCEPT ![c] = defined]
    /\ cst' = [cst EXCEPT ![c] = IF defined = ColCount THEN "open" ELSE "dropped"]

\* Statement::run_with_cursor: run()?, define_all_columns()?, Cursor::new.
RunWithCursor(c) ==
    /\ phase = "live" /\ execs < MaxExec
    /\ cst[c] = "unused"
    /\ Disciplined => NoOpenCursor
    /\ execs' = execs + 1
    /\ pos' = 0
    /\ \/ /\ ExecuteErr(Iters)
          /\ cst' = [cst EXCEPT ![c] = "dropped"]
          /\ UNCHANGED <<natDefine, fields>>
       \/ /\ ExecuteOk(Iters)
          /\ \E defined \in DefinedCounts : DefineAllColumns(c, defined)
    /\ UNCHANGED <<stmtVars, bindVars, buf, ind, out>>

\* Mutant of RowView (the row built from the buffers alone, the null
\* indicators left out).
RowViewNullsIgnored(b, i, c) == [k \in 1..fields[c] |-> b[c][k]]

\* The row Cursor::next hands to the decoder: for each Field its buffer,
\* NULL when Field::is_null (indicator -1).  b and i are the buffers and
\* indicators after the fetch.
RowView(b, i, c) == [k \in 1..fields[c] |-> IF i[c][k] = -1 THEN Null ELSE b[c][k]]

\* Cursor::next: OCIStmtFetch2 of one row.  An error status is returned
\* as an Err item, OCI_NO_DATA as None, and otherwise the Fields' buffers
\* and indicators are read into a row the decoder may still reject.
FetchErr(c) ==
    /\ natState # "open" \/ CanFail
    /\ out' = [out EXCEPT ![c] = Append(@, Item("err", NoRow))]
    /\ UNCHANGED <<nativeVars, buf, ind>>

\* Mutant of FetchEnd (None returned for any status other than an error,
\* before the result set is exhausted).
FetchEndAnyPos(c) ==
    /\ natState = "open"
    /\ out' = [out EXCEPT ![c] = Append(@, Item("end", NoRow))]
    /\ UNCHANGED <<nativeVars, buf, ind>>

FetchEnd(c) ==
    /\ natState = "open" /\ pos = Len(Rows)
    /\ out' = [out EXCEPT ![c] = Append(@, Item("end", NoRow))]
    /\ UNCHANGED <<nativeVars, buf, ind>>

\* An OCI_ERROR for which OCIErrorGet finds no record: check_error
\* returns Ok, the status is not OCI_NO_DATA, so next() reads the Fields
\* as they are, still holding the previous row, and hands them to the
\* decoder; current_row advances.
FetchNoRecord(c) ==
    /\ CanFail /\ ErrorWithoutRecord
    /\ \E decoded \in BOOLEAN :
          out' = [out EXCEPT ![c] = Append(@,
                   IF decoded THEN Item("row", RowView(buf, ind, c))
                   ELSE Item("deser", NoRow))]
    /\ UNCHANGED <<nativeVars, buf, ind>>

FetchRow(c) ==
    /\ natState = "open" /\ pos < Len(Rows)
    /\ pos' = pos + 1
    /\ WriteRow(Rows[pos + 1])
    /\ \E decoded \in BOOLEAN :
          out' = [out EXCEPT ![c] = Append(@,
                   IF decoded
                   THEN Item("row", RowView(FetchedBuf(Rows[pos + 1]),
                                            FetchedInd(Rows[pos + 1]), c))
                   ELSE Item("deser", NoRow))]
    /\ UNCHANGED <<natState, natDefine>>

Fetch(c) ==
    /\ cst[c] = "open"
    /\ Len(out[c]) < MaxFetch
    /\ Disciplined => \A i \in 1..Len(out[c]) : out[c][i].kind # "err"
    /\ FetchErr(c) \/ FetchNoRecord(c) \/ FetchEnd(c) \/ FetchRow(c)
    /\ UNCHANGED <<stmtVars, bindVars, execs, cst, fields>>

\* Dropping a Cursor drops its Fields: OCIHandleFree of each define handle.
DropCursor(c) ==
    /\ cst[c] = "open"
    /\ cst' = [cst EXCEPT ![c] = "dropped"]
    /\ UNCHANGED <<stmtVars, bindVars, nativeVars, execs, fields, buf, ind, out>>

\* Drop for Statement (no cursor borrows it): OCIStmtRelease of
\* inner_statement; a failure is printed and otherwise ignored.
DropStatement ==
    /\ phase = "live" /\ NoOpenCursor
    /\ phase' = "dropped"
    /\ \/ released' = released \cup {inner}
       \/ CanFail /\ UNCHANGED released
    /\ UNCHANGED <<sqlText, nPrepared, inner, is_select, bindVars, nativeVars,
                   execs, cursorVars>>

Next ==
    \/ \E sql \in SqlTexts : Prepare(sql)
    \/ \E v \in Values \cup {Empty} : Bind(v)
    \/ Run
    \/ \E c \in Cursors : RunWithCursor(c) \/ Fetch(c) \/ DropCursor(c)
    \/ DropStatement

Spec == Init /\ [][Next]_vars

-----------------------------------------------------------------------------
(* Properties.                                                             *)

Items == [kind : {"row"}, vals : UNION {[1..n -> Values \cup {Null, Zero}] : n \in 0..NCols}]
         \cup [kind : {"deser", "err", "end"}, vals : {NoRow}]

TypeOK ==
    /\ phase \in {"init", "live", "failed", "dropped"}
    /\ sqlText \in SqlTexts \cup {NoSql}
    /\ nPrepared \in 0..2 /\ inner \in 0..2 /\ released \subseteq 1..2
    /\ is_select \in BOOLEAN
    /\ bind_index \in Nat
    /\ buffers \in Seq(Values \cup {Empty}) /\ indicators \in Seq({-1, 0})
    /\ natBound \subseteq Nat \X (Values \cup {Empty})
    /\ natState \in {"idle", "open", "done"} /\ pos \in Nat
    /\ natDefine \in [Cols -> Cursors \cup {NoCursor}]
    /\ execs \in Nat
    /\ cst \in [Cursors -> {"unused", "open", "dropped"}]
    /\ fields \in [Cursors -> 0..NCols]
    /\ buf \in [Cursors -> [Cols -> Values \cup {Zero}]]
    /\ ind \in [Cursors -> [Cols -> {-1, 0}]]
    /\ out \in [Cursors -> Seq(Items)]

\* Every define registration of the statement targets the Fields of the
\* cursor that is open, so the rows OCIStmtFetch2 copies land in buffers
\* that are alive and that Cursor::next reads (run_with_cursor,
\* define_all_columns, Drop for Field).
OpenCursorOwnsDefines ==
    \A c \in Cursors : cst[c] = "open" => \A k \in 1..fields[c] : natDefine[k] = c

\* The number of items among the first i of s that consumed a row of the
\* result set: decoded rows and deserialization errors.
TakenCount(s, i) == Cardinality({j \in 1..i : s[j].kind \in {"row", "deser"}})

\* The rows a cursor yields follow the result set: the n-th row it
\* decodes is the n-th row of the result set, NULLs included, and once
\* next() returned None it never yields another row (Cursor::next; spec:
\* a Cursor that reaches exhaustion never yields another row item).
CursorYieldsResultSet ==
    \A c \in Cursors :
        /\ TakenCount(out[c], Len(out[c])) <= Len(Rows)
        /\ \A i \in 1..Len(out[c]) :
               out[c][i].kind = "row" => out[c][i].vals = Rows[TakenCount(out[c], i)]
        /\ \A i, j \in 1..Len(out[c]) :
               i < j /\ out[c][i].kind = "end" => out[c][j].kind \notin {"row", "deser"}

\* The value OCI sends for bind position p is the value of the p-th
\* bind call, also after a bind whose OCIBindByPos failed: the index
\* advances before the status check and the buffer is retained either way
\* (Statement::bind; spec: the bind index sequence for N bind calls is
\* exactly 1..N in call order).
BindPositionsFollowCalls ==
    \A b \in natBound : b[1] \in 1..Len(buffers) /\ buffers[b[1]] = b[2]

\* Every native statement handle OCIStmtPrepare2 returned is released
\* once the statement is gone, whether prepare failed or the Statement
\* was dropped (spec: every native handle is released exactly once on
\* every exit path).
StatementHandlesReleased ==
    phase \in {"failed", "dropped"} => released = 1..nPrepared

=============================================================================
