# TLA+ models of the diesel-oci connection core

This directory models the OCI driver core of diesel-oci
(`src/src/oracle/connection/{raw,stmt,cursor}.rs`). The models are TLA+
modules, checked with TLC on small instances, and some of their properties
are proved for every instance with TLAPS.

## 1. The system

The core wraps OCI's handle-based C API. It has four parts.

| Part | Code | State | Operations |
|---|---|---|---|
| Environment | `ConnectionEnviroment` (raw.rs) | env handle, error handle, charset id | `new`, `Drop` |
| Connection | `RawConnection` (raw.rs) | service, server, session and transaction handles; shared via `Rc` | `parse_db_string`, `establish`, `Drop` |
| Statement | `Statement` (stmt.rs) | one native statement handle, `bind_index`, the retained bind buffers, sizes and indicators, `is_select` | `prepare`, `bind`, `run`, `get_affected_rows`, `get_column_count`, `get_attr_type_and_size`, `define`, `define_all_columns`, `run_with_cursor`, `Drop` |
| Field / Cursor | `Field`, `Cursor` (cursor.rs) | per column: a define handle, a zero-filled buffer and a null indicator; per cursor: its Fields and a row counter | `Cursor::next`, `Field::is_null`, `Drop for Field` |

How the parts interact:

- Every `Statement` holds an `Rc` of its connection, and every native call
  reports errors through the connection's error handle.
- A `Cursor` borrows its `Statement` immutably.
- `run` and `run_with_cursor` take `&self`. So a statement can be re-run,
  or get a second cursor, while a cursor is alive.
- `bind` and `Drop` need the statement unborrowed.
- OCI itself holds pointers into the buffers that the Rust side owns. Bind
  buffers are read at execute; define buffers are written at every fetch.

What makes this code hard to test:

- the order of native calls against the lifetime of the Rust buffers they
  point into;
- failures in the middle of a multi-call operation (the second prepare, the
  n-th column define, session begin after attach);
- re-execution and second cursors that the borrow rules allow;
- the fetch protocol after `None` or after an error;
- the width of buffers at the boundary values of a type.

## 2. Modules

| Module | Models | Source |
|---|---|---|
| `SqlText` | the two substring scans of `prepare`: `find("CREATE") < 10` and `contains("SELECT") \|\| contains("select")`. They run over real TLA+ strings, byte offsets included. | stmt.rs 47-48, 71-72 |
| `OciTypes` | `get_attr_type_and_size`: code families, the NUMBER width table, and the unsupported-type error | stmt.rs 176-270 |
| `Statement` | one statement on a live connection, its native side, and the cursors that borrow it | stmt.rs, cursor.rs |
| `StatementProofs` | TLAPS proofs about `Statement` | |
| `Connection` | `ConnectionEnviroment`, `establish`, `Drop for RawConnection`, and the `Rc<RawConnection>` that the owner and every `Statement` share | raw.rs, stmt.rs 25-70, 407-421 |
| `ConnectionProofs` | TLAPS proofs about `Connection` | |
| `UrlParse` | `parse_db_string` over TLA+ strings: Rust's `split`, the `assert_eq!`, the indexing and `String::pop` | raw.rs 89-106 |
| `CursorSpec` | the spec's cursor (§4.4): Active/Exhausted/Failed, one advance | spec |
| `CursorRefinement` | the refinement mapping from Statement's cursors to `CursorSpec` | |
| `CursorRefinementProofs` | TLAPS proof that Statement's cursors implement `CodeCursor` | |
| `MCStatement`, `MCOciTypes`, `MCConnection`, `MCUrlParse` | the instances TLC checks | |

### Statement: its state and the code

Rust side of the statement:

- `phase`: "init", "live", "failed" (prepare returned Err) or "dropped".
- `inner`: which native handle `inner_statement` holds.
- `nPrepared`: how many handles `OCIStmtPrepare2` returned.
- `released`: the handles `OCIStmtRelease` has released.
- `is_select`.
- `bind_index`, with `buffers` and `indicators` in bind order.

Native side:

- `natBound`: the `<<position, value>>` pairs OCI registered.
- `natState`: "idle", "open" (a result set) or "done" (DML/DDL applied).
- `pos`: the fetch position in the open result set.
- `natDefine`: for each column, the cursor whose Field is the registered
  output target.
- `execs`: the number of executions.

Per cursor:

- `cst`: "unused", "open" or "dropped".
- `fields`: how many Fields the cursor owns.
- `buf` and `ind`: the bytes and null indicator of each Field.
- `out`: the items `next()` returned (row, deserialization error, error,
  end).

The actions:

- **Prepare(sql)**: the first `OCIStmtPrepare2`, then the second one for
  `CREATE` texts. Each call may fail, and an Err returns before any release.
- **Bind(v)**: `bind_index += 1` and the retained buffer come before the
  status check; `v = Empty` is `bind(None)`.
- **Run**: `OCIStmtExecute` with `iters = is_select ? 0 : 1`.
  - **ExecuteOk** is a query with iters = 0, or a non-query with iters = 1.
  - **ExecuteErr** is a native failure, ORA-24333 (a non-query with iters =
    0), or a query with iters = 1. The last fails because its defines are not
    yet registered.
- **RunWithCursor(c)**: `run()?`, then `define_all_columns()?`.
  - The loop stops at the first column that `get_attr_type_and_size` rejects
    or whose native call fails. This gives **DefinedCounts**.
  - Columns registered before the failure keep pointing at Fields that have
    been dropped.
- **Fetch(c)** is `Cursor::next`, with three outcomes:
  - **FetchErr**: an error item.
  - **FetchNoRecord**: an `OCI_ERROR` for which `OCIErrorGet` finds no
    record. `check_error` returns Ok, the status is not `OCI_NO_DATA`, so
    `next()` builds a row from the Fields as they are.
  - **FetchEnd**: `OCI_NO_DATA`, which becomes `None`.
  - **FetchRow**: OCI writes the row into the registered Fields
    (**FetchedBuf**, **FetchedInd**; a NULL leaves the bytes). Then
    **RowView** reads each Field's buffer, or NULL when its indicator is
    -1, and the decoder may still reject it.
- **DropCursor(c)**: dropping a cursor drops its Fields.
- **DropStatement**: `OCIStmtRelease` of `inner_statement`. A failure is
  only printed.

Two constants select what the model allows:

- `CanFail` lets every native call fail.
- `ErrorWithoutRecord` lets a failed fetch come without a diagnostic
  record. At the other call sites of `check_error` the silent Ok is not
  told apart from the Err, because no later step of the model reads it.
- `Disciplined` restricts the calls to the usage the spec assumes (§5):
  - no `run` or `run_with_cursor` while a cursor is open;
  - no advance after an error item.

With `Disciplined = FALSE` the model allows everything the borrow checker
allows.

Data is abstracted:

- values and cursors are model values;
- a column is a descriptor record;
- rows are a fixed sequence;
- the row decoder is a nondeterministic success or failure.

### Connection: its state and the code

- `phase`: how far `establish` got ("init", "parsed", "env", "allocated",
  "attached", "ready"), or "failed" (it returned Err) or "dropped".
- `hs` and `frees`: for each of the six handles (env, err, server, svcctx,
  session, trans), whether it is allocated, and how many `OCIHandleFree`
  calls reached it, explicit or implicit.
- `attached`, `session`: the server attachment and the user session.
- `owner`, `stmt`: who holds a clone of the `Rc`.
- `misuse`: a native call was made through a freed handle.

The actions follow `establish` call by call. `ParseDbString` ends in Ok or
in an Err/panic before any handle exists. `EnvNew` has three outcomes of
`OCIEnvNlsCreate`: success, failure, and `OCI_SUCCESS_WITH_INFO`, which
`new()` turns into Err after the handle exists. `AllocHandles` is the four
`alloc_handle` calls. `ServerAttach` and `SessionBegin` may fail; the `?`
then drops the environment (`DropEnv`): the error handle, then the
environment handle, whose free also frees every child handle still
allocated. `DropConnection` is `Drop for RawConnection`: session end,
detach, the four frees (the server's with `OCI_HTYPE_ENV`, modelled as
rejected or effective), then `DropEnv`. `PrepareStmt` clones the `Rc`;
`DropStmt` releases the statement and drops its clone; `DropOwner` drops
the owner's clone. The last clone to go runs `DropConnection`.

### The cursor refinement

`CursorSpec` is the spec's cursor: per cursor a state (Active, Exhausted,
Failed), the items yielded, and the row counter. `AdvanceRow` yields the
next result row (or a deserialization error) and counts it, `AdvanceEnd`
needs every row taken and yields nothing, `AdvanceError` yields the error
and fails. The constant `EndLatches` is the spec's idempotent end: when it
is FALSE an Exhausted cursor may still fail.

`CursorRefinement` reads the abstract state off each cursor's `out`:
Failed once it returned an Err, Exhausted once it returned None, Active
before; the items are `out` without the Nones; the counter counts rows and
deserialization errors. `NoneRemoved` drops the Nones without a filter:
it keeps the items before the first None and, when an error came last,
that error. This works because, used as the spec assumes, the Nones form
one block at the end that at most an error follows. The refinement runs
check that shape, and `CursorRefinementProofs` proves it. `CodeCursor` and `SpecCursor` are `CursorSpec`
instantiated with this mapping and `EndLatches` FALSE and TRUE.

### UrlParse

`Split` is Rust's `str::split` with a string pattern: the pieces between
the non-overlapping occurrences found from the left (by `SqlText!Find`).
`ParseDbString` returns `Ok(user, password, db)`, `Err` (wrong scheme) or
`Panic` (the assertion, or `userandpw[1]` out of range). The inputs are the
140 connection strings `Format(u, p, h)` of the spec's shape. They are built
from small users, passwords and hosts, the unit tests' URLs among them,
with '@' in users and passwords and '/' and ':' in hosts. The scheme test
is the first arm of `ParseDbString` and no property is stated about it;
the panics on malformed strings are listed under the departures below.

## 3. Runs

| Run | cfg | Expect | Shows |
|---|---|---|---|
| statement_core | MCStatement.cfg | pass | With one active cursor at a time and every native call able to fail: `OpenCursorOwnsDefines` (every column of an open cursor is registered to that cursor) and `CursorYieldsResultSet` (the n-th decoded row is the n-th result row, NULLs included, and no row comes after None); and `CursorRefinesCodeCursor`, the cursors implement `CursorSpec` with `EndLatches = FALSE`. |
| two_cursors | MCStatementTwoCursors.cfg | violation | A second `run_with_cursor` while the first cursor lives takes over its defines. |
| ddl_prepare_leak | MCStatementLeak.cfg | violation | The first handle of a CREATE text is never released. |
| refetch_after_end | MCStatementRefetch.cfg | violation | `CursorRefinesSpecCursor`: used as the spec assumes, the cursor departs from the spec's machine only because `next()` after None fetches again and can return an Err. |
| bind_positions | MCStatementBind.cfg | pass | `BindPositionsFollowCalls`: with three binds, any of which may fail, the value OCI holds for position p is the p-th bind call's. |
| error_without_record | MCStatementSilent.cfg | violation | A fetch error without a diagnostic record passes `check_error`; `next()` yields a row of NULLs read from the fresh Fields. |
| url_parse | MCUrlParse.cfg | pass | `ParseInvertsFormat`: every string of the spec's shape parses back into its parts, the password's '@' trimmed and the host passed through. |
| define_buffer_width | MCOciTypesWidth.cfg | violation | NUMBER(5) gets a 2-byte integer, and a char column has no byte for the NUL. |
| connection_lifecycle | MCConnection.cfg | pass | `EachHandleReleasedOnce`: with every call able to fail, each handle is freed at most once, and none is left live after Drop or a failure exit of establish. |
| connection_rc | MCConnectionRc.cfg | pass | `NoCallOnFreedHandle`: the owner and four statements dropping their `Rc` clones in every order never call through a freed handle. |
| server_left_attached | MCConnectionDetach.cfg | violation | `OCISessionBegin` failing after `OCIServerAttach` frees the server handle while it is still attached (raw.rs:176). |
| env_create_info_leak | MCConnectionEnvInfo.cfg | violation | `OCI_SUCCESS_WITH_INFO` from `OCIEnvNlsCreate` leaves the environment handle live after `new()` returned Err (raw.rs:33). |

Departures seen while modelling that no run repeats, each a short trace of
the same models:

- `run()` under a live cursor (`Disciplined = FALSE`) makes the cursor
  yield row 1 again after None, against `CursorYieldsResultSet`.
- `next()` after an Err fetches again and yields another item, where the
  spec asks for an immediate end (`CursorRefinesSpecCursor`, with
  `Disciplined = FALSE`).
- `oci:////` has three `//` segments and an empty middle one, so
  `parse_db_string` passes its assertion and panics at `userandpw[1]`.
- `get_attr_type_and_size` resolves SQLT_LNG to an 8-byte double; the
  spec's table puts LONG among the character types.
- `is_select` is a case-sensitive substring test: `Select ...` is not taken
  for a query, and `UPDATE t SET b = 'select'` is (the code's TODO names
  the second).

### Bounds

The statement instance is chosen so that the branches of `Statement`
are reached. The exception is the unsupported-type arm of
`get_attr_type_and_size`: both columns are supported, and that arm is
covered by the descriptor run below.

- 5 SQL texts: a query, an upper-case and a lower-case DDL (only the first
  is re-prepared), a DML, and a DML with `'select'` in a literal;
- 2 columns (NUMBER(10), VARCHAR2(20));
- 2 rows. The first has a NULL in its second column, read from a fresh
  Field. The second has a NULL in its first column, whose buffer still
  holds the first row's value, so only the indicator tells the decoder it
  is NULL;
- 2 cursors and 1 bind;
- `MaxExec = 2`, so a statement is executed twice;
- `MaxFetch = 4`, so a cursor fetches past the end of 2 rows.

The `statement_core` run reaches 51,688 distinct states and fires every
disjunct of `Next` but `FetchNoRecord`, which the `bind_positions` run
(with `ErrorWithoutRecord`) fires.

The descriptor run enumerates:

- every supported code and two unsupported ones;
- the precisions 0, 5, 10, 19 and 38;
- the scales 0 and 2.

These cover every arm of the match and every row of the width table.

The connection instance has four statements, so a statement can be the
last holder of the `Rc` while others were released before it. It reaches
about 220 distinct states. Deadlock checking is off: the connection's life
ends when it is dropped or establish fails.

The bind run allows three binds so that a failed bind is followed by
others.

No fairness is assumed, and no liveness is checked. The code has no
scheduler, no retry and no timeout, and every step is a call the caller
chooses to make: a cursor ends only if the caller keeps advancing it, so
a liveness property would be about the caller, not the code. Deadlock checking is off in the Statement runs: a
statement's life legitimately ends when it is dropped or its prepare fails.

## 4. Proofs

- **TypeCorrect**: `Spec => []TypeOK`, for every value of the constants.
  - TypeOK alone is not inductive: `DropStatement` adds `inner` to
    `released`, which stays inside `1..2` only if a live statement holds a
    handle prepare returned.
  - The inductive invariant is therefore `TypeInv == TypeOK /\ LiveHandle`.
  - The proof splits TypeInv by variable group (`StmtTypes`, `BindTypes`,
    `NativeTypes`, `CursorTypes`). Lemma `UnchangedTypes` keeps a group that
    a step leaves unchanged. There is one step per action.
- **OpenCursorOwnsDefinesHolds**: under `Disciplined`,
  `Spec => []OpenCursorOwnsDefines`.
  - The inductive invariant is `OwnsInv == TypeInv /\ OpenCursorOwnsDefines`.
  - It is preserved because `RunWithCursor` is the only step that changes
    `natDefine`, and under `Disciplined` it runs only when no cursor is open.
    The cursor it opens is then the only open one and owns every column it
    defined.
  - The assumption is needed: the `two_cursors` run shows the invariant
    fails without it.

The assumptions on the constants are `ConstAssumption` in `Statement`.

**BindPositionsFollowCallsHolds** (StatementProofs):
`Spec => []BindPositionsFollowCalls`. The inductive invariant adds
`bind_index = Len(buffers)`: a new registration at `bind_index + 1` names
the buffer `Append` puts last only because the index counts every
retained buffer, failed binds included.

**NoCallOnFreedHandleHolds** (ConnectionProofs): `Spec => []NoCallOnFreedHandle`
for every set of statements.

- `~misuse` alone is not inductive: a statement's Drop calls through the
  service context, which is live only because the connection is.
- The inductive invariant `RcInv` adds that the connection is "ready"
  exactly while the owner or some statement holds an `Rc`, that every
  handle is live from `AllocHandles` until the drop, and that the env and
  error handles are live after `EnvNew`.
- So every `DropStmt` that is not the last holder's finds all handles live,
  and the last holder's runs `DropConnection` with all handles live.
- The proof splits `RcInv` into `DataInv` (SMT) and `BoolInv` (Zenon), with
  one step per action. `RcInv` is stated in ConnectionProofs only, so TLC
  does not check it; the runs check `NoCallOnFreedHandle`, which it implies.

**EachHandleReleasedOnceHolds** (ConnectionProofs): under `~EnvWithInfo`,
`Spec => []EachHandleReleasedOnce`.

- Handles are freed only by `DropEnv`, which runs once, on the step into
  "failed" or "dropped"; both are final, because every later action needs
  an Rc holder and `RcInv` ties holders to "ready".
- `HandleFacts` adds that nothing is freed before that step, and no handle
  exists before `EnvNew`. When `DropEnv` runs every handle is live, so
  lemma `DropEnvFreesAll` shows each is freed exactly once: by
  RawConnection's Drop, by the environment's Drop, or implicitly with the
  environment.
- The assumption is needed: `env_create_info_leak` shows the property
  fails when `OCIEnvNlsCreate` returns `OCI_SUCCESS_WITH_INFO`.

**CursorYieldsResultSetHolds** (StatementProofs): under `Disciplined`
and `~ErrorWithoutRecord`, `Spec => []CursorYieldsResultSet`.

- The property alone is not inductive: a fetched row is the next row of
  the result set only because the native position `pos` equals the
  number of rows the open cursor has taken.
- The inductive invariant `YieldInv` therefore adds these facts:
  - there is at most one open cursor (`OneOpen`);
  - an unused cursor has no items;
  - `pos <= Len(Rows)`;
  - for the open cursor, `CountFacts`: all columns are defined, its
    `TakenCount` equals `pos`, and `pos = Len(Rows)` once it returned
    None. When the result set is not open, all its items are errors.
- `FetchedRowView` uses `OpenCursorOwnsDefines` to show that the row
  `next()` builds from the Fields is the row OCI fetched, NULLs included.
- Both assumptions are needed. The `two_cursors` and
  `error_without_record` runs show the property fails without them.

**CursorRefinesCodeCursorHolds** (CursorRefinementProofs): under the same
two assumptions, `Spec => CursorRefinesCodeCursor`. Every behaviour of
Statement, read through the mapping, is a behaviour of `CursorSpec` with
`EndLatches` FALSE.

- The inductive invariant `RefInv` is `YieldInv` plus `ShapeOK` for each
  cursor's items:
  - an error is the last item;
  - after a None only Nones and an error follow;
  - a sequence with a None has a first one.

  The last fact holds of every finite sequence. It is carried in the
  invariant because proving it directly would take an induction over the
  sequence.
- `FetchAppends` shows that every `Fetch` appends one item after no
  error, with the facts the abstract step needs.
- `NoneRemovedAppend` and `KindsAppend` turn that append into the
  abstract one. A row or deserialization error is `AdvanceRow`, a None is
  `AdvanceEnd`, and an error is `AdvanceError`.
- Every other action leaves `out` unchanged (`OutFrame`), so it is a
  stutter.
- `CursorRefinesSpecCursor` (`EndLatches` TRUE) is false, as the
  `refetch_after_end` run shows, so no theorem states it.

What stays with TLC:

- `UrlParse` (`ParseInvertsFormat`): it is written
  with RECURSIVE operators over strings, and what they compute for every
  input would need induction over data;
- the type table of `OciTypes`, whose reference definitions are only
  evaluated on finite domains;
- the violations: each shows one concrete behaviour, which TLC finds.

Liveness and `ENABLED` are beyond the prover. None of the runs states
liveness (see the fairness note above).

## 5. Not modelled, and the plan

Modelled so far: Statement with SqlText and OciTypes, the Field/Cursor
part with its refinement of the spec's cursor, and Connection with
UrlParse.

Planned next:

1. **Driver composition**: Connection and Statement in one module, so that
   the statement's native handles join the connection's handle ledger.
2. **More proofs**: an inductive account of the shape of a cursor's
   items. `StatementHandlesReleased` is left to TLC on purpose.
   - It fails on three separate paths: the CREATE re-prepare, a failing
     second prepare, and a failing `OCIStmtRelease`.
   - With all three excluded, what is left is a single prepare/release
     pair, and a theorem about that would say nothing.

Not modelled, and why:

- The row decoder and the `OCIDataType` tags are outside these files, and
  the spec treats them as a collaborator.
- Error-message formatting is not modelled, nor the NUL search in the
  error buffer (`OCIErrorGet` always terminates the text it writes).
- `get_affected_rows` only reads an attribute.
- `define` converts the type code with `OCIDataType::from_raw`, which lives
  outside these files. The model assumes `from_raw` knows every code that
  `get_attr_type_and_size` accepts, so its `else` arm (stmt.rs 302-306) is
  folded into the unsupported-type stop of `DefinedCounts`. If that arm
  were reached, the column's define would already be registered, and no
  Field would back it.
- `PrepareStmt` is enabled only while the connection's owner holds it.
  Preparing after the owner is dropped cannot happen in the code, because
  `prepare` is a method of the connection.
- The character-set attribute on character binds changes no state that any
  property reads.
