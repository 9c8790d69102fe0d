--------------------------- MODULE StatementProofs ---------------------------
(***************************************************************************)
(* Proofs about Statement for every value of its constants.                *)
(***************************************************************************)
EXTENDS Statement, FiniteSetTheorems, TLAPS

(***************************************************************************)
(* TypeOK is not inductive by itself: DropStatement adds inner to         *)
(* released, and inner is a handle number only while the statement is     *)
(* live.  TypeInv adds that fact.                                          *)
(***************************************************************************)
LiveHandle == phase = "live" => inner \in 1..nPrepared

TypeInv == TypeOK /\ LiveHandle

\* TypeOK split along the variable groups of Statement, so that a step
\* that leaves a group UNCHANGED keeps its part of the type at once.
StmtTypes ==
    /\ phase \in {"init", "live", "failed", "dropped"}
    /\ sqlText \in SqlTexts \cup {NoSql}
    /\ nPrepared \in 0..2 /\ inner \in 0..2 /\ released \subseteq 1..2
    /\ is_select \in BOOLEAN
    /\ LiveHandle
BindTypes ==
    /\ bind_index \in Nat
    /\ buffers \in Seq(Values \cup {Empty}) /\ indicators \in Seq({-1, 0})
    /\ natBound \subseteq Nat \X (Values \cup {Empty})
NativeTypes ==
    /\ natState \in {"idle", "open", "done"} /\ pos \in Nat
    /\ natDefine \in [Cols -> Cursors \cup {NoCursor}]
    /\ execs \in Nat
CursorTypes ==
    /\ cst \in [Cursors -> {"unused", "open", "dropped"}]
    /\ fields \in [Cursors -> 0..NCols]
    /\ buf \in [Cursors -> [Cols -> Values \cup {Zero}]]
    /\ ind \in [Cursors -> [Cols -> {-1, 0}]]
    /\ out \in [Cursors -> Seq(Items)]

LEMMA TypeInvSplit ==
    /\ TypeInv <=> StmtTypes /\ BindTypes /\ NativeTypes /\ CursorTypes
    /\ TypeInv' <=> StmtTypes' /\ BindTypes' /\ NativeTypes' /\ CursorTypes'
BY Zenon DEF TypeInv, TypeOK, StmtTypes, BindTypes, NativeTypes, CursorTypes

LEMMA TypeInvInit == Init => TypeInv
<1> SUFFICES ASSUME Init PROVE StmtTypes /\ BindTypes /\ NativeTypes /\ CursorTypes
  BY TypeInvSplit
<1> USE ConstAssumption DEF Init, Cols, NoSql
<1>1. StmtTypes
  <2>1. is_select \in BOOLEAN
    BY Zenon
  <2>2. QED
    BY <2>1 DEF StmtTypes, LiveHandle
<1>2. BindTypes
  BY DEF BindTypes
<1>3. NativeTypes
  BY DEF NativeTypes
<1>4. CursorTypes
  BY DEF CursorTypes
<1>5. QED
  BY <1>1, <1>2, <1>3, <1>4

\* A step that leaves a variable group unchanged keeps its part of TypeInv.
LEMMA UnchangedTypes ==
    /\ StmtTypes /\ UNCHANGED stmtVars => StmtTypes'
    /\ BindTypes /\ UNCHANGED bindVars => BindTypes'
    /\ NativeTypes /\ UNCHANGED <<nativeVars, execs>> => NativeTypes'
    /\ CursorTypes /\ UNCHANGED cursorVars => CursorTypes'
<1>1. StmtTypes /\ UNCHANGED stmtVars => StmtTypes'
  BY Zenon DEF StmtTypes, LiveHandle, stmtVars
<1>2. BindTypes /\ UNCHANGED bindVars => BindTypes'
  BY DEF BindTypes, bindVars
<1>3. NativeTypes /\ UNCHANGED <<nativeVars, execs>> => NativeTypes'
  BY DEF NativeTypes, nativeVars
<1>4. CursorTypes /\ UNCHANGED cursorVars => CursorTypes'
  BY DEF CursorTypes, cursorVars
<1>5. QED
  BY <1>1, <1>2, <1>3, <1>4

LEMMA TypeInvNext == TypeInv /\ [Next]_vars => TypeInv'
<1> SUFFICES ASSUME StmtTypes, BindTypes, NativeTypes, CursorTypes, [Next]_vars
             PROVE  StmtTypes' /\ BindTypes' /\ NativeTypes' /\ CursorTypes'
  BY TypeInvSplit
<1> USE ConstAssumption
<1>1. ASSUME NEW sql \in SqlTexts, Prepare(sql)
      PROVE  StmtTypes' /\ BindTypes' /\ NativeTypes' /\ CursorTypes'
  <2>1. is_select' \in BOOLEAN
    BY <1>1, Zenon DEF Prepare, IsSelectText
  <2>2. StmtTypes'
    BY <1>1, <2>1 DEF Prepare, StmtTypes, LiveHandle
  <2>3. QED
    BY <1>1, <2>2, UnchangedTypes DEF Prepare, nativeVars, cursorVars
<1>2. ASSUME NEW v \in Values \cup {Empty}, Bind(v)
      PROVE  StmtTypes' /\ BindTypes' /\ NativeTypes' /\ CursorTypes'
  <2>1. buffers' \in Seq(Values \cup {Empty}) /\ indicators' \in Seq({-1, 0})
    BY <1>2 DEF Bind, BindTypes
  <2>2. natBound' \subseteq Nat \X (Values \cup {Empty}) /\ bind_index' \in Nat
    <3>1. CASE natBound' = natBound \cup {<<bind_index + 1, v>>}
      BY <1>2, <3>1 DEF Bind, BindTypes
    <3>2. CASE UNCHANGED natBound
      BY <1>2, <3>2 DEF Bind, BindTypes
    <3>3. QED
      BY <1>2, <3>1, <3>2, Zenon DEF Bind
  <2>3. BindTypes'
    BY <2>1, <2>2 DEF BindTypes
  <2>4. QED
    BY <1>2, <2>3, UnchangedTypes DEF Bind, nativeVars
<1>3. ASSUME Run
      PROVE  StmtTypes' /\ BindTypes' /\ NativeTypes' /\ CursorTypes'
  <2>1. NativeTypes'
    BY <1>3 DEF Run, ExecuteOk, ExecuteErr, NativeTypes
  <2>2. QED
    BY <1>3, <2>1, UnchangedTypes DEF Run
<1>4. ASSUME NEW c \in Cursors, RunWithCursor(c)
      PROVE  StmtTypes' /\ BindTypes' /\ NativeTypes' /\ CursorTypes'
  <2>1. DefinedCounts \subseteq 0..NCols
    BY DEF DefinedCounts, ColCount
  <2>2. NativeTypes'
    BY <1>4, <2>1 DEF RunWithCursor, DefineAllColumns, ExecuteOk, ExecuteErr,
                      NativeTypes, Cols
  <2>3. CursorTypes'
    BY <1>4, <2>1 DEF RunWithCursor, DefineAllColumns, CursorTypes
  <2>4. QED
    BY <1>4, <2>2, <2>3, UnchangedTypes DEF RunWithCursor
<1>5. ASSUME NEW c \in Cursors, Fetch(c)
      PROVE  StmtTypes' /\ BindTypes' /\ NativeTypes' /\ CursorTypes'
  <2>1. CASE FetchRow(c)
    <3> DEFINE r == Rows[pos + 1]
    <3>1. r \in RowVals
      BY <2>1 DEF FetchRow, NativeTypes
    <3>2. FetchedBuf(r) \in [Cursors -> [Cols -> Values \cup {Zero}]]
      BY <3>1 DEF FetchedBuf, RowVals, CursorTypes, NativeTypes
    <3>3. FetchedInd(r) \in [Cursors -> [Cols -> {-1, 0}]]
      BY <3>1 DEF FetchedInd, RowVals, CursorTypes, NativeTypes
    <3>4. RowView(FetchedBuf(r), FetchedInd(r), c)
            \in [1..fields[c] -> Values \cup {Null, Zero}]
      BY <3>2, <3>3 DEF RowView, Cols, CursorTypes
    <3>5. \A decoded \in BOOLEAN :
            (IF decoded THEN Item("row", RowView(FetchedBuf(r), FetchedInd(r), c))
             ELSE Item("deser", NoRow)) \in Items
      BY <3>4 DEF Items, Item, CursorTypes
    <3>6. NativeTypes'
      BY <1>5, <2>1 DEF Fetch, FetchRow, NativeTypes
    <3>7. buf' \in [Cursors -> [Cols -> Values \cup {Zero}]]
          /\ ind' \in [Cursors -> [Cols -> {-1, 0}]]
      BY <2>1, <3>2, <3>3 DEF FetchRow, WriteRow
    <3>8. out' \in [Cursors -> Seq(Items)]
      BY <2>1, <3>5 DEF FetchRow, CursorTypes
    <3>9. CursorTypes'
      BY <1>5, <3>7, <3>8 DEF Fetch, CursorTypes
    <3>10. QED
      BY <1>5, <3>6, <3>9, UnchangedTypes DEF Fetch
  <2>4. CASE FetchNoRecord(c)
    <3>1. RowView(buf, ind, c) \in [1..fields[c] -> Values \cup {Null, Zero}]
      BY DEF RowView, Cols, CursorTypes
    <3>2. \A decoded \in BOOLEAN :
            (IF decoded THEN Item("row", RowView(buf, ind, c))
             ELSE Item("deser", NoRow)) \in Items
      BY <3>1 DEF Items, Item, CursorTypes
    <3>3. out' \in [Cursors -> Seq(Items)]
      BY <2>4, <3>2 DEF FetchNoRecord, CursorTypes
    <3>4. CursorTypes'
      BY <1>5, <2>4, <3>3 DEF Fetch, FetchNoRecord, CursorTypes
    <3>5. QED
      BY <1>5, <2>4, <3>4, UnchangedTypes DEF Fetch, FetchNoRecord
  <2>2. CASE FetchErr(c) \/ FetchEnd(c)
    <3>1. Item("err", NoRow) \in Items /\ Item("end", NoRow) \in Items
      BY DEF Items, Item
    <3>2. UNCHANGED <<nativeVars, buf, ind>>
      BY <2>2 DEF FetchErr, FetchEnd
    <3>3. out' \in [Cursors -> Seq(Items)]
      <4>1. CASE FetchErr(c)
        BY <4>1, <3>1 DEF FetchErr, CursorTypes
      <4>2. CASE FetchEnd(c)
        BY <4>2, <3>1 DEF FetchEnd, CursorTypes
      <4>3. QED
        BY <2>2, <4>1, <4>2
    <3>4. CursorTypes'
      BY <1>5, <3>2, <3>3 DEF Fetch, CursorTypes
    <3>5. QED
      BY <1>5, <3>2, <3>4, UnchangedTypes DEF Fetch
  <2>3. QED
    BY <1>5, <2>1, <2>2, <2>4 DEF Fetch
<1>6. ASSUME NEW c \in Cursors, DropCursor(c)
      PROVE  StmtTypes' /\ BindTypes' /\ NativeTypes' /\ CursorTypes'
  <2>1. CursorTypes'
    BY <1>6 DEF DropCursor, CursorTypes
  <2>2. QED
    BY <1>6, <2>1, UnchangedTypes DEF DropCursor
<1>7. ASSUME DropStatement
      PROVE  StmtTypes' /\ BindTypes' /\ NativeTypes' /\ CursorTypes'
  <2>1. is_select' \in BOOLEAN
    BY <1>7, Zenon DEF DropStatement, StmtTypes
  <2>2. released' \subseteq 1..2
    <3>1. CASE released' = released \cup {inner}
      BY <1>7, <3>1 DEF DropStatement, StmtTypes, LiveHandle
    <3>2. CASE UNCHANGED released
      BY <3>2 DEF StmtTypes
    <3>3. QED
      BY <1>7, <3>1, <3>2, Zenon DEF DropStatement
  <2>3. StmtTypes'
    BY <1>7, <2>1, <2>2 DEF DropStatement, StmtTypes, LiveHandle
  <2>4. QED
    BY <1>7, <2>3, UnchangedTypes DEF DropStatement
<1>8. CASE UNCHANGED vars
  BY <1>8, UnchangedTypes DEF vars
<1>9. QED
  BY <1>1, <1>2, <1>3, <1>4, <1>5, <1>6, <1>7, <1>8 DEF Next

\* Every reachable state is well typed, and a live statement holds one of
\* the handles OCIStmtPrepare2 returned.
THEOREM TypeCorrect == Spec => []TypeOK
<1>1. Spec => []TypeInv
  BY TypeInvInit, TypeInvNext, PTL DEF Spec
<1>2. QED
  BY <1>1, PTL DEF TypeInv

-----------------------------------------------------------------------------
(***************************************************************************)
(* Define targets.  Under the usage the spec assumes (Disciplined: no      *)
(* run_with_cursor or run while a cursor is open), every column an open    *)
(* cursor owns a Field for is registered to that cursor.  The invariant is *)
(* inductive together with TypeInv: only RunWithCursor changes natDefine,  *)
(* and under Disciplined it does so when no other cursor is open, so the  *)
(* cursor it opens is the only open one and owns the columns it defined.  *)
(***************************************************************************)
OwnsInv == TypeInv /\ OpenCursorOwnsDefines

LEMMA OwnsInvInit == Init => OwnsInv
<1> SUFFICES ASSUME Init PROVE OpenCursorOwnsDefines
  BY TypeInvInit DEF OwnsInv
<1> QED
  BY DEF Init, OpenCursorOwnsDefines

LEMMA OwnsInvNext ==
    ASSUME Disciplined, OwnsInv, [Next]_vars
    PROVE  OwnsInv'
<1> USE ConstAssumption
<1>1. TypeInv'
  BY TypeInvNext DEF OwnsInv
<1> SUFFICES ASSUME NEW d \in Cursors, cst'[d] = "open",
                    NEW k \in 1..fields'[d]
             PROVE  natDefine'[k] = d
  BY <1>1 DEF OwnsInv, OpenCursorOwnsDefines
<1>2. /\ cst \in [Cursors -> {"unused", "open", "dropped"}]
      /\ fields \in [Cursors -> 0..NCols]
      /\ natDefine \in [Cols -> Cursors \cup {NoCursor}]
      /\ OpenCursorOwnsDefines
  BY DEF OwnsInv, TypeInv, TypeOK
\* The steps that leave cst, fields and natDefine as they are.
<1>3. CASE UNCHANGED <<cst, fields, natDefine>>
  BY <1>2, <1>3 DEF OpenCursorOwnsDefines
<1>4. ASSUME NEW c \in Cursors, RunWithCursor(c) PROVE natDefine'[k] = d
  <2>1. NoOpenCursor
    BY <1>4 DEF RunWithCursor
  <2>2. d = c
    <3>4. d # c => cst'[d] = cst[d]
      <4>1. CASE cst' = [cst EXCEPT ![c] = "dropped"]
        BY <1>2, <4>1
      <4>2. CASE \E defined \in DefinedCounts : DefineAllColumns(c, defined)
        BY <1>2, <4>2 DEF DefineAllColumns
      <4>3. QED
        BY <1>4, <4>1, <4>2 DEF RunWithCursor
    <3>3. QED
      BY <1>2, <2>1, <3>4 DEF NoOpenCursor
  <2>3. CASE ExecuteErr(Iters) /\ cst' = [cst EXCEPT ![c] = "dropped"]
    BY <1>2, <2>2, <2>3
  <2>4. CASE ExecuteOk(Iters) /\ \E defined \in DefinedCounts : DefineAllColumns(c, defined)
    <3>1. PICK defined \in DefinedCounts : DefineAllColumns(c, defined)
      BY <2>4
    <3>2. defined \in 0..NCols
      BY <3>1 DEF DefinedCounts, ColCount
    <3>3. fields'[c] = defined /\ k \in 1..defined
      BY <1>2, <2>2, <3>1 DEF DefineAllColumns
    <3>4. QED
      BY <1>2, <2>2, <3>1, <3>2, <3>3 DEF DefineAllColumns, Cols
  <2>5. QED
    BY <1>4, <2>3, <2>4 DEF RunWithCursor
<1>5. ASSUME NEW c \in Cursors, DropCursor(c) PROVE natDefine'[k] = d
  <2>1. cst' = [cst EXCEPT ![c] = "dropped"] /\ UNCHANGED <<fields, natDefine>>
    BY <1>5 DEF DropCursor, nativeVars
  <2>2. cst[d] = "open"
    BY <1>2, <2>1
  <2>3. QED
    BY <1>2, <2>1, <2>2 DEF OpenCursorOwnsDefines
<1>6. QED
  <2>1. ASSUME NEW sql \in SqlTexts, Prepare(sql) PROVE UNCHANGED <<cst, fields, natDefine>>
    BY <2>1 DEF Prepare, nativeVars, cursorVars
  <2>2. ASSUME NEW v \in Values \cup {Empty}, Bind(v) PROVE UNCHANGED <<cst, fields, natDefine>>
    BY <2>2 DEF Bind, nativeVars, cursorVars
  <2>3. Run => UNCHANGED <<cst, fields, natDefine>>
    BY DEF Run, cursorVars
  <2>4. ASSUME NEW c \in Cursors, Fetch(c) PROVE UNCHANGED <<cst, fields, natDefine>>
    BY <2>4 DEF Fetch, FetchErr, FetchNoRecord, FetchEnd, FetchRow, nativeVars
  <2>5. DropStatement => UNCHANGED <<cst, fields, natDefine>>
    BY DEF DropStatement, nativeVars, cursorVars
  <2>6. UNCHANGED vars => UNCHANGED <<cst, fields, natDefine>>
    BY DEF vars, nativeVars, cursorVars
  <2>7. QED
    BY <1>3, <1>4, <1>5, <2>1, <2>2, <2>3, <2>4, <2>5, <2>6 DEF Next

\* Under the spec's single-active-cursor usage, the rows OCIStmtFetch2
\* copies always land in the Fields of the cursor that reads them
\* (run_with_cursor, define_all_columns, Cursor::next).
THEOREM OpenCursorOwnsDefinesHolds ==
    ASSUME Disciplined PROVE Spec => []OpenCursorOwnsDefines
<1>1. Spec => []OwnsInv
  BY OwnsInvInit, OwnsInvNext, PTL DEF Spec
<1>2. QED
  BY <1>1, PTL DEF OwnsInv

-----------------------------------------------------------------------------
(***************************************************************************)
(* BindPositionsFollowCalls is not inductive by itself: a new registration *)
(* at bind_index + 1 names the buffer Append puts at Len(buffers) + 1 only *)
(* because bind_index counts every retained buffer.  BindInv adds that.    *)
(***************************************************************************)
BindInv == TypeInv /\ bind_index = Len(buffers) /\ BindPositionsFollowCalls

LEMMA BindInvInit == Init => BindInv
<1>1. Init => TypeInv
  BY TypeInvInit
<1>2. Init => bind_index = Len(buffers) /\ BindPositionsFollowCalls
  BY DEF Init, BindPositionsFollowCalls
<1>3. QED
  BY <1>1, <1>2 DEF BindInv

LEMMA BindInvNext == BindInv /\ [Next]_vars => BindInv'
<1> SUFFICES ASSUME BindInv, [Next]_vars PROVE BindInv'
  OBVIOUS
<1> USE ConstAssumption
<1>1. TypeInv'
  BY TypeInvNext DEF BindInv
<1>2. bind_index \in Nat /\ buffers \in Seq(Values \cup {Empty})
      /\ natBound \subseteq Nat \X (Values \cup {Empty})
  BY DEF BindInv, TypeInv, TypeOK
<1>3. ASSUME NEW v \in Values \cup {Empty}, Bind(v) PROVE BindInv'
  <2>1. bind_index' = Len(buffers') /\ buffers'[Len(buffers')] = v
    BY <1>2, <1>3 DEF Bind, BindInv
  <2>2. \A i \in 1..Len(buffers) : buffers'[i] = buffers[i]
    BY <1>2, <1>3 DEF Bind
  <2>3. ASSUME NEW b \in natBound' PROVE b[1] \in 1..Len(buffers') /\ buffers'[b[1]] = b[2]
    <3>1. CASE b \in natBound
      BY <1>2, <2>2, <3>1, <1>3 DEF BindInv, BindPositionsFollowCalls, Bind
    <3>2. CASE b = <<bind_index + 1, v>>
      <4>1. b[1] = bind_index' /\ b[2] = v /\ bind_index' = Len(buffers) + 1
        BY <1>2, <1>3, <3>2 DEF Bind, BindInv
      <4>2. Len(buffers') = Len(buffers) + 1
        BY <1>2, <1>3 DEF Bind
      <4>3. QED
        BY <1>2, <2>1, <4>1, <4>2
    <3>3. QED
      BY <1>3, <3>1, <3>2 DEF Bind
  <2>4. QED
    BY <1>1, <2>1, <2>3 DEF BindInv, BindPositionsFollowCalls
<1>4. CASE UNCHANGED bindVars
  BY <1>1, <1>4 DEF BindInv, BindPositionsFollowCalls, bindVars
<1>5. QED
  <2>1. ASSUME NEW sql \in SqlTexts, Prepare(sql) PROVE UNCHANGED bindVars
    BY <2>1 DEF Prepare
  <2>2. Run => UNCHANGED bindVars
    BY DEF Run
  <2>3. ASSUME NEW c \in Cursors, RunWithCursor(c) \/ Fetch(c) \/ DropCursor(c)
        PROVE UNCHANGED bindVars
    BY <2>3 DEF RunWithCursor, Fetch, DropCursor
  <2>4. DropStatement => UNCHANGED bindVars
    BY DEF DropStatement
  <2>5. UNCHANGED vars => UNCHANGED bindVars
    BY DEF vars
  <2>6. QED
    BY <1>3, <1>4, <2>1, <2>2, <2>3, <2>4, <2>5 DEF Next

\* The value OCI sends for the p-th bind position is the value of the
\* p-th bind call, for any number of binds and whichever of them failed
\* (Statement::bind advancing bind_index before the status check).
THEOREM BindPositionsFollowCallsHolds == Spec => []BindPositionsFollowCalls
<1>1. Spec => []BindInv
  BY BindInvInit, BindInvNext, PTL DEF Spec
<1>2. QED
  BY <1>1, PTL DEF BindInv


-----------------------------------------------------------------------------
(***************************************************************************)
(* Rows follow the result set.  CursorYieldsResultSet speaks of each       *)
(* cursor's items alone; what keeps it true is the native fetch position.  *)
(* Under the spec's usage at most one cursor is open, nothing re-executes  *)
(* the statement while it is, and so, for the open cursor, the items that  *)
(* consumed a row number exactly the rows fetched since its execution (pos)*)
(* and every column is defined into its Fields; a None it returned means   *)
(* the result set is exhausted.  A cursor whose execution opened no result *)
(* set has only returned errors.                                           *)
(***************************************************************************)
CountFacts(st, f, s, p) ==
    IF st = "open"
    THEN /\ f = NCols
         /\ TakenCount(s, Len(s)) = p
         /\ (\E i \in 1..Len(s) : s[i].kind = "end") => p = Len(Rows)
    ELSE \A i \in 1..Len(s) : s[i].kind = "err"

OpenCursorCount(c) == CountFacts(natState, fields[c], out[c], pos)

PosBound    == pos <= Len(Rows)
UnusedEmpty == \A c \in Cursors : cst[c] = "unused" => out[c] = <<>>
OneOpen     == \A c, d \in Cursors : cst[c] = "open" /\ cst[d] = "open" => c = d
OpenCounts  == \A c \in Cursors : cst[c] = "open" => OpenCursorCount(c)

YieldInv ==
    /\ TypeInv /\ OpenCursorOwnsDefines
    /\ PosBound /\ UnusedEmpty /\ OneOpen /\ OpenCounts
    /\ CursorYieldsResultSet

\* The body of CursorYieldsResultSet for one cursor's items s.
YieldsOK(s) ==
    /\ TakenCount(s, Len(s)) <= Len(Rows)
    /\ \A i \in 1..Len(s) :
           s[i].kind = "row" => s[i].vals = Rows[TakenCount(s, i)]
    /\ \A i, j \in 1..Len(s) :
           i < j /\ s[i].kind = "end" => s[j].kind \notin {"row", "deser"}

LEMMA YieldsOKAll ==
    /\ CursorYieldsResultSet <=> \A c \in Cursors : YieldsOK(out[c])
    /\ CursorYieldsResultSet' <=> \A c \in Cursors : YieldsOK(out'[c])
BY DEF CursorYieldsResultSet, YieldsOK

\* TakenCount counts a subset of 1..i.
LEMMA TakenCountBound ==
    ASSUME NEW s, NEW i \in Nat
    PROVE  TakenCount(s, i) \in 0..i
<1> DEFINE S == {j \in 1..i : s[j].kind \in {"row", "deser"}}
<1>1. IsFiniteSet(1..i) /\ Cardinality(1..i) = i
  BY FS_Interval
<1>2. IsFiniteSet(S) /\ Cardinality(S) <= i
  BY <1>1, FS_Subset
<1>3. Cardinality(S) \in Nat
  BY <1>2, FS_CardinalityType
<1>4. QED
  BY <1>2, <1>3 DEF TakenCount

\* Appending an item leaves the counts of the old prefixes alone.
LEMMA TakenCountPrefix ==
    ASSUME NEW S, NEW s \in Seq(S), NEW x, NEW i \in 0..Len(s)
    PROVE  TakenCount(Append(s, x), i) = TakenCount(s, i)
<1>1. {j \in 1..i : Append(s, x)[j].kind \in {"row", "deser"}}
        = {j \in 1..i : s[j].kind \in {"row", "deser"}}
  OBVIOUS
<1>2. QED
  BY <1>1, Zenon DEF TakenCount

\* ... and the count of the whole sequence grows by one exactly when the
\* new item consumed a row.
LEMMA TakenCountLast ==
    ASSUME NEW S, NEW s \in Seq(S), NEW x
    PROVE  TakenCount(Append(s, x), Len(s) + 1)
             = IF x.kind \in {"row", "deser"} THEN TakenCount(s, Len(s)) + 1
               ELSE TakenCount(s, Len(s))
<1> DEFINE n == Len(s)
           T == {j \in 1..n : s[j].kind \in {"row", "deser"}}
           U == {j \in 1..n + 1 : Append(s, x)[j].kind \in {"row", "deser"}}
<1>1. IsFiniteSet(T)
  BY FS_Interval, FS_Subset
<1>2. U = IF x.kind \in {"row", "deser"} THEN T \cup {n + 1} ELSE T
  OBVIOUS
<1>3. n + 1 \notin T
  OBVIOUS
<1>4. TakenCount(Append(s, x), n + 1) = Cardinality(U) /\ TakenCount(s, n) = Cardinality(T)
  BY Zenon DEF TakenCount
<1>5. CASE x.kind \in {"row", "deser"}
  <2>1. U = T \cup {n + 1}
    BY <1>2, <1>5, Zenon
  <2>2. Cardinality(T \cup {n + 1}) = Cardinality(T) + 1
    BY <1>1, <1>3, FS_AddElement, Zenon
  <2>3. QED
    BY <1>4, <1>5, <2>1, <2>2, Zenon
<1>6. CASE x.kind \notin {"row", "deser"}
  <2>1. U = T
    BY <1>2, <1>6, Zenon
  <2>2. QED
    BY <1>4, <1>6, <2>1, Zenon
<1>7. QED
  BY <1>5, <1>6

\* Appending x keeps YieldsOK when an item that consumes a row comes
\* before the end of the result set, after no None, and a decoded one
\* carries the next row.
LEMMA AppendYields ==
    ASSUME NEW s \in Seq(Items), NEW x \in Items, YieldsOK(s),
           x.kind \in {"row", "deser"} =>
              /\ TakenCount(s, Len(s)) < Len(Rows)
              /\ \A i \in 1..Len(s) : s[i].kind # "end"
              /\ x.kind = "row" => x.vals = Rows[TakenCount(s, Len(s)) + 1]
    PROVE  YieldsOK(Append(s, x))
<1> DEFINE t == Append(s, x)
           n == Len(s)
<1> USE ConstAssumption
<1>1. Len(t) = n + 1 /\ t[n + 1] = x /\ \A i \in 1..n : t[i] = s[i]
  OBVIOUS
<1>2. \A i \in 0..n : TakenCount(t, i) = TakenCount(s, i)
  BY TakenCountPrefix
<1>3. TakenCount(t, n + 1)
        = IF x.kind \in {"row", "deser"} THEN TakenCount(s, n) + 1
          ELSE TakenCount(s, n)
  BY TakenCountLast
<1>4. TakenCount(s, n) \in Nat /\ Len(Rows) \in Nat
  BY TakenCountBound
<1>5. TakenCount(t, Len(t)) <= Len(Rows)
  BY <1>1, <1>3, <1>4 DEF YieldsOK
<1>6. ASSUME NEW i \in 1..Len(t), t[i].kind = "row"
      PROVE  t[i].vals = Rows[TakenCount(t, i)]
  <2>1. CASE i \in 1..n
    BY <1>1, <1>2, <2>1, <1>6 DEF YieldsOK
  <2>2. CASE i = n + 1
    BY <1>1, <1>3, <2>2, <1>6
  <2>3. QED
    BY <1>1, <2>1, <2>2
<1>7. ASSUME NEW i \in 1..Len(t), NEW j \in 1..Len(t), i < j, t[i].kind = "end"
      PROVE  t[j].kind \notin {"row", "deser"}
  <2>1. CASE j \in 1..n
    BY <1>1, <1>7, <2>1 DEF YieldsOK
  <2>2. CASE j = n + 1
    BY <1>1, <1>7, <2>2
  <2>3. QED
    BY <1>1, <2>1, <2>2
<1>8. QED
  BY <1>5, <1>6, <1>7 DEF YieldsOK

\* A row fetched into the Fields of the open cursor that owns every column
\* reads back as the row itself, NULLs included.
LEMMA FetchedRowView ==
    ASSUME TypeInv, OpenCursorOwnsDefines, NEW c \in Cursors, cst[c] = "open",
           fields[c] = NCols, NEW r \in RowVals
    PROVE  RowView(FetchedBuf(r), FetchedInd(r), c) = r
<1>1. \A k \in 1..NCols : natDefine[k] = c
  BY DEF OpenCursorOwnsDefines
<1>2. QED
  BY <1>1 DEF RowView, FetchedBuf, FetchedInd, RowVals, Cols, TypeInv, TypeOK

\* An error, or a None at the end of the result set, keeps the counts.
LEMMA CountAppendOther ==
    ASSUME NEW s \in Seq(Items), NEW x \in Items, x.kind \in {"err", "end"},
           NEW st, NEW f, NEW p \in Nat, CountFacts(st, f, s, p),
           x.kind = "end" => st = "open" /\ p = Len(Rows)
    PROVE  CountFacts(st, f, Append(s, x), p)
<1> DEFINE t == Append(s, x)
<1>1. Len(t) = Len(s) + 1 /\ t[Len(s) + 1] = x /\ \A i \in 1..Len(s) : t[i] = s[i]
  OBVIOUS
<1>2. CASE st = "open"
  <2>1. TakenCount(t, Len(t)) = p
    BY <1>1, <1>2, TakenCountLast DEF CountFacts
  <2>2. (\E i \in 1..Len(t) : t[i].kind = "end") => p = Len(Rows)
    BY <1>1, <1>2 DEF CountFacts
  <2>3. QED
    BY <1>2, <2>1, <2>2 DEF CountFacts
<1>3. CASE st # "open"
  BY <1>1, <1>3 DEF CountFacts
<1>4. QED
  BY <1>2, <1>3

\* A fetched row, decoded or not, counts one more.
LEMMA CountAppendTaken ==
    ASSUME NEW s \in Seq(Items), NEW x \in Items, x.kind \in {"row", "deser"},
           NEW f, NEW p \in Nat, CountFacts("open", f, s, p), p < Len(Rows)
    PROVE  /\ CountFacts("open", f, Append(s, x), p + 1)
           /\ \A i \in 1..Len(s) : s[i].kind # "end"
<1> DEFINE t == Append(s, x)
<1> USE ConstAssumption
<1>1. Len(t) = Len(s) + 1 /\ t[Len(s) + 1] = x /\ \A i \in 1..Len(s) : t[i] = s[i]
  OBVIOUS
<1>2. \A i \in 1..Len(s) : s[i].kind # "end"
  BY DEF CountFacts
<1>3. TakenCount(t, Len(t)) = p + 1
  BY <1>1, TakenCountLast DEF CountFacts
<1>4. ~\E i \in 1..Len(t) : t[i].kind = "end"
  BY <1>1, <1>2
<1>5. QED
  BY <1>2, <1>3, <1>4 DEF CountFacts

LEMMA YieldInvInit == Init => YieldInv
<1> SUFFICES ASSUME Init PROVE YieldInv
  OBVIOUS
<1> USE ConstAssumption
<1>1. TypeInv /\ OpenCursorOwnsDefines
  BY OwnsInvInit DEF OwnsInv
<1>2. PosBound /\ UnusedEmpty /\ OneOpen /\ OpenCounts
  BY DEF Init, PosBound, UnusedEmpty, OneOpen, OpenCounts
<1>3. TakenCount(<<>>, 0) = 0
  <2>1. {j \in 1..0 : <<>>[j].kind \in {"row", "deser"}} = {}
    OBVIOUS
  <2>2. QED
    BY <2>1, FS_EmptySet DEF TakenCount
<1>4. YieldsOK(<<>>)
  BY <1>3 DEF YieldsOK
<1>5. CursorYieldsResultSet
  BY <1>4, YieldsOKAll DEF Init
<1>6. QED
  BY <1>1, <1>2, <1>5 DEF YieldInv

\* The steps that change none of the variables YieldInv reads beyond the
\* type and the define targets.
LEMMA YieldInvUnchanged ==
    ASSUME YieldInv, UNCHANGED <<natState, pos, cst, fields, out>>
    PROVE  PosBound' /\ UnusedEmpty' /\ OneOpen' /\ OpenCounts'
           /\ \A c \in Cursors : YieldsOK(out'[c])
<1>1. \A c \in Cursors : YieldsOK(out[c])
  BY YieldsOKAll DEF YieldInv
<1>2. QED
  BY <1>1 DEF YieldInv, PosBound, UnusedEmpty, OneOpen, OpenCounts, OpenCursorCount

LEMMA YieldInvNext ==
    ASSUME Disciplined, ~ErrorWithoutRecord, YieldInv, [Next]_vars
    PROVE  YieldInv'
<1> USE ConstAssumption
<1>1. TypeInv' /\ OpenCursorOwnsDefines'
  BY OwnsInvNext DEF YieldInv, OwnsInv
<1>2. /\ out \in [Cursors -> Seq(Items)]
      /\ cst \in [Cursors -> {"unused", "open", "dropped"}]
      /\ fields \in [Cursors -> 0..NCols]
      /\ pos \in Nat /\ Len(Rows) \in Nat
      /\ out' \in [Cursors -> Seq(Items)]
  BY <1>1 DEF YieldInv, TypeInv, TypeOK
<1>3. \A c \in Cursors : YieldsOK(out[c])
  BY YieldsOKAll DEF YieldInv
<1> SUFFICES PosBound' /\ UnusedEmpty' /\ OneOpen' /\ OpenCounts'
             /\ \A c \in Cursors : YieldsOK(out'[c])
  BY <1>1, YieldsOKAll DEF YieldInv
<1>4. CASE UNCHANGED <<natState, pos, cst, fields, out>>
  BY <1>4, YieldInvUnchanged
<1>5. CASE Run
  <2>1. NoOpenCursor /\ pos' = 0 /\ UNCHANGED <<cst, fields, out>>
    BY <1>5 DEF Run, cursorVars
  <2>2. QED
    BY <1>2, <1>3, <2>1 DEF YieldInv, PosBound, UnusedEmpty, OneOpen, OpenCounts,
                            NoOpenCursor
<1>6. ASSUME NEW c \in Cursors, RunWithCursor(c)
      PROVE  PosBound' /\ UnusedEmpty' /\ OneOpen' /\ OpenCounts'
             /\ \A d \in Cursors : YieldsOK(out'[d])
  <2>1. NoOpenCursor /\ cst[c] = "unused" /\ pos' = 0 /\ UNCHANGED out
    BY <1>6 DEF RunWithCursor
  <2>2. out[c] = <<>>
    BY <2>1 DEF YieldInv, UnusedEmpty
  <2>3. \A d \in Cursors : d # c => cst'[d] = cst[d]
    BY <1>2, <1>6 DEF RunWithCursor, DefineAllColumns
  <2>4. cst'[c] = "open" /\ natState' = "open" => fields'[c] = NCols
    <3>1. CASE ExecuteErr(Iters) /\ cst' = [cst EXCEPT ![c] = "dropped"]
      BY <1>2, <3>1
    <3>2. CASE ExecuteOk(Iters) /\ \E defined \in DefinedCounts : DefineAllColumns(c, defined)
      <4>1. PICK defined \in DefinedCounts : DefineAllColumns(c, defined)
        BY <3>2
      <4>2. natState' = "open" => SqlKind[sqlText] = "query"
        BY <3>2 DEF ExecuteOk
      <4>3. QED
        BY <1>2, <4>1, <4>2 DEF DefineAllColumns, ColCount
    <3>3. QED
      BY <1>6, <3>1, <3>2 DEF RunWithCursor
  <2>5. UnusedEmpty'
    BY <2>1, <2>2, <2>3 DEF YieldInv, UnusedEmpty
  <2>6. OneOpen' /\ (\A d \in Cursors : cst'[d] = "open" => d = c)
    BY <2>1, <2>3 DEF OneOpen, NoOpenCursor
  <2>7. cst'[c] = "open" => OpenCursorCount(c)'
    <3>1. TakenCount(<<>>, 0) = 0
      <4>1. {j \in 1..0 : <<>>[j].kind \in {"row", "deser"}} = {}
        OBVIOUS
      <4>2. QED
        BY <4>1, FS_EmptySet DEF TakenCount
    <3>2. out'[c] = <<>>
      BY <2>1, <2>2
    <3>3. QED
      BY <2>1, <2>4, <3>1, <3>2 DEF OpenCursorCount, CountFacts
  <2>8. QED
    BY <1>3, <2>1, <2>5, <2>6, <2>7 DEF PosBound, OpenCounts
<1>7. ASSUME NEW c \in Cursors, Fetch(c)
      PROVE  PosBound' /\ UnusedEmpty' /\ OneOpen' /\ OpenCounts'
             /\ \A d \in Cursors : YieldsOK(out'[d])
  <2> DEFINE s == out[c]
  <2>1. cst[c] = "open" /\ cst' = cst /\ fields' = fields /\ natState' = natState
    BY <1>7 DEF Fetch, FetchErr, FetchNoRecord, FetchEnd, FetchRow, nativeVars
  <2>2. s \in Seq(Items) /\ YieldsOK(s) /\ OpenCursorCount(c)
    BY <1>2, <1>3, <2>1 DEF YieldInv, OpenCounts
  <2>3. ASSUME FetchErr(c)
        PROVE  PosBound' /\ OpenCursorCount(c)' /\ YieldsOK(out'[c])
    <3> DEFINE x == Item("err", NoRow)
    <3>1. out' = [out EXCEPT ![c] = Append(s, x)] /\ pos' = pos
      BY <2>3 DEF FetchErr, nativeVars
    <3>2. x \in Items /\ x.kind = "err"
      BY DEF Items, Item
    <3>4. out'[c] = Append(s, x)
      BY <1>2, <3>1
    <3>5. YieldsOK(Append(s, x))
      BY <2>2, <3>2, AppendYields
    <3>6. CountFacts(natState, fields[c], Append(s, x), pos)
      BY <1>2, <2>2, <3>2, CountAppendOther DEF OpenCursorCount
    <3>7. OpenCursorCount(c)'
      BY <2>1, <3>1, <3>4, <3>6 DEF OpenCursorCount
    <3>8. QED
      BY <3>1, <3>4, <3>5, <3>7 DEF YieldInv, PosBound
  <2>4. ASSUME FetchNoRecord(c)
        PROVE  PosBound' /\ OpenCursorCount(c)' /\ YieldsOK(out'[c])
    BY <2>4 DEF FetchNoRecord
  <2>5. ASSUME FetchEnd(c)
        PROVE  PosBound' /\ OpenCursorCount(c)' /\ YieldsOK(out'[c])
    <3> DEFINE x == Item("end", NoRow)
    <3>1. out' = [out EXCEPT ![c] = Append(s, x)] /\ pos' = pos
          /\ natState = "open" /\ pos = Len(Rows)
      BY <2>5 DEF FetchEnd, nativeVars
    <3>2. x \in Items /\ x.kind = "end"
      BY DEF Items, Item
    <3>4. out'[c] = Append(s, x)
      BY <1>2, <3>1
    <3>5. YieldsOK(Append(s, x))
      BY <2>2, <3>2, AppendYields
    <3>6. CountFacts(natState, fields[c], Append(s, x), pos)
      BY <1>2, <2>2, <3>1, <3>2, CountAppendOther DEF OpenCursorCount
    <3>7. OpenCursorCount(c)'
      BY <2>1, <3>1, <3>4, <3>6 DEF OpenCursorCount
    <3>8. QED
      BY <3>1, <3>4, <3>5, <3>7 DEF YieldInv, PosBound
  <2>6. ASSUME FetchRow(c)
        PROVE  PosBound' /\ OpenCursorCount(c)' /\ YieldsOK(out'[c])
    <3> DEFINE r == Rows[pos + 1]
               view == RowView(FetchedBuf(r), FetchedInd(r), c)
    <3>1. PICK decoded \in BOOLEAN :
            out' = [out EXCEPT ![c] = Append(s, IF decoded THEN Item("row", view)
                                                 ELSE Item("deser", NoRow))]
      BY <2>6, Zenon DEF FetchRow
    <3> DEFINE x == IF decoded THEN Item("row", view) ELSE Item("deser", NoRow)
    <3>2. natState = "open" /\ pos < Len(Rows) /\ pos' = pos + 1
      BY <2>6 DEF FetchRow
    <3>3. CountFacts("open", fields[c], s, pos) /\ fields[c] = NCols
      BY <2>2, <3>2 DEF OpenCursorCount, CountFacts
    <3>4. r \in RowVals
      BY <1>2, <3>2
    <3>5. view = r
      BY <2>1, <3>3, <3>4, FetchedRowView DEF YieldInv
    <3>6. x \in Items /\ x.kind \in {"row", "deser"} /\ (x.kind = "row" => x.vals = r)
      BY <3>4, <3>5 DEF Items, Item, RowVals, Cols
    <3>7. /\ CountFacts("open", fields[c], Append(s, x), pos + 1)
          /\ \A i \in 1..Len(s) : s[i].kind # "end"
      BY <1>2, <2>2, <3>2, <3>3, <3>6, CountAppendTaken
    <3>8. TakenCount(s, Len(s)) = pos
      BY <3>3 DEF CountFacts
    <3>9. YieldsOK(Append(s, x))
      <4> HIDE DEF x, s
      <4>1. x.kind = "row" => x.vals = Rows[TakenCount(s, Len(s)) + 1]
        BY <3>6, <3>8
      <4>2. TakenCount(s, Len(s)) < Len(Rows)
        BY <3>2, <3>8
      <4>3. QED
        BY <2>2, <3>6, <3>7, <4>1, <4>2, AppendYields
    <3>10. out'[c] = Append(s, x)
      BY <1>2, <3>1
    <3>11. OpenCursorCount(c)'
      BY <2>1, <3>2, <3>7, <3>10 DEF OpenCursorCount
    <3>12. PosBound'
      BY <1>2, <3>2 DEF PosBound
    <3>13. QED
      BY <3>9, <3>10, <3>11, <3>12, Zenon
  <2>7. PosBound' /\ OpenCursorCount(c)' /\ YieldsOK(out'[c])
    BY <1>7, <2>3, <2>4, <2>5, <2>6 DEF Fetch
  <2>8. \A d \in Cursors : d # c => out'[d] = out[d]
    BY <1>2, <1>7 DEF Fetch, FetchErr, FetchNoRecord, FetchEnd, FetchRow
  <2>9. QED
    BY <1>3, <2>1, <2>7, <2>8 DEF YieldInv, UnusedEmpty, OneOpen, OpenCounts
<1>8. ASSUME NEW c \in Cursors, DropCursor(c)
      PROVE  PosBound' /\ UnusedEmpty' /\ OneOpen' /\ OpenCounts'
             /\ \A d \in Cursors : YieldsOK(out'[d])
  <2>1. cst' = [cst EXCEPT ![c] = "dropped"] /\ UNCHANGED <<natState, pos, fields, out>>
    BY <1>8 DEF DropCursor, nativeVars
  <2>2. \A d \in Cursors : cst'[d] \in {"unused", "open"} => cst[d] = cst'[d]
    BY <1>2, <2>1
  <2>3. QED
    BY <1>3, <2>1, <2>2 DEF YieldInv, PosBound, UnusedEmpty, OneOpen, OpenCounts,
                            OpenCursorCount
<1>9. QED
  <2>1. ASSUME NEW sql \in SqlTexts, Prepare(sql)
        PROVE  UNCHANGED <<natState, pos, cst, fields, out>>
    BY <2>1 DEF Prepare, nativeVars, cursorVars
  <2>2. ASSUME NEW v \in Values \cup {Empty}, Bind(v)
        PROVE  UNCHANGED <<natState, pos, cst, fields, out>>
    BY <2>2 DEF Bind, nativeVars, cursorVars
  <2>3. DropStatement => UNCHANGED <<natState, pos, cst, fields, out>>
    BY DEF DropStatement, nativeVars, cursorVars
  <2>4. UNCHANGED vars => UNCHANGED <<natState, pos, cst, fields, out>>
    BY DEF vars, nativeVars, cursorVars
  <2>5. QED
    BY <1>4, <1>5, <1>6, <1>7, <1>8, <2>1, <2>2, <2>3, <2>4 DEF Next

\* Used the way the spec assumes, and with every failed fetch reported by
\* a diagnostic record, the n-th row a cursor decodes is the n-th row of
\* the result set, NULLs included, and no row follows None, for every
\* result set and number of columns (Cursor::next, run_with_cursor,
\* define_all_columns).
THEOREM CursorYieldsResultSetHolds ==
    ASSUME Disciplined, ~ErrorWithoutRecord
    PROVE  Spec => []CursorYieldsResultSet
<1>1. Init => YieldInv
  BY YieldInvInit
<1>2. YieldInv /\ [Next]_vars => YieldInv'
  BY YieldInvNext
<1>3. Spec => []YieldInv
  BY <1>1, <1>2, PTL DEF Spec
<1>4. QED
  BY <1>3, PTL DEF YieldInv

=============================================================================
