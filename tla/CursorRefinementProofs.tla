------------------------ MODULE CursorRefinementProofs ------------------------
(***************************************************************************)
(* Proof that, used the way the spec assumes and with every failed fetch   *)
(* reported, the cursors of Statement implement CursorSpec without the    *)
(* latching end (CodeCursor): every step of Statement is a step of one     *)
(* abstract cursor or leaves all of them as they are.                      *)
(***************************************************************************)
EXTENDS CursorRefinement, StatementProofs

(***************************************************************************)
(* The shape of the items a cursor returns.  An error is the last item     *)
(* (Disciplined: no advance after an error); after a None come only Nones  *)
(* and an error (no row after exhaustion); and a sequence with a None has  *)
(* a first one.  The last fact holds of every finite sequence; it is kept  *)
(* here because proving it would take an induction over the sequence.     *)
(***************************************************************************)
ShapeOK(s) ==
    /\ \A i \in 1..Len(s) : s[i].kind = "err" => i = Len(s)
    /\ \A i, j \in 1..Len(s) : i < j /\ s[i].kind = "end" => s[j].kind \in {"end", "err"}
    /\ HasEnd(s) => \E i \in 1..Len(s) :
                       s[i].kind = "end" /\ \A j \in 1..i - 1 : s[j].kind # "end"

RefInv == YieldInv /\ \A c \in Cursors : ShapeOK(out[c])

\* The kinds of the items of s (Kinds(c) is KindsOf(out[c])).
KindsOf(s) == {s[i].kind : i \in 1..Len(s)}

LEMMA KindsAppend ==
    ASSUME NEW S, NEW s \in Seq(S), NEW x
    PROVE  KindsOf(Append(s, x)) = KindsOf(s) \cup {x.kind}
<1>1. \A i \in 1..Len(s) + 1 : Append(s, x)[i] = IF i = Len(s) + 1 THEN x ELSE s[i]
  OBVIOUS
<1>2. QED
  BY <1>1 DEF KindsOf

\* The first None is the one with no None before it.
LEMMA FirstEndIs ==
    ASSUME NEW S, NEW s \in Seq(S), NEW i \in 1..Len(s), s[i].kind = "end",
           \A j \in 1..i - 1 : s[j].kind # "end"
    PROVE  FirstEnd(s) = i
<1> DEFINE P(k) == s[k].kind = "end" /\ \A j \in 1..k - 1 : s[j].kind # "end"
<1>1. \E k \in 1..Len(s) : P(k)
  OBVIOUS
<1>2. FirstEnd(s) \in 1..Len(s) /\ P(FirstEnd(s))
  BY <1>1 DEF FirstEnd
<1>3. \A k \in 1..Len(s) : P(k) => k = i
  OBVIOUS
<1>4. QED
  BY <1>2, <1>3

\* Appending an item that may follow the items of s keeps their shape.
LEMMA ShapeAppend ==
    ASSUME NEW s \in Seq(Items), ShapeOK(s), NEW x \in Items,
           \A i \in 1..Len(s) : s[i].kind # "err",
           HasEnd(s) => x.kind \in {"end", "err"}
    PROVE  ShapeOK(Append(s, x))
<1> DEFINE t == Append(s, x)
           n == Len(s)
<1>1. Len(t) = n + 1 /\ t[n + 1] = x /\ \A i \in 1..n : t[i] = s[i]
  OBVIOUS
<1>2. \A i \in 1..Len(t) : t[i].kind = "err" => i = Len(t)
  BY <1>1
<1>3. \A i, j \in 1..Len(t) : i < j /\ t[i].kind = "end" => t[j].kind \in {"end", "err"}
  BY <1>1 DEF ShapeOK, HasEnd
<1>4. HasEnd(t) => \E i \in 1..Len(t) :
                      t[i].kind = "end" /\ \A j \in 1..i - 1 : t[j].kind # "end"
  <2>1. CASE HasEnd(s)
    BY <1>1, <2>1 DEF ShapeOK
  <2>2. CASE ~HasEnd(s)
    BY <1>1, <2>2 DEF HasEnd
  <2>3. QED
    BY <2>1, <2>2
<1>5. QED
  BY <1>2, <1>3, <1>4 DEF ShapeOK

\* Removing the Nones commutes with appending: a None adds nothing, any
\* other item is appended.
LEMMA NoneRemovedAppend ==
    ASSUME NEW s \in Seq(Items), ShapeOK(s), NEW x \in Items,
           \A i \in 1..Len(s) : s[i].kind # "err",
           HasEnd(s) => x.kind \in {"end", "err"}
    PROVE  NoneRemoved(Append(s, x))
             = IF x.kind = "end" THEN NoneRemoved(s) ELSE Append(NoneRemoved(s), x)
<1> DEFINE t == Append(s, x)
           n == Len(s)
<1>1. Len(t) = n + 1 /\ t[n + 1] = x /\ \A i \in 1..n : t[i] = s[i]
  OBVIOUS
<1>0. t \in Seq(Items)
  OBVIOUS
<1>2. CASE ~HasEnd(s) /\ x.kind # "end"
  <2>1. ~HasEnd(t)
    BY <1>1, <1>2 DEF HasEnd
  <2>2. QED
    BY <1>2, <2>1 DEF NoneRemoved
<1>3. CASE ~HasEnd(s) /\ x.kind = "end"
  <2>1. HasEnd(t) /\ FirstEnd(t) = n + 1
    <3>1. \A j \in 1..n : t[j].kind # "end"
      BY <1>1, <1>3 DEF HasEnd
    <3>2. n + 1 \in 1..Len(t) /\ t[n + 1].kind = "end"
      BY <1>1, <1>3
    <3>3. \A j \in 1..(n + 1) - 1 : t[j].kind # "end"
      BY <3>1
    <3>4. FirstEnd(t) = n + 1
      BY <1>0, <3>2, <3>3, FirstEndIs, Zenon
    <3>5. QED
      BY <3>2, <3>4 DEF HasEnd
  <2>2. t[Len(t)].kind # "err"
    BY <1>1, <1>3
  <2>3. SubSeq(t, 1, n) = s
    BY <1>1
  <2>4. NoneRemoved(t) = s
    BY <2>1, <2>2, <2>3 DEF NoneRemoved
  <2>5. NoneRemoved(s) = s
    BY <1>3 DEF NoneRemoved
  <2>6. QED
    BY <1>3, <2>4, <2>5
<1>4. CASE HasEnd(s)
  <2>1. PICK i \in 1..n : s[i].kind = "end" /\ \A j \in 1..i - 1 : s[j].kind # "end"
    BY <1>4 DEF ShapeOK
  <2>2. FirstEnd(s) = i
    BY <2>1, FirstEndIs
  <2>3. HasEnd(t) /\ FirstEnd(t) = i
    <3>1. i \in 1..Len(t) /\ t[i].kind = "end" /\ \A j \in 1..i - 1 : t[j].kind # "end"
      BY <1>1, <2>1
    <3>2. FirstEnd(t) = i
      BY <1>0, <3>1, FirstEndIs, Zenon
    <3>3. QED
      BY <3>1, <3>2 DEF HasEnd
  <2>4. s[n].kind # "err" /\ n \in 1..n
    BY <2>1
  <2>5. NoneRemoved(s) = SubSeq(s, 1, i - 1)
    BY <1>4, <2>2, <2>4 DEF NoneRemoved
  <2>6. SubSeq(t, 1, i - 1) = SubSeq(s, 1, i - 1)
    BY <1>1, <2>1
  <2>7. CASE x.kind = "end"
    <3>1. t[Len(t)].kind # "err"
      BY <1>1, <2>7
    <3>2. NoneRemoved(t) = SubSeq(t, 1, i - 1) \o <<>>
      BY <2>3, <3>1 DEF NoneRemoved
    <3>3. QED
      BY <2>5, <2>6, <2>7, <3>2
  <2>8. CASE x.kind = "err"
    <3>1. t[Len(t)] = x
      BY <1>1
    <3>2. NoneRemoved(t) = SubSeq(s, 1, i - 1) \o <<x>>
      BY <2>3, <2>6, <2>8, <3>1 DEF NoneRemoved
    <3>3. QED
      BY <2>5, <2>8, <3>2
  <2>9. QED
    BY <1>4, <2>7, <2>8
<1>5. QED
  BY <1>2, <1>3, <1>4

\* Every Fetch, used the way the spec assumes, appends one item to the
\* cursor's items, after no error: a row or deserialization error only
\* before None and before the end of the result set, a decoded row
\* carrying the next row, None only at the end of the result set.
AppendStep(c, x) ==
    /\ out' = [out EXCEPT ![c] = Append(out[c], x)]
    /\ \A i \in 1..Len(out[c]) : out[c][i].kind # "err"
    /\ x.kind \in {"row", "deser"} =>
          /\ ~HasEnd(out[c])
          /\ TakenCount(out[c], Len(out[c])) < Len(Rows)
          /\ x.kind = "row" => x.vals = Rows[TakenCount(out[c], Len(out[c])) + 1]
    /\ x.kind = "end" => TakenCount(out[c], Len(out[c])) = Len(Rows)

LEMMA FetchAppends ==
    ASSUME Disciplined, ~ErrorWithoutRecord, YieldInv, NEW c \in Cursors, Fetch(c)
    PROVE  \E x \in Items : AppendStep(c, x)
<1> USE ConstAssumption
<1> DEFINE s == out[c]
<1>1. /\ out \in [Cursors -> Seq(Items)] /\ pos \in Nat
      /\ cst[c] = "open" /\ OpenCursorCount(c)
      /\ \A i \in 1..Len(s) : s[i].kind # "err"
  BY DEF Fetch, YieldInv, TypeInv, TypeOK, OpenCounts
<1>2. CASE FetchErr(c)
  <2> DEFINE x == Item("err", NoRow)
  <2>1. x \in Items /\ x.kind = "err"
    BY DEF Items, Item
  <2>2. out' = [out EXCEPT ![c] = Append(s, x)]
    BY <1>2 DEF FetchErr
  <2>3. AppendStep(c, x)
    BY <1>1, <2>1, <2>2 DEF AppendStep
  <2>4. QED
    BY <2>1, <2>3
<1>3. CASE FetchNoRecord(c)
  BY <1>3 DEF FetchNoRecord
<1>4. CASE FetchEnd(c)
  <2> DEFINE x == Item("end", NoRow)
  <2>1. x \in Items /\ x.kind = "end"
    BY DEF Items, Item
  <2>2. out' = [out EXCEPT ![c] = Append(s, x)] /\ natState = "open" /\ pos = Len(Rows)
    BY <1>4 DEF FetchEnd
  <2>3. TakenCount(s, Len(s)) = Len(Rows)
    BY <1>1, <2>2 DEF OpenCursorCount, CountFacts
  <2>4. AppendStep(c, x)
    BY <1>1, <2>1, <2>2, <2>3 DEF AppendStep
  <2>5. QED
    BY <2>1, <2>4
<1>5. CASE FetchRow(c)
  <2> DEFINE r == Rows[pos + 1]
             view == RowView(FetchedBuf(r), FetchedInd(r), c)
  <2>1. PICK decoded \in BOOLEAN :
          out' = [out EXCEPT ![c] = Append(s, IF decoded THEN Item("row", view)
                                               ELSE Item("deser", NoRow))]
    BY <1>5, Zenon DEF FetchRow
  <2> DEFINE x == IF decoded THEN Item("row", view) ELSE Item("deser", NoRow)
  <2>8. out' = [out EXCEPT ![c] = Append(out[c], x)]
    BY <2>1
  <2>2. natState = "open" /\ pos < Len(Rows)
    BY <1>5 DEF FetchRow
  <2>3. fields[c] = NCols /\ TakenCount(s, Len(s)) = pos /\ ~HasEnd(s)
    BY <1>1, <2>2 DEF OpenCursorCount, CountFacts, HasEnd
  <2>4. r \in RowVals
    BY <1>1, <2>2
  <2>5. view = r
    BY <1>1, <2>3, <2>4, FetchedRowView DEF YieldInv
  <2>6. x \in Items /\ x.kind \in {"row", "deser"} /\ (x.kind = "row" => x.vals = r)
    BY <2>4, <2>5 DEF Items, Item, RowVals, Cols
  <2>7. QED
    <3> HIDE DEF x, s
    <3>1. x.kind = "row" => x.vals = Rows[TakenCount(s, Len(s)) + 1]
      BY <2>3, <2>6
    <3>2. TakenCount(s, Len(s)) < Len(Rows)
      BY <2>2, <2>3
    <3>3. AppendStep(c, x)
      BY <1>1, <2>3, <2>6, <2>8, <3>1, <3>2 DEF AppendStep, s
    <3>4. QED
      BY <2>6, <3>3
<1>6. QED
  BY <1>2, <1>3, <1>4, <1>5 DEF Fetch

\* Only Fetch changes the items of the cursors.
LEMMA OutFrame ==
    ASSUME [Next]_vars
    PROVE  out' = out \/ \E c \in Cursors : Fetch(c)
BY DEF Next, vars, Prepare, Bind, Run, RunWithCursor, DropCursor, DropStatement,
       cursorVars

LEMMA RefInvInit == Init => RefInv
<1> SUFFICES ASSUME Init PROVE RefInv
  OBVIOUS
<1>1. \A c \in Cursors : ShapeOK(out[c])
  BY DEF Init, ShapeOK, HasEnd
<1>2. QED
  BY <1>1, YieldInvInit DEF RefInv

LEMMA RefInvNext ==
    ASSUME Disciplined, ~ErrorWithoutRecord, RefInv, [Next]_vars
    PROVE  RefInv'
<1>1. YieldInv'
  BY YieldInvNext DEF RefInv
<1>2. out \in [Cursors -> Seq(Items)]
  BY DEF RefInv, YieldInv, TypeInv, TypeOK
<1>3. CASE out' = out
  BY <1>1, <1>3 DEF RefInv
<1>4. ASSUME NEW c \in Cursors, Fetch(c)
      PROVE  RefInv'
  <2>0. PICK x \in Items : AppendStep(c, x)
    BY <1>4, FetchAppends DEF RefInv
  <2>1. /\ out' = [out EXCEPT ![c] = Append(out[c], x)]
        /\ \A i \in 1..Len(out[c]) : out[c][i].kind # "err"
        /\ x.kind \in {"row", "deser"} => ~HasEnd(out[c])
    BY <2>0 DEF AppendStep
  <2>2. HasEnd(out[c]) => x.kind \in {"end", "err"}
    BY <2>1 DEF Items
  <2>3. ShapeOK(Append(out[c], x))
    BY <1>2, <2>1, <2>2, ShapeAppend DEF RefInv
  <2>4. QED
    BY <1>1, <1>2, <2>1, <2>3 DEF RefInv
<1>5. QED
  BY <1>3, <1>4, OutFrame

\* The state of a cursor read off its items s.
StateOf(s) == IF "err" \in KindsOf(s) THEN "Failed"
              ELSE IF "end" \in KindsOf(s) THEN "Exhausted"
              ELSE "Active"

\* A function of the items of every cursor, after the items of one changed.
LEMMA ExceptMap ==
    ASSUME NEW D, NEW o, NEW o2, NEW c \in D, NEW F(_),
           \A d \in D : d # c => o2[d] = o[d]
    PROVE  [d \in D |-> F(o2[d])] = [[d \in D |-> F(o[d])] EXCEPT ![c] = F(o2[c])]
<1> DEFINE f == [d \in D |-> F(o[d])]
           g == [d \in D |-> F(o2[d])]
<1>1. [f EXCEPT ![c] = F(o2[c])] = [d \in D |-> IF d = c THEN F(o2[c]) ELSE f[d]]
  BY Zenon
<1>2. \A d \in D : (IF d = c THEN F(o2[c]) ELSE f[d]) = g[d]
  BY Zenon
<1>3. QED
  BY <1>1, <1>2, Zenon

\* The refinement mapping, item sequence by item sequence.
LEMMA MappingIs ==
    /\ CursorState = [d \in Cursors |-> StateOf(out[d])]
    /\ CursorState' = [d \in Cursors |-> StateOf(out'[d])]
    /\ Yielded = [d \in Cursors |-> NoneRemoved(out[d])]
    /\ Yielded' = [d \in Cursors |-> NoneRemoved(out'[d])]
    /\ Taken = [d \in Cursors |-> TakenCount(out[d], Len(out[d]))]
    /\ Taken' = [d \in Cursors |-> TakenCount(out'[d], Len(out'[d]))]
BY DEF CursorState, Kinds, StateOf, KindsOf, Yielded, Taken

\* A Fetch, used the way the spec assumes, is an advance of the cursor
\* without the latching end: a row or deserialization error is
\* AdvanceRow, None is AdvanceEnd, an error is AdvanceError.
LEMMA FetchRefines ==
    ASSUME Disciplined, ~ErrorWithoutRecord, RefInv, NEW c \in Cursors, Fetch(c)
    PROVE  CodeCursor!Next
<1> DEFINE s == out[c]
<1>0. PICK x \in Items : AppendStep(c, x)
  BY FetchAppends DEF RefInv
<1> DEFINE t == Append(s, x)
<1>1. /\ out \in [Cursors -> Seq(Items)] /\ ShapeOK(s)
      /\ out' = [out EXCEPT ![c] = t]
      /\ \A i \in 1..Len(s) : s[i].kind # "err"
      /\ x.kind \in {"row", "deser"} =>
            /\ ~HasEnd(s) /\ TakenCount(s, Len(s)) < Len(Rows)
            /\ x.kind = "row" => x.vals = Rows[TakenCount(s, Len(s)) + 1]
      /\ x.kind = "end" => TakenCount(s, Len(s)) = Len(Rows)
  BY <1>0 DEF AppendStep, RefInv, YieldInv, TypeInv, TypeOK
<1>2. s \in Seq(Items) /\ out'[c] = t /\ \A d \in Cursors : d # c => out'[d] = out[d]
  BY <1>1
<1>3. /\ CursorState' = [CursorState EXCEPT ![c] = StateOf(t)]
      /\ Yielded' = [Yielded EXCEPT ![c] = NoneRemoved(t)]
      /\ Taken' = [Taken EXCEPT ![c] = TakenCount(t, Len(t))]
  <2>1. [d \in Cursors |-> StateOf(out'[d])]
          = [[d \in Cursors |-> StateOf(out[d])] EXCEPT ![c] = StateOf(out'[c])]
    BY <1>2, ExceptMap, Zenon
  <2>2. [d \in Cursors |-> NoneRemoved(out'[d])]
          = [[d \in Cursors |-> NoneRemoved(out[d])] EXCEPT ![c] = NoneRemoved(out'[c])]
    BY <1>2, ExceptMap, Zenon
  <2>3. [d \in Cursors |-> TakenCount(out'[d], Len(out'[d]))]
          = [[d \in Cursors |-> TakenCount(out[d], Len(out[d]))]
               EXCEPT ![c] = TakenCount(out'[c], Len(out'[c]))]
    BY <1>2, ExceptMap, Zenon
  <2>4. QED
    BY <1>2, <2>1, <2>2, <2>3, MappingIs, Zenon
<1>4. /\ CursorState[c] = StateOf(s) /\ Yielded[c] = NoneRemoved(s)
      /\ Taken[c] = TakenCount(s, Len(s))
  BY MappingIs
<1>5. KindsOf(t) = KindsOf(s) \cup {x.kind} /\ "err" \notin KindsOf(s)
  BY <1>1, <1>2, KindsAppend DEF KindsOf
<1>6. TakenCount(t, Len(t))
        = IF x.kind \in {"row", "deser"} THEN TakenCount(s, Len(s)) + 1
          ELSE TakenCount(s, Len(s))
  <2>1. Len(t) = Len(s) + 1
    BY <1>2
  <2>2. QED
    BY <1>2, <2>1, TakenCountLast
<1>7. NoneRemoved(t) = IF x.kind = "end" THEN NoneRemoved(s) ELSE Append(NoneRemoved(s), x)
  <2>1. HasEnd(s) => x.kind \in {"end", "err"}
    BY <1>1 DEF Items
  <2>2. QED
    BY <1>1, <1>2, <2>1, NoneRemovedAppend
<1>8. /\ x = [kind |-> x.kind, vals |-> x.vals]
      /\ x.kind \in {"row", "deser", "err", "end"}
      /\ x.kind \in {"deser", "err", "end"} => x.vals = NoRow
  BY DEF Items
<1>9. CursorState \in [Cursors -> {"Active", "Exhausted", "Failed"}]
  BY MappingIs DEF StateOf
<1>10. CASE x.kind \in {"row", "deser"}
  <2>1. StateOf(s) = "Active" /\ StateOf(t) = "Active"
    BY <1>1, <1>5, <1>10 DEF StateOf, KindsOf, HasEnd
  <2>2. CursorState' = CursorState
    BY <1>3, <1>4, <1>9, <2>1
  <2>3. Taken' = [Taken EXCEPT ![c] = @ + 1]
    <3>1. TakenCount(t, Len(t)) = Taken[c] + 1
      BY <1>4, <1>6, <1>10
    <3>2. QED
      BY <1>3, <3>1, Zenon
  <2>4. Yielded' = [Yielded EXCEPT ![c] = Append(@, x)]
    <3>1. NoneRemoved(t) = Append(Yielded[c], x)
      BY <1>4, <1>7, <1>10
    <3>2. QED
      BY <1>3, <3>1, Zenon
  <2>5. Taken[c] < Len(Rows) /\ CursorState[c] = "Active"
    BY <1>1, <1>4, <1>10, <2>1
  <2>6. \/ x = CodeCursor!Item("row", Rows[Taken[c] + 1])
        \/ x = CodeCursor!Item("deser", NoRow)
    BY <1>1, <1>4, <1>8, <1>10 DEF CodeCursor!Item
  <2>7. CodeCursor!AdvanceRow(c)
    BY <2>2, <2>3, <2>4, <2>5, <2>6, Zenon DEF CodeCursor!AdvanceRow, CodeCursor!Yield
  <2>8. QED
    BY <2>7 DEF CodeCursor!Next
<1>11. CASE x.kind = "end"
  <2>1. StateOf(s) \in {"Active", "Exhausted"} /\ StateOf(t) = "Exhausted"
    BY <1>5, <1>11 DEF StateOf
  <2>2. \A d \in Cursors : /\ NoneRemoved(out'[d]) = NoneRemoved(out[d])
                           /\ TakenCount(out'[d], Len(out'[d])) = TakenCount(out[d], Len(out[d]))
    <3>1. NoneRemoved(t) = NoneRemoved(s) /\ TakenCount(t, Len(t)) = TakenCount(s, Len(s))
      BY <1>6, <1>7, <1>11
    <3>2. QED
      BY <1>2, <3>1, Zenon
  <2>3. Yielded' = Yielded /\ Taken' = Taken
    BY <2>2, MappingIs
  <2>4. CursorState[c] \in {"Active", "Exhausted"} /\ Taken[c] = Len(Rows)
    BY <1>1, <1>4, <1>11, <2>1
  <2>5. CursorState' = [CursorState EXCEPT ![c] = "Exhausted"]
    BY <1>3, <2>1, Zenon
  <2>6. CodeCursor!AdvanceEnd(c)
    BY <2>3, <2>4, <2>5, Zenon DEF CodeCursor!AdvanceEnd
  <2>7. QED
    BY <2>6 DEF CodeCursor!Next
<1>12. CASE x.kind = "err"
  <2>1. StateOf(s) \in {"Active", "Exhausted"} /\ StateOf(t) = "Failed"
    BY <1>5, <1>12 DEF StateOf
  <2>2. \A d \in Cursors : TakenCount(out'[d], Len(out'[d])) = TakenCount(out[d], Len(out[d]))
    <3>1. TakenCount(t, Len(t)) = TakenCount(s, Len(s))
      BY <1>6, <1>12
    <3>2. QED
      BY <1>2, <3>1, Zenon
  <2>3. Taken' = Taken
    BY <2>2, MappingIs
  <2>4. x = CodeCursor!Item("err", NoRow)
    BY <1>8, <1>12 DEF CodeCursor!Item
  <2>5. NoneRemoved(t) = Append(Yielded[c], CodeCursor!Item("err", NoRow))
    BY <1>4, <1>7, <1>12, <2>4
  <2>6. Yielded' = [Yielded EXCEPT ![c] = Append(@, CodeCursor!Item("err", NoRow))]
    BY <1>3, <2>5, Zenon
  <2>7. CursorState[c] \in {"Active", "Exhausted"}
        /\ CursorState' = [CursorState EXCEPT ![c] = "Failed"]
    BY <1>3, <1>4, <2>1, Zenon
  <2>8. CodeCursor!AdvanceError(c)
    BY <2>3, <2>6, <2>7, Zenon DEF CodeCursor!AdvanceError, CodeCursor!Yield
  <2>9. QED
    BY <2>8 DEF CodeCursor!Next
<1>13. QED
  BY <1>8, <1>10, <1>11, <1>12

\* An unused cursor is an Active cursor that yielded nothing and took
\* no row.
LEMMA RefinesInit == Init => CodeCursor!Init
<1> SUFFICES ASSUME Init PROVE CodeCursor!Init
  OBVIOUS
<1>1. \A d \in Cursors : out[d] = <<>>
  BY DEF Init
<1>2. StateOf(<<>>) = "Active" /\ NoneRemoved(<<>>) = <<>>
  BY DEF StateOf, KindsOf, NoneRemoved, HasEnd
<1>3. TakenCount(<<>>, 0) = 0
  <2>1. {j \in 1..0 : <<>>[j].kind \in {"row", "deser"}} = {}
    OBVIOUS
  <2>2. QED
    BY <2>1, FS_EmptySet DEF TakenCount
<1>4. /\ CursorState = [d \in Cursors |-> "Active"]
      /\ Yielded = [d \in Cursors |-> <<>>]
      /\ Taken = [d \in Cursors |-> 0]
  BY <1>1, <1>2, <1>3, MappingIs
<1>5. QED
  BY <1>4 DEF CodeCursor!Init

\* Every step of Statement is an advance of one cursor or leaves the
\* abstract cursors as they are.
LEMMA RefinesNext ==
    ASSUME Disciplined, ~ErrorWithoutRecord, RefInv, [Next]_vars
    PROVE  [CodeCursor!Next]_CodeCursor!vars
<1>1. CASE out' = out
  <2>1. CursorState' = CursorState /\ Yielded' = Yielded /\ Taken' = Taken
    BY <1>1, MappingIs
  <2>2. QED
    BY <2>1 DEF CodeCursor!vars
<1>2. ASSUME NEW c \in Cursors, Fetch(c)
      PROVE  [CodeCursor!Next]_CodeCursor!vars
  BY <1>2, FetchRefines
<1>3. QED
  BY <1>1, <1>2, OutFrame

\* Used the way the spec assumes (no advance after an error, no new
\* execution while a cursor is open) and with every failed fetch reported
\* by a diagnostic record, the cursors Statement::run_with_cursor returns
\* behave as the spec's Active/Exhausted/Failed machine in which an
\* advance after None may still fail, for every result set, number of
\* columns and set of cursors (Cursor::next, run_with_cursor,
\* define_all_columns).
THEOREM CursorRefinesCodeCursorHolds ==
    ASSUME Disciplined, ~ErrorWithoutRecord
    PROVE  Spec => CursorRefinesCodeCursor
<1>1. Init => RefInv /\ CodeCursor!Init
  BY RefInvInit, RefinesInit
<1>2. RefInv /\ [Next]_vars => RefInv' /\ [CodeCursor!Next]_CodeCursor!vars
  BY RefInvNext, RefinesNext
<1>3. QED
  BY <1>1, <1>2, PTL DEF Spec, CursorRefinesCodeCursor, CodeCursor!Spec

=============================================================================
