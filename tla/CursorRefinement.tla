--------------------------- MODULE CursorRefinement ---------------------------
(***************************************************************************)
(* The cursors of Statement seen as the cursors of CursorSpec.  A cursor's *)
(* state is read off the items its next() returned: Failed once it         *)
(* returned an Err, Exhausted once it returned None, Active before.  None  *)
(* is not an item of the abstract sequence, and the row counter counts the *)
(* rows fetched, decoded or not.                                           *)
(***************************************************************************)
EXTENDS Statement

Kinds(c) == {out[c][i].kind : i \in 1..Len(out[c])}

CursorState == [c \in Cursors |->
                  IF "err" \in Kinds(c) THEN "Failed"
                  ELSE IF "end" \in Kinds(c) THEN "Exhausted"
                  ELSE "Active"]

\* Whether s holds a None, and the first one.
HasEnd(s)   == \E i \in 1..Len(s) : s[i].kind = "end"
FirstEnd(s) == CHOOSE i \in 1..Len(s) :
                  s[i].kind = "end" /\ \A j \in 1..i - 1 : s[j].kind # "end"

\* The items without the Nones.  Cursor::next returns no row after None
\* and, used as the spec assumes, nothing after an error, so the Nones
\* form one block that at most an error follows.
NoneRemoved(s) ==
    IF ~HasEnd(s) THEN s
    ELSE SubSeq(s, 1, FirstEnd(s) - 1)
           \o (IF s[Len(s)].kind = "err" THEN <<s[Len(s)]>> ELSE <<>>)

Yielded == [c \in Cursors |-> NoneRemoved(out[c])]

Taken == [c \in Cursors |-> TakenCount(out[c], Len(out[c]))]

\* The spec's cursor, with the idempotent end, and the same machine
\* without it.
SpecCursor == INSTANCE CursorSpec
                WITH cstate <- CursorState, yielded <- Yielded, taken <- Taken,
                     EndLatches <- TRUE
CodeCursor == INSTANCE CursorSpec
                WITH cstate <- CursorState, yielded <- Yielded, taken <- Taken,
                     EndLatches <- FALSE

\* Used the way the spec assumes, every cursor run_with_cursor returns
\* behaves as the spec's Active/Exhausted/Failed machine, except that an
\* advance after None may still fail: the rows come from the result set
\* in order, with NULLs, each fetched row counts, None comes only at
\* native exhaustion and is final for rows, an error is final (Cursor::next,
\* run_with_cursor, define_all_columns).
CursorRefinesCodeCursor == CodeCursor!Spec

\* Every cursor behaves as the spec's machine, whose Exhausted state only
\* ever ends again (spec section 4.4: further advances continue yielding
\* nothing; Cursor::next fetches again after OCI_NO_DATA).
CursorRefinesSpecCursor == SpecCursor!Spec
=============================================================================
