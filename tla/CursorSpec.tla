------------------------------ MODULE CursorSpec ------------------------------
(***************************************************************************)
(* The cursor the spec describes (spec section 4.4): a pull-based machine  *)
(* per cursor with the states Active, Exhausted and Failed and a single    *)
(* advance that yields a row, a deserialization error or an error, or      *)
(* ends the sequence.  Rows come from the result set in order; the         *)
(* sequence ends only at native exhaustion; no advance follows Failed.     *)
(*                                                                         *)
(* EndLatches is the spec's idempotent end: TRUE, an advance of an         *)
(* Exhausted cursor yields nothing; FALSE, it may also yield an error and  *)
(* fail.                                                                   *)
(***************************************************************************)
EXTENDS Naturals, Sequences

CONSTANTS
    Cursors,     \* cursor identities
    Rows,        \* the rows of the result set, in order
    NoRow,       \* the payload of an item that carries no row
    EndLatches   \* an Exhausted cursor only ever ends again

VARIABLES
    cstate,      \* cursor -> "Active" | "Exhausted" | "Failed"
    yielded,     \* cursor -> the items it yielded, in order
    taken        \* cursor -> result rows it consumed (the row counter)

vars == <<cstate, yielded, taken>>

Item(kind, vals) == [kind |-> kind, vals |-> vals]

Yield(c, it) == yielded' = [yielded EXCEPT ![c] = Append(@, it)]

Init ==
    /\ cstate = [c \in Cursors |-> "Active"]
    /\ yielded = [c \in Cursors |-> <<>>]
    /\ taken = [c \in Cursors |-> 0]

\* A successful fetch: the next row, decoded or not; the counter advances
\* either way.
AdvanceRow(c) ==
    /\ cstate[c] = "Active" /\ taken[c] < Len(Rows)
    /\ \/ Yield(c, Item("row", Rows[taken[c] + 1]))
       \/ Yield(c, Item("deser", NoRow))
    /\ taken' = [taken EXCEPT ![c] = @ + 1]
    /\ UNCHANGED cstate

\* No more data: the cursor is Exhausted and yields nothing.
AdvanceEnd(c) ==
    /\ cstate[c] \in {"Active", "Exhausted"} /\ taken[c] = Len(Rows)
    /\ cstate' = [cstate EXCEPT ![c] = "Exhausted"]
    /\ UNCHANGED <<yielded, taken>>

\* A failing fetch: the error is the item, and the cursor is Failed.
AdvanceError(c) ==
    /\ \/ cstate[c] = "Active"
       \/ ~EndLatches /\ cstate[c] = "Exhausted"
    /\ Yield(c, Item("err", NoRow))
    /\ cstate' = [cstate EXCEPT ![c] = "Failed"]
    /\ UNCHANGED taken

Next == \E c \in Cursors : AdvanceRow(c) \/ AdvanceEnd(c) \/ AdvanceError(c)

Spec == Init /\ [][Next]_vars

=============================================================================
