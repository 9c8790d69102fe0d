---------------------------- MODULE MCStatement ----------------------------
(***************************************************************************)
(* Small instances of Statement for TLC.                                   *)
(***************************************************************************)
EXTENDS CursorRefinement

CONSTANTS v1, v2, c1, c2

\* A query, a DDL text that is prepared twice, one in lower case that is
\* prepared once, a DML text, and a DML text whose literal contains
\* "select", which is_select takes for a query.
MCSqlTexts == {"SELECT a, b FROM t", "CREATE TABLE t (a NUMBER)",
               "create index i on t (a)", "UPDATE t SET a = 1",
               "UPDATE t SET b = 'select'"}

MCSqlKind == [s \in MCSqlTexts |->
                 IF s = "SELECT a, b FROM t" THEN "query"
                 ELSE IF s \in {"CREATE TABLE t (a NUMBER)",
                                "create index i on t (a)"} THEN "ddl"
                 ELSE "dml"]

\* NUMBER(10) and VARCHAR2(20).
MCColDescs == <<[code |-> "SQLT_NUM", precision |-> 10, scale |-> 0, charSize |-> 0],
                [code |-> "SQLT_VCS", precision |-> 0, scale |-> 0, charSize |-> 20]>>

\* Two rows: the first has a NULL in its second column, read from a fresh
\* Field; the second a NULL in its first column, whose buffer still holds
\* the first row's v1.
MCRows == <<<<v1, Null>>, <<Null, v1>>>>

MCValues == {v1, v2}
MCCursors == {c1, c2}

\* A single cursor: what goes wrong then comes from run() alone.
MCOneCursor == {c1}
=============================================================================
