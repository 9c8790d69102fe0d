------------------------------- MODULE SqlText -------------------------------
(***************************************************************************)
(* The two substring scans Statement::prepare makes over the SQL text      *)
(* (src/src/oracle/connection/stmt.rs):                                    *)
(*   - the re-prepare test  mysql.find("CREATE") = Some(u) with u < 10     *)
(*   - the query test       sql.contains("SELECT") || sql.contains("select")*)
(* A SQL text is a TLA+ string; TLC evaluates Len and SubSeq on strings,   *)
(* so the scans are modelled by what they compute, byte offset included.  *)
(* No RECURSIVE operator: the module is used by modules with theorems.     *)
(***************************************************************************)
EXTENDS Integers, Sequences

\* pat occurs in s starting at the 1-based position i.
OccursAt(s, pat, i) ==
    /\ i + Len(pat) - 1 <= Len(s)
    /\ SubSeq(s, i, i + Len(pat) - 1) = pat

\* str::contains
Contains(s, pat) == \E i \in 1..Len(s) : OccursAt(s, pat, i)

\* str::find: the 0-based byte offset of the first occurrence, -1 for None.
Find(s, pat) ==
    IF Contains(s, pat)
    THEN (CHOOSE i \in 1..Len(s) :
              /\ OccursAt(s, pat, i)
              /\ \A j \in 1..(i - 1) : ~OccursAt(s, pat, j)) - 1
    ELSE -1

\* `if let Some(u) = mysql.find("CREATE") { if u < 10 { prepare again } }`
NeedsRePrepare(sql) ==
    LET u == Find(sql, "CREATE") IN u # -1 /\ u < 10

\* `is_select: sql.contains("SELECT") || sql.contains("select")`
IsSelectText(sql) == Contains(sql, "SELECT") \/ Contains(sql, "select")

=============================================================================
