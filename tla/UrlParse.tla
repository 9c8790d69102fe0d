------------------------------- MODULE UrlParse -------------------------------
(***************************************************************************)
(* parse_db_string (src/src/oracle/connection/raw.rs), over TLA+ strings.  *)
(* The splits are Rust's str::split: the pieces between the non-          *)
(* overlapping occurrences of the pattern, found from the left.  Vector    *)
(* indexing out of range and the failed assert_eq! are a "panic" outcome.  *)
(* RECURSIVE: this module is used only by TLC runs.                        *)
(***************************************************************************)
EXTENDS Integers, Sequences, SqlText

\* The outcome of parse_db_string: Ok((user, password, db_url)), an
\* InvalidConnectionUrl error, or a panic.
Ok(u, p, d) == [kind |-> "ok", parts |-> <<u, p, d>>]
Err         == [kind |-> "err", parts |-> <<>>]
Panic       == [kind |-> "panic", parts |-> <<>>]

\* s.split(pat).collect::<Vec<&str>>()
RECURSIVE Split(_, _)
Split(s, pat) ==
    LET u == Find(s, pat)
    IN  IF u = -1
        THEN <<s>>
        ELSE <<SubSeq(s, 1, u)>> \o Split(SubSeq(s, u + Len(pat) + 1, Len(s)), pat)

\* Mutant of Pop (password.pop() left out).
PopNothing(s) == s

\* String::pop: the last character goes, an empty string stays empty.
Pop(s) == IF s = "" THEN s ELSE SubSeq(s, 1, Len(s) - 1)

\* parse_db_string: the "oci://" prefix test, split("//") with
\* assert_eq!(splits.len(), 3), split('/') of the middle segment indexed
\* at 0 and 1, the password's last character popped, the third segment
\* passed through.
ParseDbString(url) ==
    LET splits == Split(url, "//")
        userandpw == IF Len(splits) = 3 THEN Split(splits[2], "/") ELSE <<>>
    IN  CASE ~OccursAt(url, "oci://", 1)      -> Err
          [] Len(splits) # 3                 -> Panic
          [] Len(userandpw) < 2              -> Panic
          [] OTHER -> Ok(userandpw[1], Pop(userandpw[2]), splits[3])

\* The shape of a connection string the spec gives:
\* scheme://user/password@//host[:port]/service.
Format(u, p, h) == "oci://" \o u \o "/" \o p \o "@//" \o h

=============================================================================
