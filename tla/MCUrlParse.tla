------------------------------ MODULE MCUrlParse ------------------------------
(***************************************************************************)
(* parse_db_string over a finite set of inputs: the connection strings of  *)
(* the spec's shape built from small users, passwords and hosts, with the  *)
(* delimiters '@', '/' and ':' inside them.  The state is the input.       *)
(***************************************************************************)
EXTENDS UrlParse

VARIABLE input  \* [url, parts]: parts is <<user, password, host>>

Users == {"", "u", "u@", "user"}
Pws   == {"", "p", "p@", "@", "password"}
Hosts == {"", "h", "h:1/s", "/s", "h/", "localhost:1234/my_database",
          "localhost/my_database"}

WellFormed == {[url |-> Format(u, p, h), parts |-> <<u, p, h>>] :
                  u \in Users, p \in Pws, h \in Hosts}

Init == input \in WellFormed
Next == input' \in WellFormed

\* A connection string of the spec's shape parses back into its user,
\* password (the '@' before "//" trimmed) and host/service string, the
\* latter passed through unmodified (raw.rs parse_db_string; the two URLs
\* of its unit tests are instances).
ParseInvertsFormat ==
    ParseDbString(input.url) = Ok(input.parts[1], input.parts[2], input.parts[3])
=============================================================================
