----------------------------- MODULE MCOciTypes -----------------------------
(***************************************************************************)
(* get_attr_type_and_size over every descriptor of a small domain: the     *)
(* state is the descriptor of the column being described.                  *)
(***************************************************************************)
EXTENDS OciTypes

VARIABLE d

Descriptors ==
    [code : SupportedCodes \cup {"SQLT_CLOB", "SQLT_BLOB"},
     precision : {0, 5, 10, 19, 38}, scale : {0, 2}, charSize : {10}]

Init == d \in Descriptors
Next == d' \in Descriptors

\* Decimal digits a signed two's-complement integer of w bytes holds in
\* full: 32767, 2147483647, 9223372036854775807.
SignedDigits == [w \in {1, 2, 4, 8} |->
                    CASE w = 1 -> 2 [] w = 2 -> 4 [] w = 4 -> 9 [] w = 8 -> 18]

\* The buffer define allocates for a column holds every value of it: a
\* NUMBER(p) fits the signed integer of the resolved width (the 21-byte
\* fallback aside), and a character column of n characters fits with the
\* NUL byte SQLT_STR appends (spec: a buffer's width is at least the
\* maximum representable value width for the type).
DefineBufferHoldsValue ==
    LET r == GetAttrTypeAndSize(d)
    IN  r.ok =>
          CASE d.code = "SQLT_NUM" /\ d.scale = 0 /\ r.size # 21 ->
                  SignedDigits[r.size] >= d.precision
            [] d.code \in CharCodes -> r.size >= d.charSize + 1
            [] OTHER -> TRUE
=============================================================================
