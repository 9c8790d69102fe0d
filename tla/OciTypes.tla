------------------------------- MODULE OciTypes -------------------------------
(***************************************************************************)
(* Statement::get_attr_type_and_size (stmt.rs): from the native column     *)
(* descriptor of a result column to the (type code, buffer width) pair     *)
(* that Statement::define registers as the output buffer.  Native type     *)
(* codes are kept as their ffi names.  A descriptor records the attributes *)
(* the function reads: OCI_ATTR_DATA_TYPE, and for SQLT_NUM precision and  *)
(* scale, for the character family OCI_ATTR_CHAR_SIZE.                     *)
(***************************************************************************)
EXTENDS Integers

IntCodes    == {"SQLT_INT", "SQLT_UIN"}
DoubleCodes == {"SQLT_BDOUBLE", "SQLT_LNG", "SQLT_IBDOUBLE"}
FloatCodes  == {"SQLT_FLT", "SQLT_BFLOAT", "SQLT_IBFLOAT"}
CharCodes   == {"SQLT_CHR", "SQLT_VCS", "SQLT_LVC", "SQLT_AFC", "SQLT_VST",
                "SQLT_ODT", "SQLT_DATE", "SQLT_TIMESTAMP",
                "SQLT_TIMESTAMP_TZ", "SQLT_TIMESTAMP_LTZ"}

\* The codes the match of get_attr_type_and_size has an arm for.
SupportedCodes == IntCodes \cup {"SQLT_NUM"} \cup DoubleCodes
                           \cup FloatCodes \cup CharCodes

\* The type codes get_attr_type_and_size can return.
ResolvedTypes == {"SQLT_INT", "SQLT_UIN", "SQLT_FLT", "SQLT_BDOUBLE", "SQLT_BFLOAT", "SQLT_STR"}

\* `match precision { 5 => 2, 10 => 4, 19 => 8, _ => 21 }`
NumberWidth(precision) ==
    CASE precision = 5  -> 2
      [] precision = 10 -> 4
      [] precision = 19 -> 8
      [] OTHER          -> 21

(***************************************************************************)
(* The result: ok = FALSE is the "unsupported type" error of the catch-all *)
(* arm, which aborts the definition of the column.                         *)
(***************************************************************************)
GetAttrTypeAndSize(d) ==
    CASE d.code \in IntCodes ->
            [ok |-> TRUE, tpe |-> d.code, size |-> 8]
      [] d.code = "SQLT_NUM" /\ d.scale = 0 ->
            [ok |-> TRUE, tpe |-> "SQLT_INT", size |-> NumberWidth(d.precision)]
      [] d.code = "SQLT_NUM" /\ d.scale # 0 ->
            [ok |-> TRUE, tpe |-> "SQLT_FLT", size |-> 8]
      [] d.code \in DoubleCodes ->
            [ok |-> TRUE, tpe |-> "SQLT_BDOUBLE", size |-> 8]
      [] d.code \in FloatCodes ->
            [ok |-> TRUE, tpe |-> "SQLT_BFLOAT", size |-> 4]
      [] d.code \in CharCodes ->
            [ok |-> TRUE, tpe |-> "SQLT_STR", size |-> d.charSize]
      [] OTHER ->
            [ok |-> FALSE, tpe |-> d.code, size |-> 0]

=============================================================================
