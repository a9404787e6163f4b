----------------------------- MODULE GgufValues -----------------------------
(***************************************************************************)
(* HeaderReader::value of crates/core/src/gguf.rs: the header fields of a  *)
(* metadata value, which may be an array of arrays, however deep. It gives *)
(* Gguf's ValueFields its value.                                           *)
(***************************************************************************)
EXTENDS Gguf

\* A value after its type id: a scalar, a string, or an array, which may hold arrays.
RECURSIVE ValueLayout(_)
ValueLayout(v) ==
  IF v.vt \notin DOMAIN ValueTypes THEN Fault(TRUE, "BadValueType")
  ELSE CASE ValueTypes[v.vt] = "STRING" -> StringFields(TRUE)
         [] ValueTypes[v.vt] = "ARRAY"  ->
              Field(4) \o Fault(v.elem \notin DOMAIN ValueTypes, "BadValueType") \o Field(8)
                \o FlattenSeq([i \in DOMAIN v.val |-> ValueLayout(v.val[i])])
         [] OTHER -> Field(ScalarWidth[ValueTypes[v.vt]])
=============================================================================
