--------------------------- MODULE MCDecodeInputs ---------------------------
(***************************************************************************)
(* Two kinds of test cases: a PUBLIC field with any text, which is the     *)
(* code of up to MaxBytes bytes or up to MaxCode characters with others    *)
(* than those of base64 in any place; and up to MaxFields fields of any    *)
(* name and type with few texts.                                           *)
(***************************************************************************)
EXTENDS DecodeInputs

CONSTANTS ByteValues, CodeValues, MaxBytes, MaxCode, MaxFields

Encoded(bytes, max) ==
    {[code |-> Base64encode(b), plain |-> b] : b \in BoundedSeq(bytes, max)}

NotEncoded(chars, max) ==
    {[code |-> c, plain |-> NULL] : c \in BoundedSeq(chars, max)}

Empty == [code |-> <<>>, plain |-> NULL]

MCField(name, string, text) ==
    [name |-> name, string |-> string, code |-> text.code, plain |-> text.plain]

AnyText ==
    {[type |-> "object",
      fields |-> <<MCField("PUBLIC", TRUE, t), MCField("SECRET", TRUE, Empty)>>] :
        t \in Encoded(ByteValues, MaxBytes) \cup NotEncoded(CodeValues, MaxCode)}

Fields ==
    {MCField(n, TRUE, t) : n \in {"PUBLIC", "SECRET"},
                           t \in Encoded({107}, 2) \cup NotEncoded({25}, 1)} \cup
    {MCField("PUBLIC", FALSE, Empty), MCField("OTHER", TRUE, Empty)}

AnyFields ==
    {[type |-> t, fields |-> <<>>] : t \in {"error", "array"}} \cup
    {[type |-> "object", fields |-> f] : f \in BoundedSeq(Fields, MaxFields)}

MCTestCases == AnyText \cup AnyFields
=============================================================================
