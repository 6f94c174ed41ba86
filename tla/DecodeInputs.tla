---------------------------- MODULE DecodeInputs ----------------------------
(***************************************************************************)
(* find_public_and_secret_inputs() of leakage_test/decode_inputs.c, by     *)
(* which every subject splits a test case: a JSON object with the fields   *)
(* PUBLIC and SECRET in base64.  What json_parse() makes of the test case  *)
(* is given: nothing, an object's fields in their order, or another value. *)
(***************************************************************************)
EXTENDS Base64

CONSTANTS
    TestCases,  \* [type, fields]; a field is [name, string, code, plain],
                \* where plain are the bytes that were encoded, if any were
    NULL

TypedField ==
    [name : STRING, string : BOOLEAN, code : Seq(Char), plain : {NULL} \cup Seq(Octet)]

TypedBuffer == [bytes : Seq(Octet), len : Nat, room : Nat]

(* A code is given by its characters; a field that was encoded holds the   *)
(* code of its bytes.                                                      *)
ASSUME TestCasesAssumption ==
    \A v \in TestCases :
        /\ v.fields \in Seq(TypedField)
        /\ \A i \in DOMAIN v.fields :
              v.fields[i].plain # NULL => v.fields[i].code = Base64encode(v.fields[i].plain)

ASSUME NULLAssumption == NULL \notin Seq(Octet) /\ NULL \notin TypedBuffer

VARIABLES
    value,                   \* result of json_parse()
    live,                    \* it is allocated
    raw_public, raw_secret,  \* codes
    public, secret,          \* [bytes, len, room] of the malloced buffers
    next,                    \* the field to be looked at
    pc

vars == <<value, live, raw_public, raw_secret, public, secret, next, pc>>

Init ==
    /\ value \in TestCases
    /\ live = (value.type # "error")
    /\ raw_public = NULL
    /\ raw_secret = NULL
    /\ public = NULL
    /\ secret = NULL
    /\ next = 1
    /\ pc = "parsed"

outputs == <<raw_public, raw_secret, public, secret>>

(* the test of the value and of its type *)
Parsed ==
    /\ pc = "parsed"
    /\ pc' = CASE value.type = "error" -> "returned"
               [] value.type = "object" -> "fields"
               [] OTHER -> "exited"
    /\ UNCHANGED <<value, live, outputs, next>>

(* raw_public or raw_secret after field f *)
Field(name, raw, f) == IF f.name = name THEN f.code ELSE raw

(* one field: anything but a string of one of the two names ends the process *)
OneField ==
    /\ pc = "fields"
    /\ next <= Len(value.fields)
    /\ LET f == value.fields[next]
       IN  IF f.string /\ f.name \in {"PUBLIC", "SECRET"}
           THEN /\ raw_public' = Field("PUBLIC", raw_public, f)
                /\ raw_secret' = Field("SECRET", raw_secret, f)
                /\ UNCHANGED pc
           ELSE pc' = "exited" /\ UNCHANGED <<raw_public, raw_secret>>
    /\ next' = next + 1
    /\ UNCHANGED <<value, live, public, secret>>

(* mutant: one missing field is let through *)
MissingBoth == raw_public = NULL /\ raw_secret = NULL

Missing == raw_public = NULL \/ raw_secret = NULL

(* malloc() and Base64decode() *)
Buffer(code) ==
    IF code = NULL THEN NULL
    ELSE [bytes |-> Base64decode(code), len |-> Decoded(code),
          room |-> Base64decode_len(code)]

Decode ==
    /\ pc = "fields"
    /\ next > Len(value.fields)
    /\ IF Missing THEN pc' = "exited" /\ UNCHANGED <<live, public, secret>>
       ELSE /\ public' = Buffer(raw_public)
            /\ secret' = Buffer(raw_secret)
            /\ live' = FALSE
            /\ pc' = "returned"
    /\ UNCHANGED <<value, raw_public, raw_secret, next>>

Next == Parsed \/ OneField \/ Decode

Spec == Init /\ [][Next]_vars

-----------------------------------------------------------------------------
(* Properties *)

(* A caller that passes its test of the two pointers has both buffers, one *)
(* that does not has none to free, and nothing of the parsed JSON is left. *)
BothOrNone ==
    pc = "returned" => (public = NULL <=> secret = NULL) /\ ~live

(* The returned length is the number of bytes written, and there is room   *)
(* for one more, the NUL, which password_secure.cpp copies too: for every  *)
(* code, of any length and with a foreign character anywhere.              *)
BufferHolds ==
    \A b \in {public, secret} \ {NULL} :
        /\ b.len = Len(b.bytes)
        /\ b.len + 1 <= b.room
        /\ b.bytes \in Seq(Octet)

(* the last field of a name *)
LastNamed(name) ==
    value.fields[CHOOSE i \in DOMAIN value.fields :
                    /\ value.fields[i].name = name
                    /\ \A j \in (i + 1)..Len(value.fields) : value.fields[j].name # name]

(* What was encoded into the last PUBLIC and SECRET fields comes back, in  *)
(* whatever order the fields stand.                                        *)
InputsComeBack ==
    \A x \in {<<"PUBLIC", public>>, <<"SECRET", secret>>} :
        x[2] # NULL => LET f == LastNamed(x[1])
                       IN  f.plain # NULL => x[2].bytes = f.plain /\ x[2].len = Len(f.plain)
=============================================================================
