--------------------------- MODULE PasswordCheck ---------------------------
(***************************************************************************)
(* leakage_test/IFSpec_password_check/password_secure.cpp, two executions  *)
(* side by side: they read the same public lines and differ in the secret, *)
(* the number of tries allowed.  Each goes at its own pace; the public     *)
(* output of one must never contradict that of the other.                  *)
(*                                                                         *)
(* The harness (DecodeInputs) hands a subject its input; the definitions   *)
(* here have names of their own so that a module can extend both.          *)
(***************************************************************************)
EXTENDS Integers, Sequences, SequencesExt

CONSTANTS
    Lines,     \* contents of a line of input; "right" is the password
    Secrets,   \* values of maximumTries, negative ones too
    MaxLines   \* bound on the lines of input

ASSUME MaxLinesAssumption == MaxLines \in Nat

Runs == {1, 2}

VARIABLES
    input,         \* the public lines, the same for both
    maximumTries,  \* per execution, as all below
    pos, invalidTries, loggedIn, output

password_vars == <<input, maximumTries, pos, invalidTries, loggedIn, output>>

PasswordInit ==
    /\ input \in BoundedSeq(Lines, MaxLines)
    /\ maximumTries \in [Runs -> Secrets]
    /\ pos = [r \in Runs |-> 0]
    /\ invalidTries = [r \in Runs |-> 0]
    /\ loggedIn = [r \in Runs |-> FALSE]
    /\ output = [r \in Runs |-> <<"To exit">>]

(* mutant: password_insecure.cpp prints only when no tries are left *)
MessageWhenLocked(r) ==
    IF invalidTries[r] < maximumTries[r] THEN <<>> ELSE <<"No more tries">>

Message(r) == <<"Login Attempt Completed">>

AfterWrong(r) == FALSE

(* one line: the prompt and tryLogin() *)
tryLogin(r) ==
    /\ pos[r] < Len(input)
    /\ LET right == input[pos[r] + 1] = "right"
           open == invalidTries[r] < maximumTries[r]
       IN  /\ loggedIn' = [loggedIn EXCEPT ![r] =
                            IF ~open THEN @ ELSE IF right THEN TRUE ELSE AfterWrong(r)]
           /\ invalidTries' = [invalidTries EXCEPT ![r] =
                            IF open /\ ~right THEN @ + 1 ELSE @]
    /\ output' = [output EXCEPT ![r] = @ \o <<"Enter password">> \o Message(r)]
    /\ pos' = [pos EXCEPT ![r] = @ + 1]
    /\ UNCHANGED <<input, maximumTries>>

EndRun(r) ==
    /\ pos[r] = Len(input)
    /\ output' = [output EXCEPT ![r] = Append(@, "Run completed")]
    /\ pos' = [pos EXCEPT ![r] = @ + 1]
    /\ UNCHANGED <<input, maximumTries, invalidTries, loggedIn>>

PasswordNext == \E r \in Runs : tryLogin(r) \/ EndRun(r)

PasswordSpec == PasswordInit /\ [][PasswordNext]_password_vars

-----------------------------------------------------------------------------
(* Properties *)

(* The secret number of tries does not show in the public output: with     *)
(* equal public input the outputs of two executions agree as far as both   *)
(* have come.                                                              *)
OutputsAgree == IsPrefix(output[1], output[2]) \/ IsPrefix(output[2], output[1])

=============================================================================
