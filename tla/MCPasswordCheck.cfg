CONSTANTS
    Lines = {"right", "wrong"}
    Secrets <- MCSecrets
    MaxLines = 4
SPECIFICATION PasswordSpec
INVARIANT OutputsAgree
CHECK_DEADLOCK FALSE
