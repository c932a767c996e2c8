\* Two sends and a broadcast over either database, with and without cleanups.
SPECIFICATION Spec
\* The system stops when the application has made every call MaxTries times.
CHECK_DEADLOCK FALSE
CONSTANTS
    send1 = send1
    send2 = send2
    fan = fan
    k1 = k1
    k2 = k2
    NoRow = NoRow
    Calls = {send1, send2, fan}
    Keys = {k1, k2}
    KeysOf <- Covers
    InTx = {send1, send2}
    MaxTries = 2
SYMMETRY SendSymmetry
INVARIANTS
    TypeOK
    AnswersAreCommitted
    WrittenTogether
    NeverDuplicates
