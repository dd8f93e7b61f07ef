SPECIFICATION Spec
CONSTANTS
    None = None
    Elodie = Elodie
    elodie = elodie
    Bob = Bob
    bob = bob
    Workers = {w1}
    Names <- MCNames
    Keys <- MCKeys
    PythonLower <- UnicodeLower
    DatabaseLower <- AsciiLower
    Ids = {1, 2}
INVARIANT RefusedOnlyIfRaced
