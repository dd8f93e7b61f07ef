SPECIFICATION FairSpec
CONSTANTS
    None = None
    Elodie = Elodie
    elodie = elodie
    Bob = Bob
    bob = bob
    Workers = {w1, w2}
    Names <- MCNames
    Keys <- MCKeys
    PythonLower <- UnicodeLower
    DatabaseLower <- UnicodeLower
    Ids = {1, 2}
INVARIANTS TypeOK OneUserPerName RefusedOnlyIfRaced
PROPERTIES ImplementsDirectory NameServed
