--------------------- MODULE MCSimpleNameAuthentication ---------------------
EXTENDS SimpleNameAuthentication, TLC

CONSTANTS Elodie, elodie, Bob, bob

MCNames == {Elodie, elodie, Bob}

MCKeys == {Elodie, elodie, bob}

\* Elodie stands for a name whose capital is not an ASCII letter.
UnicodeLower == (Elodie :> elodie) @@ (elodie :> elodie) @@ (Bob :> bob)

AsciiLower == (Elodie :> Elodie) @@ (elodie :> elodie) @@ (Bob :> bob)

============================================================================
