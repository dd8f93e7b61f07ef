--------------------------- MODULE UserDirectory ---------------------------
(***************************************************************************)
(* What authentication by name promises: a directory from names to user    *)
(* ids that only grows.  A client that gives a name gets the id under that *)
(* name, the same one every time, or is told that somebody else has just   *)
(* registered it, which is so.                                             *)
(***************************************************************************)
CONSTANTS
    None,
    Clients,
    Keys,      \* names, whatever the case they are written in
    Ids

VARIABLES
    directory,   \* the id of each key, None if it has none
    answer       \* what each client was last told

directoryVars == <<directory, answer>>

Given == {directory[k] : k \in Keys}

Answered(key, id) == [key |-> key, id |-> id]

Waiting == Answered(None, None)

DirectoryInit ==
    /\ directory = [k \in Keys |-> None]
    /\ answer = [c \in Clients |-> Waiting]

\* The client gets the id its name has.
Resolve(c, k) ==
    /\ answer[c] = Waiting
    /\ directory[k] # None
    /\ answer' = [answer EXCEPT ![c] = Answered(k, directory[k])]
    /\ UNCHANGED directory

\* Its name gets an id nobody else has.
Register(c, k) ==
    /\ answer[c] = Waiting
    /\ directory[k] = None
    /\ \E id \in Ids \ Given :
         /\ directory' = [directory EXCEPT ![k] = id]
         /\ answer' = [answer EXCEPT ![c] = Answered(k, id)]

\* It is refused, and its name is registered.
Refuse(c, k) ==
    /\ answer[c] = Waiting
    /\ directory[k] # None
    /\ answer' = [answer EXCEPT ![c] = Answered(k, None)]
    /\ UNCHANGED directory

\* The client is served, or gone.
Leave(c) ==
    /\ answer[c] # Waiting
    /\ answer' = [answer EXCEPT ![c] = Waiting]
    /\ UNCHANGED directory

\* Somebody who never hears of it may have registered the name.
RegisterUnheard(k) ==
    /\ directory[k] = None
    /\ \E id \in Ids \ Given : directory' = [directory EXCEPT ![k] = id]
    /\ UNCHANGED answer

DirectoryNext ==
    \/ \E c \in Clients : Leave(c)
    \/ \E c \in Clients, k \in Keys : Resolve(c, k) \/ Register(c, k) \/ Refuse(c, k)
    \/ \E k \in Keys : RegisterUnheard(k)

DirectorySpec == DirectoryInit /\ [][DirectoryNext]_directoryVars

============================================================================
