---------------------- MODULE SimpleNameAuthentication ----------------------
(***************************************************************************)
(* Authentication by name: every changing request resolves the name in its *)
(* bearer token to a user, or registers one.  The look for the user and    *)
(* its creation are two transactions, and API processes interleave them.   *)
(*                                                                         *)
(* A name is compared by its lower case twice: the look compares lower()   *)
(* of the database with str.lower() of Python, the unique index lower() of *)
(* the database with itself.  PostgreSQL lowers the letters of its locale, *)
(* SQLite those of ASCII only.  Both are parameters here.                  *)
(***************************************************************************)
CONSTANTS
    None,
    Workers,         \* the API processes, one request at a time each
    Names,           \* names as User normalizes them: trimmed, 1 to 64 characters
    Keys,            \* lower-cased names
    PythonLower,     \* name.lower()
    DatabaseLower,   \* lower(name)
    Ids

ASSUME LowerAssumption ==
    /\ PythonLower \in [Names -> Keys]
    /\ DatabaseLower \in [Names -> Keys]

ASSUME NoneAssumption == None \notin Names \union Keys \union Ids

VARIABLES
    users,     \* the table: the name of each user, None if there is no such row
    request    \* the authentication each worker is at

vars == <<users, request>>

Steps == {"idle", "asked", "unknown", "resolved", "conflict", "unauthorized"}

\* seen: the users there were when the name was looked up, for the properties.
Request == [step : Steps, name : Names \union {None},
            user : Ids \union {None}, seen : SUBSET Ids]

Idle == [step |-> "idle", name |-> None, user |-> None, seen |-> {}]

Registered == {id \in Ids : users[id] # None}

Init ==
    /\ users = [id \in Ids |-> None]
    /\ request = [w \in Workers |-> Idle]

----------------------------------------------------------------------------

\* The dependency of every changing route; without a token, or with one that
\* is no name, the request is answered 401.
user_name_from_token(w, token) ==
    /\ request[w].step = "idle"
    /\ request' = [request EXCEPT ![w] =
           [Idle EXCEPT !.step = IF token = None THEN "unauthorized" ELSE "asked",
                        !.name = token]]
    /\ UNCHANGED users

\* Mutated form of Matching: names are compared as they are written.
MatchingExactly(name) == {id \in Registered : users[id] = name}

\* lower(users.name) = name.lower()
Matching(name) == {id \in Registered : DatabaseLower[users[id]] = PythonLower[name]}

\* authenticate, up to the end of the SELECT.
get_by_name(w, name) ==
    /\ request[w].step = "asked"
    /\ request[w].name = name
    /\ IF Matching(name) = {}
       THEN request' = [request EXCEPT ![w].step = "unknown", ![w].seen = Registered]
       ELSE \E id \in Matching(name) :
              request' = [request EXCEPT ![w].step = "resolved", ![w].user = id,
                                         ![w].seen = Registered]
    /\ UNCHANGED users

\* Mutated form of NameTaken: there is no unique index.
NeverTaken(name) == FALSE

\* The unique index ux_users_name_nocase on lower(name).
NameTaken(name) == \E id \in Registered : DatabaseLower[users[id]] = DatabaseLower[name]

\* Mutated form of create: a conflict is taken for a success.
CreateIgnoringConflict(w, name) ==
    /\ request[w].step = "unknown"
    /\ request[w].name = name
    /\ \E id \in Ids \ Registered :
         /\ users' = IF NameTaken(name) THEN users ELSE [users EXCEPT ![id] = name]
         /\ request' = [request EXCEPT ![w].step = "resolved", ![w].user = id]

\* Mutated form of create: the answer is the name that was asked for.
CreateAnsweringName(w, name) ==
    /\ request[w].step = "unknown"
    /\ request[w].name = name
    /\ ~NameTaken(name)
    /\ \E id \in Ids \ Registered : users' = [users EXCEPT ![id] = name]
    /\ request' = [request EXCEPT ![w].step = "resolved", ![w].user = name]

\* The INSERT and its commit; an IntegrityError is answered 409.
create(w, name) ==
    /\ request[w].step = "unknown"
    /\ request[w].name = name
    /\ IF NameTaken(name)
       THEN request' = [request EXCEPT ![w].step = "conflict"] /\ UNCHANGED users
       ELSE \E id \in Ids \ Registered :
              /\ users' = [users EXCEPT ![id] = name]
              /\ request' = [request EXCEPT ![w].step = "resolved", ![w].user = id]

\* The handler goes on with the user, or has answered.
Finish(w) ==
    /\ request[w].step \in {"resolved", "conflict", "unauthorized"}
    /\ request' = [request EXCEPT ![w] = Idle]
    /\ UNCHANGED users

\* The process dies before its INSERT, or after it.
Crash(w) ==
    /\ request[w].step \in {"asked", "unknown"}
    /\ request' = [request EXCEPT ![w] = Idle]
    /\ \/ UNCHANGED users
       \/ /\ request[w].step = "unknown"
          /\ ~NameTaken(request[w].name)
          /\ \E id \in Ids \ Registered : users' = [users EXCEPT ![id] = request[w].name]

----------------------------------------------------------------------------

Next ==
    \E w \in Workers :
        \/ \E token \in Names \union {None} : user_name_from_token(w, token)
        \/ \E name \in Names : get_by_name(w, name) \/ create(w, name)
        \/ Finish(w) \/ Crash(w)

Spec == Init /\ [][Next]_vars

\* A process is not killed in the middle of each and every request for a name.
FairSpec ==
    /\ Spec
    /\ \A w \in Workers, name \in Names :
         SF_vars(get_by_name(w, name)) /\ SF_vars(create(w, name))

----------------------------------------------------------------------------
(* Properties.                                                             *)

TypeOK ==
    /\ users \in [Ids -> Names \union {None}]
    /\ request \in [Workers -> Request]

\* Both lower-casings agree, as they do on PostgreSQL for the letters of its
\* locale.
FoldingAgrees == \A name \in Names : PythonLower[name] = DatabaseLower[name]

\* No two users have names that differ by case only, though two processes may
\* both have found the name free ("case-insensitive unique names",
\* SQLAlchemyUsersRepository).
OneUserPerName ==
    \A i, j \in Registered :
        PythonLower[users[i]] = PythonLower[users[j]] => i = j

\* A request is refused with "User name ... already exists" only if the name
\* was registered by another request after this one had looked for it: whoever
\* was registered before is resolved ("Resolve or register users by name",
\* SimpleNameAuthentication).
RefusedOnlyIfRaced ==
    \A w \in Workers : request[w].step = "conflict" =>
        \E id \in Registered \ request[w].seen :
            PythonLower[users[id]] = PythonLower[request[w].name]

\* A user whose requests keep arriving is served again and again: no name stays
\* refused for ever.
Asked(name) == \E w \in Workers : request[w].step = "asked" /\ request[w].name = name

Served(name) == \E w \in Workers : request[w].step = "resolved" /\ request[w].name = name

NameServed == \A name \in Names : ([]<>Asked(name)) => []<>Served(name)

\* The table and the answers implement the directory of users.
IdOf(key) ==
    IF \E id \in Registered : DatabaseLower[users[id]] = key
    THEN CHOOSE id \in Registered : DatabaseLower[users[id]] = key
    ELSE None

AnswerTo(r) ==
    IF r.step \in {"resolved", "conflict"}
    THEN [key |-> PythonLower[r.name], id |-> r.user]
    ELSE [key |-> None, id |-> None]

Directory == INSTANCE UserDirectory WITH
    Clients   <- Workers,
    directory <- [key \in Keys |-> IdOf(key)],
    answer    <- [w \in Workers |-> AnswerTo(request[w])]

ImplementsDirectory == Directory!DirectorySpec

============================================================================
