------------------- MODULE SimpleNameAuthenticationProofs -------------------
(***************************************************************************)
(* Theorems about SimpleNameAuthentication, for any names, users and       *)
(* workers.  Those that depend on it assume that the two lower-casings     *)
(* agree.                                                                  *)
(***************************************************************************)
EXTENDS SimpleNameAuthentication, TLAPS

\* The type invariant: rows and requests have their types.
THEOREM TypeCorrectness == Spec => []TypeOK
<1>1. Init => TypeOK
  BY NoneAssumption DEF Init, TypeOK, Request, Idle, Steps
<1>2. TypeOK /\ [Next]_vars => TypeOK'
  <2> SUFFICES ASSUME TypeOK, [Next]_vars
               PROVE  TypeOK'
    OBVIOUS
  <2> USE DEF TypeOK, Request, Steps
  <2>1. ASSUME NEW w \in Workers, NEW token \in Names \union {None},
               user_name_from_token(w, token)
        PROVE  TypeOK'
    BY <2>1 DEF user_name_from_token, Idle
  <2>2. ASSUME NEW w \in Workers, NEW name \in Names, get_by_name(w, name)
        PROVE  TypeOK'
    <3>1. users' = users /\ Registered \in SUBSET Ids /\ Matching(name) \subseteq Ids
      BY <2>2 DEF get_by_name, Registered, Matching
    <3>2. CASE Matching(name) = {}
      <4>1. request' = [request EXCEPT ![w].step = "unknown", ![w].seen = Registered]
        BY <2>2, <3>2 DEF get_by_name
      <4> QED BY <3>1, <4>1
    <3>3. CASE Matching(name) # {}
      <4>1. PICK id \in Ids :
               request' = [request EXCEPT ![w].step = "resolved", ![w].user = id,
                                          ![w].seen = Registered]
        BY <2>2, <3>1, <3>3 DEF get_by_name
      <4>2. [request[w] EXCEPT !.step = "resolved", !.user = id, !.seen = Registered]
               \in Request
        BY <3>1
      <4>3. request' \in [Workers -> Request]
        BY <4>1, <4>2
      <4> QED BY <3>1, <4>3
    <3> QED BY <3>2, <3>3
  <2>3. ASSUME NEW w \in Workers, NEW name \in Names, create(w, name)
        PROVE  TypeOK'
    BY <2>3 DEF create, Registered
  <2>4. ASSUME NEW w \in Workers, Finish(w)
        PROVE  TypeOK'
    BY <2>4 DEF Finish, Idle
  <2>5. ASSUME NEW w \in Workers, Crash(w)
        PROVE  TypeOK'
    <3>1. request' \in [Workers -> Request]
      BY <2>5 DEF Crash, Idle
    <3>2. users' \in [Ids -> Names \union {None}]
      BY <2>5 DEF Crash, Registered
    <3> QED BY <3>1, <3>2
  <2>6. CASE UNCHANGED vars
    BY <2>6 DEF vars
  <2> QED BY <2>1, <2>2, <2>3, <2>4, <2>5, <2>6 DEF Next
<1> QED BY <1>1, <1>2, PTL DEF Spec

----------------------------------------------------------------------------

\* What the unique index keeps.
UniqueRows ==
    \A i, j \in Registered : DatabaseLower[users[i]] = DatabaseLower[users[j]] => i = j

\* What a request knows at each step: before its INSERT, that none of the users
\* it saw has its name; refused, that one it did not see has; resolved, whose id
\* it holds.
RequestFacts(w) ==
    LET r == request[w] IN
    /\ r.step \in {"asked", "unknown", "resolved", "conflict"} => r.name \in Names
    /\ r.step \in {"asked", "unknown", "conflict"} => r.user = None
    /\ r.step = "unknown" =>
         \A id \in r.seen : /\ users[id] # None
                            /\ DatabaseLower[users[id]] # PythonLower[r.name]
    /\ r.step = "resolved" =>
         /\ r.user \in Ids
         /\ users[r.user] # None
         /\ DatabaseLower[users[r.user]] = PythonLower[r.name]
    /\ r.step = "conflict" =>
         \E id \in Registered \ r.seen : DatabaseLower[users[id]] = PythonLower[r.name]

Inv == TypeOK /\ UniqueRows /\ \A w \in Workers : RequestFacts(w)

\* An INSERT that passed the index: the other rows stay, and names stay unique.
LEMMA InsertStep ==
    ASSUME Inv, NEW name \in Names, NEW id \in Ids \ Registered,
           ~NameTaken(name), users' = [users EXCEPT ![id] = name]
    PROVE  /\ Registered' = Registered \union {id}
           /\ \A i \in Registered : users'[i] = users[i]
           /\ users'[id] = name
           /\ UniqueRows'
<1>1. /\ Registered' = Registered \union {id}
      /\ \A i \in Registered : users'[i] = users[i]
      /\ users'[id] = name
  BY NoneAssumption DEF Inv, TypeOK, Registered
<1>2. UniqueRows'
  BY <1>1 DEF Inv, UniqueRows, NameTaken
<1> QED BY <1>1, <1>2

\* A step that leaves a request alone and deletes no user leaves its facts alone.
LEMMA FactsStay ==
    ASSUME Inv, NEW w \in Workers, request'[w] = request[w],
           \A i \in Registered : users'[i] = users[i]
    PROVE  RequestFacts(w)'
<1>1. Registered \subseteq Registered'
  BY DEF Registered
<1>2. request[w].step = "unknown" =>
          \A id \in request[w].seen : id \in Registered
  BY DEF Inv, RequestFacts, TypeOK, Request, Registered
<1>3. request[w].step = "resolved" => request[w].user \in Registered
  BY DEF Inv, RequestFacts, Registered
<1>4. RequestFacts(w)
  BY DEF Inv
<1> DEFINE r == request[w]
<1>5. r.step = "unknown" =>
         \A id \in r.seen : /\ users'[id] # None
                            /\ DatabaseLower[users'[id]] # PythonLower[r.name]
  BY <1>2, <1>4 DEF RequestFacts
<1>6. r.step = "resolved" =>
         /\ r.user \in Ids
         /\ users'[r.user] # None
         /\ DatabaseLower[users'[r.user]] = PythonLower[r.name]
  BY <1>3, <1>4 DEF RequestFacts
<1>7. r.step = "conflict" =>
         \E id \in Registered' \ r.seen : DatabaseLower[users'[id]] = PythonLower[r.name]
  BY <1>1, <1>4 DEF RequestFacts
<1> QED BY <1>4, <1>5, <1>6, <1>7 DEF RequestFacts

LEMMA InvStep ==
    ASSUME FoldingAgrees, Inv, [Next]_vars, TypeOK'
    PROVE  Inv'
<1>1. ASSUME NEW w \in Workers, NEW token \in Names \union {None},
             user_name_from_token(w, token)
      PROVE  Inv'
  <2>1. UniqueRows'
    BY <1>1 DEF user_name_from_token, Inv, UniqueRows, Registered
  <2>2. ASSUME NEW v \in Workers
        PROVE  RequestFacts(v)'
    <3>1. CASE v = w
      BY <1>1, <3>1, NoneAssumption
      DEF user_name_from_token, Idle, Inv, TypeOK, Request, RequestFacts
    <3>2. CASE v # w
      BY <1>1, <3>2, FactsStay DEF user_name_from_token, Inv, TypeOK
    <3> QED BY <3>1, <3>2
  <2> QED BY <2>1, <2>2 DEF Inv
<1>2. ASSUME NEW w \in Workers, NEW name \in Names, get_by_name(w, name)
      PROVE  Inv'
  <2>1. UniqueRows'
    BY <1>2 DEF get_by_name, Inv, UniqueRows, Registered
  <2>2. ASSUME NEW v \in Workers
        PROVE  RequestFacts(v)'
    <3>1. CASE v = w /\ Matching(name) = {}
      <4>1. /\ users' = users
            /\ request'[w] = [request[w] EXCEPT !.step = "unknown", !.seen = Registered]
        BY <1>2, <3>1 DEF get_by_name, Inv, TypeOK
      <4>2. request[w] \in Request /\ request[w].step = "asked"
        BY <1>2 DEF get_by_name, Inv, TypeOK
      <4>3. request[w].name = name /\ request[w].user = None
        BY <1>2, <4>2 DEF get_by_name, Inv, RequestFacts
      <4>4. \A id \in Registered :
               users[id] # None /\ DatabaseLower[users[id]] # PythonLower[name]
        BY <3>1 DEF Matching, Registered
      <4> QED BY <3>1, <4>1, <4>2, <4>3, <4>4 DEF Request, RequestFacts
    <3>2. CASE v = w /\ Matching(name) # {}
      <4>1. PICK id \in Matching(name) :
               request'[w] = [request[w] EXCEPT !.step = "resolved", !.user = id,
                                                !.seen = Registered]
        BY <1>2, <3>2 DEF get_by_name, Inv, TypeOK
      <4>2. users' = users /\ request[w] \in Request /\ request[w].name = name
        BY <1>2 DEF get_by_name, Inv, TypeOK
      <4>3. /\ id \in Ids
            /\ users[id] # None
            /\ DatabaseLower[users[id]] = PythonLower[name]
        BY DEF Matching, Registered
      <4> QED BY <3>2, <4>1, <4>2, <4>3 DEF Request, RequestFacts
    <3>3. CASE v # w
      BY <1>2, <3>3, FactsStay DEF get_by_name, Inv, TypeOK
    <3> QED BY <3>1, <3>2, <3>3
  <2> QED BY <2>1, <2>2 DEF Inv
<1>3. ASSUME NEW w \in Workers, NEW name \in Names, create(w, name)
      PROVE  Inv'
  <2>1. CASE NameTaken(name)
    <3>1. users' = users /\ request' = [request EXCEPT ![w].step = "conflict"]
      BY <1>3, <2>1 DEF create
    <3>2. UniqueRows'
      BY <3>1 DEF Inv, UniqueRows, Registered
    <3>3. PICK id \in Registered : DatabaseLower[users[id]] = DatabaseLower[name]
      BY <2>1 DEF NameTaken
    <3>4. id \notin request[w].seen
      BY <1>3, <3>3 DEF create, Inv, RequestFacts, FoldingAgrees
    <3>5. RequestFacts(w)'
      <4>1. request[w].name = name /\ request[w].step = "unknown" /\ request[w].user = None
        BY <1>3 DEF create, Inv, RequestFacts
      <4>2. request'[w] = [request[w] EXCEPT !.step = "conflict"] /\ request[w] \in Request
        BY <3>1 DEF Inv, TypeOK
      <4>3. id \in Registered' /\ DatabaseLower[users'[id]] = PythonLower[name]
        BY <3>1, <3>3 DEF FoldingAgrees, Registered
      <4> QED BY <3>4, <4>1, <4>2, <4>3 DEF Request, RequestFacts
    <3>6. ASSUME NEW v \in Workers, v # w
          PROVE  RequestFacts(v)'
      BY <3>1, <3>6, FactsStay DEF Inv, TypeOK
    <3> QED BY <3>2, <3>5, <3>6 DEF Inv
  <2>2. CASE ~NameTaken(name)
    <3>1. PICK id \in Ids \ Registered :
             /\ users' = [users EXCEPT ![id] = name]
             /\ request' = [request EXCEPT ![w].step = "resolved", ![w].user = id]
      BY <1>3, <2>2 DEF create
    <3>2. /\ \A i \in Registered : users'[i] = users[i]
          /\ users'[id] = name
          /\ UniqueRows'
      BY <2>2, <3>1, InsertStep
    <3>3. RequestFacts(w)'
      <4>1. request[w].name = name
        BY <1>3 DEF create
      <4>2. /\ request'[w] = [request[w] EXCEPT !.step = "resolved", !.user = id]
            /\ request[w] \in Request
        BY <3>1 DEF Inv, TypeOK
      <4>3. /\ users'[id] # None
            /\ DatabaseLower[users'[id]] = PythonLower[name]
        BY <3>2, NoneAssumption DEF FoldingAgrees
      <4> QED BY <4>1, <4>2, <4>3 DEF Request, RequestFacts
    <3>4. ASSUME NEW v \in Workers, v # w
          PROVE  RequestFacts(v)'
      BY <3>1, <3>2, <3>4, FactsStay DEF Inv, TypeOK
    <3> QED BY <3>2, <3>3, <3>4 DEF Inv
  <2> QED BY <2>1, <2>2
<1>4. ASSUME NEW w \in Workers, Finish(w)
      PROVE  Inv'
  <2>1. UniqueRows'
    BY <1>4 DEF Finish, Inv, UniqueRows, Registered
  <2>2. RequestFacts(w)'
    BY <1>4 DEF Finish, Idle, Inv, TypeOK, RequestFacts
  <2>3. ASSUME NEW v \in Workers, v # w
        PROVE  RequestFacts(v)'
    BY <1>4, <2>3, FactsStay DEF Finish, Inv, TypeOK
  <2> QED BY <2>1, <2>2, <2>3 DEF Inv
<1>5. ASSUME NEW w \in Workers, Crash(w)
      PROVE  Inv'
  <2>1. UniqueRows' /\ \A i \in Registered : users'[i] = users[i]
    <3>1. CASE UNCHANGED users
      BY <3>1 DEF Inv, UniqueRows, Registered
    <3>2. CASE users' # users
      <4>1. /\ request[w].step = "unknown"
            /\ ~NameTaken(request[w].name)
            /\ \E id \in Ids \ Registered : users' = [users EXCEPT ![id] = request[w].name]
        BY <1>5, <3>2 DEF Crash
      <4>2. request[w].name \in Names
        BY <4>1 DEF Inv, RequestFacts
      <4> QED BY <4>1, <4>2, InsertStep
    <3> QED BY <3>1, <3>2
  <2>2. RequestFacts(w)'
    BY <1>5 DEF Crash, Idle, Inv, TypeOK, RequestFacts
  <2>3. ASSUME NEW v \in Workers, v # w
        PROVE  RequestFacts(v)'
    BY <1>5, <2>1, <2>3, FactsStay DEF Crash, Inv, TypeOK
  <2> QED BY <2>1, <2>2, <2>3 DEF Inv
<1>6. CASE UNCHANGED vars
  <2>1. UniqueRows'
    BY <1>6 DEF vars, Inv, UniqueRows, Registered
  <2>2. \A w \in Workers : RequestFacts(w)'
    BY <1>6, FactsStay DEF vars
  <2> QED BY <2>1, <2>2 DEF Inv
<1> QED BY <1>1, <1>2, <1>3, <1>4, <1>5, <1>6 DEF Next

\* The strengthened invariant.
LEMMA Invariance ==
    ASSUME FoldingAgrees
    PROVE  Spec => []Inv
<1>1. Init => Inv
  <2>1. Init => TypeOK
    BY NoneAssumption DEF Init, TypeOK, Request, Idle, Steps
  <2>2. Init => UniqueRows
    BY DEF Init, UniqueRows, Registered
  <2>3. Init => \A w \in Workers : RequestFacts(w)
    BY DEF Init, Idle, RequestFacts
  <2> QED BY <2>1, <2>2, <2>3 DEF Inv
<1>2. Inv /\ [Next]_vars /\ TypeOK' => Inv'
  BY InvStep
<1> QED BY <1>1, <1>2, TypeCorrectness, PTL DEF Spec

\* Names are unique whatever their case: the index of the database and the case
\* folding of the service mean the same.
THEOREM NamesUnique ==
    ASSUME FoldingAgrees
    PROVE  Spec => []OneUserPerName
<1>1. Inv => OneUserPerName
  BY DEF Inv, TypeOK, UniqueRows, OneUserPerName, FoldingAgrees, Registered
<1> QED BY <1>1, Invariance, PTL

\* A conflict is answered only to the loser of a race.
THEOREM RefusalsAreRaces ==
    ASSUME FoldingAgrees
    PROVE  Spec => []RefusedOnlyIfRaced
<1>1. Inv => RefusedOnlyIfRaced
  BY DEF Inv, TypeOK, RequestFacts, RefusedOnlyIfRaced, FoldingAgrees, Registered
<1> QED BY <1>1, Invariance, PTL

----------------------------------------------------------------------------
(* The refinement.                                                         *)

\* The id of a key is that of the user whose name has it.
LEMMA IdOfRow ==
    ASSUME Inv, NEW id \in Registered
    PROVE  IdOf(DatabaseLower[users[id]]) = id
BY DEF Inv, UniqueRows, IdOf

LEMMA IdOfNone ==
    ASSUME Inv, NEW key
    PROVE  /\ IdOf(key) = None <=> \A id \in Registered : DatabaseLower[users[id]] # key
           /\ IdOf(key) \in Registered \union {None}
BY NoneAssumption DEF IdOf, Registered

\* Every step that leaves the table alone leaves the directory alone.
LEMMA SameTable ==
    ASSUME users' = users, NEW key
    PROVE  IdOf(key)' = IdOf(key)
BY DEF IdOf, Registered

\* The directory with the row an INSERT adds.
LEMMA InsertDirectory ==
    ASSUME FoldingAgrees, Inv, Inv', NEW name \in Names, NEW id \in Ids \ Registered,
           ~NameTaken(name), users' = [users EXCEPT ![id] = name]
    PROVE  /\ IdOf(PythonLower[name]) = None
           /\ id \notin {IdOf(key) : key \in Keys}
           /\ PythonLower[name] \in Keys
           /\ \A key \in Keys : IdOf(key)' = IF key = PythonLower[name] THEN id ELSE IdOf(key)
<1> DEFINE k == PythonLower[name]
<1>1. /\ Registered' = Registered \union {id}
      /\ \A i \in Registered : users'[i] = users[i]
      /\ users'[id] = name
  BY InsertStep
<1>2. k \in Keys /\ DatabaseLower[name] = k
  BY LowerAssumption DEF FoldingAgrees
<1>3. IdOf(k) = None
  BY <1>2, IdOfNone DEF NameTaken
<1>4. id \notin {IdOf(key) : key \in Keys}
  BY IdOfNone, NoneAssumption
<1>5. IdOf(k)' = id
  <2>1. id \in Registered' /\ DatabaseLower[users'[id]] = k
    BY <1>1, <1>2
  <2>2. \A i, j \in Registered' :
           DatabaseLower[users'[i]] = DatabaseLower[users'[j]] => i = j
    BY DEF Inv, UniqueRows
  <2> QED BY <2>1, <2>2 DEF IdOf
<1>6. ASSUME NEW key \in Keys, key # k
      PROVE  IdOf(key)' = IdOf(key)
  <2>1. CASE \E i \in Registered : DatabaseLower[users[i]] = key
    <3>1. PICK i \in Registered : DatabaseLower[users[i]] = key
      BY <2>1
    <3>2. IdOf(key) = i
      BY <3>1, IdOfRow
    <3>3. i \in Registered' /\ DatabaseLower[users'[i]] = key
      BY <1>1, <3>1
    <3>4. \A p, q \in Registered' :
             DatabaseLower[users'[p]] = DatabaseLower[users'[q]] => p = q
      BY DEF Inv, UniqueRows
    <3>5. IdOf(key)' = i
      BY <3>3, <3>4 DEF IdOf
    <3> QED BY <3>2, <3>5
  <2>2. CASE ~\E i \in Registered : DatabaseLower[users[i]] = key
    <3>1. ~\E i \in Registered' : DatabaseLower[users'[i]] = key
      BY <1>1, <1>2, <1>6, <2>2
    <3> QED BY <2>2, <3>1 DEF IdOf
  <2> QED BY <2>1, <2>2
<1> QED BY <1>2, <1>3, <1>4, <1>5, <1>6

\* The mapped variables.
ids == [key \in Keys |-> IdOf(key)]
answers == [w \in Workers |-> AnswerTo(request[w])]

\* A step of one worker changes its answer only.
LEMMA AnswerStep ==
    ASSUME TypeOK, TypeOK', NEW w \in Workers, NEW r \in Request,
           request' = [request EXCEPT ![w] = r]
    PROVE  answers' = [answers EXCEPT ![w] = AnswerTo(r)]
<1>1. \A v \in Workers : request'[v] = IF v = w THEN r ELSE request[v]
  BY DEF TypeOK
<1> QED BY <1>1 DEF answers, AnswerTo

LEMMA SameDirectory ==
    ASSUME users' = users
    PROVE  ids' = ids
BY SameTable DEF ids

\* What each step answers.
LEMMA NoAnswer ==
    ASSUME NEW r \in Request, r.step \notin {"resolved", "conflict"}
    PROVE  AnswerTo(r) = Directory!Waiting
BY DEF AnswerTo, Directory!Waiting, Directory!Answered

LEMMA SomeAnswer ==
    ASSUME NEW r \in Request, r.step \in {"resolved", "conflict"}, r.name \in Names
    PROVE  /\ AnswerTo(r) = Directory!Answered(PythonLower[r.name], r.user)
           /\ AnswerTo(r) # Directory!Waiting
BY LowerAssumption, NoneAssumption DEF AnswerTo, Directory!Waiting, Directory!Answered

\* The step of the directory for each step of the service.
LEMMA RefinementStep ==
    ASSUME FoldingAgrees, Inv, Inv', Next
    PROVE  Directory!DirectoryNext \/ (ids' = ids /\ answers' = answers)
<1> USE DEF ids, answers
<1>0. TypeOK /\ TypeOK' /\ answers \in [Workers -> {AnswerTo(request[w]) : w \in Workers}]
  BY DEF Inv
<1>1. ASSUME NEW w \in Workers, NEW token \in Names \union {None},
             user_name_from_token(w, token)
      PROVE  ids' = ids /\ answers' = answers
  <2> DEFINE r == [Idle EXCEPT !.step = IF token = None THEN "unauthorized" ELSE "asked",
                               !.name = token]
  <2>1. r \in Request /\ r.step \notin {"resolved", "conflict"}
    BY DEF Request, Idle, Steps
  <2>2. request[w] \in Request /\ request[w].step = "idle"
    BY <1>0, <1>1 DEF user_name_from_token, TypeOK
  <2>3. answers' = [answers EXCEPT ![w] = AnswerTo(r)]
    BY <1>0, <1>1, <2>1, AnswerStep DEF user_name_from_token
  <2>4. AnswerTo(r) = AnswerTo(request[w])
    BY <2>1, <2>2, NoAnswer
  <2>5. ids' = ids
    BY <1>1, SameDirectory DEF user_name_from_token
  <2> QED BY <2>3, <2>4, <2>5
<1>2. ASSUME NEW w \in Workers, NEW name \in Names, get_by_name(w, name)
      PROVE  Directory!DirectoryNext \/ (ids' = ids /\ answers' = answers)
  <2>1. /\ request[w] \in Request
        /\ request[w].step = "asked"
        /\ request[w].name = name
        /\ AnswerTo(request[w]) = Directory!Waiting
    BY <1>0, <1>2, NoAnswer DEF get_by_name, TypeOK
  <2>2. ids' = ids
    BY <1>2, SameDirectory DEF get_by_name
  <2>3. CASE Matching(name) = {}
    <3> DEFINE r == [request[w] EXCEPT !.step = "unknown", !.seen = Registered]
    <3>1. r \in Request /\ r.step \notin {"resolved", "conflict"}
      BY <2>1 DEF Request, Steps, Registered
    <3>2. request' = [request EXCEPT ![w] = r]
      BY <1>0, <1>2, <2>3 DEF get_by_name, TypeOK
    <3>3. answers' = [answers EXCEPT ![w] = AnswerTo(r)]
      BY <1>0, <3>1, <3>2, AnswerStep
    <3> QED BY <2>1, <2>2, <3>1, <3>3, NoAnswer
  <2>4. CASE Matching(name) # {}
    <3>1. PICK id \in Matching(name) :
             request' = [request EXCEPT ![w] =
                            [@ EXCEPT !.step = "resolved", !.user = id, !.seen = Registered]]
      BY <1>0, <1>2, <2>4 DEF get_by_name, TypeOK
    <3> DEFINE r == [request[w] EXCEPT !.step = "resolved", !.user = id, !.seen = Registered]
    <3>2. id \in Ids /\ id \in Registered /\ DatabaseLower[users[id]] = PythonLower[name]
      BY DEF Matching, Registered
    <3>3. r \in Request /\ r.step = "resolved" /\ r.name = name /\ r.user = id
      BY <2>1, <3>2 DEF Request, Steps, Registered
    <3>4. answers' = [answers EXCEPT ![w] = Directory!Answered(PythonLower[name], id)]
      <4>1. request' = [request EXCEPT ![w] = r]
        BY <3>1
      <4>2. answers' = [answers EXCEPT ![w] = AnswerTo(r)]
        BY <1>0, <3>3, <4>1, AnswerStep
      <4> QED BY <3>3, <4>2, SomeAnswer
    <3>5. IdOf(PythonLower[name]) = id /\ id # None /\ PythonLower[name] \in Keys
      BY <3>2, IdOfRow, LowerAssumption, NoneAssumption
    <3>6. Directory!Resolve(w, PythonLower[name])
      BY <2>1, <2>2, <3>4, <3>5 DEF Directory!Resolve
    <3> QED BY <3>5, <3>6 DEF Directory!DirectoryNext
  <2> QED BY <2>3, <2>4
<1>3. ASSUME NEW w \in Workers, NEW name \in Names, create(w, name)
      PROVE  Directory!DirectoryNext
  <2>1. /\ request[w] \in Request
        /\ request[w].step = "unknown"
        /\ request[w].name = name
        /\ request[w].user = None
        /\ AnswerTo(request[w]) = Directory!Waiting
    BY <1>0, <1>3, NoAnswer DEF create, TypeOK, Inv, RequestFacts
  <2>2. PythonLower[name] \in Keys /\ PythonLower[name] = DatabaseLower[name]
    BY LowerAssumption DEF FoldingAgrees
  <2>3. CASE NameTaken(name)
    <3> DEFINE r == [request[w] EXCEPT !.step = "conflict"]
    <3>1. r \in Request /\ r.step = "conflict" /\ r.name = name /\ r.user = None
      BY <2>1 DEF Request, Steps
    <3>2. users' = users /\ request' = [request EXCEPT ![w] = r]
      BY <1>0, <1>3, <2>3 DEF create, TypeOK
    <3>3. answers' = [answers EXCEPT ![w] = Directory!Answered(PythonLower[name], None)]
      <4>1. answers' = [answers EXCEPT ![w] = AnswerTo(r)]
        BY <1>0, <3>1, <3>2, AnswerStep
      <4> QED BY <3>1, <4>1, SomeAnswer
    <3>4. IdOf(PythonLower[name]) # None
      BY <2>2, <2>3, IdOfNone DEF NameTaken
    <3>5. Directory!Refuse(w, PythonLower[name])
      BY <2>1, <2>2, <3>2, <3>3, <3>4, SameDirectory DEF Directory!Refuse
    <3> QED BY <2>2, <3>5 DEF Directory!DirectoryNext
  <2>4. CASE ~NameTaken(name)
    <3>1. PICK id \in Ids \ Registered :
             /\ users' = [users EXCEPT ![id] = name]
             /\ request' = [request EXCEPT ![w] =
                               [@ EXCEPT !.step = "resolved", !.user = id]]
      BY <1>0, <1>3, <2>4 DEF create, TypeOK
    <3> DEFINE r == [request[w] EXCEPT !.step = "resolved", !.user = id]
    <3>2. r \in Request /\ r.step = "resolved" /\ r.name = name /\ r.user = id
      BY <2>1 DEF Request, Steps
    <3>3. answers' = [answers EXCEPT ![w] = Directory!Answered(PythonLower[name], id)]
      <4>1. request' = [request EXCEPT ![w] = r]
        BY <3>1
      <4>2. answers' = [answers EXCEPT ![w] = AnswerTo(r)]
        BY <1>0, <3>2, <4>1, AnswerStep
      <4> QED BY <3>2, <4>2, SomeAnswer
    <3>4. /\ IdOf(PythonLower[name]) = None
          /\ id \notin {IdOf(key) : key \in Keys}
          /\ \A key \in Keys : IdOf(key)' = IF key = PythonLower[name] THEN id ELSE IdOf(key)
      BY <2>4, <3>1, InsertDirectory
    <3>5. id \in Ids \ Directory!Given /\ ids' = [ids EXCEPT ![PythonLower[name]] = id]
      BY <3>4 DEF Directory!Given
    <3>6. Directory!Register(w, PythonLower[name])
      BY <2>1, <2>2, <3>3, <3>4, <3>5 DEF Directory!Register
    <3> QED BY <2>2, <3>6 DEF Directory!DirectoryNext
  <2> QED BY <2>3, <2>4
<1>4. ASSUME NEW w \in Workers, Finish(w)
      PROVE  Directory!DirectoryNext \/ (ids' = ids /\ answers' = answers)
  <2>1. Idle \in Request /\ AnswerTo(Idle) = Directory!Waiting
    BY NoAnswer DEF Idle, Request, Steps
  <2>2. ids' = ids /\ answers' = [answers EXCEPT ![w] = Directory!Waiting]
    <3>1. users' = users /\ request' = [request EXCEPT ![w] = Idle]
      BY <1>4 DEF Finish
    <3>2. answers' = [answers EXCEPT ![w] = AnswerTo(Idle)]
      BY <1>0, <2>1, <3>1, AnswerStep
    <3> QED BY <2>1, <3>1, <3>2, SameDirectory
  <2>3. CASE answers[w] = Directory!Waiting
    BY <2>2, <2>3
  <2>4. CASE answers[w] # Directory!Waiting
    BY <2>2, <2>4 DEF Directory!DirectoryNext, Directory!Leave
  <2> QED BY <2>3, <2>4
<1>5. ASSUME NEW w \in Workers, Crash(w)
      PROVE  Directory!DirectoryNext \/ (ids' = ids /\ answers' = answers)
  <2>1. Idle \in Request /\ AnswerTo(Idle) = Directory!Waiting
    BY NoAnswer DEF Idle, Request, Steps
  <2>2. AnswerTo(request[w]) = Directory!Waiting
    BY <1>0, <1>5, NoAnswer DEF Crash, TypeOK
  <2>3. answers' = answers
    <3>1. request' = [request EXCEPT ![w] = Idle]
      BY <1>5 DEF Crash
    <3>2. answers' = [answers EXCEPT ![w] = AnswerTo(Idle)]
      BY <1>0, <2>1, <3>1, AnswerStep
    <3> QED BY <2>1, <2>2, <3>2
  <2>4. CASE users' = users
    BY <2>3, <2>4, SameDirectory
  <2>5. CASE users' # users
    <3> DEFINE name == request[w].name
    <3>1. PICK id \in Ids \ Registered : users' = [users EXCEPT ![id] = name]
      BY <1>5, <2>5 DEF Crash
    <3>2. name \in Names /\ ~NameTaken(name)
      BY <1>5, <2>5 DEF Crash, Inv, RequestFacts
    <3>3. /\ IdOf(PythonLower[name]) = None
          /\ id \notin {IdOf(key) : key \in Keys}
          /\ PythonLower[name] \in Keys
          /\ \A key \in Keys : IdOf(key)' = IF key = PythonLower[name] THEN id ELSE IdOf(key)
      BY <3>1, <3>2, InsertDirectory
    <3>4. id \in Ids \ Directory!Given /\ ids' = [ids EXCEPT ![PythonLower[name]] = id]
      BY <3>3 DEF Directory!Given
    <3>5. Directory!RegisterUnheard(PythonLower[name])
      BY <2>3, <3>3, <3>4 DEF Directory!RegisterUnheard
    <3> QED BY <3>3, <3>5 DEF Directory!DirectoryNext
  <2> QED BY <2>4, <2>5
<1> QED BY <1>1, <1>2, <1>3, <1>4, <1>5 DEF Next

\* Table and requests implement the directory: every answer is the id the name
\* has and keeps, and every refusal is of a registered name.
THEOREM Refinement ==
    ASSUME FoldingAgrees
    PROVE  Spec => ImplementsDirectory
<1>1. Init => Directory!DirectoryInit
  <2> SUFFICES ASSUME Init PROVE Directory!DirectoryInit
    OBVIOUS
  <2>1. \A key \in Keys : IdOf(key) = None
    BY DEF Init, IdOf, Registered
  <2>2. \A w \in Workers : AnswerTo(request[w]) = Directory!Waiting
    BY DEF Init, Idle, AnswerTo, Directory!Waiting, Directory!Answered
  <2> QED BY <2>1, <2>2 DEF Directory!DirectoryInit
<1>2. Inv /\ Inv' /\ [Next]_vars => [Directory!DirectoryNext]_(Directory!directoryVars)
  <2> SUFFICES ASSUME Inv, Inv', [Next]_vars
               PROVE  [Directory!DirectoryNext]_(Directory!directoryVars)
    OBVIOUS
  <2>1. CASE Next
    BY <2>1, RefinementStep DEF Directory!directoryVars, ids, answers
  <2>2. CASE UNCHANGED vars
    <3>1. ids' = ids
      BY <2>2, SameDirectory DEF vars
    <3>2. answers' = answers
      BY <2>2 DEF vars, answers, AnswerTo
    <3> QED BY <3>1, <3>2 DEF Directory!directoryVars, ids, answers
  <2> QED BY <2>1, <2>2
<1> QED BY <1>1, <1>2, Invariance, PTL DEF Spec, ImplementsDirectory, Directory!DirectorySpec

----------------------------------------------------------------------------
(* What the directory means for a client: a name is answered with the same *)
(* id whenever, and by whichever process, it is resolved.                  *)

ResolvedById ==
    \A w \in Workers :
        request[w].step = "resolved" => IdOf(PythonLower[request[w].name]) = request[w].user

NameKeepsId == \A key \in Keys : IdOf(key) # None => IdOf(key)' = IdOf(key)

LEMMA KeepsId ==
    ASSUME FoldingAgrees, Inv, Inv', [Next]_vars
    PROVE  NameKeepsId
<1>1. CASE users' = users
  BY <1>1, SameTable DEF NameKeepsId
<1>2. CASE users' # users
  <2>1. PICK w \in Workers :
            (\E name \in Names : create(w, name)) \/ Crash(w)
    BY <1>2 DEF Next, vars, user_name_from_token, get_by_name, Finish
  <2>2. PICK name \in Names, id \in Ids \ Registered :
            ~NameTaken(name) /\ users' = [users EXCEPT ![id] = name]
    BY <1>2, <2>1 DEF create, Crash, Inv, RequestFacts
  <2> QED
    BY <2>2, InsertDirectory DEF NameKeepsId
<1> QED BY <1>1, <1>2

\* Every answer of the authentication is the id of the one user that has the
\* name, and that id is the name's for good: two requests with one name act for
\* one user (SimpleNameAuthentication.authenticate).
THEOREM SameUserEveryTime ==
    ASSUME FoldingAgrees
    PROVE  Spec => []ResolvedById /\ [][NameKeepsId]_vars
<1>1. Inv => ResolvedById
  <2> SUFFICES ASSUME Inv, NEW w \in Workers, request[w].step = "resolved"
               PROVE  IdOf(PythonLower[request[w].name]) = request[w].user
    BY DEF ResolvedById
  <2>1. /\ request[w].user \in Registered
        /\ DatabaseLower[users[request[w].user]] = PythonLower[request[w].name]
    BY DEF Inv, RequestFacts, Registered
  <2> QED
    BY <2>1, IdOfRow
<1>2. Inv /\ Inv' /\ [Next]_vars => [NameKeepsId]_vars
  BY KeepsId
<1> QED BY <1>1, <1>2, Invariance, PTL DEF Spec

----------------------------------------------------------------------------
(* Any two lower-casings.  What holds of them too, because the index is    *)
(* the database's own: a refused name is taken, and who is answered has    *)
(* the name that was asked for, by one comparison or as it is written.     *)

IndexFacts(w) ==
    LET r == request[w] IN
    /\ r.step = "conflict" =>
         \E id \in Registered : DatabaseLower[users[id]] = DatabaseLower[r.name]
    /\ r.step = "resolved" =>
         /\ r.user \in Registered
         /\ \/ users[r.user] = r.name
            \/ DatabaseLower[users[r.user]] = PythonLower[r.name]

IndexInv == UniqueRows /\ \A w \in Workers : IndexFacts(w)

\* Rows are added under new ids only, and only past the index.
LEMMA RowsStay ==
    ASSUME TypeOK, UniqueRows, [Next]_vars
    PROVE  /\ \A id \in Registered : id \in Registered' /\ users'[id] = users[id]
           /\ UniqueRows'
<1>1. CASE users' = users
  BY <1>1 DEF UniqueRows, Registered
<1>2. CASE users' # users
  <2>1. PICK w \in Workers : (\E name \in Names : create(w, name)) \/ Crash(w)
    BY <1>2 DEF Next, vars, user_name_from_token, get_by_name, Finish
  <2>2. PICK name \in Names \union {None}, id \in Ids \ Registered :
            ~NameTaken(name) /\ users' = [users EXCEPT ![id] = name]
    <3>1. request[w].name \in Names \union {None}
      BY DEF TypeOK, Request
    <3> QED BY <1>2, <2>1, <3>1 DEF create, Crash
  <2>3. /\ \A i \in Registered : i # id /\ users'[i] = users[i]
        /\ users'[id] = name
        /\ \A i \in Registered' : i \in Registered \/ i = id
    BY <2>2 DEF TypeOK, Registered
  <2>4. \A i \in Registered : i \in Registered'
    BY <2>3 DEF Registered
  <2>5. UniqueRows'
    BY <2>2, <2>3 DEF UniqueRows, NameTaken
  <2> QED BY <2>3, <2>4, <2>5
<1> QED BY <1>1, <1>2

LEMMA IndexStep ==
    ASSUME TypeOK, TypeOK', IndexInv, [Next]_vars
    PROVE  IndexInv'
<1>1. /\ \A id \in Registered : id \in Registered' /\ users'[id] = users[id]
      /\ UniqueRows'
  BY RowsStay DEF IndexInv
<1>2. ASSUME NEW v \in Workers, request'[v] = request[v] PROVE IndexFacts(v)'
  BY <1>1, <1>2 DEF IndexInv, IndexFacts
<1>3. ASSUME NEW w \in Workers, request'[w].step \notin {"conflict", "resolved"},
             \A v \in Workers : v # w => request'[v] = request[v]
      PROVE  IndexInv'
  BY <1>1, <1>2, <1>3 DEF IndexInv, IndexFacts
<1>4. ASSUME NEW w \in Workers, NEW name \in Names, get_by_name(w, name)
      PROVE  IndexInv'
  <2>1. /\ users' = users
        /\ \A v \in Workers : v # w => request'[v] = request[v]
    BY <1>4 DEF get_by_name, TypeOK
  <2>2. CASE Matching(name) = {}
    <3>1. request' = [request EXCEPT ![w].step = "unknown", ![w].seen = Registered]
      BY <1>4, <2>2 DEF get_by_name
    <3>2. request'[w].step = "unknown"
      BY <3>1 DEF TypeOK, Request
    <3> QED BY <1>3, <2>1, <3>2
  <2>3. CASE Matching(name) # {}
    <3>1. PICK id \in Matching(name) :
              request' = [request EXCEPT ![w].step = "resolved", ![w].user = id,
                                         ![w].seen = Registered]
      BY <1>4, <2>3 DEF get_by_name
    <3>2. request'[w].user = id /\ request'[w].step = "resolved" /\ request'[w].name = name
      BY <1>4, <3>1 DEF get_by_name, TypeOK, Request
    <3>3. IndexFacts(w)'
      BY <2>1, <3>1, <3>2, <1>1 DEF IndexFacts, Matching
    <3> QED BY <1>1, <1>2, <2>1, <3>3 DEF IndexInv
  <2> QED BY <2>2, <2>3
<1>5. ASSUME NEW w \in Workers, NEW name \in Names, create(w, name)
      PROVE  IndexInv'
  <2>1. \A v \in Workers : v # w => request'[v] = request[v]
    BY <1>5 DEF create, TypeOK
  <2>2. CASE NameTaken(name)
    <3>1. /\ users' = users
          /\ request'[w].step = "conflict" /\ request'[w].name = name
      BY <1>5, <2>2 DEF create, TypeOK, Request
    <3>2. IndexFacts(w)'
      BY <1>1, <2>2, <3>1 DEF IndexFacts, NameTaken
    <3> QED BY <1>1, <1>2, <2>1, <3>2 DEF IndexInv
  <2>3. CASE ~NameTaken(name)
    <3>1. PICK id \in Ids \ Registered :
              /\ users' = [users EXCEPT ![id] = name]
              /\ request' = [request EXCEPT ![w].step = "resolved", ![w].user = id]
      BY <1>5, <2>3 DEF create
    <3>2. request'[w].user = id /\ request'[w].step = "resolved" /\ request'[w].name = name
      <4>1. request[w].name = name
        BY <1>5 DEF create
      <4> QED BY <3>1, <4>1 DEF TypeOK, Request
    <3>3. users'[id] = name /\ id \in Registered'
      BY <3>1, NoneAssumption DEF TypeOK, Registered
    <3>4. IndexFacts(w)'
      BY <3>2, <3>3 DEF IndexFacts
    <3> QED BY <1>1, <1>2, <2>1, <3>4 DEF IndexInv
  <2> QED BY <2>2, <2>3
<1>6. CASE \E w \in Workers :
              \/ \E token \in Names \union {None} : user_name_from_token(w, token)
              \/ Finish(w) \/ Crash(w)
  <2>1. PICK w \in Workers :
            \/ \E token \in Names \union {None} : user_name_from_token(w, token)
            \/ Finish(w) \/ Crash(w)
    BY <1>6
  <2>2. /\ request'[w].step \notin {"conflict", "resolved"}
        /\ \A v \in Workers : v # w => request'[v] = request[v]
    <3>1. PICK r : /\ request' = [request EXCEPT ![w] = r]
                   /\ r.step \notin {"conflict", "resolved"}
      <4>1. Idle.step = "idle"
        BY DEF Idle
      <4>2. CASE Finish(w) \/ Crash(w)
        BY <4>1, <4>2 DEF Finish, Crash
      <4>3. ASSUME NEW token \in Names \union {None}, user_name_from_token(w, token)
            PROVE  \E r : /\ request' = [request EXCEPT ![w] = r]
                          /\ r.step \notin {"conflict", "resolved"}
        <5> DEFINE r == [Idle EXCEPT !.step = IF token = None THEN "unauthorized" ELSE "asked",
                                     !.name = token]
        <5>1. request' = [request EXCEPT ![w] = r]
          BY <4>3 DEF user_name_from_token
        <5>2. r.step \notin {"conflict", "resolved"}
          BY DEF Idle
        <5> HIDE DEF r
        <5> QED BY <5>1, <5>2
      <4> QED BY <2>1, <4>2, <4>3
    <3> QED BY <3>1 DEF TypeOK
  <2> QED BY <1>3, <2>2
<1>7. CASE UNCHANGED vars
  BY <1>1, <1>2, <1>7 DEF vars, IndexInv
<1> QED BY <1>4, <1>5, <1>6, <1>7 DEF Next

\* Whatever the database takes for the same letters: its index keeps its names
\* apart, refuses only a name it holds, and whoever is answered acts for a user
\* of that name (authenticate; ux_users_name_nocase).
THEOREM OnAnyDatabase == Spec => []IndexInv
<1>1. Init => IndexInv
  BY DEF Init, IndexInv, UniqueRows, Registered, IndexFacts, Idle
<1>2. TypeOK /\ TypeOK' /\ IndexInv /\ [Next]_vars => IndexInv'
  BY IndexStep
<1> QED BY <1>1, <1>2, TypeCorrectness, PTL DEF Spec

============================================================================
