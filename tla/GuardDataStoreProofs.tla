------------------------ MODULE GuardDataStoreProofs ------------------------
(***************************************************************************)
(* What holds of GuardDataStore for every set of stores, accounts and      *)
(* tokens, with or without failures: the types, that load() never returns  *)
(* a token that was not once stored for that account, and that it returns  *)
(* the last one as long as calls neither overlap nor fail.                 *)
(***************************************************************************)
EXTENDS GuardDataStore, TLAPS

\* Every token of a map was passed to store() for its account.
AllGiven(map) == \A a \in DOMAIN map : map[a] \in given[a]

\* The file and the maps about to be saved hold only such tokens.  A map a
\* store is about to save is in no file yet, so NothingInvented alone is not
\* inductive.
IInv ==
    /\ TypeOK
    /\ AllGiven(file.tokens)
    /\ \A s \in Stores : AllGiven(tokens[s])

\* The empty map is a map.
LEMMA EmptyMap == NoTokens \in Maps /\ DOMAIN NoTokens = {}
  <1>1. NoTokens \in [{} -> Tokens] /\ {} \in SUBSET Accounts  BY DEF NoTokens
  <1>2. DOMAIN NoTokens = {}  BY DEF NoTokens
  <1> QED  BY <1>1, <1>2 DEF Maps

\* A map's domain is a set of accounts and its values are tokens.
LEMMA MapParts ==
    ASSUME NEW map \in Maps
    PROVE  DOMAIN map \subseteq Accounts /\ \A a \in DOMAIN map : map[a] \in Tokens
  BY DEF Maps

\* HashMap::insert gives a map again.
LEMMA PutMap ==
    ASSUME NEW map \in Maps, NEW a \in Accounts, NEW t \in Tokens
    PROVE  /\ Put(map, a, t) \in Maps
           /\ DOMAIN Put(map, a, t) = DOMAIN map \cup {a}
           /\ \A b \in DOMAIN map \cup {a} :
                Put(map, a, t)[b] = IF b = a THEN t ELSE map[b]
  <1> DEFINE D == DOMAIN map \cup {a}
  <1>1. D \in SUBSET Accounts  BY MapParts
  <1>2. Put(map, a, t) \in [D -> Tokens]  BY MapParts DEF Put
  <1>3. QED  BY <1>1, <1>2 DEF Maps, Put

\* An insertion keeps every value in the set allowed for its account.
LEMMA PutGiven ==
    ASSUME NEW map, NEW a, NEW t, NEW allowed, t \in allowed[a],
           \A b \in DOMAIN map : map[b] \in allowed[b]
    PROVE  \A b \in DOMAIN Put(map, a, t) : Put(map, a, t)[b] \in allowed[b]
  BY DEF Put

\* No file, and nothing to save.
LEMMA InitIInv == Init => IInv
  <1> SUFFICES ASSUME Init PROVE IInv  OBVIOUS
  <1>c. crossed \in BOOLEAN  BY Zenon DEF Init
  <1>1. TypeOK  BY <1>c, EmptyMap, StoreAssumption DEF Init, TypeOK
  <1>2. AllGiven(file.tokens)
    <2>1. file.tokens = NoTokens  BY DEF Init
    <2>2. QED  BY <2>1, EmptyMap DEF AllGiven
  <1>3. ASSUME NEW s \in Stores PROVE AllGiven(tokens[s])
    <2>1. tokens[s] = NoTokens  BY DEF Init
    <2>2. QED  BY <2>1, EmptyMap DEF AllGiven
  <1>4. QED  BY <1>1, <1>2, <1>3 DEF IInv

\* Every step of a store keeps the invariant.
LEMMA NextIInv == IInv /\ [Next]_vars => IInv'
  <1> SUFFICES ASSUME IInv, [Next]_vars PROVE IInv'  OBVIOUS
  <1> USE DEF IInv, AllGiven
  <1>1. ASSUME NEW s \in Stores, NEW a \in Accounts, NEW t \in Tokens, Store(s, a, t)
        PROVE  IInv'
    <2>1. given' \in [Accounts -> SUBSET Tokens] /\ t \in given'[a]
          /\ \A b \in Accounts : given[b] \subseteq given'[b]
      BY <1>1 DEF Store, TypeOK
    <2>2. Put(file.tokens, a, t) \in Maps  BY PutMap DEF TypeOK
    <2>3. tokens' \in [Stores -> Maps] /\ pc' \in [Stores -> {"idle", "save", "write"}]
      <3>1. CASE Goto(s, "save") /\ tokens' = [tokens EXCEPT ![s] = Put(file.tokens, a, t)]
        BY <2>2, <3>1 DEF TypeOK, Goto
      <3>2. CASE UNCHANGED <<pc, tokens>>  BY <3>2 DEF TypeOK
      <3>3. QED  BY <1>1, <3>1, <3>2 DEF Store
    <2>4. calls' \in 0..MaxCalls  BY <1>1, StoreAssumption DEF Store, TypeOK
    <2>c. crossed' \in BOOLEAN  BY <1>1, Zenon DEF Store
    <2>5. TypeOK'  BY <1>1, <2>1, <2>3, <2>4, <2>c DEF Store, TypeOK
    <2>6. ASSUME NEW map \in Maps, AllGiven(map)
          PROVE  \A b \in DOMAIN map : map[b] \in given'[b]
      BY <2>1, <2>6, MapParts
    <2>7. \A b \in DOMAIN Put(file.tokens, a, t) : Put(file.tokens, a, t)[b] \in given'[b]
      <3>1. file.tokens \in Maps  BY DEF TypeOK
      <3>2. \A b \in DOMAIN file.tokens : file.tokens[b] \in given'[b]  BY <2>6, <3>1
      <3>3. QED  BY <2>1, <3>2, PutGiven
    <2>8. AllGiven(file.tokens)'  BY <1>1, <2>6 DEF Store, TypeOK
    <2>9. ASSUME NEW r \in Stores PROVE AllGiven(tokens[r])'
      <3>1. CASE tokens'[r] = tokens[r]  BY <2>6, <3>1 DEF TypeOK
      <3>2. CASE tokens'[r] = Put(file.tokens, a, t)  BY <2>7, <3>2
      <3>3. QED  BY <1>1, <3>1, <3>2 DEF Store, TypeOK
    <2>10. QED  BY <2>5, <2>8, <2>9
  <1>2. ASSUME NEW s \in Stores, Truncate(s) PROVE IInv'
    BY <1>2, EmptyMap DEF Truncate, Goto, TypeOK
  <1>3. ASSUME NEW s \in Stores, Write(s) PROVE IInv'
    <2>1. entry[s][1] \in Accounts /\ entry[s][2] \in Tokens  BY DEF TypeOK
    <2>2. latest' \in Maps
      <3>0. latest \in Maps  BY DEF TypeOK
      <3>1. Put(latest, entry[s][1], entry[s][2]) \in Maps
        <4> DEFINE a == entry[s][1]
                   t == entry[s][2]
        <4>1. a \in Accounts /\ t \in Tokens  BY <2>1
        <4> HIDE DEF a, t
        <4>2. Put(latest, a, t) \in Maps  BY <3>0, <4>1, PutMap
        <4>3. QED  BY <4>2 DEF a, t
      <3>2. QED  BY <1>3, <3>1 DEF Write
    <2>3. /\ file' \in [state: {"absent", "map", "empty", "garbled"}, tokens: Maps]
          /\ file'.state # "map" => file'.tokens = NoTokens
          /\ AllGiven(file'.tokens)
      BY <1>3, EmptyMap DEF Write, TypeOK
    <2>4. TypeOK'  BY <1>3, <2>2, <2>3 DEF Write, Goto, TypeOK
    <2>5. QED  BY <1>3, <2>3, <2>4 DEF Write
  <1>4. ASSUME NEW s \in Stores, Fail(s) PROVE IInv'
    <2>1. /\ file' \in [state: {"absent", "map", "empty", "garbled"}, tokens: Maps]
          /\ file'.state # "map" => file'.tokens = NoTokens
          /\ AllGiven(file'.tokens)
      BY <1>4, EmptyMap DEF Fail, TypeOK
    <2>2. QED  BY <1>4, <2>1 DEF Fail, Goto, TypeOK
  <1>5. CASE UNCHANGED vars  BY <1>5 DEF vars, TypeOK
  <1>6. QED  BY <1>1, <1>2, <1>3, <1>4, <1>5 DEF Next

\* The strengthened invariant holds of every reachable state.
THEOREM Inductive == Spec => []IInv
  BY InitIInv, NextIInv, PTL DEF Spec

\* Every variable keeps its type.
THEOREM TypeCorrect == Spec => []TypeOK
  <1>1. IInv => TypeOK  BY DEF IInv
  <1>2. QED  BY <1>1, Inductive, PTL

\* Whatever stores, failures and ends of the process cross, load() gives an
\* error, nothing, or a token once stored for that very account.
THEOREM NothingInventedHolds == Spec => []NothingInvented
  <1>1. IInv => NothingInvented
    BY DEF IInv, AllGiven, TypeOK, NothingInvented, Load
  <1>2. QED  BY <1>1, Inductive, PTL
-----------------------------------------------------------------------------
(* Calls that do not overlap and do not fail. *)

\* The file is what was stored, or one store is about to make it so: before it
\* truncates the file, and after.
Settled == file.state \in {"absent", "map"} /\ file.tokens = latest
Due(s) == tokens[s] = Put(latest, entry[s][1], entry[s][2])
OneAtATime ==
    /\ Busy = {} => Settled
    /\ \A s \in Busy : /\ Busy = {s} /\ Due(s)
                       /\ pc[s] = "save" => Settled
                       /\ pc[s] = "write" => file.state = "empty"
InTurn == ~crossed => OneAtATime

\* Nothing was stored, and there is no file.
LEMMA InitInTurn == Init => InTurn
  BY DEF Init, InTurn, OneAtATime, Busy, Settled

\* Every step keeps it.  A step that leaves crossed FALSE has no other call
\* under way and does not fail.
LEMMA NextInTurn == IInv /\ InTurn /\ [Next]_vars => InTurn'
  <1> SUFFICES ASSUME IInv, InTurn, [Next]_vars, ~crossed' PROVE OneAtATime'
    BY DEF InTurn
  <1> USE DEF IInv, InTurn
  <1>1. ASSUME NEW s \in Stores, NEW a \in Accounts, NEW t \in Tokens, Store(s, a, t)
        PROVE  OneAtATime'
    <2>1. ~crossed /\ Busy = {} /\ Settled  BY <1>1 DEF Store, OneAtATime
    <2>2. entry' = [entry EXCEPT ![s] = <<a, t>>] /\ entry'[s] = <<a, t>>
      BY <1>1 DEF Store, TypeOK
    <2>3. pc' = [pc EXCEPT ![s] = "save"] /\ tokens'[s] = Put(file.tokens, a, t)
      BY <1>1, <2>1 DEF Store, Settled, TypeOK, Goto
    <2>4. Busy' = {s} /\ pc'[s] = "save"  BY <2>1, <2>3 DEF Busy, TypeOK
    <2>5. UNCHANGED <<file, latest>>  BY <1>1 DEF Store
    <2>6. Due(s)'  BY <2>1, <2>2, <2>3, <2>5 DEF Due, Settled
    <2>7. QED  BY <2>1, <2>4, <2>5, <2>6 DEF OneAtATime, Settled
  <1>2. ASSUME NEW s \in Stores, Truncate(s) PROVE OneAtATime'
    <2>1. ~crossed /\ s \in Busy  BY <1>2 DEF Truncate, Busy
    <2>2. Busy = {s} /\ Due(s)  BY <2>1 DEF OneAtATime
    <2>3. Busy' = {s} /\ pc'[s] = "write"  BY <1>2, <2>2 DEF Truncate, Goto, Busy, TypeOK
    <2>4. Due(s)' /\ file'.state = "empty"  BY <1>2, <2>2 DEF Truncate, Due
    <2>5. QED  BY <2>3, <2>4 DEF OneAtATime
  <1>3. ASSUME NEW s \in Stores, Write(s) PROVE OneAtATime'
    <2>1. ~crossed /\ s \in Busy /\ pc[s] = "write"  BY <1>3 DEF Write, Busy
    <2>2. Busy = {s} /\ Due(s) /\ file.state = "empty"  BY <2>1 DEF OneAtATime
    <2>3. file' = [state |-> "map", tokens |-> tokens[s]]  BY <1>3, <2>2 DEF Write
    <2>4. latest' = tokens[s]  BY <1>3, <2>2 DEF Write, Due
    <2>5. Busy' = {}  BY <1>3, <2>2 DEF Write, Goto, Busy, TypeOK
    <2>6. QED  BY <2>3, <2>4, <2>5 DEF OneAtATime, Settled
  <1>4. ASSUME NEW s \in Stores, Fail(s) PROVE OneAtATime'
    BY <1>4 DEF Fail
  <1>5. CASE UNCHANGED vars
    BY <1>5 DEF vars, OneAtATime, Busy, Settled, Due
  <1>6. QED  BY <1>1, <1>2, <1>3, <1>4, <1>5 DEF Next

\* As long as no call overlapped another and none failed, load() returns the
\* token last stored for the account, whichever store stored it.
THEOREM RetrievableHolds == Spec => []Retrievable
  <1>1. IInv /\ InTurn => Retrievable
    <2> SUFFICES ASSUME TypeOK, InTurn, ~crossed, Busy = {}, NEW a \in DOMAIN latest
                 PROVE  Load(a) = {latest[a]}
      BY DEF IInv, Retrievable, Stored
    <2>1. Settled  BY DEF InTurn, OneAtATime
    <2>2. QED  BY <2>1 DEF Settled, Load
  <1>2. Spec => []InTurn
    <2>1. IInv /\ IInv' /\ InTurn /\ [Next]_vars => InTurn'  BY NextInTurn
    <2>2. QED  BY <2>1, InitInTurn, Inductive, PTL DEF Spec
  <1>3. QED  BY <1>1, <1>2, Inductive, PTL
=============================================================================
