--------------------------- MODULE GuardDataStore ---------------------------
(***************************************************************************)
(* auth/guard_data.rs: FileGuardDataStore, several stores over one file,   *)
(* as when several logins use user_cache().                                *)
(*                                                                         *)
(* store() reads the whole file, then std::fs::write truncates it and      *)
(* writes it anew: three system calls, between which another store may     *)
(* run, the write may fail, or the process may die.                        *)
(***************************************************************************)
EXTENDS Naturals

CONSTANTS
    Stores, Accounts, Tokens,
    MayFail,   \* may a write fail, or the process die before it?
    MaxCalls   \* bound on the number of calls of store()

ASSUME StoreAssumption == MayFail \in BOOLEAN /\ MaxCalls \in Nat

Maps == UNION {[A -> Tokens] : A \in SUBSET Accounts}
NoTokens == [a \in {} |-> a]

VARIABLES
    file,     \* [state: "absent", "map", "empty" or "garbled", tokens: a map]
    pc,       \* where each store is: "idle", "save" or "write"
    entry,    \* the account and token each store is storing
    tokens,   \* the map each store saves
    calls,    \* calls of store() so far
    latest,   \* the token last stored for each account by a call that returned Ok
    given,    \* the tokens ever passed to store() for each account
    crossed   \* has a call overlapped another, or failed?
vars == <<file, pc, entry, tokens, calls, latest, given, crossed>>

Init ==
    /\ file = [state |-> "absent", tokens |-> NoTokens]
    /\ pc = [s \in Stores |-> "idle"] /\ tokens = [s \in Stores |-> NoTokens]
    /\ entry \in [Stores -> Accounts \X Tokens] /\ calls = 0
    /\ latest = NoTokens /\ given = [a \in Accounts |-> {}] /\ crossed = FALSE

Put(map, a, t) == [b \in DOMAIN map \cup {a} |-> IF b = a THEN t ELSE map[b]]
Busy == {s \in Stores : pc[s] # "idle"}
Goto(s, where) == pc' = [pc EXCEPT ![s] = where]

\* store() with a token, and all_tokens: no file is an empty map; a file that
\* does not parse is an error, and nothing is written.
StoreAlone(s, a, t) ==                       \* for a mutant: file not read
    /\ pc[s] = "idle" /\ calls < MaxCalls /\ calls' = calls + 1
    /\ entry' = [entry EXCEPT ![s] = <<a, t>>]
    /\ given' = [given EXCEPT ![a] = @ \cup {t}]
    /\ crossed' = (crossed \/ Busy # {})
    /\ Goto(s, "save") /\ tokens' = [tokens EXCEPT ![s] = Put(NoTokens, a, t)]
    /\ UNCHANGED <<file, latest>>
Store(s, a, t) ==
    /\ pc[s] = "idle" /\ calls < MaxCalls /\ calls' = calls + 1
    /\ entry' = [entry EXCEPT ![s] = <<a, t>>]
    /\ given' = [given EXCEPT ![a] = @ \cup {t}]
    /\ crossed' = (crossed \/ Busy # {})
    /\ IF file.state \in {"absent", "map"}
       THEN Goto(s, "save") /\ tokens' = [tokens EXCEPT ![s] = Put(file.tokens, a, t)]
       ELSE UNCHANGED <<pc, tokens>>
    /\ UNCHANGED <<file, latest>>

\* write() opens the file, which creates or truncates it.
TruncateKeep(s) ==                           \* for a mutant: the rest stays
    /\ pc[s] = "save" /\ Goto(s, "write")
    /\ file' = [state |-> "empty", tokens |-> file.tokens]
    /\ UNCHANGED <<entry, tokens, calls, latest, given, crossed>>
Truncate(s) ==
    /\ pc[s] = "save" /\ Goto(s, "write")
    /\ file' = [state |-> "empty", tokens |-> NoTokens]
    /\ UNCHANGED <<entry, tokens, calls, latest, given, crossed>>

\* What another store wrote since this one truncated the file is overwritten
\* from its start; a longer text sticks out.
WriteMixed(s) ==                             \* for a mutant: another's account
    /\ pc[s] = "write" /\ Goto(s, "idle")
    /\ \E a \in Accounts :
         file' = [state |-> "map", tokens |-> Put(tokens[s], a, entry[s][2])]
    /\ latest' = Put(latest, entry[s][1], entry[s][2])
    /\ UNCHANGED <<entry, tokens, calls, given, crossed>>
Write(s) ==
    /\ pc[s] = "write" /\ Goto(s, "idle")
    /\ \/ file' = [state |-> "map", tokens |-> tokens[s]]
       \/ /\ file.state \in {"map", "garbled"} /\ file.tokens # tokens[s]
          /\ file' = [state |-> "garbled", tokens |-> NoTokens]
    /\ latest' = Put(latest, entry[s][1], entry[s][2])
    /\ UNCHANGED <<entry, tokens, calls, given, crossed>>

\* An error of create_dir_all or write, or the end of the process: before the
\* file was truncated, after that, or in the middle of the write.
Fail(s) ==
    /\ MayFail /\ pc[s] # "idle" /\ Goto(s, "idle") /\ crossed' = TRUE
    /\ \/ UNCHANGED file
       \/ pc[s] = "write" /\ file' = [state |-> "garbled", tokens |-> NoTokens]
    /\ UNCHANGED <<entry, tokens, calls, latest, given>>

Next == \E s \in Stores :
    \/ \E a \in Accounts, t \in Tokens : Store(s, a, t)
    \/ Truncate(s)
    \/ Write(s)
    \/ Fail(s)

Spec == Init /\ [][Next]_vars

\* load(): an error, or the token of an account, if any.
Load(a) ==
    CASE file.state \in {"empty", "garbled"} -> {"error"}
      [] a \in DOMAIN file.tokens -> {file.tokens[a]}
      [] OTHER -> {}

-----------------------------------------------------------------------------
(* Properties. *)

\* Every variable has its type.
TypeOK ==
    /\ file \in [state: {"absent", "map", "empty", "garbled"}, tokens: Maps]
    /\ file.state # "map" => file.tokens = NoTokens
    /\ pc \in [Stores -> {"idle", "save", "write"}]
    /\ entry \in [Stores -> Accounts \X Tokens]
    /\ tokens \in [Stores -> Maps]
    /\ calls \in 0..MaxCalls /\ crossed \in BOOLEAN
    /\ latest \in Maps /\ given \in [Accounts -> SUBSET Tokens]

\* Between calls, the token last stored for any account is the one load()
\* returns (guard_data.rs lines 93-110).
Stored == Busy = {} => \A a \in DOMAIN latest : Load(a) = {latest[a]}

\* So it is as long as no call overlapped another and none failed, whichever
\* store is asked and whoever else stored in between.
Retrievable == ~crossed => Stored

\* Whatever stores, failures and ends of the process cross, load() gives an
\* error, nothing, or a token that was once stored for that very account.
NothingInvented ==
    \A a \in Accounts : Load(a) \subseteq given[a] \cup {"error"}
=============================================================================
