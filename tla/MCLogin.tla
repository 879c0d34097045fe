------------------------------ MODULE MCLogin ------------------------------
(* Small instances of Login for TLC. *)
EXTENDS Login

AllFlows == {"password", "access", "anonymous"}

\* Every chain of two handlers, and two of three.
SmallChains == [1..2 -> HandlerKinds]
                 \cup {<<"device", "secret", "user">>, <<"user", "device", "secret">>}

\* Every list of up to two allowed confirmations.
SmallOffers == {<<>>} \cup [1..1 -> GuardTypes] \cup [1..2 -> GuardTypes]

Everywhere == {"get_key", "begin", "select", "submit", "tokens", "store",
               "logon", "web_token"}
=============================================================================
