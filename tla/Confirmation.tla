---------------------------- MODULE Confirmation ----------------------------
(***************************************************************************)
(* auth/confirmation.rs: what a handler makes of the confirmations the     *)
(* server allows, and how EitherConfirmationHandler races two handlers.    *)
(*                                                                         *)
(* Handlers are combined with or(), which nests to the left: a chain       *)
(* h1.or(h2).or(h3) is the sequence <<h1, h2, h3>>, and its node i is      *)
(* EitherConfirmationHandler(node i - 1, handler i).                       *)
(***************************************************************************)
EXTENDS Integers, Sequences, SequencesExt

GuardTypes == {"unknown", "none", "email_code", "device_code",
               "device_confirmation", "email_confirmation", "machine_token",
               "legacy_machine_auth"}

HandlerKinds == {"user", "secret", "device"}

\* Option<ConfirmationAction>: None, Some(None), Some(Abort) and
\* Some(GuardToken(_, type)), which is written as its type.
Outcomes == {"unsupported", "nothing", "abort", "email", "device"}

TokenType(g) ==
    CASE g = "email_code" -> "email"
      [] g = "device_code" -> "device"
      [] OTHER -> "no_token"

\* ConfirmationMethod::class is Confirmation
IsConfirmation(g) == g \in {"device_confirmation", "email_confirmation"}

\* StartedAuth::action_required
ActionRequired(methods) == \E i \in DOMAIN methods : methods[i] # "none"

\* Both handlers of codes take the first method that asks for one.
FirstToken(methods) ==
    LET first == SelectInSeq(methods, LAMBDA g : TokenType(g) # "no_token")
    IN  IF first = 0 THEN "unsupported" ELSE TokenType(methods[first])

\* What handle_confirmation of one handler gives when it is polled: the user
\* has typed a line, an empty one (or the input ended), or nothing yet.
Handle(handler, methods, typed, totp) ==
    CASE handler = "user" ->
           IF FirstToken(methods) = "unsupported" THEN "unsupported"
           ELSE CASE typed = "line" -> FirstToken(methods)
                  [] typed = "empty" -> "abort"
                  [] OTHER -> "pending"
      [] handler = "secret" -> IF totp THEN FirstToken(methods) ELSE "unsupported"
      [] handler = "device" ->
           IF \E i \in DOMAIN methods : IsConfirmation(methods[i])
           THEN "nothing" ELSE "unsupported"

Yields(outcome) == outcome \in {"unsupported", "nothing"}

\* One poll of node i: left first, as select does.  awaits says which futures
\* of the node are left: "both" at first, then the one that has not yielded.
PollEitherFirst(left, right, awaits) ==      \* for a mutant: the first answer
    IF left # "pending" THEN [outcome |-> left, awaits |-> awaits]
    ELSE [outcome |-> right, awaits |-> awaits]
PollEither(left, right, awaits) ==
    CASE awaits = "left" -> [outcome |-> left, awaits |-> "left"]
      [] awaits = "right" -> [outcome |-> right, awaits |-> "right"]
      [] awaits = "both" /\ left # "pending" ->
           IF Yields(left) THEN [outcome |-> right, awaits |-> "right"]
           ELSE [outcome |-> left, awaits |-> "both"]
      [] awaits = "both" /\ left = "pending" /\ Yields(right) ->
           [outcome |-> "pending", awaits |-> "left"]
      [] OTHER -> [outcome |-> right, awaits |-> "both"]

\* One poll of the whole chain, given what each handler gives.
PollChain(outcomes, awaits) ==
    LET node[i \in DOMAIN outcomes] ==
          IF i = 1 THEN [outcome |-> outcomes[1], awaits |-> "both"]
          ELSE PollEither(node[i - 1].outcome, outcomes[i], awaits[i])
    IN  node
=============================================================================
