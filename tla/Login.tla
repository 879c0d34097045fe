------------------------------- MODULE Login -------------------------------
(***************************************************************************)
(* connection/unauthenticated.rs: login, access and anonymous, with the    *)
(* polling of auth/mod.rs, the handlers of auth/confirmation.rs, the logon *)
(* of session.rs, and outside them a person, the guard data store and the  *)
(* authentication server.                                                  *)
(*                                                                         *)
(* The login task is one future: pc is the await it is suspended at.  In   *)
(* "select" it polls the handlers and wait_for_tokens side by side.  A     *)
(* call that the server has not answered may fail at any time: a timeout,  *)
(* or a send error.                                                        *)
(***************************************************************************)
EXTENDS Confirmation

CONSTANTS
    Flows,       \* the entry points tried: "password", "access", "anonymous"
    Chains,      \* the chains of handlers tried
    Offers,      \* the lists of allowed confirmations tried
    EndsDuring   \* the awaits during which the transport may end

ASSUME LoginAssumption ==
    /\ Flows \subseteq {"password", "access", "anonymous"}
    /\ Chains \subseteq Seq(HandlerKinds) \ {<<>>}
    /\ Offers \subseteq Seq(GuardTypes)

VARIABLES
    flow, chain, methods, totp, \* the entry point, its handlers, the allowed
                                \* confirmations, and whether the secret works
    pc,        \* where the login task is
    outcome,   \* what it returned
    awaits,    \* of each node of the chain: the futures it still waits for
    handler,   \* what handle_confirmation returned
    poll,      \* where wait_for_tokens is
    call,      \* the call of the login task, the one of the poll, and the logon
    guard,     \* new_guard_data: where the machine token of this login is
    typed,     \* what the person typed for each handler
    auth,      \* the authentication session at the server
    connected

local  == <<flow, chain, methods, totp>>
task   == <<pc, outcome, awaits, handler, poll, guard>>
world  == <<typed, auth, connected>>
vars   == <<local, task, call, world>>

First == [password |-> "get_key", access |-> "logon", anonymous |-> "logon"]

Init ==
    /\ flow \in Flows /\ chain \in Chains /\ methods \in Offers
    /\ totp \in BOOLEAN
    /\ pc = First[flow] /\ outcome = "none"
    /\ awaits = [i \in DOMAIN chain |-> "both"]
    /\ handler = "pending" /\ poll = "ask" /\ guard = "none"
    /\ call = [main |-> "idle", poll |-> "idle", logon |-> "idle"]
    /\ typed = [i \in DOMAIN chain |-> "nothing"]
    /\ auth = "none" /\ connected = TRUE

Goto(where) == pc' = where /\ UNCHANGED outcome
ReturnNothing(how) == pc' = "done" /\ UNCHANGED outcome  \* for a mutant
Return(how) == pc' = "done" /\ outcome' = how

-----------------------------------------------------------------------------
(* Calls: service_method_un_authenticated, service_method, and the logon,  *)
(* which has no timeout.                                                   *)

Awaited == IF pc = "logon" THEN "logon" ELSE "main"

Ask ==
    /\ pc \in {"get_key", "begin", "submit", "logon", "web_token"}
    /\ call[Awaited] = "idle" /\ call' = [call EXCEPT ![Awaited] = "sent"]
    /\ UNCHANGED <<local, task, world>>

Answered(value) ==
    call[Awaited] = value /\ call' = [call EXCEPT ![Awaited] = "idle"]

\* get_password_rsa, and begin_password_auth
KeyReceived ==
    /\ pc = "get_key" /\ Answered("ok") /\ Goto("begin")
    /\ UNCHANGED <<local, awaits, handler, poll, guard, world>>

Begun ==
    /\ pc = "begin" /\ Answered("ok") /\ Goto("select")
    /\ UNCHANGED <<local, awaits, handler, poll, guard, world>>

\* An error code, or an answer that cannot be used.
Refused ==
    /\ Answered("refused") /\ Return("error")
    /\ UNCHANGED <<local, awaits, handler, poll, guard, world>>

CallFails ==
    /\ call.main = "sent" /\ pc # "logon"
    /\ call' = [call EXCEPT !.main = "idle"] /\ Return("error")
    /\ UNCHANGED <<local, awaits, handler, poll, guard, world>>

\* A send error, or in access a refresh token that does not decode or has
\* another issuer.
LogonNotSent ==
    /\ pc = "logon" /\ call.logon = "idle" /\ Return("error")
    /\ UNCHANGED <<local, awaits, handler, poll, guard, call, world>>

-----------------------------------------------------------------------------
(* The handlers, polled before wait_for_tokens whenever the select is.     *)

Given == [i \in DOMAIN chain |-> Handle(chain[i], methods, typed[i], totp)]
Polled == PollChain(Given, awaits)
Ready == Polled[Len(chain)].outcome # "pending"

PollHandlers ==
    /\ pc = "select" /\ awaits' = [i \in DOMAIN chain |-> Polled[i].awaits]
    /\ handler' = Polled[Len(chain)].outcome
    /\ CASE handler' = "pending" -> UNCHANGED <<pc, outcome>>
         [] handler' = "abort" -> Return("aborted")
         [] handler' = "unsupported" /\ ActionRequired(methods) -> Return("unsupported")
         [] handler' \in {"email", "device"} -> Goto("submit")
         [] OTHER -> Goto("tokens")
    /\ UNCHANGED <<local, poll, guard, call, world>>

\* submit_confirmation of a code; wait_for_tokens is not polled meanwhile.
SubmittedAtOnce ==                           \* for a mutant: answer not awaited
    /\ pc = "submit" /\ call.main = "sent" /\ Goto("tokens")
    /\ UNCHANGED <<local, awaits, handler, poll, guard, call, world>>
Submitted ==
    /\ pc = "submit" /\ Answered("ok") /\ Goto("tokens")
    /\ UNCHANGED <<local, awaits, handler, poll, guard, world>>

-----------------------------------------------------------------------------
(* wait_for_tokens and poll_until_info. *)

PollingTokens == pc = "tokens" \/ (pc = "select" /\ ~Ready)

PollAsk ==
    /\ PollingTokens /\ poll \in {"ask", "sleep"} /\ poll' = "wait"
    /\ call' = [call EXCEPT !.poll = "sent"]
    /\ UNCHANGED <<local, pc, outcome, awaits, handler, guard, world>>

\* News without tokens is asked about again at once, no news after the interval.
\* wait_for_tokens drops the news, a machine token in it included.
PollAgain ==
    /\ PollingTokens /\ poll = "wait" /\ call.poll \in {"news", "empty"}
    /\ poll' = IF call.poll = "news" THEN "ask" ELSE "sleep"
    /\ guard' = IF guard = "carried" THEN "dropped" ELSE guard
    /\ call' = [call EXCEPT !.poll = "idle"]
    /\ UNCHANGED <<local, pc, outcome, awaits, handler, world>>

\* Tokens end the loop, and the select whether or not a handler has returned.
TokensAnyNews ==                             \* for a mutant: has_data is enough
    /\ PollingTokens /\ poll = "wait" /\ call.poll \in {"news", "tokens"}
    /\ guard' = IF guard = "carried" THEN "new" ELSE guard
    /\ call' = [call EXCEPT !.poll = "idle"] /\ poll' = "done" /\ Goto("store")
    /\ UNCHANGED <<local, awaits, handler, world>>
Tokens ==
    /\ PollingTokens /\ poll = "wait" /\ call.poll = "tokens"
    /\ guard' = IF guard = "carried" THEN "new" ELSE guard
    /\ call' = [call EXCEPT !.poll = "idle"] /\ poll' = "done" /\ Goto("store")
    /\ UNCHANGED <<local, awaits, handler, world>>

PollRefused ==                               \* for a mutant: no timeout()
    /\ PollingTokens /\ poll = "wait" /\ call.poll = "refused"
    /\ call' = [call EXCEPT !.poll = "idle"] /\ Return("error")
    /\ UNCHANGED <<local, awaits, handler, poll, guard, world>>
\* An error answer, a timeout or a send error ends the login.
PollFails ==
    /\ PollingTokens /\ poll = "wait" /\ call.poll \in {"sent", "refused"}
    /\ call' = [call EXCEPT !.poll = "idle"] /\ Return("error")
    /\ UNCHANGED <<local, awaits, handler, poll, guard, world>>

StoreLater ==                                \* for a mutant: stored after logon
    /\ pc = "store" /\ Goto("logon")
    /\ UNCHANGED <<local, awaits, handler, poll, guard, call, world>>
\* A store that fails is logged.
Store ==
    /\ pc = "store" /\ Goto("logon")
    /\ guard' \in IF guard = "new" THEN {"stored", "not_stored"} ELSE {guard}
    /\ UNCHANGED <<local, awaits, handler, poll, call, world>>

-----------------------------------------------------------------------------
(* send_logon.  The session it returns replaces the one of the connection, *)
(* with a new job id counter.                                              *)

LoggedOn ==
    /\ pc = "logon" /\ Answered("ok")
    /\ IF flow = "access" THEN Goto("web_token") ELSE Return("session")
    /\ UNCHANGED <<local, awaits, handler, poll, guard, world>>

WebToken ==
    /\ pc = "web_token" /\ Answered("ok") /\ Return("session")
    /\ UNCHANGED <<local, awaits, handler, poll, guard, world>>

Task == \/ Ask \/ KeyReceived \/ Begun \/ Refused \/ CallFails \/ PollHandlers
        \/ Submitted \/ PollAsk \/ PollAgain \/ PollFails \/ Tokens \/ Store
        \/ LoggedOn \/ WebToken

-----------------------------------------------------------------------------
(* Outside: the server, a person, the transport. *)

Reply(who, value) ==
    /\ connected /\ call[who] = "sent" /\ call' = [call EXCEPT ![who] = value]

\* A login that needs no action is granted at once.  A code grants the
\* session, or is wrong, or comes too late.
ServerAnswers ==
    /\ \/ pc = "begin" /\ Reply("main", "ok")
            /\ auth' = IF ActionRequired(methods) THEN "open" ELSE "granted"
       \/ pc = "submit" /\ Reply("main", "ok")
            /\ auth \in {"open", "granted"} /\ auth' = "granted"
       \/ pc \notin {"begin", "submit"} /\ Reply(Awaited, "ok") /\ UNCHANGED auth
       \/ Reply(Awaited, "refused") /\ UNCHANGED auth
    /\ UNCHANGED <<local, task, typed, connected>>

\* The machine token comes once, with the tokens or in news ahead of them.
MachineToken == guard = "none" /\ guard' = "carried"

ServerAnswersPoll ==
    /\ \/ auth = "granted" /\ Reply("poll", "tokens") /\ UNCHANGED guard
       \/ auth = "granted" /\ Reply("poll", "tokens") /\ MachineToken
       \/ auth = "open" /\ Reply("poll", "empty") /\ UNCHANGED guard
       \/ auth = "open" /\ Reply("poll", "news") /\ UNCHANGED guard
       \/ auth \in {"open", "granted"} /\ Reply("poll", "news") /\ MachineToken
       \/ auth \in {"none", "closed"} /\ Reply("poll", "refused") /\ UNCHANGED guard
    /\ UNCHANGED <<local, pc, outcome, awaits, handler, poll, world>>

ServerForgets ==
    /\ auth = "open" /\ auth' = "closed"
    /\ UNCHANGED <<local, task, call, typed, connected>>

Confirm ==
    /\ auth = "open" /\ \E i \in DOMAIN methods : IsConfirmation(methods[i])
    /\ auth' = "granted"
    /\ UNCHANGED <<local, task, call, typed, connected>>

Type(i, what) ==
    /\ pc = "select" /\ chain[i] = "user" /\ typed[i] = "nothing"
    /\ typed' = [typed EXCEPT ![i] = what]
    /\ UNCHANGED <<local, task, call, auth, connected>>

TransportEnds ==
    /\ pc \in EndsDuring /\ connected /\ connected' = FALSE
    /\ UNCHANGED <<local, task, call, typed, auth>>

Next ==
    \/ Task
    \/ LogonNotSent
    \/ ServerAnswers
    \/ ServerAnswersPoll
    \/ ServerForgets
    \/ Confirm
    \/ \E i \in DOMAIN chain, what \in {"line", "empty"} : Type(i, what)
    \/ TransportEnds

\* The runtime polls the login task and its timers.  The server drops an
\* authentication session nobody confirms, and while connected it answers a
\* logon.  Nothing is assumed of the person.
Spec ==
    /\ Init /\ [][Next]_vars
    /\ WF_vars(Task) /\ WF_vars(ServerForgets)
    /\ WF_vars(pc = "logon" /\ ServerAnswers)

-----------------------------------------------------------------------------
(* Properties. *)

\* Every variable has its type.
TypeOK ==
    /\ pc \in {"get_key", "begin", "select", "submit", "tokens", "store",
               "logon", "web_token", "done"}
    /\ outcome \in {"none", "session", "aborted", "unsupported", "error"}
    /\ outcome = "none" <=> pc # "done"
    /\ awaits \in [DOMAIN chain -> {"both", "left", "right"}]
    /\ handler \in Outcomes \cup {"pending"}
    /\ poll \in {"ask", "wait", "sleep", "done"}
    /\ {call.main, call.logon} \subseteq {"idle", "sent", "ok", "refused"}
    /\ call.poll \in {"idle", "sent", "tokens", "news", "empty", "refused"}
    /\ guard \in {"none", "carried", "new", "stored", "not_stored", "dropped"}
    /\ typed \in [DOMAIN chain -> {"nothing", "line", "empty"}]
    /\ auth \in {"none", "open", "granted", "closed"} /\ connected \in BOOLEAN

\* Nobody logs on with a password before the server granted the login:
\* whatever polls, codes and confirmations cross, the tokens come first
\* (auth/mod.rs lines 162-182, unauthenticated.rs lines 118-153).
LogonMeansGranted ==
    flow = "password" /\ (pc = "logon" \/ outcome = "session") => auth = "granted"

\* A chain gives up on codes only when none of its handlers can give one: a
\* handler that yields first never hides another (confirmation.rs lines
\* 319-326).  A handler that has nothing to send yields too, a device
\* confirmation it supports notwithstanding.
NoHandlerOverlooked ==
    Yields(handler) => \A i \in DOMAIN chain : Yields(Given[i])

\* When the session, and with it the job id counter, is replaced, no call of
\* the login is left whose registration a new id could hit (session.rs line
\* 270).
CleanSession ==
    outcome = "session" \/ pc = "logon" => call.poll = "idle" /\ call.main = "idle"

\* A machine token that came with the tokens was offered to the store before
\* the logon that may fail, and no answer with one is left unread by then: the
\* only one a login with a session did not offer came in news ahead of the
\* tokens, which the code drops (unauthenticated.rs lines 139-153, auth/mod.rs
\* lines 166-181).
GuardDataOffered ==
    /\ pc \in {"logon", "done"} => guard # "new"
    /\ pc = "logon" \/ outcome = "session" => guard # "carried"

\* A login ends, whatever the person does or does not do: every call of it has
\* a timeout but the logon, which a transport that ended leaves unanswered
\* (unauthenticated.rs lines 98-158).
EndsUnlessCutOff == <>(outcome # "none" \/ (pc = "logon" /\ ~connected))

\* A login ends, even when the transport does.  net.rs line 42
\* names what a waiter is told when the transport ends: "Unexpected end of
\* stream".
LoginEnds == <>(outcome # "none")
=============================================================================
