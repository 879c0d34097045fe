------------------------------ MODULE Heartbeat ------------------------------
(***************************************************************************)
(* connection/raw.rs: the life of a connection, from from_sender_receiver  *)
(* over a logon to the drop of its last clone, and the heartbeat task that *)
(* setup_heartbeat spawns, which the drop guard shared by the clones       *)
(* cancels.  The task and the calls of the clones send through one sink    *)
(* behind a mutex.                                                         *)
(***************************************************************************)
EXTENDS Integers

CONSTANT MaxClones   \* bound on the clones of a connection

ASSUME HeartbeatAssumption == MaxClones \in Nat \ {0}

VARIABLES
    stage,      \* "new", "logon", "access" (after the heartbeat was set up),
                \* "open" or "failed"
    clones,     \* clones of the RawConnection, each with the drop guard
    cancelled,  \* the cancellation token
    task,       \* "none", "sleep", "lock", "send" or "stopped"
    zero,       \* is the interval zero, as when the logon response names none?
    due,        \* has the sleep of the task elapsed?
    sink,       \* who holds the mutex of the sink: "nobody", "task", "call"
    stalled,    \* does the sink block whoever sends, as on a dead transport?
    late        \* heartbeats sent after the token was cancelled, up to two
vars == <<stage, clones, cancelled, task, zero, due, sink, stalled, late>>

Init ==
    /\ stage = "new" /\ clones = 1 /\ cancelled = FALSE
    /\ task = "none" /\ zero = FALSE /\ due = FALSE /\ sink = "nobody" /\ stalled = FALSE
    /\ late = 0

-----------------------------------------------------------------------------
(* The connection. *)

DropGuardPerClone(n) ==                      \* for a mutant: guard not shared
    clones' = n /\ cancelled' = (cancelled \/ n < clones)
DropGuardLeaked(n) ==                        \* for a mutant: never cancels
    clones' = n /\ UNCHANGED cancelled
\* The token is cancelled with the last clone.
Clones(n) == clones' = n /\ cancelled' = (cancelled \/ n = 0)

\* hello was sent, and login, access or anonymous begins.
Connected ==
    /\ stage = "new" /\ stage' = "logon"
    /\ UNCHANGED <<clones, cancelled, task, zero, due, sink, stalled, late>>

\* The logon succeeded and setup_heartbeat spawns the task; access still has
\* a call to make.
LoggedOn(next, none) ==
    /\ stage = "logon" /\ stage' = next /\ task' = "sleep"
    /\ zero' = none /\ due' = none
    /\ UNCHANGED <<clones, cancelled, sink, stalled, late>>

Accessed ==
    /\ stage = "access" /\ stage' = "open"
    /\ UNCHANGED <<clones, cancelled, task, zero, due, sink, stalled, late>>

\* An error returns before there is a Connection: its RawConnection is dropped.
Fails ==
    /\ stage \in {"new", "logon", "access"} /\ stage' = "failed" /\ Clones(0)
    /\ UNCHANGED <<task, zero, due, sink, stalled, late>>

Clone ==
    /\ stage = "open" /\ clones \in 1..(MaxClones - 1) /\ Clones(clones + 1)
    /\ UNCHANGED <<stage, task, zero, due, sink, stalled, late>>

Drop ==
    /\ stage = "open" /\ clones > 0 /\ Clones(clones - 1)
    /\ UNCHANGED <<stage, task, zero, due, sink, stalled, late>>

\* send_raw of a call; game coordinators keep the sink without the guard.
CallSends ==
    /\ stage # "new" /\ sink = "nobody" /\ sink' = "call"
    /\ UNCHANGED <<stage, clones, cancelled, task, zero, due, stalled, late>>

CallSent ==
    /\ sink = "call" /\ ~stalled /\ sink' = "nobody"
    /\ UNCHANGED <<stage, clones, cancelled, task, zero, due, stalled, late>>

Stall ==
    /\ ~stalled /\ stalled' = TRUE
    /\ UNCHANGED <<stage, clones, cancelled, task, zero, due, sink, late>>

-----------------------------------------------------------------------------
(* The heartbeat task: select! of the sleep and the token, then the send.   *)

Elapse ==
    /\ task = "sleep" /\ ~due /\ due' = TRUE
    /\ UNCHANGED <<stage, clones, cancelled, task, zero, sink, stalled, late>>

\* When both branches are ready select! takes either.
Beat ==
    /\ task = "sleep" /\ due /\ task' = "lock" /\ due' = FALSE
    /\ UNCHANGED <<stage, clones, cancelled, zero, sink, stalled, late>>

Stop ==
    /\ task = "sleep" /\ cancelled /\ task' = "stopped"
    /\ UNCHANGED <<stage, clones, cancelled, zero, due, sink, stalled, late>>

Lock ==
    /\ task = "lock" /\ sink = "nobody" /\ sink' = "task" /\ task' = "send"
    /\ UNCHANGED <<stage, clones, cancelled, zero, due, stalled, late>>

SentUnchecked ==                             \* for a mutant: sleeps, then looks
    /\ task = "send" /\ ~stalled /\ sink' = "nobody"
    /\ late' = IF cancelled THEN late + 1 ELSE late
    /\ task' = "sleep" /\ due' = TRUE
    /\ UNCHANGED <<stage, clones, cancelled, zero, stalled>>
\* Sent, or failed, which is logged.  The new select! is polled at once: a
\* sleep of some length is not over yet, so a cancelled token ends the loop.
Sent ==
    /\ task = "send" /\ ~stalled /\ sink' = "nobody"
    /\ late' = IF cancelled /\ late < 2 THEN late + 1 ELSE late
    /\ task' = IF cancelled /\ ~zero THEN "stopped" ELSE "sleep"
    /\ due' = zero
    /\ UNCHANGED <<stage, clones, cancelled, zero, stalled>>

Next ==
    \/ Connected
    \/ \E next \in {"access", "open"}, none \in BOOLEAN : LoggedOn(next, none)
    \/ Accessed
    \/ Fails
    \/ Clone
    \/ Drop
    \/ CallSends
    \/ CallSent
    \/ Stall
    \/ Elapse
    \/ Beat
    \/ Stop
    \/ Lock
    \/ Sent

\* The runtime polls the task and whoever sends, the mutex is fair, and
\* select! does not for ever pick the elapsed sleep over the token.
Spec ==
    /\ Init /\ [][Next]_vars
    /\ WF_vars(CallSent) /\ WF_vars(Sent) /\ SF_vars(Lock) /\ SF_vars(Stop)

-----------------------------------------------------------------------------
(* Properties. *)

\* Every variable has its type; the mutex is held by who sends.
TypeOK ==
    /\ stage \in {"new", "logon", "access", "open", "failed"}
    /\ clones \in 0..MaxClones /\ cancelled \in BOOLEAN
    /\ task \in {"none", "sleep", "lock", "send", "stopped"}
    /\ sink \in {"nobody", "task", "call"} /\ (sink = "task" <=> task = "send")
    /\ zero \in BOOLEAN /\ due \in BOOLEAN /\ stalled \in BOOLEAN
    /\ late \in 0..2

\* Heartbeats go on as long as anybody holds the connection, and end only
\* then: neither the drop of one of several clones nor a failed send stops
\* them (raw.rs lines 65-66 and 82-103).
BeatsWhileHeld == clones > 0 => ~cancelled /\ task # "stopped"

\* At most one heartbeat leaves after the last clone was dropped: the one
\* that was on its way to the sink, or whose sleep ended at the same moment.
\* An interval of zero allows any number, select! being random.
AtMostOneLate == ~zero => late <= 1

\* raw.rs line 65: "dropping the last clone of `Connection` will cancel the
\* heartbeat task".  The task looks at the token between two sends only: one
\* that never returns keeps it.
HeartbeatEnds == clones = 0 ~> task \in {"none", "stopped"} \/ stalled
=============================================================================
