--------------------------- MODULE HeartbeatProofs ---------------------------
(***************************************************************************)
(* What holds of Heartbeat for any number of clones, with or without a     *)
(* sink that stalls: types, heartbeats as long as the connection is held,  *)
(* and at most one after that.                                             *)
(***************************************************************************)
EXTENDS Heartbeat, TLAPS

\* The token is cancelled exactly when no clone is left, and only then does
\* the task stop.  Before the logon there is one clone and no task.
Guarded ==
    /\ cancelled <=> clones = 0
    /\ task = "stopped" => cancelled
    /\ stage \in {"new", "logon"} => task = "none" /\ clones = 1

\* No heartbeat is late before the token is cancelled; with an interval, the
\* task has stopped after the first late one, which AtMostOneLate needs to be
\* inductive.
LateStops ==
    /\ ~cancelled => late = 0
    /\ late > 0 /\ ~zero => late = 1 /\ task = "stopped"

IInv == TypeOK /\ Guarded /\ LateStops

\* One clone, no task.
LEMMA InitIInv == Init => IInv
  <1> SUFFICES ASSUME Init PROVE IInv  OBVIOUS
  <1>1. 1 \in 0..MaxClones /\ 0 \in 0..2  BY HeartbeatAssumption
  <1>2. TypeOK  BY <1>1, Zenon DEF Init, TypeOK
  <1>3. Guarded  BY DEF Init, Guarded
  <1>4. LateStops  BY DEF Init, LateStops
  <1>5. QED  BY <1>2, <1>3, <1>4 DEF IInv

\* Every step keeps the invariant.
LEMMA NextIInv == IInv /\ [Next]_vars => IInv'
  <1> SUFFICES ASSUME IInv, [Next]_vars PROVE IInv'  OBVIOUS
  <1>a. MaxClones \in Nat \ {0}  BY HeartbeatAssumption
  <1> USE <1>a DEF IInv, TypeOK, Guarded, LateStops
  <1>1. CASE Connected  BY <1>1 DEF Connected
  <1>2. ASSUME NEW next \in {"access", "open"}, NEW none \in BOOLEAN, LoggedOn(next, none)
        PROVE  IInv'
    <2>1. zero' \in BOOLEAN /\ due' \in BOOLEAN  BY <1>2, Zenon DEF LoggedOn
    <2>2. task' = "sleep" /\ stage' \in {"access", "open"} /\ late = 0
      BY <1>2 DEF LoggedOn
    <2>3. QED  BY <1>2, <2>1, <2>2 DEF LoggedOn
  <1>3. CASE Accessed  BY <1>3 DEF Accessed
  <1>4. CASE Fails
    <2>1. clones' = 0 /\ cancelled' = TRUE  BY <1>4 DEF Fails, Clones
    <2>2. QED  BY <1>4, <2>1 DEF Fails
  <1>5. CASE Clone  BY <1>5 DEF Clone, Clones
  <1>6. CASE Drop
    <2>1. CASE clones = 1
      <3>0. clones - 1 = 0  BY <2>1
      <3>1. clones' = 0 /\ cancelled' = TRUE  BY <1>6, <3>0 DEF Drop, Clones
      <3>2. UNCHANGED <<stage, task, zero, due, sink, stalled, late>> /\ stage = "open"
        BY <1>6 DEF Drop
      <3>3. TypeOK'  BY <3>1, <3>2
      <3>4. Guarded' /\ LateStops'  BY <3>1, <3>2
      <3>5. QED  BY <3>3, <3>4
    <2>2. CASE clones # 1
      <3>1. clones' = clones - 1 /\ clones' > 0 /\ cancelled' = FALSE
        BY <1>6, <2>2 DEF Drop, Clones
      <3>2. UNCHANGED <<stage, task, zero, due, sink, stalled, late>> /\ stage = "open"
        BY <1>6 DEF Drop
      <3>3. TypeOK'
        <4>1. clones' \in 0..MaxClones  BY <3>1
        <4>2. cancelled' \in BOOLEAN  BY <3>1, Zenon
        <4>3. QED  BY <3>2, <4>1, <4>2
      <3>4. Guarded' /\ LateStops'  BY <1>6, <3>1, <3>2 DEF Drop
      <3>5. QED  BY <3>3, <3>4
    <2>3. QED  BY <2>1, <2>2
  <1>7. CASE CallSends  BY <1>7 DEF CallSends
  <1>8. CASE CallSent  BY <1>8 DEF CallSent
  <1>9. CASE Stall  BY <1>9 DEF Stall
  <1>10. CASE Elapse  BY <1>10 DEF Elapse
  <1>11. CASE Beat  BY <1>11 DEF Beat
  <1>12. CASE Stop  BY <1>12 DEF Stop
  <1>13. CASE Lock  BY <1>13 DEF Lock
  <1>14. CASE Sent  BY <1>14 DEF Sent
  <1>15. CASE UNCHANGED vars  BY <1>15 DEF vars
  <1>16. QED
    BY <1>1, <1>2, <1>3, <1>4, <1>5, <1>6, <1>7, <1>8, <1>9, <1>10, <1>11,
       <1>12, <1>13, <1>14, <1>15 DEF Next

\* The strengthened invariant holds of every reachable state.
THEOREM Inductive == Spec => []IInv
  BY InitIInv, NextIInv, PTL DEF Spec

\* Heartbeats go on as long as anybody holds the connection.
THEOREM BeatsWhileHeldHolds == Spec => []BeatsWhileHeld
  <1>1. IInv => BeatsWhileHeld  BY DEF IInv, Guarded, TypeOK, BeatsWhileHeld
  <1>2. QED  BY <1>1, Inductive, PTL

\* At most one heartbeat leaves after the last clone was dropped.
THEOREM AtMostOneLateHolds == Spec => []AtMostOneLate
  <1>1. IInv => AtMostOneLate  BY DEF IInv, LateStops, TypeOK, AtMostOneLate
  <1>2. QED  BY <1>1, Inductive, PTL
=============================================================================
