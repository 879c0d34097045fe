-------------------------- MODULE ServerListProofs --------------------------
(***************************************************************************)
(* What holds of ServerList for every length of the list and every set of  *)
(* threads: the rotation is even, and a listing is complete.               *)
(***************************************************************************)
EXTENDS ServerList, TLAPS

\* The i-th server after the cycle was at s.
At(s, i) == IF s + i - 1 <= Count THEN s + i - 1 ELSE s + i - 1 - Count

\* In the current round of the cycle the servers before next were offered
\* once more than the others.  RoundRobin does not say which, so it is not
\* inductive.
Even ==
    \E rounds \in Nat : \A s \in Servers :
        offered[s] = IF s < next THEN rounds + 1 ELSE rounds

\* A call that is collecting has a run of consecutive servers, and the cycle
\* is at the one that follows: nobody else moves it while the lock is held.
Collecting(c) ==
    \E s \in Servers :
        /\ Len(c.result) <= Count /\ next = At(s, Len(c.result) + 1)
        /\ \A i \in 1..Len(c.result) : c.result[i] = At(s, i)

Collected(c) ==
    \E s \in Servers :
        Len(c.result) = Count /\ \A i \in 1..Count : c.result[i] = At(s, i)

Listings ==
    \A t \in Threads :
        /\ call[t].op = "all" => Collecting(call[t])
        /\ call[t].op = "done" => Collected(call[t])

IInv == TypeOK /\ Even /\ Listings

\* Positions wrap around within the list.
LEMMA AtInList ==
    ASSUME NEW s \in Servers, NEW i \in 1..Count
    PROVE  At(s, i) \in Servers
  BY ListAssumption DEF At, Servers

\* Within one round no two positions have the same server.
LEMMA AtInjective ==
    ASSUME NEW s \in Servers, NEW i \in 1..Count, NEW j \in 1..Count,
           At(s, i) = At(s, j)
    PROVE  i = j
  BY ListAssumption DEF At, Servers

\* A run starts at its server, and goes on as the cycle does.
LEMMA AtSteps ==
    ASSUME NEW s \in Servers
    PROVE  /\ At(s, 1) = s
           /\ \A i \in 1..Count :
                At(s, i + 1) = IF At(s, i) = Count THEN 1 ELSE At(s, i) + 1
  BY ListAssumption DEF At, Servers

\* The initial state: nothing offered, no call.
LEMMA InitIInv == Init => IInv
  <1> SUFFICES ASSUME Init PROVE IInv  OBVIOUS
  <1>1. TypeOK  BY ListAssumption DEF Init, TypeOK, Servers, Idle
  <1>2. Even
    <2>1. \A s \in Servers : offered[s] = IF s < next THEN 0 + 1 ELSE 0
      BY ListAssumption DEF Init, Servers
    <2>2. QED  BY <2>1 DEF Even
  <1>3. Listings  BY DEF Init, Listings, Idle
  <1>4. QED  BY <1>1, <1>2, <1>3 DEF IInv

\* One step of the cycle keeps the rotation even.
LEMMA AdvanceEven ==
    ASSUME TypeOK, Even, Advance
    PROVE  next' \in Servers /\ offered' \in [Servers -> Nat] /\ Even'
  <1>1. next' \in Servers /\ offered' \in [Servers -> Nat]
    BY ListAssumption DEF TypeOK, Advance, Servers
  <1>2. PICK rounds \in Nat : \A s \in Servers :
               offered[s] = IF s < next THEN rounds + 1 ELSE rounds
    BY DEF Even
  <1>3. CASE next = Count
    <2>1. \A s \in Servers : offered'[s] = IF s < next' THEN (rounds + 1) + 1 ELSE rounds + 1
      BY <1>2, <1>3, ListAssumption DEF TypeOK, Advance, Servers
    <2>2. QED  BY <1>1, <2>1 DEF Even
  <1>4. CASE next # Count
    <2>1. \A s \in Servers : offered'[s] = IF s < next' THEN rounds + 1 ELSE rounds
      BY <1>2, <1>4, ListAssumption DEF TypeOK, Advance, Servers
    <2>2. QED  BY <1>1, <2>1 DEF Even
  <1>5. QED  BY <1>1, <1>3, <1>4

\* Every step keeps the invariant.
LEMMA NextIInv == IInv /\ [Next]_vars => IInv'
  <1> SUFFICES ASSUME IInv, [Next]_vars PROVE IInv'  OBVIOUS
  <1> USE DEF IInv
  <1>1. ASSUME NEW t \in Threads, NEW op \in {"pick", "all"}, Begin(t, op) PROVE IInv'
    <2>1. TypeOK'  BY <1>1 DEF Begin, TypeOK
    <2>2. Even'  BY <1>1 DEF Begin, Even
    <2>3. ASSUME NEW u \in Threads
          PROVE  /\ call'[u].op = "all" => Collecting(call[u])'
                 /\ call'[u].op = "done" => Collected(call[u])'
      <3>1. CASE u = t
        <4>1. call'[u].op = op /\ call'[u].result = <<>>
          BY <1>1, <3>1 DEF Begin, TypeOK
        <4>2. next' \in Servers /\ next' = At(next', 1)
          BY <2>1, AtSteps DEF TypeOK
        <4>3. QED  BY <1>1, <4>1, <4>2, ListAssumption DEF Collecting
      <3>2. CASE u # t
        <4>1. call'[u] = call[u] /\ next' = next  BY <1>1, <3>2 DEF Begin, TypeOK
        <4>2. QED  BY <4>1 DEF Listings, Collecting, Collected
      <3>3. QED  BY <3>1, <3>2
    <2>4. QED  BY <2>1, <2>2, <2>3 DEF Listings
  <1>2. ASSUME NEW t \in Threads, Pick(t) PROVE IInv'
    <2>1. next' \in Servers /\ offered' \in [Servers -> Nat] /\ Even'
      BY <1>2, AdvanceEven DEF Pick
    <2>2. TypeOK'  BY <1>2, <2>1 DEF Pick, TypeOK, Idle
    <2>3. ASSUME NEW u \in Threads
          PROVE  /\ call'[u].op # "all"
                 /\ call'[u].op = "done" => Collected(call[u])'
      <3>1. CASE u = t  BY <1>2, <3>1 DEF Pick, TypeOK, Idle
      <3>2. CASE u # t
        <4>1. call'[u] = call[u]  BY <1>2, <3>2 DEF Pick, TypeOK
        <4>2. call[u].op # "all"  BY <1>2, <3>2 DEF Pick, TypeOK
        <4>3. QED  BY <4>1, <4>2 DEF Listings, Collected
      <3>3. QED  BY <3>1, <3>2
    <2>4. QED  BY <2>1, <2>2, <2>3 DEF Listings
  <1>3. ASSUME NEW t \in Threads, Take(t) PROVE IInv'
    <2>1. PICK s \in Servers :
            /\ Len(call[t].result) <= Count /\ next = At(s, Len(call[t].result) + 1)
            /\ \A i \in 1..Len(call[t].result) : call[t].result[i] = At(s, i)
      BY <1>3 DEF Take, Listings, Collecting
    <2>2. call[t].result \in Seq(Servers) /\ Len(call[t].result) \in Nat
      BY DEF TypeOK
    <2>3. \A u \in Threads : u # t => call'[u] = call[u] /\ call[u].op # "all"
      BY <1>3 DEF Take, TypeOK
    <2>4. CASE Len(call[t].result) < Count
      <3>1. /\ Advance /\ lock' = lock
            /\ call' = [call EXCEPT ![t].result = Append(@, next)]
        BY <1>3, <2>4 DEF Take
      <3>2. next' \in Servers /\ offered' \in [Servers -> Nat] /\ Even'
        BY <3>1, AdvanceEven
      <3>3. /\ call'[t].op = "all"
            /\ call'[t].result = Append(call[t].result, next)
        BY <1>3, <3>1 DEF Take, TypeOK
      <3>4. TypeOK'
        <4>1. Append(call[t].result, next) \in Seq(Servers)  BY <2>2 DEF TypeOK
        <4>2. QED  BY <1>3, <3>1, <3>2, <4>1 DEF Take, TypeOK
      <3>5. Collecting(call[t])'
        <4>1. Len(call'[t].result) = Len(call[t].result) + 1  BY <2>2, <3>3
        <4>2. next' = At(s, Len(call[t].result) + 2)
          <5>1. Len(call[t].result) + 1 \in 1..Count  BY <2>2, <2>4, ListAssumption
          <5>2. next' = IF next = Count THEN 1 ELSE next + 1  BY <3>1 DEF Advance
          <5>3. At(s, (Len(call[t].result) + 1) + 1)
                  = IF At(s, Len(call[t].result) + 1) = Count THEN 1
                    ELSE At(s, Len(call[t].result) + 1) + 1
            BY <5>1, AtSteps
          <5>4. (Len(call[t].result) + 1) + 1 = Len(call[t].result) + 2  BY <2>2
          <5>5. QED  BY <2>1, <5>2, <5>3, <5>4
        <4>3. \A i \in 1..Len(call'[t].result) : call'[t].result[i] = At(s, i)
          BY <2>1, <2>2, <3>3, <4>1
        <4>4. QED  BY <2>2, <2>4, <4>1, <4>2, <4>3, ListAssumption DEF Collecting
      <3>6. ASSUME NEW u \in Threads, u # t
            PROVE  /\ call'[u].op # "all"
                   /\ call'[u].op = "done" => Collected(call[u])'
        <4>1. call'[u] = call[u] /\ call[u].op # "all"  BY <2>3, <3>6
        <4>2. QED  BY <4>1 DEF Listings, Collected
      <3>7. Listings'  BY <3>3, <3>5, <3>6 DEF Listings
      <3>8. QED  BY <3>2, <3>4, <3>7
    <2>5. CASE ~(Len(call[t].result) < Count)
      <3>1. /\ UNCHANGED <<next, offered>> /\ lock' = {}
            /\ call' = [call EXCEPT ![t].op = "done"]
        BY <1>3, <2>5 DEF Take
      <3>2. TypeOK'  BY <1>3, <3>1 DEF Take, TypeOK
      <3>3. Even'  BY <3>1 DEF Even
      <3>4. call'[t].op = "done" /\ call'[t].result = call[t].result
        BY <3>1 DEF TypeOK
      <3>5. Len(call[t].result) = Count  BY <2>1, <2>2, <2>5, ListAssumption
      <3>6. Collected(call[t])'  BY <2>1, <3>4, <3>5 DEF Collected
      <3>7. QED  BY <2>3, <3>2, <3>3, <3>4, <3>6 DEF Listings, Collected
    <2>6. QED  BY <2>4, <2>5
  <1>4. CASE UNCHANGED vars
    <2>1. TypeOK' /\ Even'  BY <1>4 DEF vars, TypeOK, Even
    <2>2. ASSUME NEW u \in Threads
          PROVE  /\ call'[u].op = "all" => Collecting(call[u])'
                 /\ call'[u].op = "done" => Collected(call[u])'
      <3>1. call' = call /\ next' = next  BY <1>4 DEF vars
      <3>2. QED  BY <3>1 DEF Listings, Collecting, Collected
    <2>3. QED  BY <2>1, <2>2 DEF Listings
  <1>5. QED  BY <1>1, <1>2, <1>3, <1>4 DEF Next

\* The strengthened invariant holds of every reachable state.
THEOREM Inductive == Spec => []IInv
  BY InitIInv, NextIInv, PTL DEF Spec

\* Whatever picks and listings cross, no server is offered twice more than
\* another.
THEOREM RoundRobinHolds == Spec => []RoundRobin
  <1>1. Even => RoundRobin
    <2> SUFFICES ASSUME Even, NEW s \in Servers, NEW t \in Servers
                 PROVE  offered[s] <= offered[t] + 1
      BY DEF RoundRobin
    <2>1. PICK rounds \in Nat : \A u \in Servers :
                 offered[u] = IF u < next THEN rounds + 1 ELSE rounds
      BY DEF Even
    <2>2. offered[s] \in {rounds, rounds + 1} /\ offered[t] \in {rounds, rounds + 1}
      BY <2>1
    <2>3. QED  BY <2>2
  <1>2. QED  BY <1>1, Inductive, PTL DEF IInv

\* A listing has every server exactly once, also when others pick meanwhile.
THEOREM ListsEveryServerHolds == Spec => []ListsEveryServer
  <1>1. IInv => ListsEveryServer
    <2> SUFFICES ASSUME IInv, NEW t \in Threads, call[t].op = "done"
                 PROVE  /\ Len(call[t].result) = Count
                        /\ \A i, j \in 1..Count :
                             call[t].result[i] = call[t].result[j] => i = j
      BY DEF ListsEveryServer
    <2>1. PICK s \in Servers : /\ Len(call[t].result) = Count
                               /\ \A i \in 1..Count : call[t].result[i] = At(s, i)
      BY DEF IInv, Listings, Collected
    <2>2. QED  BY <2>1, AtInjective
  <1>2. QED  BY <1>1, Inductive, PTL
=============================================================================
