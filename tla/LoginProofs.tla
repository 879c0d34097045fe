----------------------------- MODULE LoginProofs -----------------------------
(***************************************************************************)
(* What holds of Login for every chain of handlers, every list of allowed  *)
(* confirmations and every entry point: types, no logon before the server  *)
(* granted it, no handler overlooked, no call left when the session is     *)
(* replaced, and which machine token is offered to the store.              *)
(*                                                                         *)
(* The chain is of any length: that its recursive poll is well defined,    *)
(* and what it returns, is proved by induction (PollChainDef, PolledFacts).*)
(***************************************************************************)
EXTENDS Login, WellFoundedInduction, TLAPS

-----------------------------------------------------------------------------
(* Induction.  The library's theorems about it take an operator, which the *)
(* provers cannot instantiate; the least element of a set is as good.      *)

Less == {ss \in Nat \X Nat : ss[1] < ss[2]}

\* Every nonempty set of naturals has a least element.
LEMMA LeastElement ==
  ASSUME NEW T, T \subseteq Nat, T # {}
  PROVE  \E x \in T : \A y \in T : x <= y
  <1>1. IsWellFoundedOn(Less, Nat)
    BY NatLessThanWellFounded DEF OpToRel, Less
  <1>2. PICK x \in T : \A y \in T : <<y, x>> \notin Less
    BY <1>1, WFMin, Zenon
  <1>3. ASSUME NEW y \in T PROVE x <= y
    <2>1. <<y, x>> \notin Less /\ x \in Nat /\ y \in Nat  BY <1>2
    <2>2. QED  BY <2>1 DEF Less
  <1>4. QED  BY <1>3

-----------------------------------------------------------------------------
(* The handlers. *)

\* A code is asked for by email or on the device, or not at all.
LEMMA FirstTokenType ==
  ASSUME NEW offered \in Seq(GuardTypes)
  PROVE  FirstToken(offered) \in {"unsupported", "email", "device"}
  <1> DEFINE asking == {i \in 1..Len(offered) : TokenType(offered[i]) # "no_token"}
             first == SelectInSeq(offered, LAMBDA g : TokenType(g) # "no_token")
  <1>1. first = IF asking # {} THEN CHOOSE x \in asking : \A y \in asking : x <= y ELSE 0
    BY DEF SelectInSeq, Min
  <1>2. CASE asking = {}
    BY <1>1, <1>2 DEF FirstToken
  <1>3. CASE asking # {}
    <2>1. asking \subseteq Nat
      <3>1. 1..Len(offered) \subseteq Nat  OBVIOUS
      <3>2. QED  BY <3>1, Zenon
    <2>2. first \in asking  BY <1>1, <1>3, <2>1, LeastElement
    <2>3. TokenType(offered[first]) \in {"email", "device"}
      BY <2>2 DEF TokenType
    <2>4. QED  BY <2>2, <2>3 DEF FirstToken
  <1>4. QED  BY <1>2, <1>3

\* What a handler gives has a type, and whether it yields does not depend on
\* what the person typed.
LEMMA HandleFacts ==
  ASSUME NEW h \in HandlerKinds, NEW offered \in Seq(GuardTypes),
         NEW works \in BOOLEAN, NEW before, NEW after
  PROVE  /\ Handle(h, offered, before, works) \in Outcomes \cup {"pending"}
         /\ Yields(Handle(h, offered, before, works)) <=>
              Yields(Handle(h, offered, after, works))
  BY FirstTokenType DEF HandlerKinds, Outcomes, Handle, Yields

\* One node of a chain, given what its left subtree and its handler give.
Node(given, waits, node, i) ==
    IF i = 1 THEN [outcome |-> given[1], awaits |-> "both"]
    ELSE PollEither(node[i - 1].outcome, given[i], waits[i])

\* The nodes of a chain are what the recursion says.
LEMMA PollChainDef ==
  ASSUME NEW given, NEW waits, NEW n \in Nat, DOMAIN given = 1..n
  PROVE  PollChain(given, waits) =
           [i \in 1..n |-> Node(given, waits, PollChain(given, waits), i)]
  <1> DEFINE Is(f, k) == f = [i \in 1..k |-> Node(given, waits, f, i)]
             bad == {k \in 0..n : ~ \E f : Is(f, k)}
  <1>1. bad = {}
    <2>1. SUFFICES ASSUME bad # {} PROVE FALSE  OBVIOUS
    <2>2. PICK k \in bad : \A j \in bad : k <= j
      <3>1. bad \subseteq Nat  OBVIOUS
      <3>2. QED  BY <2>1, <3>1, LeastElement
    <2>3. CASE k = 0
      <3>1. Is([i \in 1..0 |-> 0], 0)  BY DEF Node
      <3>2. QED  BY <2>3, <3>1
    <2>4. CASE k # 0
      <3>1. k - 1 \in 0..n /\ k - 1 \notin bad  BY <2>2, <2>4
      <3>2. PICK f : Is(f, k - 1)  BY <3>1
      <3> DEFINE g == [i \in 1..k |-> IF i = k THEN Node(given, waits, f, k) ELSE f[i]]
      <3>3. \A i \in 1..k : Node(given, waits, g, i) = Node(given, waits, f, i)
        <4>1. TAKE i \in 1..k
        <4>2. i # 1 => g[i - 1] = f[i - 1]  OBVIOUS
        <4> HIDE DEF g
        <4>3. QED  BY <4>2, Zenon DEF Node
      <3>4. \A i \in 1..(k-1) : f[i] = Node(given, waits, f, i)  BY <3>2
      <3>5. Is(g, k)
        <4>1. \A i \in 1..k : g[i] = Node(given, waits, g, i)
          <5>1. TAKE i \in 1..k
          <5>2. CASE i = k  BY <3>3, <5>2
          <5>3. CASE i # k
            <6>1. i \in 1..(k-1)  BY <5>3
            <6>2. g[i] = f[i]  BY <5>3
            <6>3. QED  BY <3>3, <3>4, <6>1, <6>2
          <5>4. QED  BY <5>2, <5>3
        <4>2. g = [i \in 1..k |-> g[i]]  OBVIOUS
        <4> HIDE DEF g
        <4>3. QED  BY <4>1, <4>2
      <3>6. QED  BY <2>2, <3>5
    <2>5. QED  BY <2>3, <2>4
  <1>2. \E f : Is(f, n)  BY <1>1
  <1>3. PollChain(given, waits) = CHOOSE f : Is(f, n)
    BY Zenon DEF PollChain, Node
  <1>4. Is(CHOOSE f : Is(f, n), n)  BY <1>2, Zenon
  <1>5. QED  BY <1>3, <1>4

-----------------------------------------------------------------------------
(* The invariant. *)

\* Why a chain gives up only when every handler has yielded: a node that waits
\* for one future only has seen the other one yield, and on the left that
\* means every handler there.
Exhausted(i) == \A j \in 1..i : Yields(Given[j])
YieldedBefore ==
    \A i \in DOMAIN chain :
        /\ awaits[i] = "left" => i > 1 /\ Yields(Given[i])
        /\ awaits[i] = "right" => i > 1 /\ Exhausted(i - 1)

\* What never changes, and the type of call as a function.
LocalOK ==
    /\ flow \in Flows /\ chain \in Chains /\ methods \in Offers /\ totp \in BOOLEAN
    /\ call \in [{"main", "poll", "logon"} ->
                   {"idle", "sent", "ok", "refused", "tokens", "news", "empty"}]

\* Only a password is confirmed: the other flows start with the logon.
FlowOK ==
    IF flow = "password" THEN pc # "web_token"
    ELSE pc \in {"logon", "web_token", "done"}

\* A call is under way only where it is awaited, the poll also while a code is
\* submitted or after the login has ended without a session.
CallsInPlace ==
    /\ call.main # "idle" => pc \in {"get_key", "begin", "submit", "web_token"}
    /\ call.poll # "idle" =>
         /\ poll = "wait" /\ pc \in {"select", "submit", "tokens", "done"}
         /\ outcome # "session"

\* Tokens come from a session that was granted, and it stays so.
TokensOfGranted ==
    /\ poll \in {"wait", "done"} => pc \notin {"get_key", "begin"}
    /\ call.poll = "tokens" => auth = "granted"
    /\ pc = "store" => auth = "granted"

\* What GuardDataOffered needs to be inductive: a machine token waits in the
\* answer of a poll, and once taken from it, for the store.
GuardInPlace ==
    /\ guard = "carried" => call.poll \in {"tokens", "news"}
    /\ guard = "new" => pc = "store"

IInv == TypeOK /\ LocalOK /\ FlowOK /\ CallsInPlace /\ TokensOfGranted
          /\ LogonMeansGranted /\ GuardInPlace /\ YieldedBefore /\ NoHandlerOverlooked

LEMMA InitIInv == Init => IInv
  <1> SUFFICES ASSUME Init PROVE IInv  OBVIOUS
  <1>1. flow \in {"password", "access", "anonymous"}  BY LoginAssumption DEF Init
  <1>2. pc = IF flow = "password" THEN "get_key" ELSE "logon"
    BY <1>1 DEF Init, First
  <1>3. TypeOK  BY <1>2 DEF Init, TypeOK
  <1>4. LocalOK  BY DEF Init, LocalOK
  <1>5. FlowOK /\ CallsInPlace /\ TokensOfGranted
    BY <1>2 DEF Init, FlowOK, CallsInPlace, TokensOfGranted
  <1>6. YieldedBefore /\ NoHandlerOverlooked
    BY DEF Init, YieldedBefore, NoHandlerOverlooked, Yields
  <1>7. LogonMeansGranted /\ GuardInPlace
    BY <1>2 DEF Init, LogonMeansGranted, GuardInPlace
  <1>8. QED  BY <1>3, <1>4, <1>5, <1>6, <1>7 DEF IInv

\* The types of what never changes.
LEMMA LocalTypes ==
  ASSUME LocalOK
  PROVE  /\ flow \in {"password", "access", "anonymous"}
         /\ chain \in Seq(HandlerKinds) /\ methods \in Seq(GuardTypes)
         /\ Len(chain) \in Nat \ {0} /\ DOMAIN chain = 1..Len(chain)
  BY LoginAssumption DEF LocalOK

\* What the handlers give now, and whether they yield at all.
LEMMA GivenFacts ==
  ASSUME LocalOK
  PROVE  /\ DOMAIN Given = DOMAIN chain
         /\ \A i \in DOMAIN chain : Given[i] \in Outcomes \cup {"pending"}
         /\ UNCHANGED local =>
              \A i \in DOMAIN chain : Yields(Given'[i]) <=> Yields(Given[i])
  <1>1. DOMAIN Given = DOMAIN chain  BY DEF Given
  <1>2. ASSUME NEW i \in DOMAIN chain
        PROVE  Given[i] = Handle(chain[i], methods, typed[i], totp)
    BY DEF Given
  <1>3. ASSUME NEW i \in DOMAIN chain, UNCHANGED local
        PROVE  Given'[i] = Handle(chain[i], methods, typed'[i], totp)
    BY <1>3 DEF Given, local
  <1>4. ASSUME NEW i \in DOMAIN chain  PROVE chain[i] \in HandlerKinds
    BY LocalTypes
  <1>5. methods \in Seq(GuardTypes) /\ totp \in BOOLEAN  BY LocalTypes DEF LocalOK
  <1>6. ASSUME NEW i \in DOMAIN chain
        PROVE  Given[i] \in Outcomes \cup {"pending"}
    BY <1>2, <1>4, <1>5, HandleFacts
  <1>7. ASSUME NEW i \in DOMAIN chain, UNCHANGED local
        PROVE  Yields(Given'[i]) <=> Yields(Given[i])
    BY <1>2, <1>3, <1>4, <1>5, <1>7, HandleFacts
  <1>8. QED  BY <1>1, <1>6, <1>7

\* What node i of the chain gives when it is polled, and the types of that.
NodeOK(i) ==
    /\ Polled[i].outcome \in Outcomes \cup {"pending"}
    /\ Polled[i].awaits \in {"both", "left", "right"}
    /\ Yields(Polled[i].outcome) => Exhausted(i)
    /\ Polled[i].awaits = "left" => i > 1 /\ Yields(Given[i])
    /\ Polled[i].awaits = "right" => i > 1 /\ Exhausted(i - 1)

\* One poll of the chain keeps what its nodes know of their handlers.
LEMMA PolledFacts ==
  ASSUME LocalOK, YieldedBefore, awaits \in [DOMAIN chain -> {"both", "left", "right"}]
  PROVE  \A i \in DOMAIN chain : NodeOK(i)
  <1> DEFINE n == Len(chain)
             bad == {i \in 1..n : ~NodeOK(i)}
  <1>1. n \in Nat \ {0} /\ DOMAIN chain = 1..n /\ DOMAIN Given = 1..n
    BY LocalTypes, GivenFacts
  <1>2. ASSUME NEW i \in 1..n
        PROVE  Polled[i] = Node(Given, awaits, Polled, i)
    <2>1. Polled = [j \in 1..n |-> Node(Given, awaits, Polled, j)]
      <3> HIDE DEF n
      <3> QED  BY <1>1, PollChainDef DEF Polled
    <2> HIDE DEF n
    <2>2. QED  BY <2>1
  <1>3. ASSUME NEW i \in 1..n  PROVE Given[i] \in Outcomes \cup {"pending"}
    BY <1>1, GivenFacts
  <1> HIDE DEF n
  <1>4. SUFFICES ASSUME bad # {} PROVE FALSE  BY <1>1
  <1>5. PICK i \in bad : \A j \in bad : i <= j
    <2>1. bad \subseteq Nat  BY <1>1
    <2>2. QED  BY <1>4, <2>1, LeastElement
  <1>6. i \in 1..n /\ ~NodeOK(i)  BY <1>5
  <1>7. CASE i = 1
    <2>1. Polled[1] = [outcome |-> Given[1], awaits |-> "both"]
      BY <1>2, <1>6, <1>7 DEF Node
    <2>2. Exhausted(1) <=> Yields(Given[1])  BY DEF Exhausted
    <2>3. NodeOK(1)  BY <1>3, <1>6, <1>7, <2>1, <2>2 DEF NodeOK
    <2>4. QED  BY <1>6, <1>7, <2>3
  <1>8. CASE i # 1
    <2>1. i - 1 \in 1..n /\ i > 1 /\ NodeOK(i - 1)  BY <1>1, <1>5, <1>6, <1>8
    <2> DEFINE left == Polled[i - 1].outcome  right == Given[i]
    <2>2. Polled[i] = PollEither(left, right, awaits[i])
      BY <1>2, <1>6, <1>8 DEF Node
    <2>3. left \in Outcomes \cup {"pending"} /\ (Yields(left) => Exhausted(i - 1))
      BY <2>1 DEF NodeOK
    <2>4. right \in Outcomes \cup {"pending"}  BY <1>3, <1>6
    <2>5. awaits[i] \in {"both", "left", "right"}  BY <1>1, <1>6
    <2>6. /\ awaits[i] = "left" => Yields(right)
          /\ awaits[i] = "right" => Exhausted(i - 1)
      BY <1>1, <1>6 DEF YieldedBefore
    <2>7. Exhausted(i - 1) /\ Yields(right) => Exhausted(i)
      BY <1>1, <1>6 DEF Exhausted
    <2>8. ~Yields("pending")  BY DEF Yields
    <2> HIDE DEF left, right
    <2>9. NodeOK(i)
      <3> DEFINE node == PollEither(left, right, awaits[i])
      <3>1. /\ node.outcome \in {left, right, "pending"}
            /\ node.awaits \in {"both", "left", "right"}
        BY <2>3, <2>4, <2>5 DEF PollEither
      <3>2. Yields(node.outcome) => (Yields(left) \/ awaits[i] = "right") /\ Yields(right)
        BY <2>3, <2>4, <2>5, <2>6, <2>8 DEF PollEither
      <3>3. node.awaits = "left" => Yields(right)
        BY <2>3, <2>4, <2>5, <2>6, <2>8 DEF PollEither
      <3>4. node.awaits = "right" => Yields(left) \/ awaits[i] = "right"
        BY <2>3, <2>4, <2>5, <2>6, <2>8 DEF PollEither
      <3> HIDE DEF node
      <3>5. Polled[i] = node  BY <2>2 DEF node
      <3>6. QED
        BY <2>1, <2>3, <2>4, <2>6, <2>7, <3>1, <3>2, <3>3, <3>4, <3>5 DEF NodeOK, right
    <2>10. QED  BY <1>6, <2>9
  <1>9. QED  BY <1>7, <1>8

\* The parts of the invariant that are not about the handlers.
Rest == TypeOK /\ LocalOK /\ FlowOK /\ CallsInPlace /\ TokensOfGranted
          /\ LogonMeansGranted /\ GuardInPlace

\* Every step but the one that polls the handlers keeps them.
LEMMA NextRest ==
  ASSUME Rest, Next, ~PollHandlers
  PROVE  Rest' /\ UNCHANGED <<local, awaits, handler>>
  <1> USE DEF Rest, TypeOK, LocalOK, FlowOK, CallsInPlace, TokensOfGranted,
              LogonMeansGranted, GuardInPlace, local, task, world, Goto, Return,
              Answered, Awaited, Reply
  <1>0. PollingTokens => pc \in {"select", "tokens"}  BY DEF PollingTokens
  <1>1. CASE Ask  BY <1>1 DEF Ask
  <1>2. CASE KeyReceived  BY <1>2 DEF KeyReceived
  <1>3. CASE Begun  BY <1>3 DEF Begun
  <1>4. CASE Refused  BY <1>4 DEF Refused
  <1>5. CASE CallFails  BY <1>5 DEF CallFails
  <1>6. CASE Submitted  BY <1>6 DEF Submitted
  <1>7. CASE PollAsk  BY <1>0, <1>7 DEF PollAsk
  <1>8. CASE PollAgain  BY <1>0, <1>8 DEF PollAgain
  <1>9. CASE PollFails  BY <1>0, <1>9 DEF PollFails
  <1>10. CASE Tokens  BY <1>0, <1>10 DEF Tokens
  <1>11. CASE Store  BY <1>11 DEF Store
  <1>12. CASE LoggedOn  BY <1>12 DEF LoggedOn
  <1>13. CASE WebToken  BY <1>13 DEF WebToken
  <1>14. CASE LogonNotSent  BY <1>14 DEF LogonNotSent
  <1>15. CASE ServerAnswers  BY <1>15 DEF ServerAnswers
  <1>16. CASE ServerAnswersPoll  BY <1>16 DEF ServerAnswersPoll, MachineToken
  <1>17. CASE ServerForgets  BY <1>17 DEF ServerForgets
  <1>18. CASE Confirm  BY <1>18 DEF Confirm
  <1>19. CASE TransportEnds
    <2>1. connected' \in BOOLEAN /\ UNCHANGED <<local, task, call, typed, auth>>
      BY <1>19, Zenon DEF TransportEnds
    <2>2. QED  BY <2>1
  <1>20. ASSUME NEW i \in DOMAIN chain, NEW what \in {"line", "empty"}, Type(i, what)
        PROVE  Rest' /\ UNCHANGED <<local, awaits, handler>>
    BY <1>20 DEF Type
  <1>21. QED
    BY <1>1, <1>2, <1>3, <1>4, <1>5, <1>6, <1>7, <1>8, <1>9, <1>10, <1>11, <1>12, <1>13, <1>14, <1>15, <1>16, <1>17, <1>18, <1>19, <1>20 DEF Next, Task

\* Polling the handlers keeps the invariant: what a node comes to wait for it
\* has seen the other side yield, and the chain yields only as a whole.
LEMMA PollKeepsIInv == IInv /\ PollHandlers => IInv'
  <1> SUFFICES ASSUME IInv, PollHandlers PROVE IInv'  OBVIOUS
  <1> DEFINE n == Len(chain)
  <1>1. n \in DOMAIN chain /\ DOMAIN chain = 1..n /\ n \in Nat
    BY LocalTypes DEF IInv
  <1>2. \A i \in DOMAIN chain : NodeOK(i)
    BY PolledFacts DEF IInv, TypeOK
  <1>3. UNCHANGED <<local, poll, guard, call, world>>  BY DEF PollHandlers
  <1>4. awaits' = [i \in DOMAIN chain |-> Polled[i].awaits]  BY DEF PollHandlers
  <1>5. handler' = Polled[n].outcome  BY DEF PollHandlers
  <1>6. handler' \in Outcomes \cup {"pending"} /\ (Yields(handler') => Exhausted(n))
    BY <1>1, <1>2, <1>5 DEF NodeOK
  <1> HIDE DEF n
  <1>7. Given' = Given  BY <1>3 DEF Given, local, world
  <1>8. NoHandlerOverlooked'
    BY <1>1, <1>3, <1>6, <1>7 DEF NoHandlerOverlooked, Exhausted, local
  <1>9. YieldedBefore'
    <2>1. DOMAIN chain' = DOMAIN chain  BY <1>3 DEF local
    <2>2. ASSUME NEW i \in DOMAIN chain
          PROVE  /\ awaits'[i] = "left" => i > 1 /\ Yields(Given'[i])
                 /\ awaits'[i] = "right" => i > 1 /\ Exhausted(i - 1)'
      BY <1>2, <1>4, <1>7 DEF NodeOK, Exhausted
    <2>3. QED  BY <2>1, <2>2 DEF YieldedBefore
  <1>10. /\ pc = "select"
         /\ \/ pc' \in {"select", "submit", "tokens"} /\ UNCHANGED outcome
            \/ pc' = "done" /\ outcome' \in {"aborted", "unsupported"}
         /\ pc' = "select" => outcome' = outcome
    BY <1>6 DEF PollHandlers, Goto, Return, Outcomes
  <1>11. awaits' \in [DOMAIN chain -> {"both", "left", "right"}]
    BY <1>2, <1>4 DEF NodeOK
  <1>12. TypeOK'
    BY <1>3, <1>6, <1>10, <1>11 DEF IInv, TypeOK, local, world
  <1>13. LocalOK' /\ FlowOK' /\ CallsInPlace' /\ TokensOfGranted'
    BY <1>3, <1>10
       DEF IInv, LocalOK, FlowOK, CallsInPlace, TokensOfGranted, local, world
  <1>14. LogonMeansGranted' /\ GuardInPlace'
    BY <1>3, <1>10 DEF IInv, LogonMeansGranted, GuardInPlace, local, world
  <1>15. QED  BY <1>8, <1>9, <1>12, <1>13, <1>14 DEF IInv

\* Every step keeps the invariant.
LEMMA NextIInv == IInv /\ [Next]_vars => IInv'
  <1> SUFFICES ASSUME IInv, [Next]_vars PROVE IInv'  OBVIOUS
  <1>1. CASE PollHandlers  BY <1>1, PollKeepsIInv
  <1>2. CASE UNCHANGED vars
    BY <1>2 DEF IInv, TypeOK, LocalOK, FlowOK, CallsInPlace, TokensOfGranted,
                LogonMeansGranted, GuardInPlace, YieldedBefore, Exhausted,
                NoHandlerOverlooked, Given, vars, local, task, world
  <1>3. CASE Next /\ ~PollHandlers
    <2>1. Rest' /\ UNCHANGED <<local, awaits, handler>>
      BY <1>3, NextRest DEF IInv, Rest
    <2>2. DOMAIN chain' = DOMAIN chain  BY <2>1 DEF local
    <2>3. \A i \in DOMAIN chain : Yields(Given'[i]) <=> Yields(Given[i])
      BY <2>1, GivenFacts DEF IInv
    <2>4. NoHandlerOverlooked'
      BY <2>1, <2>2, <2>3 DEF IInv, NoHandlerOverlooked
    <2>5. ASSUME NEW i \in DOMAIN chain, i > 1, Exhausted(i - 1)
          PROVE  Exhausted(i - 1)'
      <3>1. \A j \in 1..(i - 1) : j \in DOMAIN chain
        BY <2>5, LocalTypes DEF IInv
      <3>2. QED  BY <2>3, <2>5, <3>1 DEF Exhausted
    <2>6. YieldedBefore'
      BY <2>1, <2>2, <2>3, <2>5 DEF IInv, YieldedBefore
    <2>7. QED  BY <2>1, <2>4, <2>6 DEF IInv, Rest
  <1>4. QED  BY <1>1, <1>2, <1>3

-----------------------------------------------------------------------------
(* The theorems. *)

\* The inductive invariant holds in every behaviour of the login.
THEOREM Inductive == Spec => []IInv
  BY InitIInv, NextIInv, PTL DEF Spec

\* Every variable of the login has its type.
THEOREM TypeCorrect == Spec => []TypeOK
  <1>1. IInv => TypeOK  BY DEF IInv
  <1>2. QED  BY <1>1, Inductive, PTL

\* Nobody logs on with a password before the server granted the login.
THEOREM LogonMeansGrantedHolds == Spec => []LogonMeansGranted
  <1>1. IInv => LogonMeansGranted  BY DEF IInv
  <1>2. QED  BY <1>1, Inductive, PTL

\* A chain of any length gives up on codes only when all its handlers do.
THEOREM NoHandlerOverlookedHolds == Spec => []NoHandlerOverlooked
  <1>1. IInv => NoHandlerOverlooked  BY DEF IInv
  <1>2. QED  BY <1>1, Inductive, PTL

\* No call of the login is left when the session is replaced.
THEOREM CleanSessionHolds == Spec => []CleanSession
  <1>1. IInv => CleanSession
    BY DEF IInv, TypeOK, CallsInPlace, CleanSession
  <1>2. QED  BY <1>1, Inductive, PTL

\* A machine token that came with the tokens was offered to the store before
\* the logon; one that was not offered by then came in news ahead of them.
THEOREM GuardDataOfferedHolds == Spec => []GuardDataOffered
  <1>1. IInv => GuardDataOffered
    BY DEF IInv, TypeOK, CallsInPlace, GuardInPlace, GuardDataOffered
  <1>2. QED  BY <1>1, Inductive, PTL
=============================================================================
