--------------------------- MODULE CostCapProofs ---------------------------
(***************************************************************************)
(* Proofs about CostCap: its types, the books of the engine, what a purge   *)
(* leaves of the sum the cap is compared with, and how far the spending can *)
(* exceed the cap; and about Journal, which has the table behind that sum:  *)
(* what a purge leaves of the lines, and what an export of them holds.      *)
(***************************************************************************)
EXTENDS CostCap, Journal, FiniteSetTheorems, SequenceTheorems, WellFoundedInduction, TLAPS

LEMMA AgesAreNat == Ages \subseteq Nat /\ 0 \in Ages /\ 0..Day \subseteq Ages
BY CostCapAssumption DEF Ages

LEMMA EngineIsClient == Engine \in Clients /\ Sandboxes \subseteq Clients /\ Tests \subseteq Clients
BY DEF Clients

LEMMA IdleState == Idle \in ClientState
BY DEF Idle, ClientState, PCs

\* A run costs a natural amount, as long as its client is well typed.
LEMMA CostOfRunType ==
  ASSUME NEW c \in Clients, TypeOK
  PROVE  CostOfRun(c) \in Nat
<1>1. client[c].fails \in Nat
  BY DEF TypeOK, ClientState
<1>2. client[c].fails * FailCost \in Nat
  BY <1>1, CostCapAssumption
<1>3. (IF client[c].ok THEN CallCost ELSE 0) \in Nat
  BY CostCapAssumption
<1> QED BY <1>2, <1>3 DEF CostOfRun, CallsOfRun

\* Booking a cost keeps the type of the table.
LEMMA BookType ==
  ASSUME TypeOK, NEW cost \in Nat, Book(cost)
  PROVE  rows' \in [Ages -> Nat]
<1>1. rows[0] + cost \in Nat
  BY AgesAreNat DEF TypeOK
<1> QED BY <1>1 DEF TypeOK, Book

\* What a step does to the table.
LEMMA RowsType ==
  ASSUME TypeOK, Next
  PROVE  rows' \in [Ages -> Nat]
<1>1. CASE JournalCalls
  BY <1>1, CostOfRunType, EngineIsClient, BookType DEF JournalCalls
<1>2. CASE JournalFails
  <2>1. PICK written \in 0..client[Engine].fails :
          Book(IF client[Engine].price THEN written * FailCost ELSE 0)
    BY <1>2 DEF JournalFails
  <2>2. client[Engine].fails \in Nat
    BY EngineIsClient DEF TypeOK, ClientState
  <2>3. written \in Nat
    BY <2>2
  <2>4. written * FailCost \in Nat
    BY <2>3, CostCapAssumption
  <2> QED BY <2>1, <2>4, BookType
<1>3. ASSUME NEW c \in Sandboxes \cup Tests, BookRequest(c)
      PROVE  rows' \in [Ages -> Nat]
  BY <1>3, BookType, CostCapAssumption DEF BookRequest
<1>4. CASE Tick
  <2> DEFINE older(a) == CASE a = 0                 -> 0
                           [] a > 0 /\ a < Horizon  -> rows[a - 1]
                           [] a = Horizon           -> AtMost(rows[a] + rows[a - 1], MaxOld)
  <2>1. ASSUME NEW a \in Ages
        PROVE  older(a) \in Nat
    <3>0. a \in Nat /\ a <= Horizon /\ Horizon \in Nat /\ Horizon > 0
      BY CostCapAssumption DEF Ages
    <3>1. CASE a = 0
      <4>1. older(a) = 0
        BY <3>0, <3>1
      <4> HIDE DEF older
      <4> QED BY <4>1
    <3>2. CASE a > 0 /\ a < Horizon
      <4>1. a - 1 \in Ages
        BY <3>2, <3>0 DEF Ages
      <4>2. older(a) = rows[a - 1]
        BY <3>2, <3>0
      <4> HIDE DEF older
      <4> QED BY <4>1, <4>2 DEF TypeOK
    <3>3. CASE a = Horizon
      <4>1. a - 1 \in Ages
        BY <3>3, <3>0 DEF Ages
      <4>2. rows[a] \in Nat /\ rows[a - 1] \in Nat
        BY <4>1 DEF TypeOK
      <4>3. AtMost(rows[a] + rows[a - 1], MaxOld) \in Nat
        BY <4>2, CostCapAssumption DEF AtMost
      <4>4. older(a) = AtMost(rows[a] + rows[a - 1], MaxOld)
        BY <3>3, <3>0
      <4> HIDE DEF older
      <4> QED BY <4>3, <4>4
    <3> QED BY <3>0, <3>1, <3>2, <3>3
  <2>2. rows' = [a \in Ages |-> older(a)]
    BY <1>4 DEF Tick
  <2> HIDE DEF older
  <2> QED BY <2>1, <2>2
<1>5. CASE Purge
  <2>1. PICK days \in DaysChoices \ {0} :
          rows' = [a \in Ages |-> IF a > days * Day THEN 0 ELSE rows[a]]
    BY <1>5 DEF Purge
  <2> QED BY <2>1 DEF TypeOK
<1>6. CASE UNCHANGED rows
  BY <1>6 DEF TypeOK
<1> QED
  BY <1>1, <1>2, <1>3, <1>4, <1>5, <1>6
  DEF Next, EngineStep, ConsoleStep, LlmStep, BuildLlm, BuildService, TakeTicket, EndCycle,
      BuildSandbox, SandboxChecks, TestReadsSettings, TestBuildsLlm, CallAnswers,
      CallFails, CallRaises, SaveCap, CrashAndRestart

\* What a step of a client makes of its state, and that it touches no other.
LEMMA ClientType ==
  ASSUME TypeOK, Next
  PROVE  client' \in [Clients -> ClientState]
<1>1. ASSUME NEW c \in Clients, NEW state \in ClientState, Become(c, state)
      PROVE  client' \in [Clients -> ClientState]
  BY <1>1 DEF Become, TypeOK
<1>2. \A c \in Clients : client[c] \in ClientState
  BY DEF TypeOK
<1>0. CASE BuildLlm
  <2>1. PICK bills \in BillsChoices : Become(Engine, [Idle EXCEPT !.pc = "llm", !.bills = bills])
    BY <1>0 DEF BuildLlm
  <2>2. bills \in BOOLEAN
    BY CostCapAssumption
  <2>3. ASSUME NEW s \in ClientState, NEW b \in BOOLEAN
        PROVE  [s EXCEPT !.pc = "llm", !.bills = b] \in ClientState
    BY DEF ClientState, PCs
  <2> QED BY <1>1, <2>1, <2>2, <2>3, IdleState, EngineIsClient
<1>3. CASE BuildService
  <2>1. PICK price \in BillsChoices :
          Become(Engine, [client[Engine] EXCEPT !.pc = "built", !.cap = cap, !.price = price])
    BY <1>3 DEF BuildService
  <2>2. cap \in Nat /\ price \in BOOLEAN
    BY CostCapAssumption DEF TypeOK
  <2>3. ASSUME NEW s \in ClientState, NEW n \in Nat, NEW b \in BOOLEAN
        PROVE  [s EXCEPT !.pc = "built", !.cap = n, !.price = b] \in ClientState
    BY DEF ClientState, PCs
  <2> QED BY <1>1, <1>2, <2>1, <2>2, <2>3, EngineIsClient
<1>4. CASE TakeTicket
  <2>1. ASSUME NEW s \in ClientState, NEW p \in PCs, NEW n \in Nat, NEW o \in Int,
               NEW b \in BOOLEAN
        PROVE  [s EXCEPT !.pc = p, !.fails = n, !.ok = b, !.owed = o, !.lost = b]
                 \in ClientState
    BY DEF ClientState
  <2>2. "call" \in PCs /\ 0 \in Nat /\ 0 \in Int
    BY DEF PCs
  <2>3. [client[Engine] EXCEPT !.pc = "call", !.fails = 0, !.ok = FALSE, !.owed = 0,
                               !.lost = FALSE] \in ClientState
    BY <1>2, <2>1, <2>2, EngineIsClient
  <2> QED BY <1>1, <1>4, <2>3, EngineIsClient DEF TakeTicket
<1>5. CASE EndCycle
  BY <1>1, <1>5, EngineIsClient, IdleState DEF EndCycle
<1>6. CASE JournalCalls
  <2>1. CostOfRun(Engine) \in Nat
    BY CostOfRunType, EngineIsClient
  <2>2. ASSUME NEW s \in ClientState, NEW n \in Nat
        PROVE  [s EXCEPT !.pc = "built", !.owed = @ - n] \in ClientState
    <3>1. s.owed - n \in Int
      BY DEF ClientState
    <3>2. {"idle", "built", "call", "book"} \subseteq PCs
      BY DEF PCs
    <3> QED BY <3>1, <3>2 DEF ClientState
  <2> QED BY <1>1, <1>2, <1>6, <2>1, <2>2, EngineIsClient DEF JournalCalls
<1>7. CASE JournalFails
  <2>1. PICK written \in 0..client[Engine].fails :
          LET cost == IF client[Engine].price THEN written * FailCost ELSE 0 IN
          Become(Engine, [client[Engine] EXCEPT !.pc = "built", !.owed = @ - cost,
                                                !.lost = TRUE])
    BY <1>7 DEF JournalFails
  <2> DEFINE cost == IF client[Engine].price THEN written * FailCost ELSE 0
  <2>2. cost \in Nat
    <3>1. client[Engine].fails \in Nat
      BY <1>2, EngineIsClient DEF ClientState
    <3>2. written * FailCost \in Nat
      BY <3>1, CostCapAssumption
    <3> QED BY <3>2
  <2> HIDE DEF cost
  <2>3. ASSUME NEW s \in ClientState, NEW n \in Nat
        PROVE  [s EXCEPT !.pc = "built", !.owed = @ - n, !.lost = TRUE] \in ClientState
    <3>1. s.owed - n \in Int
      BY DEF ClientState
    <3>2. {"idle", "built", "call", "book"} \subseteq PCs
      BY DEF PCs
    <3> QED BY <3>1, <3>2 DEF ClientState
  <2>4. Become(Engine, [client[Engine] EXCEPT !.pc = "built", !.owed = @ - cost,
                                              !.lost = TRUE])
    BY <2>1 DEF cost
  <2> QED BY <1>1, <1>2, <2>2, <2>3, <2>4, EngineIsClient
<1>8. ASSUME NEW c \in Sandboxes \cup Tests,
             \/ BuildSandbox(c) \/ SandboxChecks(c)
             \/ TestReadsSettings(c) \/ TestBuildsLlm(c) \/ BookRequest(c)
      PROVE  client' \in [Clients -> ClientState]
  <2>0. c \in Clients
    BY EngineIsClient
  <2>1. CASE BuildSandbox(c)
    <3>1. PICK bills \in BillsChoices :
            Become(c, [Idle EXCEPT !.pc = "built", !.bills = bills, !.price = TRUE])
      BY <2>1 DEF BuildSandbox
    <3>2. bills \in BOOLEAN
      BY CostCapAssumption
    <3>3. ASSUME NEW s \in ClientState, NEW b \in BOOLEAN
          PROVE  [s EXCEPT !.pc = "built", !.bills = b, !.price = TRUE] \in ClientState
      BY DEF ClientState, PCs
    <3> QED BY <1>1, <2>0, <3>1, <3>2, <3>3, IdleState
  <2>2. CASE SandboxChecks(c)
    <3>1. [client[c] EXCEPT !.pc = "call"] \in ClientState
      BY <1>2, <2>0 DEF ClientState, PCs
    <3> QED BY <1>1, <2>0, <2>2, <3>1, IdleState DEF SandboxChecks
  <2>3. CASE TestReadsSettings(c)
    <3>1. PICK bills \in BillsChoices :
            Become(c, [Idle EXCEPT !.pc = "built", !.price = bills, !.over = IsOverCap(cap)])
      BY <2>3 DEF TestReadsSettings
    <3>2. bills \in BOOLEAN /\ IsOverCap(cap) \in BOOLEAN
      BY CostCapAssumption DEF IsOverCap
    <3>3. ASSUME NEW s \in ClientState, NEW b \in BOOLEAN, NEW o \in BOOLEAN
          PROVE  [s EXCEPT !.pc = "built", !.price = b, !.over = o] \in ClientState
      BY DEF ClientState, PCs
    <3> QED BY <1>1, <2>0, <3>1, <3>2, <3>3, IdleState
  <2>4. CASE TestBuildsLlm(c)
    <3>1. PICK bills \in BillsChoices :
            Become(c, IF client[c].over /\ client[c].price
                      THEN Idle
                      ELSE [client[c] EXCEPT !.pc = "call", !.bills = bills])
      BY <2>4 DEF TestBuildsLlm
    <3>2. bills \in BOOLEAN
      BY CostCapAssumption
    <3>3. [client[c] EXCEPT !.pc = "call", !.bills = bills] \in ClientState
      BY <1>2, <2>0, <3>2 DEF ClientState, PCs
    <3> QED BY <1>1, <2>0, <3>1, <3>3, IdleState
  <2>5. CASE BookRequest(c)
    <3> DEFINE cost == IF client[c].price THEN CallCost ELSE 0
    <3>1. cost \in Nat
      BY CostCapAssumption
    <3>2. Become(c, [client[c] EXCEPT !.pc = "idle", !.owed = @ - cost])
      BY <2>5 DEF BookRequest
    <3> HIDE DEF cost
    <3>3. ASSUME NEW s \in ClientState, NEW n \in Nat
          PROVE  [s EXCEPT !.pc = "idle", !.owed = @ - n] \in ClientState
      <4>1. s.owed - n \in Int
        BY DEF ClientState
      <4>2. {"idle", "built", "call", "book"} \subseteq PCs
        BY DEF PCs
      <4> QED BY <4>1, <4>2 DEF ClientState
    <3> QED BY <1>1, <1>2, <2>0, <3>1, <3>2, <3>3
  <2> QED BY <1>8, <2>1, <2>2, <2>3, <2>4, <2>5
<1>9. ASSUME NEW c \in Clients, CallAnswers(c) \/ CallFails(c) \/ CallRaises(c)
      PROVE  client' \in [Clients -> ClientState]
  <2>1. Charge(c, CallCost) \in Nat /\ Charge(c, FailCost) \in Nat
    BY CostCapAssumption DEF Charge
  <2>2. CASE CallAnswers(c)
    <3>1. ASSUME NEW s \in ClientState, NEW n \in Nat
          PROVE  [s EXCEPT !.pc = "book", !.ok = TRUE, !.owed = @ + n] \in ClientState
      <4>1. s.owed + n \in Int
        BY DEF ClientState
      <4>2. {"idle", "built", "call", "book"} \subseteq PCs
        BY DEF PCs
      <4> QED BY <4>1, <4>2 DEF ClientState
    <3> QED BY <1>1, <1>2, <2>1, <2>2, <3>1 DEF CallAnswers
  <2>3. CASE CallFails(c)
    <3> DEFINE next == IF client[c].fails + 1 < TriesOf(c) THEN "call"
                       ELSE IF c = Engine THEN "book" ELSE "idle"
    <3>1. next \in PCs
      BY DEF PCs
    <3>2. Become(c, [client[c] EXCEPT !.pc = next, !.fails = @ + 1,
                                      !.owed = @ + Charge(c, FailCost)])
      BY <2>3 DEF CallFails
    <3> HIDE DEF next
    <3>3. ASSUME NEW s \in ClientState, NEW p \in PCs, NEW n \in Nat
          PROVE  [s EXCEPT !.pc = p, !.fails = @ + 1, !.owed = @ + n] \in ClientState
      <4>1. s.owed + n \in Int /\ s.fails + 1 \in Nat
        BY DEF ClientState
      <4>2. {"idle", "built", "call", "book"} \subseteq PCs
        BY DEF PCs
      <4> QED BY <4>1, <4>2 DEF ClientState
    <3> QED BY <1>1, <1>2, <2>1, <3>1, <3>2, <3>3
  <2>4. CASE CallRaises(c)
    <3>1. ASSUME NEW s \in ClientState, NEW p \in PCs, NEW n \in Nat
          PROVE  [s EXCEPT !.pc = p, !.owed = @ + n, !.lost = TRUE] \in ClientState
      <4>1. s.owed + n \in Int
        BY DEF ClientState
      <4>2. {"idle", "built", "call", "book"} \subseteq PCs
        BY DEF PCs
      <4> QED BY <4>1, <4>2 DEF ClientState
    <3>2. (IF c = Engine THEN "built" ELSE "idle") \in PCs
      BY DEF PCs
    <3> QED BY <1>1, <1>2, <2>1, <2>4, <3>1, <3>2 DEF CallRaises
  <2> QED BY <1>9, <2>2, <2>3, <2>4
<1>10. CASE CrashAndRestart
  BY <1>10, IdleState DEF CrashAndRestart
<1>11. CASE UNCHANGED client
  BY <1>11 DEF TypeOK
<1> QED
  BY <1>0, <1>3, <1>4, <1>5, <1>6, <1>7, <1>8, <1>9, <1>10, <1>11
  DEF Next, EngineStep, ConsoleStep, LlmStep, Tick, SaveCap, Purge

\* The tries of a client are not exceeded.
LEMMA TriesStep ==
  ASSUME TypeOK, Next, NEW c \in Clients
  PROVE  TriesHeld(c)'
<1> USE EngineIsClient
<1>1. /\ client[c] \in ClientState
      /\ client \in [Clients -> ClientState]
      /\ TriesHeld(c)
  BY DEF TypeOK
<1>2. TriesOf(c) \in Nat /\ TriesOf(c) > 0
  BY CostCapAssumption DEF TriesOf
<1>3. TriesOf(c)' = TriesOf(c)
  BY DEF TriesOf
<1>4. CASE client'[c] = client[c]
  BY <1>1, <1>3, <1>4 DEF TriesHeld
<1>5. CASE client'[c] = Idle
  BY <1>2, <1>3, <1>5 DEF TriesHeld, Idle
<1>6. CASE /\ client'[c].fails = 0
           /\ client'[c].pc \in {"llm", "built", "call"}
  BY <1>2, <1>3, <1>6 DEF TriesHeld
<1>7. CASE /\ client'[c].fails = client[c].fails
           /\ client'[c].pc # "call"
           /\ client'[c].pc = "built" => c = Engine
  BY <1>1, <1>3, <1>7 DEF TriesHeld
<1>8. ASSUME CallFails(c)
      PROVE  TriesHeld(c)'
  <2>1. client[c].pc = "call" /\ client[c].fails < TriesOf(c) /\ client[c].fails \in Nat
    BY <1>1, <1>8 DEF CallFails, TriesHeld, ClientState
  <2>2. /\ client'[c].fails = client[c].fails + 1
        /\ client'[c].pc = IF client[c].fails + 1 < TriesOf(c) THEN "call"
                           ELSE IF c = Engine THEN "book" ELSE "idle"
    BY <1>1, <1>8 DEF CallFails, Become, ClientState
  <2> QED BY <2>1, <2>2, <1>2, <1>3 DEF TriesHeld
<1>9. ASSUME NEW d \in Clients, NEW state, Become(d, state), d # c
      PROVE  client'[c] = client[c]
  BY <1>1, <1>9 DEF Become
<1>10. ASSUME NEW state, Become(c, state)
       PROVE  client'[c] = state
  BY <1>1, <1>10 DEF Become
<1>11. CASE EngineStep
  <2>1. CASE c # Engine
    BY <1>4, <1>9, <1>11, <2>1
    DEF EngineStep, BuildLlm, BuildService, TakeTicket, EndCycle, JournalCalls, JournalFails
  <2>7. CASE c = Engine /\ BuildLlm
    <3>1. PICK bills \in BillsChoices :
            client'[c] = [Idle EXCEPT !.pc = "llm", !.bills = bills]
      BY <1>10, <2>7 DEF BuildLlm
    <3> QED BY <3>1, <1>6 DEF Idle
  <2>2. CASE c = Engine /\ BuildService
    <3>1. PICK price \in BillsChoices :
            client'[c] = [client[c] EXCEPT !.pc = "built", !.cap = cap, !.price = price]
      BY <1>10, <2>2 DEF BuildService
    <3> QED BY <3>1, <2>2, <1>1, <1>7 DEF ClientState
  <2>3. CASE c = Engine /\ TakeTicket
    <3>1. client'[c] = [client[c] EXCEPT !.pc = "call", !.fails = 0, !.ok = FALSE,
                                         !.owed = 0, !.lost = FALSE]
      BY <1>10, <2>3 DEF TakeTicket
    <3> QED BY <3>1, <1>1, <1>6 DEF ClientState
  <2>4. CASE c = Engine /\ EndCycle
    BY <1>5, <1>10, <2>4 DEF EndCycle
  <2>5. CASE c = Engine /\ JournalCalls
    <3>1. client'[c] = [client[c] EXCEPT !.pc = "built", !.owed = @ - CostOfRun(Engine)]
      BY <1>10, <2>5 DEF JournalCalls
    <3> QED BY <3>1, <2>5, <1>1, <1>7 DEF ClientState
  <2>6. CASE c = Engine /\ JournalFails
    <3>1. PICK cost :
            client'[c] = [client[c] EXCEPT !.pc = "built", !.owed = @ - cost, !.lost = TRUE]
      BY <1>10, <2>6 DEF JournalFails
    <3> QED BY <3>1, <2>6, <1>1, <1>7 DEF ClientState
  <2> QED BY <1>11, <2>1, <2>2, <2>3, <2>4, <2>5, <2>6, <2>7 DEF EngineStep
<1>12. ASSUME NEW d \in Sandboxes \cup Tests,
              \/ BuildSandbox(d) \/ SandboxChecks(d)
              \/ TestReadsSettings(d) \/ TestBuildsLlm(d) \/ BookRequest(d)
       PROVE  TriesHeld(c)'
  <2>0. d \in Clients /\ d # Engine
    BY CostCapAssumption
  <2>1. CASE c # d
    BY <1>4, <1>9, <1>12, <2>0, <2>1
    DEF BuildSandbox, SandboxChecks, TestReadsSettings, TestBuildsLlm, BookRequest
  <2>2. CASE c = d /\ (BuildSandbox(d) \/ TestReadsSettings(d))
    <3>1. PICK b, p, o :
            \/ client'[c] = [Idle EXCEPT !.pc = "built", !.bills = b, !.price = TRUE]
            \/ client'[c] = [Idle EXCEPT !.pc = "built", !.price = p, !.over = o]
      BY <1>10, <2>2 DEF BuildSandbox, TestReadsSettings
    <3> QED BY <3>1, <1>6 DEF Idle
  <2>3. CASE c = d /\ (SandboxChecks(d) \/ TestBuildsLlm(d))
    <3>1. client[c].pc = "built" /\ client[c].fails = 0
      BY <1>1, <2>0, <2>3 DEF SandboxChecks, TestBuildsLlm, TriesHeld
    <3>2. PICK b :
            \/ client'[c] = Idle
            \/ client'[c] = [client[c] EXCEPT !.pc = "call"]
            \/ client'[c] = [client[c] EXCEPT !.pc = "call", !.bills = b]
      BY <1>10, <2>3 DEF SandboxChecks, TestBuildsLlm
    <3> QED BY <3>1, <3>2, <1>1, <1>5, <1>6 DEF ClientState
  <2>4. CASE c = d /\ BookRequest(d)
    <3>1. PICK cost : client'[c] = [client[c] EXCEPT !.pc = "idle", !.owed = @ - cost]
      BY <1>10, <2>4 DEF BookRequest
    <3> QED BY <3>1, <1>1, <1>7 DEF ClientState
  <2> QED BY <1>12, <2>1, <2>2, <2>3, <2>4
<1>13. ASSUME NEW d \in Clients, CallAnswers(d) \/ CallFails(d) \/ CallRaises(d)
       PROVE  TriesHeld(c)'
  <2>1. CASE c # d
    BY <1>4, <1>9, <1>13, <2>1 DEF CallAnswers, CallFails, CallRaises
  <2>2. CASE c = d /\ CallAnswers(d)
    <3>1. client'[c] = [client[c] EXCEPT !.pc = "book", !.ok = TRUE,
                                         !.owed = @ + Charge(c, CallCost)]
      BY <1>10, <2>2 DEF CallAnswers
    <3> QED BY <3>1, <1>1, <1>7 DEF ClientState
  <2>3. CASE c = d /\ CallFails(d)
    BY <1>8, <2>3
  <2>4. CASE c = d /\ CallRaises(d)
    <3>1. client'[c] = [client[c] EXCEPT !.pc = IF c = Engine THEN "built" ELSE "idle",
                                         !.owed = @ + Charge(c, FailCost), !.lost = TRUE]
      BY <1>10, <2>4 DEF CallRaises
    <3> QED BY <3>1, <1>1, <1>7 DEF ClientState
  <2> QED BY <1>13, <2>1, <2>2, <2>3, <2>4
<1>14. CASE CrashAndRestart
  BY <1>5, <1>14 DEF CrashAndRestart
<1>15. CASE UNCHANGED client
  BY <1>4, <1>15
<1> QED
  BY <1>11, <1>12, <1>13, <1>14, <1>15
  DEF Next, ConsoleStep, LlmStep, Tick, SaveCap, Purge

\* Whatever the clients, the admin, the clock and the purges do, the table and the
\* locals of every request keep their types, and no client makes more calls than its
\* tries.
THEOREM TypeCorrect == Spec => []TypeOK
<1>1. Init => TypeOK
  <2> SUFFICES ASSUME Init PROVE TypeOK
    OBVIOUS
  <2>1. rows \in [Ages -> Nat] /\ cap \in CapChoices /\ caps \subseteq Nat
    BY CostCapAssumption DEF Init
  <2>2. client \in [Clients -> ClientState]
    BY IdleState DEF Init
  <2>3. ASSUME NEW c \in Clients
        PROVE  TriesHeld(c)
    <3>1. client[c] = Idle
      BY DEF Init
    <3>2. TriesOf(c) \in Nat /\ TriesOf(c) > 0
      BY CostCapAssumption DEF TriesOf
    <3> QED BY <3>1, <3>2 DEF TriesHeld, Idle
  <2> QED BY <2>1, <2>2, <2>3 DEF TypeOK
<1>2. TypeOK /\ [Next]_vars => TypeOK'
  <2> SUFFICES ASSUME TypeOK, [Next]_vars PROVE TypeOK'
    OBVIOUS
  <2>1. CASE UNCHANGED vars
    BY <2>1 DEF vars, TypeOK, TriesHeld, TriesOf
  <2>2. CASE Next
    <3>1. cap' \in CapChoices /\ caps' \subseteq Nat
      BY <2>2, CostCapAssumption
      DEF TypeOK, Next, EngineStep, ConsoleStep, LlmStep, BuildLlm, BuildService, TakeTicket,
          EndCycle, JournalCalls, JournalFails, BuildSandbox, SandboxChecks, TestReadsSettings,
          TestBuildsLlm, BookRequest, CallAnswers, CallFails, CallRaises, Tick, SaveCap,
          Purge, CrashAndRestart
    <3> QED BY <2>2, <3>1, RowsType, ClientType, TriesStep DEF TypeOK
  <2> QED BY <2>1, <2>2
<1> QED BY <1>1, <1>2, PTL DEF Spec

-----------------------------------------------------------------------------

\* A step of the other clients, of the clock, of the admin or of a purge leaves the
\* engine's state alone.
LEMMA EngineAlone ==
  ASSUME TypeOK, Next, ~EngineStep, ~CallAnswers(Engine), ~CallFails(Engine),
         ~CallRaises(Engine)
  PROVE  client'[Engine] \in {client[Engine], Idle}
<1> USE EngineIsClient
<1>1. ASSUME NEW d \in Clients, NEW state, Become(d, state), d # Engine
      PROVE  client'[Engine] = client[Engine]
  BY <1>1 DEF Become, TypeOK
<1>2. ASSUME NEW d \in Sandboxes \cup Tests
      PROVE  d \in Clients /\ d # Engine
  BY CostCapAssumption
<1>3. CASE ConsoleStep
  BY <1>1, <1>2, <1>3
  DEF ConsoleStep, BuildSandbox, SandboxChecks, TestReadsSettings, TestBuildsLlm, BookRequest
<1>4. CASE LlmStep
  BY <1>1, <1>4 DEF LlmStep, CallAnswers, CallFails, CallRaises
<1>5. CASE Tick \/ SaveCap \/ Purge
  BY <1>5 DEF Tick, SaveCap, Purge
<1>6. CASE CrashAndRestart
  BY <1>6 DEF CrashAndRestart
<1> QED BY <1>3, <1>4, <1>5, <1>6 DEF Next

\* EngineTrace, on the state of the engine only.
Trace(e) ==
  /\ e.pc = "llm" => e.owed = 0
  /\ e.pc \in {"call", "book"} => ~e.lost
  /\ e.pc = "call" => ~e.ok
  /\ e.pc \in {"call", "book"} =>
       e.owed = IF e.bills THEN e.fails * FailCost + (IF e.ok THEN CallCost ELSE 0) ELSE 0
  /\ e.pc \notin {"call", "book"} /\ ~e.lost =>
       /\ e.owed > 0 => e.bills /\ ~e.price
       /\ e.owed < 0 => e.price /\ ~e.bills

LEMMA TraceIsEngineTrace == EngineTrace <=> Trace(client[Engine])
BY DEF EngineTrace, EngineBooksItsCalls, Trace, Charge, CallsOfRun

LEMMA IdleTrace == Trace(Idle)
BY DEF Trace, Idle

\* The engine's books stay right whatever step is taken.
LEMMA TraceStep ==
  ASSUME TypeOK, Next, EngineTrace
  PROVE  EngineTrace'
<1> DEFINE e == client[Engine]
<1> USE EngineIsClient
<1>0. SUFFICES Trace(client'[Engine])
  BY DEF EngineTrace, EngineBooksItsCalls, Trace, Charge, CallsOfRun
<1>1. Trace(e) /\ e \in ClientState /\ client \in [Clients -> ClientState]
  BY TraceIsEngineTrace DEF TypeOK
<1>2. ASSUME NEW state, Become(Engine, state)
      PROVE  client'[Engine] = state
  BY <1>1, <1>2 DEF Become
<1> HIDE DEF e
<1>11. CASE BuildLlm
  <2>1. PICK bills \in BillsChoices :
          client'[Engine] = [Idle EXCEPT !.pc = "llm", !.bills = bills]
    BY <1>2, <1>11 DEF BuildLlm
  <2> QED BY <2>1 DEF Trace, Idle
<1>3. CASE BuildService
  <2>1. PICK price \in BillsChoices :
          client'[Engine] = [e EXCEPT !.pc = "built", !.cap = cap, !.price = price]
    BY <1>2, <1>3 DEF BuildService, e
  <2>2. e.owed = 0
    BY <1>1, <1>3 DEF BuildService, Trace, e
  <2> QED BY <2>1, <2>2, <1>1 DEF Trace, ClientState
<1>4. CASE TakeTicket
  <2>1. client'[Engine] = [e EXCEPT !.pc = "call", !.fails = 0, !.ok = FALSE,
                                    !.owed = 0, !.lost = FALSE]
    BY <1>2, <1>4 DEF TakeTicket, e
  <2>2. 0 * FailCost = 0
    BY CostCapAssumption
  <2> QED BY <2>1, <2>2, <1>1 DEF Trace, ClientState
<1>5. CASE EndCycle
  BY <1>2, <1>5, IdleTrace DEF EndCycle
<1>6. CASE JournalCalls
  <2>1. client'[Engine] = [e EXCEPT !.pc = "built", !.owed = @ - CostOfRun(Engine)]
    BY <1>2, <1>6 DEF JournalCalls, e
  <2> DEFINE calls == CallsOfRun(Engine)
  <2>2. calls \in Nat
    <3>1. e.fails * FailCost \in Nat
      BY <1>1, CostCapAssumption DEF ClientState
    <3> QED BY <3>1, CostCapAssumption DEF CallsOfRun, e
  <2>3. e.owed = IF e.bills THEN calls ELSE 0
    BY <1>1, <1>6 DEF Trace, JournalCalls, CallsOfRun, e
  <2>4. CostOfRun(Engine) = IF e.price THEN calls ELSE 0
    BY DEF CostOfRun, e
  <2> HIDE DEF calls
  <2> QED BY <2>1, <2>2, <2>3, <2>4, <1>1 DEF Trace, ClientState
<1>7. CASE JournalFails
  <2>1. PICK cost : client'[Engine] = [e EXCEPT !.pc = "built", !.owed = @ - cost,
                                                !.lost = TRUE]
    BY <1>2, <1>7 DEF JournalFails, e
  <2> QED BY <2>1, <1>1 DEF Trace, ClientState
<1>8. CASE CallAnswers(Engine)
  <2>1. e.pc = "call" /\ client'[Engine] = [e EXCEPT !.pc = "book", !.ok = TRUE,
                                    !.owed = @ + Charge(Engine, CallCost)]
    BY <1>2, <1>8 DEF CallAnswers, e
  <2>2. Charge(Engine, CallCost) = IF e.bills THEN CallCost ELSE 0
    BY DEF Charge, e
  <2>3. e.fails * FailCost \in Nat
    BY <1>1, CostCapAssumption DEF ClientState
  <2> QED BY <2>1, <2>2, <2>3, <1>1, CostCapAssumption DEF Trace, ClientState
<1>9. CASE CallFails(Engine)
  <2>1. /\ e.pc = "call"
        /\ \E p \in {"call", "book"} :
             client'[Engine] = [e EXCEPT !.pc = p, !.fails = @ + 1,
                                         !.owed = @ + Charge(Engine, FailCost)]
    BY <1>2, <1>9 DEF CallFails, e
  <2>2. Charge(Engine, FailCost) = IF e.bills THEN FailCost ELSE 0
    BY DEF Charge, e
  <2>3. /\ e.fails \in Nat /\ e.fails * FailCost \in Nat
        /\ (e.fails + 1) * FailCost = e.fails * FailCost + FailCost
    BY <1>1, CostCapAssumption DEF ClientState
  <2> QED BY <2>1, <2>2, <2>3, <1>1, CostCapAssumption DEF Trace, ClientState
<1>10. CASE CallRaises(Engine)
  <2>1. PICK owed : client'[Engine] = [e EXCEPT !.pc = "built", !.owed = owed, !.lost = TRUE]
    BY <1>2, <1>10 DEF CallRaises, e
  <2> QED BY <2>1, <1>1 DEF Trace, ClientState
<1> QED
  BY <1>1, <1>3, <1>4, <1>5, <1>6, <1>7, <1>8, <1>9, <1>10, <1>11, EngineAlone, IdleTrace
  DEF EngineStep, e

\* What the engine owes is what its trace says, at any time.
LEMMA TraceHolds == Spec => []EngineTrace
<1>1. Init => EngineTrace
  BY EngineIsClient, IdleTrace, TraceIsEngineTrace DEF Init
<1>2. TypeOK /\ EngineTrace /\ [Next]_vars => EngineTrace'
  <2>1. EngineTrace /\ UNCHANGED vars => EngineTrace'
    BY DEF vars, EngineTrace, EngineBooksItsCalls, Charge, CallsOfRun
  <2> QED BY <2>1, TraceStep
<1> QED BY <1>1, <1>2, TypeCorrect, PTL DEF Spec

\* The engine never leaves a ticket without writing in llm_calls every call it made
\* for it, failed ones included, unless the database or an unexpected exception got
\* in the way; a sum is missing, or there unpaid, only when the provider was changed
\* between the two sessions the service was built with.
THEOREM EngineBooks == Spec => []EngineBooksItsCalls
<1>1. EngineTrace => EngineBooksItsCalls
  BY DEF EngineTrace
<1> QED BY <1>1, TraceHolds, PTL

\* The shortest retention, one day, ends exactly where the window of 24 hours does.
LEMMA PurgeSum ==
  ASSUME TypeOK, Purge
  PROVE  SpentLast24h' = SpentLast24h
<1>1. PICK days \in DaysChoices \ {0} :
        rows' = [a \in Ages |-> IF a > days * Day THEN 0 ELSE rows[a]]
  BY DEF Purge
<1>2. days \in Nat /\ days >= 1
  BY CostCapAssumption
<1>3. days * Day \in Nat /\ days * Day >= Day
  BY <1>2, CostCapAssumption
<1>4. ASSUME NEW a \in 0..Day
      PROVE  rows'[a] = rows[a]
  <2>1. a \in Ages
    BY AgesAreNat
  <2>2. ~(a > days * Day)
    BY <1>3, CostCapAssumption
  <2> QED BY <1>1, <2>1, <2>2
<1>5. [a \in 0..Day |-> rows'[a]] = [a \in 0..Day |-> rows[a]]
  BY <1>4
<1> QED BY <1>5 DEF SpentLast24h

\* A purge of the rows older than a number of days deletes nothing the cap counts.
THEOREM PurgeKeepsTheSum == Spec => PurgeKeepsSpend
<1>1. TypeOK /\ [Next]_vars => [Purge => SpentLast24h' = SpentLast24h]_vars
  BY PurgeSum
<1> QED BY <1>1, TypeCorrect, PTL DEF Spec, PurgeKeepsSpend

-----------------------------------------------------------------------------
(* Sums.  The library states its induction theorems for an operator; here    *)
(* they are replaced by the choice of a least counterexample.                *)

\* The least element of a set of numbers, on which the inductions below rest.
LEMMA Least ==
  ASSUME NEW T \in SUBSET Nat, T # {}
  PROVE  \E n \in T : \A m \in T : n <= m
<1>1. \E n \in T : \A m \in T : ~(<<m, n>> \in OpToRel(<, Nat))
  BY NatLessThanWellFounded, WFMin
<1>2. PICK n \in T : \A m \in T : ~(<<m, n>> \in OpToRel(<, Nat))
  BY <1>1
<1>3. ASSUME NEW m \in T PROVE n <= m
  <2>1. n \in Nat /\ m \in Nat
    OBVIOUS
  <2>2. ~(<<m, n>> \in {ss \in Nat \X Nat : ss[1] < ss[2]})
    BY <1>2 DEF OpToRel
  <2> QED
    BY <2>1, <2>2
<1> QED
  BY <1>3

\* Sums over the subsets of a set are what adding up in the order of `CHOOSE` gives.
Chosen(s) == CHOOSE x \in s : TRUE

AddsUp(f, S, upto, g) ==
  /\ g \in [upto -> Int]
  /\ \A s \in upto : g[s] = IF s = {} THEN 0 ELSE f[Chosen(s)] + g[s \ {Chosen(s)}]

LEMMA Step ==
  ASSUME NEW S, IsFiniteSet(S), NEW s \in SUBSET S, s # {}, NEW x \in s
  PROVE  /\ IsFiniteSet(s) /\ Cardinality(s) \in Nat /\ Chosen(s) \in s
         /\ s \ {x} \in SUBSET S /\ Cardinality(s \ {x}) \in Nat
         /\ Cardinality(s \ {x}) = Cardinality(s) - 1
<1>1. IsFiniteSet(s) /\ Chosen(s) \in s
  BY FS_Subset DEF Chosen
<1> QED
  BY <1>1, FS_RemoveElement, FS_CardinalityType

UpTo(S, n) == {s \in SUBSET S : Cardinality(s) <= n}

LEMMA SumsExist ==
  ASSUME NEW S, IsFiniteSet(S), NEW f \in [S -> Int]
  PROVE  \E g : AddsUp(f, S, SUBSET S, g)
<1> DEFINE Bad == {n \in Nat : ~ \E g : AddsUp(f, S, UpTo(S, n), g)}
<1>1. 0 \notin Bad
  <2> DEFINE g == [s \in UpTo(S, 0) |-> 0]
  <2>1. ASSUME NEW s \in UpTo(S, 0) PROVE s = {}
    BY FS_Subset, FS_EmptySet, FS_CardinalityType DEF UpTo
  <2>2. AddsUp(f, S, UpTo(S, 0), g)
    BY <2>1 DEF AddsUp
  <2> QED
    BY <2>2
<1>2. ASSUME NEW n \in Nat \ {0}, NEW g, AddsUp(f, S, UpTo(S, n - 1), g)
      PROVE  \E h : AddsUp(f, S, UpTo(S, n), h)
  <2> DEFINE h == [s \in UpTo(S, n) |-> IF s = {} THEN 0 ELSE f[Chosen(s)] + g[s \ {Chosen(s)}]]
  <2>1. ASSUME NEW s \in UpTo(S, n), s # {}
        PROVE  Chosen(s) \in S /\ s \ {Chosen(s)} \in UpTo(S, n - 1)
    <3>1. s \in SUBSET S /\ Cardinality(s) <= n /\ Chosen(s) \in s
      BY <2>1 DEF UpTo, Chosen
    <3>2. s \ {Chosen(s)} \in SUBSET S /\ Cardinality(s \ {Chosen(s)}) <= n - 1
      BY <2>1, <3>1, Step
    <3> QED
      BY <3>1, <3>2 DEF UpTo
  <2>2. h \in [UpTo(S, n) -> Int]
    BY <1>2, <2>1 DEF AddsUp
  <2>3. ASSUME NEW s \in UpTo(S, n) PROVE s \in UpTo(S, n - 1) => g[s] = h[s]
    BY <1>2 DEF AddsUp
  <2>4. ASSUME NEW s \in UpTo(S, n), s # {} PROVE s \ {Chosen(s)} \in UpTo(S, n)
    <3>1. s \ {Chosen(s)} \in SUBSET S /\ Cardinality(s \ {Chosen(s)}) <= n - 1
      BY <2>1, <2>4 DEF UpTo
    <3>2. Cardinality(s \ {Chosen(s)}) \in Nat
      BY <3>1, FS_Subset, FS_CardinalityType
    <3> QED
      BY <3>1, <3>2 DEF UpTo
  <2>5. AddsUp(f, S, UpTo(S, n), h)
    BY <2>1, <2>2, <2>3, <2>4 DEF AddsUp
  <2> QED
    BY <2>5
<1>3. Bad = {}
  <2> SUFFICES ASSUME Bad # {} PROVE FALSE
    OBVIOUS
  <2>1. PICK n \in Bad : \A m \in Bad : n <= m
    BY Least
  <2>2. n \in Nat \ {0} /\ n - 1 \in Nat /\ n - 1 \notin Bad
    BY <1>1, <2>1
  <2> QED
    BY <1>2, <2>1, <2>2
<1>4. Cardinality(S) \in Nat /\ UpTo(S, Cardinality(S)) = SUBSET S
  BY FS_CardinalityType, FS_Subset DEF UpTo
<1>5. Cardinality(S) \notin Bad
  BY <1>3
<1> QED
  BY <1>4, <1>5

\* SumFunction adds up.
LEMMA SumsAddUp ==
  ASSUME NEW S, IsFiniteSet(S), NEW f \in [S -> Int]
  PROVE  \E g : AddsUp(f, S, SUBSET S, g) /\ SumFunction(f) = g[S]
<1> DEFINE Rec(g) == [s \in SUBSET S |-> IF s = {} THEN 0
                                         ELSE LET x == CHOOSE x \in s : TRUE IN f[x] + g[s \ {x}]]
           iter == CHOOSE g : g = Rec(g)
<1>1. SumFunction(f) = iter[S]
  BY DEF SumFunction, SumFunctionOnSet, FoldFunctionOnSet, MapThenFoldSet
<1>2. \E g : g = Rec(g)
  <2>1. PICK g : AddsUp(f, S, SUBSET S, g)
    BY SumsExist
  <2>2. g = Rec(g)
    BY <2>1 DEF AddsUp, Chosen
  <2> QED
    BY <2>2
<1>3. iter = Rec(iter)
  BY <1>2
<1> HIDE DEF iter
<1>4. \A s \in SUBSET S : iter[s] = IF s = {} THEN 0 ELSE f[Chosen(s)] + iter[s \ {Chosen(s)}]
  BY <1>3 DEF Chosen
<1>5. PICK g : AddsUp(f, S, SUBSET S, g)
  BY SumsExist
<1> DEFINE Bad == {n \in Nat : \E s \in SUBSET S : Cardinality(s) = n /\ iter[s] # g[s]}
<1>6. Bad = {}
  <2> SUFFICES ASSUME Bad # {} PROVE FALSE
    OBVIOUS
  <2>1. PICK n \in Bad : \A m \in Bad : n <= m
    BY Least
  <2>2. PICK s \in SUBSET S : Cardinality(s) = n /\ iter[s] # g[s]
    BY <2>1
  <2>3. s # {}
    BY <1>4, <1>5, <2>2 DEF AddsUp
  <2>4. /\ s \ {Chosen(s)} \in SUBSET S /\ Cardinality(s \ {Chosen(s)}) \in Nat
        /\ Cardinality(s \ {Chosen(s)}) < n
    <3>1. Chosen(s) \in s
      BY <2>3 DEF Chosen
    <3> QED
      BY <2>2, <2>3, <3>1, Step
  <2>5. iter[s \ {Chosen(s)}] = g[s \ {Chosen(s)}]
    BY <2>1, <2>4
  <2> QED
    BY <1>4, <1>5, <2>2, <2>3, <2>5 DEF AddsUp
<1>7. iter[S] = g[S]
  <2>1. Cardinality(S) \in Nat
    BY FS_CardinalityType
  <2> QED
    BY <1>6, <2>1
<1> QED
  BY <1>1, <1>5, <1>7

\* The order does not matter.
Sums(f, S, g) ==
  /\ g \in [SUBSET S -> Int]
  /\ g[{}] = 0
  /\ \A s \in SUBSET S : \A x \in s : g[s] = f[x] + g[s \ {x}]

LEMMA AnyOrder ==
  ASSUME NEW S, IsFiniteSet(S), NEW f \in [S -> Int], NEW g, AddsUp(f, S, SUBSET S, g)
  PROVE  Sums(f, S, g)
<1> DEFINE Bad == {n \in Nat : \E s \in SUBSET S : \E x \in s : Cardinality(s) = n /\ g[s] # f[x] + g[s \ {x}]}
<1>1. Bad = {}
  <2> SUFFICES ASSUME Bad # {} PROVE FALSE
    OBVIOUS
  <2>1. PICK n \in Bad : \A m \in Bad : n <= m
    BY Least
  <2>2. PICK s \in SUBSET S : \E x \in s : Cardinality(s) = n /\ g[s] # f[x] + g[s \ {x}]
    BY <2>1
  <2>3. PICK x \in s : Cardinality(s) = n /\ g[s] # f[x] + g[s \ {x}]
    BY <2>2
  <2> DEFINE c == Chosen(s)
  <2>4. c \in s
    BY <2>3 DEF Chosen
  <2>5. g[s] = f[c] + g[s \ {c}]
    BY <2>3 DEF AddsUp
  <2> HIDE DEF c
  <2>6. x # c
    BY <2>3, <2>5
  <2>7. ASSUME NEW y \in s, NEW z \in s \ {y}
        PROVE  g[s \ {y}] = f[z] + g[(s \ {y}) \ {z}]
    <3>1. s \ {y} \in SUBSET S /\ Cardinality(s \ {y}) \in Nat /\ Cardinality(s \ {y}) < n
      BY <2>3, Step
    <3>2. n \in Nat /\ \A m \in Bad : n <= m
      BY <2>1
    <3>3. Cardinality(s \ {y}) \notin Bad
      <4> HIDE DEF Bad
      <4> QED
        BY <3>1, <3>2
    <3> QED
      BY <3>1, <3>3
  <2>8. g[s \ {c}] = f[x] + g[(s \ {c}) \ {x}] /\ g[s \ {x}] = f[c] + g[(s \ {x}) \ {c}]
    BY <2>4, <2>6, <2>7
  <2>9. (s \ {c}) \ {x} = (s \ {x}) \ {c} /\ (s \ {c}) \ {x} \in SUBSET S
    OBVIOUS
  <2>10. f[x] \in Int /\ f[c] \in Int /\ g[(s \ {c}) \ {x}] \in Int
    <3>1. x \in S /\ c \in S
      BY <2>4
    <3> QED
      BY <2>9, <3>1 DEF AddsUp
  <2>11. g[s] = f[c] + (f[x] + g[(s \ {c}) \ {x}])
    BY <2>5, <2>8
  <2>12. g[s \ {x}] = f[c] + g[(s \ {c}) \ {x}]
    BY <2>8, <2>9
  <2>13. g[s] = f[x] + g[s \ {x}]
    BY <2>10, <2>11, <2>12
  <2> QED
    BY <2>3, <2>13
<1>2. \A s \in SUBSET S : \A x \in s : g[s] = f[x] + g[s \ {x}]
  BY <1>1, FS_Subset, FS_CardinalityType
<1> QED
  BY <1>2 DEF AddsUp, Sums

LEMMA SumOf ==
  ASSUME NEW S, IsFiniteSet(S), NEW f \in [S -> Int]
  PROVE  \E g : Sums(f, S, g) /\ SumFunction(f) = g[S]
BY SumsAddUp, AnyOrder

\* Sums of numbers that are not negative only grow.
LEMMA SumGrows ==
  ASSUME NEW S, IsFiniteSet(S), NEW f \in [S -> Nat], NEW g, Sums(f, S, g),
         NEW t \in SUBSET S, NEW s \in SUBSET t
  PROVE  g[s] <= g[t] /\ g[t] \in Nat
<1>1. ASSUME NEW r \in SUBSET t PROVE g[r] <= g[t]
  <2> DEFINE Bad == {n \in Nat : \E u \in SUBSET t : r \subseteq u /\ Cardinality(u) = n /\ ~(g[r] <= g[u])}
  <2>1. Bad = {}
    <3> SUFFICES ASSUME Bad # {} PROVE FALSE
      OBVIOUS
    <3>1. PICK n \in Bad : \A m \in Bad : n <= m
      BY Least
    <3>2. PICK u \in SUBSET t : r \subseteq u /\ Cardinality(u) = n /\ ~(g[r] <= g[u])
      BY <3>1
    <3>3. g[r] \in Int /\ g[u] \in Int
      BY DEF Sums
    <3>4. PICK x \in u : x \notin r
      BY <3>2, <3>3
    <3>5. u \ {x} \in SUBSET t /\ Cardinality(u \ {x}) \in Nat /\ Cardinality(u \ {x}) < n
      BY <3>2, <3>4, Step
    <3>6. g[r] <= g[u \ {x}]
      BY <3>1, <3>2, <3>4, <3>5
    <3>7. g[u] = f[x] + g[u \ {x}] /\ g[u \ {x}] \in Int /\ f[x] \in Nat
      BY <3>4, <3>5 DEF Sums
    <3> QED
      BY <3>2, <3>3, <3>6, <3>7
  <2>2. IsFiniteSet(t) /\ Cardinality(t) \in Nat
    BY FS_Subset, FS_CardinalityType
  <2> QED
    BY <2>1, <2>2
<1>2. g[{}] <= g[t] /\ g[{}] = 0 /\ g[t] \in Int
  BY <1>1 DEF Sums
<1> QED
  BY <1>1, <1>2

\* Sums over a part on which two functions agree.
LEMMA SumAgrees ==
  ASSUME NEW S, IsFiniteSet(S), NEW f \in [S -> Int], NEW g, Sums(f, S, g),
         NEW R, IsFiniteSet(R), NEW e \in [R -> Int], NEW h, Sums(e, R, h),
         NEW t \in SUBSET (S \cap R), \A x \in t : f[x] = e[x]
  PROVE  g[t] = h[t]
<1> DEFINE Bad == {n \in Nat : \E u \in SUBSET t : Cardinality(u) = n /\ g[u] # h[u]}
<1>1. Bad = {}
  <2> SUFFICES ASSUME Bad # {} PROVE FALSE
    OBVIOUS
  <2>1. PICK n \in Bad : \A m \in Bad : n <= m
    BY Least
  <2>2. PICK u \in SUBSET t : Cardinality(u) = n /\ g[u] # h[u]
    BY <2>1
  <2>3. PICK x \in u : TRUE
    BY <2>2 DEF Sums
  <2>4. u \ {x} \in SUBSET t /\ Cardinality(u \ {x}) \in Nat /\ Cardinality(u \ {x}) < n
    BY <2>2, <2>3, Step
  <2>5. g[u \ {x}] = h[u \ {x}]
    BY <2>1, <2>4
  <2>6. g[u] = f[x] + g[u \ {x}] /\ h[u] = e[x] + h[u \ {x}]
    BY <2>3 DEF Sums
  <2> QED
    BY <2>2, <2>5, <2>6
<1>2. IsFiniteSet(t) /\ Cardinality(t) \in Nat
  BY FS_Subset, FS_CardinalityType
<1> QED
  BY <1>1, <1>2

\* Changing one term changes the sum by as much.
LEMMA SumChanges ==
  ASSUME NEW S, IsFiniteSet(S), NEW f \in [S -> Int], NEW e \in [S -> Int], NEW x \in S,
         \A y \in S \ {x} : e[y] = f[y]
  PROVE  SumFunction(e) = SumFunction(f) - f[x] + e[x]
<1>1. PICK g : Sums(f, S, g) /\ SumFunction(f) = g[S]
  BY SumOf
<1>2. PICK h : Sums(e, S, h) /\ SumFunction(e) = h[S]
  BY SumOf
<1>3. g[S \ {x}] = h[S \ {x}]
  BY <1>1, <1>2, SumAgrees
<1>4. g[S] = f[x] + g[S \ {x}] /\ h[S] = e[x] + h[S \ {x}]
  BY <1>1, <1>2 DEF Sums
<1>5. g[S \ {x}] \in Int /\ f[x] \in Int /\ e[x] \in Int
  BY <1>1 DEF Sums
<1> QED
  BY <1>1, <1>2, <1>3, <1>4, <1>5

\* Terms that move on by one, the first taken from nowhere and the last lost.
LEMMA SumShifts ==
  ASSUME NEW n \in Nat, NEW f \in [0..n -> Nat], NEW e \in [0..n -> Nat],
         e[0] = 0, \A a \in 1..n : e[a] = f[a - 1]
  PROVE  SumFunction(e) <= SumFunction(f)
<1>0. IsFiniteSet(0..n) /\ f \in [0..n -> Int] /\ e \in [0..n -> Int]
  <2>1. \A b \in Int : IsFiniteSet(0..b)
    BY FS_Interval
  <2>2. f \in [0..n -> Int] /\ e \in [0..n -> Int]
    OBVIOUS
  <2> QED
    BY <2>1, <2>2
<1>1. PICK g : Sums(f, 0..n, g) /\ SumFunction(f) = g[0..n]
  BY <1>0, SumOf
<1>2. PICK h : Sums(e, 0..n, h) /\ SumFunction(e) = h[0..n]
  BY <1>0, SumOf
<1>3. ASSUME NEW m \in 0..n
      PROVE  /\ h[0..m] = e[m] + h[0..(m - 1)] /\ g[0..m] = f[m] + g[0..(m - 1)]
  <2>1. (0..m) \in SUBSET (0..n) /\ m \in 0..m
    OBVIOUS
  <2>2. (0..m) \ {m} = 0..(m - 1)
    OBVIOUS
  <2>3. h[0..m] = e[m] + h[(0..m) \ {m}] /\ g[0..m] = f[m] + g[(0..m) \ {m}]
    BY <1>1, <1>2, <2>1 DEF Sums
  <2> QED
    BY <2>2, <2>3
<1> DEFINE Bad == {m \in Nat : m <= n /\ h[0..m] # g[0..(m - 1)]}
<1>4. Bad = {}
  <2> SUFFICES ASSUME Bad # {} PROVE FALSE
    OBVIOUS
  <2>1. PICK m \in Bad : \A k \in Bad : m <= k
    BY Least
  <2>2. m \in Nat /\ m <= n /\ h[0..m] # g[0..(m - 1)]
    BY <2>1
  <2>3. h[0..m] = e[m] + h[0..(m - 1)]
    BY <1>3, <2>2
  <2>4. CASE m = 0
    <3>1. 0..(m - 1) = {}
      BY <2>4
    <3>2. h[0..(m - 1)] = 0 /\ g[0..(m - 1)] = 0
      BY <1>1, <1>2, <3>1 DEF Sums
    <3> QED
      BY <2>2, <2>3, <2>4, <3>2
  <2>5. CASE m # 0
    <3>1. m - 1 \in Nat /\ m - 1 <= n /\ m - 1 \notin Bad
      BY <2>1, <2>2, <2>5
    <3>2. h[0..(m - 1)] = g[0..(m - 1 - 1)]
      BY <3>1
    <3>3. g[0..(m - 1)] = f[m - 1] + g[0..(m - 1 - 1)]
      <4>1. m - 1 \in 0..n
        BY <3>1
      <4> QED
        BY <1>3, <4>1
    <3>4. e[m] = f[m - 1]
      BY <2>2, <2>5
    <3> QED
      BY <2>2, <2>3, <3>2, <3>3, <3>4
  <2> QED
    BY <2>4, <2>5
<1>5. h[0..n] = g[0..(n - 1)]
  BY <1>4
<1>6. g[0..(n - 1)] <= g[0..n]
  <2>1. (0..n) \in SUBSET (0..n) /\ (0..(n - 1)) \in SUBSET (0..n)
    OBVIOUS
  <2> QED
    BY <1>0, <1>1, <2>1, SumGrows
<1> QED
  BY <1>1, <1>2, <1>5, <1>6

\* The greatest of a finite set of numbers.
LEMMA MaxOf ==
  ASSUME NEW S \in SUBSET Nat, IsFiniteSet(S), S # {}
  PROVE  Max(S) \in S /\ \A y \in S : Max(S) >= y
<1> DEFINE Bad == {n \in Nat : \E u \in SUBSET S : /\ u # {} /\ Cardinality(u) = n
                                                  /\ ~ \E x \in u : \A y \in u : x >= y}
<1>1. Bad = {}
  <2> SUFFICES ASSUME Bad # {} PROVE FALSE
    OBVIOUS
  <2>1. PICK n \in Bad : \A m \in Bad : n <= m
    BY Least
  <2>2. PICK u \in SUBSET S : u # {} /\ Cardinality(u) = n /\ ~ \E x \in u : \A y \in u : x >= y
    BY <2>1
  <2>3. PICK z \in u : TRUE
    BY <2>2
  <2>4. u \ {z} \in SUBSET S /\ Cardinality(u \ {z}) \in Nat /\ Cardinality(u \ {z}) < n
    <3>1. /\ Cardinality(u \ {z}) \in Nat /\ Cardinality(u) \in Nat
          /\ Cardinality(u \ {z}) = Cardinality(u) - 1
      BY <2>2, <2>3, Step
    <3> QED
      BY <2>2, <3>1
  <2>5. u \ {z} # {}
    <3>1. z \in Nat /\ z >= z
      OBVIOUS
    <3> QED
      BY <2>2, <3>1
  <2>6. PICK x \in u \ {z} : \A y \in u \ {z} : x >= y
    <3>1. n \in Nat /\ \A m \in Bad : n <= m
      BY <2>1
    <3>2. Cardinality(u \ {z}) \notin Bad
      <4> HIDE DEF Bad
      <4> QED
        BY <2>4, <3>1
    <3> QED
      BY <2>4, <2>5, <3>2
  <2>7. x \in Nat /\ z \in Nat
    OBVIOUS
  <2>8. CASE x >= z
    BY <2>2, <2>6, <2>8
  <2>9. CASE z >= x
    <3>1. ASSUME NEW y \in u PROVE z >= y
      BY <2>6, <2>7, <2>9
    <3> QED
      BY <2>2, <3>1
  <2> QED
    BY <2>7, <2>8, <2>9
<1>2. \E x \in S : \A y \in S : x >= y
  BY <1>1, FS_CardinalityType
<1> QED
  BY <1>2 DEF Max

-----------------------------------------------------------------------------
(* What is spent in 24 hours *)

LEMMA SpentType ==
  ASSUME TypeOK
  PROVE  /\ [a \in 0..Day |-> rows[a]] \in [0..Day -> Nat]
         /\ [a \in 0..Day |-> rows[a]] \in [0..Day -> Int]
         /\ IsFiniteSet(0..Day)
         /\ SpentLast24h \in Nat
<1> DEFINE f == [a \in 0..Day |-> rows[a]]
<1>1. f \in [0..Day -> Nat] /\ f \in [0..Day -> Int]
  BY AgesAreNat DEF TypeOK
<1>2. IsFiniteSet(0..Day)
  BY FS_Interval, CostCapAssumption
<1> HIDE DEF f
<1>3. PICK g : Sums(f, 0..Day, g) /\ SumFunction(f) = g[0..Day]
  BY <1>1, <1>2, SumOf
<1>4. g[0..Day] \in Nat
  BY <1>1, <1>2, <1>3, SumGrows
<1> QED
  BY <1>1, <1>2, <1>3, <1>4 DEF SpentLast24h, f

LEMMA SpentIsNat == TypeOK => SpentLast24h \in Nat
BY SpentType

LEMMA SpentBook ==
  ASSUME TypeOK, NEW cost \in Nat, Book(cost)
  PROVE  SpentLast24h' = SpentLast24h + cost
<1> DEFINE f == [a \in 0..Day |-> rows[a]]
           e == [a \in 0..Day |-> rows'[a]]
<1>1. /\ f \in [0..Day -> Int] /\ IsFiniteSet(0..Day) /\ f[0] \in Nat /\ 0 \in 0..Day
      /\ SumFunction(f) \in Nat
  BY SpentType, CostCapAssumption, AgesAreNat DEF SpentLast24h, TypeOK
<1>2. e[0] = f[0] + cost /\ \A a \in (0..Day) \ {0} : e[a] = f[a]
  BY AgesAreNat, CostCapAssumption DEF Book, TypeOK
<1>3. e \in [0..Day -> Int]
  BY BookType, AgesAreNat
<1> HIDE DEF f, e
<1>4. SumFunction(e) = SumFunction(f) - f[0] + e[0]
  BY <1>1, <1>2, <1>3, SumChanges
<1>5. SumFunction(e) = SumFunction(f) + cost
  BY <1>1, <1>2, <1>4
<1> QED
  BY <1>5 DEF SpentLast24h, f, e

LEMMA SpentTick ==
  ASSUME TypeOK, Tick
  PROVE  SpentLast24h' <= SpentLast24h
<1> DEFINE f == [a \in 0..Day |-> rows[a]]
           e == [a \in 0..Day |-> rows'[a]]
<1>1. f \in [0..Day -> Nat] /\ Day \in Nat
  BY SpentType, CostCapAssumption
<1>2. ASSUME NEW a \in 0..Day
      PROVE  e[a] = (IF a = 0 THEN 0 ELSE f[a - 1]) /\ (a # 0 => a - 1 \in 0..Day)
  <2>1. a \in Nat /\ a < Horizon /\ a \in Ages /\ (a # 0 => a > 0 /\ a - 1 \in 0..Day)
    BY CostCapAssumption DEF Ages
  <2>2. rows'[a] = IF a = 0 THEN 0 ELSE rows[a - 1]
    <3>1. CASE a = 0
      BY <2>1, <3>1 DEF Tick
    <3>2. CASE a # 0
      BY <2>1, <3>2 DEF Tick
    <3> QED
      BY <3>1, <3>2
  <2> QED
    BY <2>1, <2>2
<1>3. e = [a \in 0..Day |-> e[a]]
  OBVIOUS
<1> HIDE DEF f, e
<1>4. /\ e \in [0..Day -> Nat]
      /\ e[0] = 0 /\ \A a \in 1..Day : e[a] = f[a - 1]
  <2>1. \A a \in 0..Day : e[a] \in Nat
    BY <1>1, <1>2
  <2>2. 0 \in 0..Day /\ \A a \in 1..Day : a \in 0..Day /\ a # 0
    BY <1>1
  <2> QED
    BY <1>2, <1>3, <2>1, <2>2
<1>5. SumFunction(e) <= SumFunction(f)
  BY <1>1, <1>4, SumShifts
<1> QED
  BY <1>5 DEF SpentLast24h, f, e

-----------------------------------------------------------------------------
(* The overshoot *)

AllowanceOf == [c \in Clients |-> Allowance(c)]

\* The allowances of sets of clients.
Shares == CHOOSE g : Sums(AllowanceOf, Clients, g)

LEMMA AllowanceType ==
  /\ IsFiniteSet(Clients)
  /\ AllowanceOf \in [Clients -> Nat] /\ AllowanceOf \in [Clients -> Int]
  /\ \A c \in Sandboxes \cup Tests : Allowance(c) = CallCost
  /\ Allowance(Engine) >= (Retries + 1) * FailCost
  /\ Allowance(Engine) >= Retries * FailCost + CallCost
<1>1. IsFiniteSet(Clients)
  <2>1. IsFiniteSet({Engine})
    BY FS_Singleton
  <2> QED
    BY <2>1, FS_Union, CostCapAssumption DEF Clients
<1>2. (Retries + 1) * FailCost \in Nat /\ Retries * FailCost + CallCost \in Nat
  BY CostCapAssumption
<1>3. ASSUME NEW m \in Nat, NEW n \in Nat
      PROVE  Max({m, n}) \in Nat /\ Max({m, n}) >= m /\ Max({m, n}) >= n
  <2>1. \E x \in {m, n} : \A y \in {m, n} : x >= y
    OBVIOUS
  <2> QED
    BY <2>1 DEF Max
<1>4. \A c \in Sandboxes \cup Tests : Allowance(c) = CallCost
  BY CostCapAssumption DEF Allowance
<1>5. Allowance(Engine) = Max({(Retries + 1) * FailCost, Retries * FailCost + CallCost})
  BY CostCapAssumption DEF Allowance
<1>6. \A c \in Clients : Allowance(c) \in Nat
  BY <1>2, <1>3, <1>4, <1>5, CostCapAssumption DEF Clients
<1> QED
  BY <1>1, <1>2, <1>3, <1>4, <1>5, <1>6 DEF AllowanceOf

LEMMA SharesAddUp ==
  /\ Sums(AllowanceOf, Clients, Shares)
  /\ MapThenSumSet(Allowance, Clients) = Shares[Clients]
<1>1. Sums(AllowanceOf, Clients, Shares)
  BY AllowanceType, SumOf DEF Shares
<1>2. MapThenSumSet(Allowance, Clients) = SumFunction(AllowanceOf)
  BY DEF MapThenSumSet, SumFunction, SumFunctionOnSet, FoldFunctionOnSet, MapThenFoldSet, AllowanceOf
<1>3. PICK g : Sums(AllowanceOf, Clients, g) /\ SumFunction(AllowanceOf) = g[Clients]
  BY AllowanceType, SumOf
<1>4. g[Clients] = Shares[Clients]
  BY <1>1, <1>3, AllowanceType, SumAgrees
<1> QED
  BY <1>1, <1>2, <1>3, <1>4

\* A client that may still write without another check.
Pending(c) ==
  /\ client[c].pc \in (IF c \in Tests THEN {"built", "call", "book"} ELSE {"call", "book"})
  /\ c \in Tests => ~client[c].over

PendingSet == {c \in Clients : Pending(c)}

\* What was spent and what pending clients may add stays below a cap that was in force, plus
\* one allowance for each client.
Within(spent, P, limits) ==
  0 \notin limits => \E limit \in limits : spent + Shares[P] < limit + Shares[Clients]

LEMMA SharesGrow ==
  ASSUME NEW P \in SUBSET Clients, NEW R \in SUBSET P
  PROVE  Shares[R] <= Shares[P] /\ Shares[P] \in Nat /\ Shares[R] \in Nat
<1>1. R \in SUBSET Clients /\ R \in SUBSET R
  OBVIOUS
<1> QED
  BY <1>1, AllowanceType, SharesAddUp, SumGrows

\* The three ways of a step: it spends nothing new, it spends what a pending client was
\* allowed, or a client has just been let through by a cap in force.
LEMMA WithinShrinks ==
  ASSUME NEW spent \in Nat, NEW P \in SUBSET Clients, NEW limits \in SUBSET Nat, Within(spent, P, limits),
         NEW after \in Nat, after <= spent, NEW Q \in SUBSET P, NEW more \in SUBSET Nat, limits \subseteq more
  PROVE  Within(after, Q, more)
<1> SUFFICES ASSUME 0 \notin more
             PROVE  \E limit \in more : after + Shares[Q] < limit + Shares[Clients]
  BY DEF Within
<1>1. PICK limit \in limits : spent + Shares[P] < limit + Shares[Clients]
  BY DEF Within
<1>2. Shares[Q] <= Shares[P] /\ Shares[P] \in Nat /\ Shares[Q] \in Nat /\ Shares[Clients] \in Nat
  BY SharesGrow
<1>3. after + Shares[Q] < limit + Shares[Clients]
  BY <1>1, <1>2
<1> QED
  BY <1>1, <1>3

LEMMA WithinBooks ==
  ASSUME NEW spent \in Nat, NEW P \in SUBSET Clients, NEW limits \in SUBSET Nat, Within(spent, P, limits),
         NEW c \in P, NEW cost \in Nat, cost <= Allowance(c)
  PROVE  Within(spent + cost, P \ {c}, limits)
<1> SUFFICES ASSUME 0 \notin limits
             PROVE  \E limit \in limits : spent + cost + Shares[P \ {c}] < limit + Shares[Clients]
  BY DEF Within
<1>1. PICK limit \in limits : spent + Shares[P] < limit + Shares[Clients]
  BY DEF Within
<1>2. Shares[P \ {c}] \in Nat /\ Shares[P] \in Nat /\ Shares[Clients] \in Nat
  BY SharesGrow
<1>3. Shares[P] = Allowance(c) + Shares[P \ {c}] /\ Allowance(c) \in Nat
  BY SharesAddUp, AllowanceType DEF Sums, AllowanceOf
<1>4. spent + cost + Shares[P \ {c}] <= spent + Shares[P]
  BY <1>2, <1>3
<1>5. spent + cost + Shares[P \ {c}] < limit + Shares[Clients]
  BY <1>1, <1>2, <1>3, <1>4
<1> QED
  BY <1>1, <1>5

LEMMA WithinChecked ==
  ASSUME TypeOK, NEW limit \in caps, ~IsOverCap(limit), NEW Q \in SUBSET Clients
  PROVE  Within(SpentLast24h, Q, caps)
<1> SUFFICES ASSUME 0 \notin caps
             PROVE  SpentLast24h + Shares[Q] < limit + Shares[Clients]
  BY DEF Within
<1>1. limit \in Nat /\ limit > 0 /\ SpentLast24h \in Nat
  BY SpentType DEF TypeOK
<1>2. SpentLast24h < limit
  BY <1>1 DEF IsOverCap
<1>3. Shares[Q] <= Shares[Clients] /\ Shares[Q] \in Nat /\ Shares[Clients] \in Nat
  BY SharesGrow
<1> QED
  BY <1>1, <1>2, <1>3

\* The caps at hand were all in force; a test let through by a cap it had reached has no
\* tariff, so it writes a cost of zero; a run that succeeded had a try left.
Held(c, s, limits) ==
  /\ c = Engine => /\ s.pc \notin {"idle", "llm"} => s.cap \in limits
                   /\ s.pc = "book" /\ s.ok => s.fails <= Retries
  /\ c \in Tests /\ s.pc \in {"call", "book"} /\ s.over => ~s.price

CapInv ==
  /\ IsFiniteSet(caps) /\ cap \in caps
  /\ \A c \in Clients : Held(c, client[c], caps)

\* What is spent never exceeds, by more than is allowed, the highest cap there was.
Budget == Within(SpentLast24h, PendingSet, caps)

\* A client that moves, the others being where they were.
LEMMA OneMoves ==
  ASSUME TypeOK, NEW c \in Clients, NEW state, Become(c, state)
  PROVE  /\ client'[c] = state
         /\ \A d \in Clients \ {c} : client'[d] = client[d]
         /\ PendingSet' \subseteq PendingSet \cup {c}
         /\ ~Pending(c)' => PendingSet' = PendingSet \ {c}
         /\ (Pending(c)' => Pending(c)) => PendingSet' \subseteq PendingSet
<1>1. client'[c] = state /\ \A d \in Clients \ {c} : client'[d] = client[d]
  BY DEF Become, TypeOK
<1>2. \A d \in Clients \ {c} : Pending(d)' <=> Pending(d)
  BY <1>1 DEF Pending
<1> QED
  BY <1>1, <1>2 DEF PendingSet

\* How a step moves the spending.
Moves ==
  \/ /\ SpentLast24h' <= SpentLast24h
     /\ PendingSet' \subseteq PendingSet
  \/ \E c \in PendingSet, cost \in Nat :
       /\ cost <= Allowance(c)
       /\ SpentLast24h' = SpentLast24h + cost
       /\ PendingSet' = PendingSet \ {c}
  \/ /\ SpentLast24h' = SpentLast24h
     /\ \E limit \in caps : ~IsOverCap(limit)

LEMMA MovesKeepBudget ==
  ASSUME TypeOK, TypeOK', Budget, Moves, caps \subseteq caps'
  PROVE  Budget'
<1>1. /\ SpentLast24h \in Nat /\ SpentLast24h' \in Nat
      /\ PendingSet \in SUBSET Clients /\ PendingSet' \in SUBSET Clients
      /\ caps \in SUBSET Nat /\ caps' \in SUBSET Nat
  <2>1. (TypeOK => SpentLast24h \in Nat)'
    BY SpentIsNat, PTL
  <2> QED
    BY <2>1, SpentType DEF PendingSet, TypeOK
<1>2. CASE SpentLast24h' <= SpentLast24h /\ PendingSet' \subseteq PendingSet
  BY <1>1, <1>2, WithinShrinks DEF Budget
<1>3. ASSUME NEW c \in PendingSet, NEW cost \in Nat, cost <= Allowance(c),
             SpentLast24h' = SpentLast24h + cost, PendingSet' = PendingSet \ {c}
      PROVE  Budget'
  <2>1. Within(SpentLast24h + cost, PendingSet \ {c}, caps)
    BY <1>1, <1>3, WithinBooks DEF Budget
  <2>2. SpentLast24h + cost \in Nat /\ PendingSet \ {c} \in SUBSET Clients
        /\ SpentLast24h + cost <= SpentLast24h + cost
    BY <1>1
  <2>3. Within(SpentLast24h + cost, PendingSet \ {c}, caps')
    BY <1>1, <2>1, <2>2, WithinShrinks
  <2> QED
    BY <1>3, <2>3 DEF Budget
<1>4. ASSUME SpentLast24h' = SpentLast24h, NEW limit \in caps, ~IsOverCap(limit)
      PROVE  Budget'
  <2>1. Within(SpentLast24h, PendingSet', caps)
    BY <1>1, <1>4, WithinChecked
  <2>2. Within(SpentLast24h, PendingSet', caps')
    BY <1>1, <2>1, WithinShrinks
  <2> QED
    BY <1>4, <2>2 DEF Budget
<1> QED
  BY <1>2, <1>3, <1>4 DEF Moves

\* More tries do not cost less.
LEMMA FailsCost ==
  ASSUME NEW m \in Nat, NEW n \in Nat, m <= n
  PROVE  m * FailCost \in Nat /\ n * FailCost \in Nat /\ m * FailCost <= n * FailCost
<1>1. PICK d \in Nat : n = m + d
  BY n - m \in Nat, n = m + (n - m)
<1>2. n * FailCost = m * FailCost + d * FailCost
  BY <1>1, CostCapAssumption
<1>3. m * FailCost \in Nat /\ d * FailCost \in Nat
  BY CostCapAssumption
<1> QED
  BY <1>2, <1>3

\* The allowance of the engine covers a run, and what is written of one.
LEMMA EngineCost ==
  ASSUME TypeOK, CapInv, client[Engine].pc = "book"
  PROVE  /\ CostOfRun(Engine) <= Allowance(Engine)
         /\ \A written \in 0..client[Engine].fails :
              /\ (IF client[Engine].price THEN written * FailCost ELSE 0) \in Nat
              /\ (IF client[Engine].price THEN written * FailCost ELSE 0) <= Allowance(Engine)
<1> DEFINE fails == client[Engine].fails
<1>1. /\ fails \in Nat /\ fails <= Retries + 1 /\ Retries \in Nat /\ CallCost \in Nat /\ FailCost \in Nat
      /\ client[Engine].ok => fails <= Retries
  BY EngineIsClient, CostCapAssumption DEF TypeOK, TriesHeld, TriesOf, ClientState, CapInv, Held
<1>2. /\ Allowance(Engine) >= (Retries + 1) * FailCost
      /\ Allowance(Engine) >= Retries * FailCost + CallCost
      /\ Allowance(Engine) \in Nat
  BY AllowanceType, EngineIsClient DEF AllowanceOf
<1>3. /\ fails * FailCost \in Nat /\ (Retries + 1) * FailCost \in Nat
      /\ fails * FailCost <= (Retries + 1) * FailCost
  BY <1>1, FailsCost
<1>4. CASE client[Engine].ok
  <2>1. fails * FailCost <= Retries * FailCost /\ Retries * FailCost \in Nat
    BY <1>1, <1>4, FailsCost
  <2>2. CostOfRun(Engine) <= Allowance(Engine)
    BY <1>1, <1>2, <1>3, <1>4, <2>1 DEF CostOfRun, CallsOfRun
  <2>3. fails * FailCost <= Allowance(Engine)
    BY <1>2, <1>3
  <2> QED
    BY <1>1, <1>2, <1>3, <2>2, <2>3, FailsCost
<1>5. CASE ~client[Engine].ok
  <2>1. CostOfRun(Engine) <= Allowance(Engine)
    BY <1>2, <1>3, <1>5 DEF CostOfRun, CallsOfRun
  <2>2. fails * FailCost <= Allowance(Engine)
    BY <1>2, <1>3
  <2> QED
    BY <1>1, <1>2, <1>3, <2>1, <2>2, FailsCost
<1> QED
  BY <1>4, <1>5

LEMMA EngineMoves ==
  ASSUME TypeOK, CapInv, EngineStep
  PROVE  Moves /\ caps' = caps
<1> USE EngineIsClient
<1>1. client[Engine] \in ClientState /\ Engine \notin Tests
  BY CostCapAssumption DEF TypeOK
<1>2. CASE BuildLlm \/ BuildService \/ EndCycle
  <2>1. /\ UNCHANGED <<rows, cap, caps>>
        /\ \E state : Become(Engine, state) /\ state.pc \in {"idle", "llm", "built"}
    <3>1. Idle.pc = "idle" /\ \A b : [Idle EXCEPT !.pc = "llm", !.bills = b].pc = "llm"
      BY DEF Idle
    <3>2. \A n, b : [client[Engine] EXCEPT !.pc = "built", !.cap = n, !.price = b].pc = "built"
      BY <1>1 DEF ClientState
    <3>3. CASE BuildLlm
      BY <3>1, <3>3 DEF BuildLlm
    <3>4. CASE BuildService
      <4>1. PICK b : Become(Engine, [client[Engine] EXCEPT !.pc = "built", !.cap = cap, !.price = b])
        BY <3>4 DEF BuildService
      <4> QED
        BY <3>2, <3>4, <4>1 DEF BuildService
    <3>5. CASE EndCycle
      BY <3>1, <3>5 DEF EndCycle
    <3> QED
      BY <1>2, <3>3, <3>4, <3>5
  <2>2. ~Pending(Engine)'
    BY <1>1, <2>1, OneMoves DEF Pending
  <2>3. PendingSet' \subseteq PendingSet
    BY <2>1, <2>2, OneMoves
  <2>4. SpentLast24h' = SpentLast24h
    BY <2>1 DEF SpentLast24h
  <2> QED
    BY <2>1, <2>3, <2>4, SpentType DEF Moves
<1>3. CASE TakeTicket
  <2>1. SpentLast24h' = SpentLast24h /\ caps' = caps
    BY <1>3 DEF TakeTicket, SpentLast24h
  <2>2. client[Engine].cap \in caps /\ ~IsOverCap(client[Engine].cap)
    BY <1>3 DEF TakeTicket, CapInv, Held
  <2> QED
    BY <2>1, <2>2 DEF Moves
<1>4. CASE JournalCalls \/ JournalFails
  <2>1. client[Engine].pc = "book" /\ caps' = caps
    BY <1>4 DEF JournalCalls, JournalFails
  <2>2. PICK cost \in Nat : cost <= Allowance(Engine) /\ Book(cost)
    BY <1>4, <2>1, EngineCost, CostOfRunType DEF JournalCalls, JournalFails
  <2>3. \E state : Become(Engine, state) /\ state.pc = "built"
    <3>1. \A n : [client[Engine] EXCEPT !.pc = "built", !.owed = n].pc = "built"
      BY <1>1 DEF ClientState
    <3>2. \A n : [client[Engine] EXCEPT !.pc = "built", !.owed = n, !.lost = TRUE].pc = "built"
      BY <1>1 DEF ClientState
    <3> QED
      BY <1>4, <3>1, <3>2 DEF JournalCalls, JournalFails
  <2>4. ~Pending(Engine)' /\ Engine \in PendingSet
    BY <1>1, <2>1, <2>3, OneMoves DEF Pending, PendingSet
  <2>5. PendingSet' = PendingSet \ {Engine}
    BY <2>3, <2>4, OneMoves
  <2>6. SpentLast24h' = SpentLast24h + cost
    BY <2>2, SpentBook
  <2> QED
    BY <2>1, <2>2, <2>4, <2>5, <2>6 DEF Moves
<1> QED
  BY <1>2, <1>3, <1>4 DEF EngineStep

LEMMA ConsoleMoves ==
  ASSUME TypeOK, CapInv, ConsoleStep
  PROVE  Moves /\ caps' = caps
<1> USE EngineIsClient
<1>1. \A c \in Clients : client[c] \in ClientState
  BY DEF TypeOK
<1>2. \A c \in Sandboxes \cup Tests : c \in Clients /\ (c \in Sandboxes => c \notin Tests)
  BY CostCapAssumption
<1>3. ASSUME NEW c \in Clients, NEW state, Become(c, state), UNCHANGED <<rows, cap, caps>>,
             \/ state.pc = "idle"
             \/ state.pc = "built" /\ (c \in Tests => state.over)
             \/ state.pc = "call" /\ c \in Tests /\ (~state.over => Pending(c))
      PROVE  Moves /\ caps' = caps
  <2>1. Pending(c)' => Pending(c)
    BY <1>3, OneMoves DEF Pending
  <2>2. PendingSet' \subseteq PendingSet
    BY <1>3, <2>1, OneMoves
  <2>3. SpentLast24h' = SpentLast24h
    BY <1>3 DEF SpentLast24h
  <2> QED
    BY <1>3, <2>2, <2>3, SpentType DEF Moves
<1>4. ASSUME NEW c \in Sandboxes, BuildSandbox(c) PROVE Moves /\ caps' = caps
  <2>1. \A b : [Idle EXCEPT !.pc = "built", !.bills = b, !.price = TRUE].pc = "built"
    BY DEF Idle
  <2> QED
    BY <1>2, <1>3, <1>4, <2>1 DEF BuildSandbox
<1>5. ASSUME ~IsOverCap(cap), UNCHANGED <<rows, cap, caps>> PROVE Moves /\ caps' = caps
  BY <1>5 DEF Moves, CapInv, SpentLast24h
<1>6. ASSUME NEW c \in Sandboxes, SandboxChecks(c) PROVE Moves /\ caps' = caps
  <2>1. Idle.pc = "idle"
    BY DEF Idle
  <2>2. CASE IsOverCap(cap)
    BY <1>2, <1>3, <1>6, <2>1, <2>2 DEF SandboxChecks
  <2>3. CASE ~IsOverCap(cap)
    BY <1>5, <1>6, <2>3 DEF SandboxChecks
  <2> QED
    BY <2>2, <2>3
<1>7. ASSUME NEW c \in Tests, TestReadsSettings(c) PROVE Moves /\ caps' = caps
  <2> DEFINE over == IsOverCap(cap)
  <2>1. over => \A b : /\ [Idle EXCEPT !.pc = "built", !.price = b, !.over = over].pc = "built"
                       /\ [Idle EXCEPT !.pc = "built", !.price = b, !.over = over].over
    BY DEF Idle
  <2>2. /\ UNCHANGED <<rows, cap, caps>>
        /\ \E b \in BillsChoices :
             Become(c, [Idle EXCEPT !.pc = "built", !.price = b, !.over = over])
    BY <1>7 DEF TestReadsSettings
  <2>3. ~over => Moves /\ caps' = caps
    BY <1>5, <2>2
  <2> HIDE DEF over
  <2>4. CASE over
    <3>1. PICK state : Become(c, state) /\ state.pc = "built" /\ state.over
      BY <2>1, <2>2, <2>4
    <3>2. c \in Clients
      BY <1>2
    <3> QED
      BY <1>3, <2>2, <3>1, <3>2
  <2> QED
    BY <2>3, <2>4
<1>8. ASSUME NEW c \in Tests, TestBuildsLlm(c) PROVE Moves /\ caps' = caps
  <2>1. Idle.pc = "idle"
    BY DEF Idle
  <2>2. \A b : /\ [client[c] EXCEPT !.pc = "call", !.bills = b].pc = "call"
               /\ [client[c] EXCEPT !.pc = "call", !.bills = b].over = client[c].over
    BY <1>1, <1>2 DEF ClientState
  <2>3. ~client[c].over => Pending(c)
    BY <1>8 DEF TestBuildsLlm, Pending
  <2>4. UNCHANGED <<rows, cap, caps>>
    BY <1>8 DEF TestBuildsLlm
  <2>5. CASE client[c].over /\ client[c].price
    BY <1>2, <1>3, <1>8, <2>1, <2>4, <2>5 DEF TestBuildsLlm
  <2>6. CASE ~(client[c].over /\ client[c].price)
    BY <1>2, <1>3, <1>8, <2>2, <2>3, <2>4, <2>6 DEF TestBuildsLlm
  <2> QED
    BY <2>5, <2>6
<1>9. ASSUME NEW c \in Sandboxes \cup Tests, BookRequest(c) PROVE Moves /\ caps' = caps
  <2> DEFINE cost == IF client[c].price THEN CallCost ELSE 0
  <2>1. cost \in Nat /\ cost <= Allowance(c) /\ c \in Clients
    BY <1>2, AllowanceType, CostCapAssumption
  <2>2. /\ client[c].pc = "book" /\ Book(cost) /\ caps' = caps
        /\ Become(c, [client[c] EXCEPT !.pc = "idle", !.owed = @ - cost])
    BY <1>9 DEF BookRequest
  <2>3. (client'[c]).pc = "idle"
    <3>1. \A n : [client[c] EXCEPT !.pc = "idle", !.owed = n].pc = "idle"
      BY <1>1, <2>1 DEF ClientState
    <3>2. client'[c] = [client[c] EXCEPT !.pc = "idle", !.owed = @ - cost]
      BY <2>1, <2>2, OneMoves
    <3> QED
      BY <3>1, <3>2
  <2>4. PendingSet' = PendingSet \ {c}
    <3>1. ~Pending(c)'
      BY <2>3 DEF Pending
    <3> QED
      BY <2>1, <2>2, <3>1, OneMoves
  <2>5. SpentLast24h' = SpentLast24h + cost
    BY <2>1, <2>2, SpentBook
  <2>6. CASE Pending(c)
    <3>1. c \in PendingSet
      BY <2>1, <2>6 DEF PendingSet
    <3> QED
      BY <2>1, <2>2, <2>4, <2>5, <3>1 DEF Moves
  <2>7. CASE ~Pending(c)
    <3>1. cost = 0
      BY <1>2, <2>1, <2>2, <2>7 DEF Pending, CapInv, Held
    <3> QED
      BY <2>2, <2>4, <2>5, <3>1, SpentType DEF Moves
  <2> QED
    BY <2>6, <2>7
<1> QED
  BY <1>4, <1>6, <1>7, <1>8, <1>9 DEF ConsoleStep

\* A call under way ends, or goes on, under the check made before it.
LEMMA LlmMoves ==
  ASSUME TypeOK, LlmStep
  PROVE  Moves /\ caps' = caps
<1>1. PICK c \in Clients : CallAnswers(c) \/ CallFails(c) \/ CallRaises(c)
  BY DEF LlmStep
<1>2. client[c] \in ClientState /\ client[c].pc = "call" /\ UNCHANGED <<rows, cap, caps>>
      /\ (c = Engine => c \notin Tests)
  BY <1>1, CostCapAssumption DEF TypeOK, CallAnswers, CallFails, CallRaises
<1>3. PICK state : /\ Become(c, state) /\ state.over = client[c].over
                   /\ state.pc \in {"call", "book", "idle"} \cup (IF c = Engine THEN {"built"} ELSE {})
  <2>1. \A p, n, b : /\ [client[c] EXCEPT !.pc = p, !.ok = b, !.owed = n].pc = p
                     /\ [client[c] EXCEPT !.pc = p, !.ok = b, !.owed = n].over = client[c].over
                     /\ [client[c] EXCEPT !.pc = p, !.owed = n, !.lost = b].pc = p
                     /\ [client[c] EXCEPT !.pc = p, !.owed = n, !.lost = b].over = client[c].over
    BY <1>2 DEF ClientState
  <2>2. \A p, n, m : /\ [client[c] EXCEPT !.pc = p, !.fails = m, !.owed = n].pc = p
                     /\ [client[c] EXCEPT !.pc = p, !.fails = m, !.owed = n].over = client[c].over
    BY <1>2 DEF ClientState
  <2> DEFINE left == IF client[c].fails + 1 < TriesOf(c) THEN "call"
                     ELSE IF c = Engine THEN "book" ELSE "idle"
             given == IF c = Engine THEN "built" ELSE "idle"
             allowed == {"call", "book", "idle"} \cup (IF c = Engine THEN {"built"} ELSE {})
  <2>3. left \in allowed /\ given \in allowed /\ "book" \in allowed
    OBVIOUS
  <2>4. \/ \E n : Become(c, [client[c] EXCEPT !.pc = "book", !.ok = TRUE, !.owed = n])
        \/ \E n, m : Become(c, [client[c] EXCEPT !.pc = left, !.fails = m, !.owed = n])
        \/ \E n : Become(c, [client[c] EXCEPT !.pc = given, !.owed = n, !.lost = TRUE])
    BY <1>1 DEF CallAnswers, CallFails, CallRaises
  <2> HIDE DEF left, given, allowed
  <2>5. ASSUME NEW n, NEW p \in allowed, NEW b, NEW m,
               \/ Become(c, [client[c] EXCEPT !.pc = p, !.ok = b, !.owed = n])
               \/ Become(c, [client[c] EXCEPT !.pc = p, !.owed = n, !.lost = b])
               \/ Become(c, [client[c] EXCEPT !.pc = p, !.fails = m, !.owed = n])
        PROVE  \E state : Become(c, state) /\ state.over = client[c].over /\ state.pc \in allowed
    <3>1. ASSUME NEW state, Become(c, state), state.over = client[c].over, state.pc = p
          PROVE  \E x : Become(c, x) /\ x.over = client[c].over /\ x.pc \in allowed
      BY <3>1
    <3> DEFINE x == [client[c] EXCEPT !.pc = p, !.ok = b, !.owed = n]
               y == [client[c] EXCEPT !.pc = p, !.owed = n, !.lost = b]
               z == [client[c] EXCEPT !.pc = p, !.fails = m, !.owed = n]
    <3>2. /\ x.over = client[c].over /\ x.pc = p /\ y.over = client[c].over /\ y.pc = p
          /\ z.over = client[c].over /\ z.pc = p
      BY <2>1, <2>2
    <3>3. Become(c, x) \/ Become(c, y) \/ Become(c, z)
      BY <2>5
    <3> HIDE DEF x, y, z
    <3> QED
      BY <3>1, <3>2, <3>3
  <2>6. \E state : Become(c, state) /\ state.over = client[c].over /\ state.pc \in allowed
    BY <2>3, <2>4, <2>5
  <2> QED
    BY <2>6 DEF allowed
<1>4. Pending(c)' => Pending(c)
  BY <1>2, <1>3, OneMoves DEF Pending
<1>5. PendingSet' \subseteq PendingSet
  BY <1>3, <1>4, OneMoves
<1>6. SpentLast24h' = SpentLast24h
  BY <1>2 DEF SpentLast24h
<1> QED
  BY <1>2, <1>5, <1>6, SpentType DEF Moves

LEMMA BudgetStep ==
  ASSUME TypeOK, TypeOK', CapInv, Budget, [Next]_vars
  PROVE  Budget'
<1>1. ASSUME client' = client \/ CrashAndRestart
      PROVE  PendingSet' \subseteq PendingSet
  <2>1. CASE client' = client
    BY <2>1 DEF PendingSet, Pending
  <2>2. CASE CrashAndRestart
    BY <2>2 DEF PendingSet, Pending, CrashAndRestart, Idle
  <2> QED
    BY <1>1, <2>1, <2>2
<1>2. CASE EngineStep \/ ConsoleStep \/ LlmStep
  BY <1>2, EngineMoves, ConsoleMoves, LlmMoves, MovesKeepBudget
<1>3. CASE Tick
  BY <1>1, <1>3, SpentTick, MovesKeepBudget DEF Tick, Moves
<1>4. CASE Purge
  BY <1>1, <1>4, PurgeSum, SpentType, MovesKeepBudget DEF Purge, Moves
<1>5. CASE SaveCap \/ CrashAndRestart \/ UNCHANGED vars
  <2>1. SpentLast24h' = SpentLast24h /\ caps \subseteq caps' /\ (client' = client \/ CrashAndRestart)
    BY <1>5 DEF SaveCap, CrashAndRestart, vars, SpentLast24h
  <2> QED
    BY <1>1, <2>1, SpentType, MovesKeepBudget DEF Moves
<1> QED
  BY <1>2, <1>3, <1>4, <1>5 DEF Next

\* A client that moves to a state the cap's invariant allows.
LEMMA HeldBecomes ==
  ASSUME TypeOK, CapInv, NEW c \in Clients, NEW state, Become(c, state), Held(c, state, caps),
         UNCHANGED <<cap, caps>>
  PROVE  CapInv'
<1>1. client'[c] = state /\ \A d \in Clients \ {c} : client'[d] = client[d]
  BY OneMoves
<1>2. \A d \in Clients : Held(d, client'[d], caps)
  BY <1>1 DEF CapInv
<1> QED
  BY <1>2 DEF CapInv

LEMMA EngineHeld ==
  ASSUME TypeOK, CapInv, EngineStep
  PROVE  CapInv'
<1> USE EngineIsClient
<1>1. /\ client[Engine] \in ClientState /\ Engine \notin Tests /\ UNCHANGED <<cap, caps>>
      /\ Held(Engine, client[Engine], caps) /\ cap \in caps
  BY CostCapAssumption
  DEF TypeOK, CapInv, EngineStep, BuildLlm, BuildService, TakeTicket, EndCycle, JournalCalls,
      JournalFails
<1>2. ASSUME NEW state, Become(Engine, state), state.pc \in {"built", "call"}, state.cap \in caps
      PROVE  CapInv'
  <2>1. Held(Engine, state, caps)
    BY <1>1, <1>2 DEF Held
  <2> QED
    BY <1>1, <1>2, <2>1, HeldBecomes
<1>8. CASE BuildLlm
  <2>1. \A b : Held(Engine, [Idle EXCEPT !.pc = "llm", !.bills = b], caps)
    BY <1>1 DEF Held, Idle
  <2> QED
    BY <1>1, <1>8, <2>1, HeldBecomes DEF BuildLlm
<1>3. CASE BuildService
  <2>1. \A b : /\ [client[Engine] EXCEPT !.pc = "built", !.cap = cap, !.price = b].pc = "built"
               /\ [client[Engine] EXCEPT !.pc = "built", !.cap = cap, !.price = b].cap = cap
    BY <1>1 DEF ClientState
  <2> QED
    BY <1>1, <1>2, <1>3, <2>1 DEF BuildService
<1>4. CASE EndCycle
  <2>1. Held(Engine, Idle, caps)
    BY <1>1 DEF Held, Idle
  <2> QED
    BY <1>1, <1>4, <2>1, HeldBecomes DEF EndCycle
<1>5. client[Engine].pc \notin {"idle", "llm"} => client[Engine].cap \in caps
  BY <1>1 DEF Held
<1>6. CASE TakeTicket
  <2> DEFINE state == [client[Engine] EXCEPT !.pc = "call", !.fails = 0, !.ok = FALSE,
                                             !.owed = 0, !.lost = FALSE]
  <2>1. state.pc = "call" /\ state.cap = client[Engine].cap
    BY <1>1 DEF ClientState
  <2>2. Become(Engine, state) /\ client[Engine].cap \in caps
    BY <1>5, <1>6 DEF TakeTicket
  <2> HIDE DEF state
  <2> QED
    BY <1>2, <2>1, <2>2
<1>7. CASE JournalCalls \/ JournalFails
  <2>1. \A n : /\ [client[Engine] EXCEPT !.pc = "built", !.owed = n].pc = "built"
               /\ [client[Engine] EXCEPT !.pc = "built", !.owed = n].cap = client[Engine].cap
    BY <1>1 DEF ClientState
  <2>2. \A n : /\ [client[Engine] EXCEPT !.pc = "built", !.owed = n, !.lost = TRUE].pc = "built"
               /\ [client[Engine] EXCEPT !.pc = "built", !.owed = n, !.lost = TRUE].cap
                    = client[Engine].cap
    BY <1>1 DEF ClientState
  <2>3. client[Engine].cap \in caps
    BY <1>5, <1>7 DEF JournalCalls, JournalFails
  <2>4. \/ \E n : Become(Engine, [client[Engine] EXCEPT !.pc = "built", !.owed = n])
        \/ \E n : Become(Engine, [client[Engine] EXCEPT !.pc = "built", !.owed = n, !.lost = TRUE])
    BY <1>7 DEF JournalCalls, JournalFails
  <2> QED
    BY <1>2, <2>1, <2>2, <2>3, <2>4
<1> QED
  BY <1>3, <1>4, <1>6, <1>7, <1>8 DEF EngineStep

LEMMA ConsoleHeld ==
  ASSUME TypeOK, CapInv, ConsoleStep
  PROVE  CapInv'
<1>1. /\ \A c \in Sandboxes \cup Tests : c \in Clients /\ c # Engine /\ client[c] \in ClientState
      /\ \A c \in Sandboxes : c \notin Tests
      /\ UNCHANGED <<cap, caps>>
  BY CostCapAssumption
  DEF TypeOK, Clients, ConsoleStep, BuildSandbox, SandboxChecks, TestReadsSettings, TestBuildsLlm,
      BookRequest
<1>2. ASSUME NEW c \in Sandboxes \cup Tests, NEW state, Become(c, state),
             c \in Sandboxes \/ state.pc \in {"idle", "built"} \/ ~(state.over /\ state.price)
      PROVE  CapInv'
  <2>1. Held(c, state, caps)
    BY <1>1, <1>2 DEF Held
  <2> QED
    BY <1>1, <1>2, <2>1, HeldBecomes
<1>3. ASSUME NEW c \in Sandboxes, BuildSandbox(c) \/ SandboxChecks(c)
      PROVE  CapInv'
  BY <1>2, <1>3 DEF BuildSandbox, SandboxChecks
<1>4. ASSUME NEW c \in Tests, TestReadsSettings(c)
      PROVE  CapInv'
  <2>1. \A b, o : [Idle EXCEPT !.pc = "built", !.price = b, !.over = o].pc = "built"
    BY DEF Idle
  <2> DEFINE over == IsOverCap(cap)
  <2>2. \E b \in BillsChoices : Become(c, [Idle EXCEPT !.pc = "built", !.price = b, !.over = over])
    BY <1>4 DEF TestReadsSettings
  <2> HIDE DEF over
  <2> QED
    BY <1>2, <2>1, <2>2
<1>5. ASSUME NEW c \in Tests, TestBuildsLlm(c)
      PROVE  CapInv'
  <2>1. Idle.pc = "idle"
    BY DEF Idle
  <2>2. \A b : /\ [client[c] EXCEPT !.pc = "call", !.bills = b].over = client[c].over
               /\ [client[c] EXCEPT !.pc = "call", !.bills = b].price = client[c].price
    BY <1>1 DEF ClientState
  <2>3. CASE client[c].over /\ client[c].price
    BY <1>2, <1>5, <2>1, <2>3 DEF TestBuildsLlm
  <2>4. CASE ~(client[c].over /\ client[c].price)
    <3>1. PICK b : Become(c, [client[c] EXCEPT !.pc = "call", !.bills = b])
      BY <1>5, <2>4 DEF TestBuildsLlm
    <3> QED
      BY <1>2, <2>2, <2>4, <3>1
  <2> QED
    BY <2>3, <2>4
<1>6. ASSUME NEW c \in Sandboxes \cup Tests, BookRequest(c)
      PROVE  CapInv'
  <2>1. \A n : [client[c] EXCEPT !.pc = "idle", !.owed = n].pc = "idle"
    BY <1>1 DEF ClientState
  <2> QED
    BY <1>2, <1>6, <2>1 DEF BookRequest
<1> QED
  BY <1>3, <1>4, <1>5, <1>6 DEF ConsoleStep

LEMMA LlmHeld ==
  ASSUME TypeOK, EngineTrace, CapInv, LlmStep
  PROVE  CapInv'
<1>1. PICK c \in Clients : CallAnswers(c) \/ CallFails(c) \/ CallRaises(c)
  BY DEF LlmStep
<1>2. /\ client[c] \in ClientState /\ client[c].pc = "call" /\ UNCHANGED <<cap, caps>>
      /\ (c = Engine => c \notin Tests) /\ Held(c, client[c], caps) /\ TriesHeld(c)
  BY <1>1, CostCapAssumption DEF TypeOK, CapInv, CallAnswers, CallFails, CallRaises
<1>3. /\ c \in Tests => ~(client[c].over /\ client[c].price)
      /\ c = Engine => client[c].cap \in caps /\ client[c].fails <= Retries /\ ~client[c].ok
  BY <1>2, CostCapAssumption DEF Held, TriesHeld, TriesOf, ClientState, EngineTrace
<1>4. ASSUME NEW state, Become(c, state), state.over = client[c].over, state.price = client[c].price,
             state.cap = client[c].cap, state.ok => state.fails = client[c].fails \/ state.ok = client[c].ok
      PROVE  CapInv'
  <2>1. Held(c, state, caps)
    BY <1>2, <1>3, <1>4 DEF Held
  <2> QED
    BY <1>2, <1>4, <2>1, HeldBecomes
<1>5. CASE CallAnswers(c)
  <2> DEFINE state == [client[c] EXCEPT !.pc = "book", !.ok = TRUE, !.owed = @ + Charge(c, CallCost)]
  <2>1. /\ state.over = client[c].over /\ state.price = client[c].price /\ state.cap = client[c].cap
        /\ state.fails = client[c].fails
    BY <1>2 DEF ClientState
  <2>2. Become(c, state)
    BY <1>5 DEF CallAnswers
  <2> HIDE DEF state
  <2> QED
    BY <1>4, <2>1, <2>2
<1>6. CASE CallFails(c)
  <2> DEFINE left == IF client[c].fails + 1 < TriesOf(c) THEN "call"
                     ELSE IF c = Engine THEN "book" ELSE "idle"
             state == [client[c] EXCEPT !.pc = left, !.fails = @ + 1, !.owed = @ + Charge(c, FailCost)]
  <2>1. Become(c, state)
    BY <1>6 DEF CallFails
  <2> HIDE DEF left
  <2>2. /\ state.over = client[c].over /\ state.price = client[c].price /\ state.cap = client[c].cap
        /\ state.ok = client[c].ok
    BY <1>2 DEF ClientState
  <2> HIDE DEF state
  <2> QED
    BY <1>4, <2>1, <2>2
<1>7. CASE CallRaises(c)
  <2> DEFINE state == [client[c] EXCEPT !.pc = IF c = Engine THEN "built" ELSE "idle",
                                        !.owed = @ + Charge(c, FailCost), !.lost = TRUE]
  <2>1. /\ state.over = client[c].over /\ state.price = client[c].price /\ state.cap = client[c].cap
        /\ state.ok = client[c].ok
    BY <1>2 DEF ClientState
  <2>2. Become(c, state)
    BY <1>7 DEF CallRaises
  <2> HIDE DEF state
  <2> QED
    BY <1>4, <2>1, <2>2
<1> QED
  BY <1>1, <1>5, <1>6, <1>7

LEMMA CapStep ==
  ASSUME TypeOK, EngineTrace, CapInv, [Next]_vars
  PROVE  CapInv'
<1>1. CASE SaveCap
  <2>1. IsFiniteSet(caps \cup {cap'})
    BY FS_AddElement DEF CapInv
  <2>2. \A c \in Clients : Held(c, client[c], caps \cup {cap'})
    BY DEF CapInv, Held
  <2> QED
    BY <1>1, <2>1, <2>2 DEF CapInv, SaveCap
<1>2. CASE CrashAndRestart
  <2>1. \A c : Held(c, Idle, caps)
    BY DEF Held, Idle
  <2> QED
    BY <1>2, <2>1 DEF CapInv, CrashAndRestart
<1>3. CASE Tick \/ Purge \/ UNCHANGED vars
  BY <1>3 DEF CapInv, Tick, Purge, vars
<1> QED
  BY <1>1, <1>2, <1>3, EngineHeld, ConsoleHeld, LlmHeld DEF Next

\* Nothing is spent at first, and nobody is about to.
LEMMA BudgetInit ==
  ASSUME Init, TypeOK
  PROVE  CapInv /\ Budget
<1>1. CapInv
  <2>1. \A c : Held(c, Idle, caps)
    BY DEF Held, Idle
  <2> QED
    BY <2>1, FS_Singleton DEF Init, CapInv
<1>2. PendingSet = {}
  BY DEF Init, Idle, PendingSet, Pending
<1>3. SpentLast24h = 0
  <2> DEFINE f == [a \in 0..Day |-> rows[a]]
  <2>1. f \in [0..Day -> Int] /\ IsFiniteSet(0..Day) /\ \A a \in 0..Day : f[a] = 0
    BY SpentType, AgesAreNat DEF Init
  <2> HIDE DEF f
  <2>2. PICK g : Sums(f, 0..Day, g) /\ SumFunction(f) = g[0..Day]
    BY <2>1, SumOf
  <2> DEFINE h == [s \in SUBSET (0..Day) |-> 0]
  <2>3. Sums(f, 0..Day, h)
    BY <2>1 DEF Sums
  <2> HIDE DEF h
  <2>4. g[0..Day] = h[0..Day]
    <3> DEFINE window == 0..Day
    <3>1. /\ IsFiniteSet(window) /\ f \in [window -> Int] /\ Sums(f, window, g) /\ Sums(f, window, h)
          /\ window \in SUBSET (window \cap window)
      BY <2>1, <2>2, <2>3
    <3> HIDE DEF window
    <3>2. g[window] = h[window]
      BY <3>1, SumAgrees
    <3> QED
      BY <3>2 DEF window
  <2>5. h[0..Day] = 0
    BY DEF h
  <2> QED
    BY <2>2, <2>4, <2>5 DEF SpentLast24h, f
<1>4. Budget
  <2> SUFFICES ASSUME 0 \notin caps
               PROVE  \E limit \in caps : 0 + Shares[{}] < limit + Shares[Clients]
    BY <1>2, <1>3 DEF Budget, Within
  <2>1. cap \in caps /\ cap \in Nat /\ cap > 0
    BY CostCapAssumption DEF Init, TypeOK
  <2>2. Shares[{}] = 0 /\ Shares[Clients] \in Nat
    BY SharesAddUp, SharesGrow DEF Sums
  <2> QED
    BY <2>1, <2>2
<1> QED
  BY <1>1, <1>4

LEMMA BudgetBounds ==
  ASSUME TypeOK, CapInv, Budget
  PROVE  OvershootIsBounded
<1> SUFFICES ASSUME 0 \notin caps
             PROVE  SpentLast24h < Max(caps) + Shares[Clients]
  BY SharesAddUp DEF OvershootIsBounded
<1>1. PICK limit \in caps : SpentLast24h + Shares[PendingSet] < limit + Shares[Clients]
  BY DEF Budget, Within
<1>2. Max(caps) \in Nat /\ limit \in Nat /\ Max(caps) >= limit
  BY MaxOf DEF TypeOK, CapInv
<1>3. SpentLast24h \in Nat /\ Shares[PendingSet] \in Nat /\ Shares[Clients] \in Nat
  BY SpentType, SharesGrow DEF PendingSet
<1> QED
  BY <1>1, <1>2, <1>3

\* However many simulations and tests are in flight with the engine, and in whatever order
\* they check the cap, pay and write: as long as there is a cap, what is spent in 24 hours
\* stays below the highest cap that was in force, plus one allowance for each client.
THEOREM OvershootHolds == Spec => []OvershootIsBounded
<1>1. Init /\ TypeOK => CapInv /\ Budget
  BY BudgetInit
<1>2. TypeOK /\ TypeOK' /\ EngineTrace /\ CapInv /\ Budget /\ [Next]_vars => CapInv' /\ Budget'
  BY CapStep, BudgetStep
<1>3. TypeOK /\ CapInv /\ Budget => OvershootIsBounded
  BY BudgetBounds
<1> QED
  BY <1>1, <1>2, <1>3, TypeCorrect, TraceHolds, PTL DEF Spec

--------------------------------------------------------------------------------
(* The table of the journal: pages *)

\* Lines of which each number names one.
Numbered(s) == s \subseteq Lines /\ IsFiniteSet(s) /\ \A l, m \in s : l.id = m.id => l = m

LEMMA LinesHaveNat ==
  ASSUME NEW l \in Lines
  PROVE  l.id \in Nat /\ l.ts \in Nat /\ l.id \in Ids /\ l.ts \in Times
BY BoundsAssumption DEF Lines, Ids, Times

\* ORDER BY ts DESC, id DESC is a total order of lines that have numbers.
LEMMA PrecedesIsTotal ==
  ASSUME NEW l \in Lines, NEW m \in Lines
  PROVE  /\ ~Precedes(l, l)
         /\ l.id # m.id => Precedes(l, m) \/ Precedes(m, l)
         /\ ~(Precedes(l, m) /\ Precedes(m, l))
         /\ \A n \in Lines : Precedes(l, m) /\ Precedes(m, n) => Precedes(l, n)
BY LinesHaveNat DEF Precedes

\* How many lines of s precede l.
Rank(s, l) == Cardinality({m \in s : Precedes(m, l)})

LEMMA RankIsNat ==
  ASSUME NEW s, IsFiniteSet(s), NEW l \in s, s \subseteq Lines
  PROVE  Rank(s, l) \in Nat /\ Rank(s, l) < Cardinality(s) /\ Cardinality(s) \in Nat
<1> DEFINE before == {m \in s : Precedes(m, l)}
<1>1. before \subseteq s /\ l \notin before
  BY PrecedesIsTotal
<1>2. /\ IsFiniteSet(before) /\ Cardinality(before) <= Cardinality(s)
      /\ Cardinality(before) = Cardinality(s) => before = s
  BY <1>1, FS_Subset
<1>3. Cardinality(before) \in Nat /\ Cardinality(s) \in Nat
  BY <1>2, FS_CardinalityType
<1>4. before # s
  BY <1>1
<1>5. Cardinality(before) < Cardinality(s)
  BY <1>2, <1>3, <1>4
<1> QED
  BY <1>3, <1>5 DEF Rank

LEMMA RankIsMonotonic ==
  ASSUME NEW s, IsFiniteSet(s), NEW l \in s, NEW k \in s, s \subseteq Lines,
         Precedes(l, k)
  PROVE  Rank(s, l) < Rank(s, k)
<1> DEFINE before == {m \in s : Precedes(m, l)}
           after == {m \in s : Precedes(m, k)}
<1>1. before \subseteq after /\ l \in after /\ l \notin before
  BY PrecedesIsTotal
<1>2. IsFiniteSet(after)
  BY FS_Subset
<1>3. /\ IsFiniteSet(before) /\ Cardinality(before) <= Cardinality(after)
      /\ Cardinality(before) = Cardinality(after) => before = after
  BY <1>1, <1>2, FS_Subset
<1>4. Cardinality(before) \in Nat /\ Cardinality(after) \in Nat
  BY <1>2, <1>3, FS_CardinalityType
<1>5. before # after
  BY <1>1
<1>6. Cardinality(before) < Cardinality(after)
  BY <1>3, <1>4, <1>5
<1> QED
  BY <1>6 DEF Rank

\* A line is known by its rank, and every rank is taken: a rank nobody had would leave too
\* few for all the lines.
LEMMA RanksAreTaken ==
  ASSUME NEW s, Numbered(s), NEW i \in 1..Cardinality(s)
  PROVE  /\ Ranked(s, i) \in s /\ Rank(s, Ranked(s, i)) = i - 1
         /\ \A l \in s : Rank(s, l) = i - 1 => l = Ranked(s, i)
<1>0. IsFiniteSet(s) /\ s \subseteq Lines /\ Cardinality(s) \in Nat
  BY FS_CardinalityType DEF Numbered
<1>1. ASSUME NEW l \in s, NEW m \in s, Rank(s, l) = Rank(s, m) PROVE l = m
  <2>1. Rank(s, l) \in Nat /\ Rank(s, m) \in Nat
    BY <1>0, RankIsNat
  <2>2. ~Precedes(l, m) /\ ~Precedes(m, l)
    BY <1>0, <1>1, <2>1, RankIsMonotonic
  <2>3. l.id = m.id
    BY <1>0, <2>2, PrecedesIsTotal
  <2> QED
    BY <2>3 DEF Numbered
<1>2. \E l \in s : Rank(s, l) = i - 1
  <2> SUFFICES ASSUME \A l \in s : Rank(s, l) # i - 1 PROVE FALSE
    OBVIOUS
  <2> DEFINE others == (0..(Cardinality(s) - 1)) \ {i - 1}
             rank == [l \in s |-> Rank(s, l)]
  <2>1. rank \in [s -> others]
    <3>1. ASSUME NEW l \in s PROVE Rank(s, l) \in others
      BY <1>0, RankIsNat
    <3> QED
      BY <3>1
  <2>2. IsFiniteSet(others) /\ Cardinality(others) = Cardinality(s) - 1
    <3>1. IsFiniteSet(0..(Cardinality(s) - 1)) /\ Cardinality(0..(Cardinality(s) - 1)) = Cardinality(s)
      <4>1. 0 \in Int /\ Cardinality(s) - 1 \in Int
        BY <1>0
      <4>2. /\ IsFiniteSet(0..(Cardinality(s) - 1))
            /\ Cardinality(0..(Cardinality(s) - 1))
                 = IF 0 > Cardinality(s) - 1 THEN 0 ELSE Cardinality(s) - 1 - 0 + 1
        BY <4>1, FS_Interval
      <4> QED
        BY <1>0, <4>2
    <3>2. i - 1 \in 0..(Cardinality(s) - 1)
      BY <1>0
    <3> QED
      BY <3>1, <3>2, FS_RemoveElement
  <2> HIDE DEF others, rank
  <2>3. Cardinality(others) < Cardinality(s)
    BY <1>0, <2>2
  <2>4. PICK l \in s, m \in s : l # m /\ rank[l] = rank[m]
    BY <1>0, <2>1, <2>2, <2>3, FS_PigeonHole
  <2>5. Rank(s, l) = Rank(s, m)
    BY <2>4 DEF rank
  <2> QED
    BY <1>1, <2>4, <2>5
<1>3. Ranked(s, i) \in s /\ Rank(s, Ranked(s, i)) = i - 1
  BY <1>2 DEF Ranked, Rank
<1> QED
  BY <1>1, <1>3

\* A page holds the first lines, in order: those it leaves come after its last.
LEMMA PageOfLines ==
  ASSUME NEW s, Numbered(s)
  PROVE  LET page == Page(s)
         IN /\ page \in Seq(s) /\ Len(page) \in Nat
            /\ page = <<>> => s = {}
            /\ \A i, j \in 1..Len(page) : i < j => Precedes(page[i], page[j])
            /\ \A l \in s : \/ \E i \in 1..Len(page) : page[i] = l
                            \/ Precedes(page[Len(page)], l)
<1> DEFINE n == IF Cardinality(s) > Batch THEN Batch ELSE Cardinality(s)
           page == Page(s)
<1>0. IsFiniteSet(s) /\ s \subseteq Lines /\ Cardinality(s) \in Nat /\ Batch \in Nat /\ Batch > 0
  BY FS_CardinalityType, BatchAssumption DEF Numbered
<1>1. n \in Nat /\ n <= Cardinality(s) /\ (Cardinality(s) # 0 => n > 0)
  BY <1>0
<1>2. page = [i \in 1..n |-> Ranked(s, i)]
  BY DEF Page
<1> HIDE DEF n
<1>3. ASSUME NEW i \in 1..n
      PROVE  page[i] \in s /\ Rank(s, page[i]) = i - 1 /\ \A l \in s : Rank(s, l) = i - 1 => l = page[i]
  <2>1. i \in 1..Cardinality(s) /\ page[i] = Ranked(s, i)
    BY <1>0, <1>1, <1>2
  <2> QED
    BY <2>1, RanksAreTaken
<1>4. page \in Seq(s) /\ Len(page) = n
  BY <1>1, <1>2, <1>3
<1>5. page = <<>> => s = {}
  <2>1. ASSUME page = <<>> PROVE s = {}
    <3>1. n = 0
      BY <1>4, <2>1
    <3>2. Cardinality(s) = 0
      BY <1>0, <1>1, <3>1
    <3> QED
      BY <1>0, <3>2, FS_EmptySet
  <2> QED
    BY <2>1
<1> HIDE DEF page
<1>6. ASSUME NEW i \in 1..n, NEW j \in 1..n, i < j PROVE Precedes(page[i], page[j])
  <2>1. /\ page[i] \in s /\ Rank(s, page[i]) = i - 1
        /\ page[j] \in s /\ Rank(s, page[j]) = j - 1
    BY <1>3
  <2>2. page[i] # page[j] /\ ~Precedes(page[j], page[i])
    BY <1>0, <1>1, <1>6, <2>1, RankIsMonotonic
  <2>3. page[i].id # page[j].id
    BY <2>1, <2>2 DEF Numbered
  <2> QED
    BY <1>0, <2>1, <2>2, <2>3, PrecedesIsTotal
<1>7. ASSUME NEW l \in s, \A i \in 1..n : page[i] # l PROVE Precedes(page[n], l)
  <2>1. Rank(s, l) \in Nat /\ Rank(s, l) < Cardinality(s)
    BY <1>0, RankIsNat
  <2>2. n > 0 /\ n \in 1..n
    BY <1>0, <1>1, <2>1
  <2>3. ~(Rank(s, l) + 1 \in 1..n)
    <3>1. CASE Rank(s, l) + 1 \in 1..n
      <4>1. (Rank(s, l) + 1) - 1 = Rank(s, l)
        BY <2>1
      <4> QED
        BY <1>3, <1>7, <3>1, <4>1
    <3> QED
      BY <3>1
  <2>4. Rank(s, l) >= n
    BY <1>1, <2>1, <2>3
  <2>5. page[n] \in s /\ Rank(s, page[n]) = n - 1
    BY <1>3, <2>2
  <2>6. ~Precedes(l, page[n]) /\ l # page[n]
    BY <1>0, <1>1, <2>1, <2>4, <2>5, RankIsMonotonic
  <2>7. l.id # page[n].id
    BY <2>5, <2>6 DEF Numbered
  <2> QED
    BY <1>0, <2>5, <2>6, <2>7, PrecedesIsTotal
<1> QED
  BY <1>1, <1>4, <1>5, <1>6, <1>7 DEF page

--------------------------------------------------------------------------------
(* Numbers *)

\* The numbers given to lines that are not committed yet.
Uncommitted == {writing[w].id : w \in {v \in Writers : writing[v].at = "inserted"}}

\* A number is given once: to a line that is there, one that is being written, or one that
\* was purged.
NumbersOK ==
  /\ JournalTypeOK
  /\ PurgedStaysPurged
  /\ \A l \in lines : l.id < nextId /\ l.id \notin Uncommitted
  /\ \A id \in deleted : id < nextId /\ id \notin Uncommitted
  /\ \A id \in Uncommitted : id < nextId
  /\ \A v, w \in Writers : /\ writing[v].at = "inserted" /\ writing[w].at = "inserted"
                           /\ writing[v].id = writing[w].id
                           => v = w

LEMMA LinesAreNumbered ==
  ASSUME JournalTypeOK
  PROVE  Numbered(lines)
<1> DEFINE number == [l \in lines |-> l.id]
<1>1. number \in [lines -> Ids]
  BY DEF JournalTypeOK, Lines
<1>2. \A l, m \in lines : number[l] = number[m] => l = m
  BY DEF JournalTypeOK
<1>3. number \in Injection(lines, Ids)
  <2> HIDE DEF number
  <2> QED
    BY <1>1, <1>2 DEF Injection, IsInjective
<1>4. IsFiniteSet(Ids)
  BY FS_Interval, BoundsAssumption DEF Ids
<1>5. IsFiniteSet(lines)
  BY <1>3, <1>4, FS_Injection
<1> QED
  BY <1>5 DEF JournalTypeOK, Numbered

\* A writer that moves on.
LEMMA DraftMoves ==
  ASSUME JournalTypeOK, NEW w \in Writers, NEW draft \in Drafts, Draft(w, draft)
  PROVE  /\ writing' \in [Writers -> Drafts]
         /\ \A v \in Writers : writing'[v] = IF v = w THEN draft ELSE writing[v]
BY DEF JournalTypeOK, Draft

\* A step that only takes numbers away from those being written.
LEMMA UncommittedShrink ==
  ASSUME JournalTypeOK, NEW w \in Writers, NEW draft \in Drafts, Draft(w, draft),
         draft.at # "inserted"
  PROVE  /\ Uncommitted' \subseteq Uncommitted
         /\ \A v \in Writers : writing'[v].at = "inserted" => v # w /\ writing'[v] = writing[v]
<1>1. \A v \in Writers : writing'[v] = IF v = w THEN draft ELSE writing[v]
  BY DraftMoves
<1>2. \A v \in Writers : writing'[v].at = "inserted" => v # w /\ writing'[v] = writing[v]
  BY <1>1
<1> QED
  BY <1>2 DEF Uncommitted

LEMMA NoDraftIsTyped ==
  NoDraft \in Drafts /\ NoDraft.at = "idle" /\ NoExport \in Downloads
<1>1. 1 \in Ids /\ 1 \in Times /\ <<>> \in Seq(Lines)
  BY BoundsAssumption DEF Ids, Times
<1> QED
  BY <1>1 DEF NoDraft, Drafts, NoExport, Downloads

\* Lines' are what the actions that do not write leave: the same lines, or fewer, with
\* other notes.
LEMMA NumbersKept ==
  ASSUME NumbersOK, JournalTypeOK', nextId' = nextId, Uncommitted' \subseteq Uncommitted,
         \A v \in Writers : writing'[v].at = "inserted" => writing'[v] = writing[v],
         \A m \in lines' : \E l \in lines : l.id = m.id,
         deleted' = deleted
  PROVE  NumbersOK'
<1>1. \A m \in lines' : m.id < nextId /\ m.id \notin Uncommitted' /\ m.id \notin deleted'
  BY DEF NumbersOK, PurgedStaysPurged
<1>2. PurgedStaysPurged'
  BY <1>1 DEF PurgedStaysPurged
<1>3. \A id \in deleted' : id < nextId /\ id \notin Uncommitted'
  BY DEF NumbersOK
<1>4. \A id \in Uncommitted' : id < nextId
  BY DEF NumbersOK
<1>5. \A v, w \in Writers : /\ writing'[v].at = "inserted" /\ writing'[w].at = "inserted"
                            /\ writing'[v].id = writing'[w].id
                            => v = w
  BY DEF NumbersOK
<1> QED
  BY <1>1, <1>2, <1>3, <1>4, <1>5 DEF NumbersOK

LEMMA InsertKeepsNumbers ==
  ASSUME NumbersOK, NEW w \in Writers, Insert(w)
  PROVE  NumbersOK'
<1> DEFINE draft == [writing[w] EXCEPT !.at = "inserted", !.id = nextId]
<1>1. JournalTypeOK /\ MaxLines \in Nat /\ nextId \in 1..(MaxLines + 1) /\ nextId <= MaxLines
  BY BoundsAssumption DEF NumbersOK, JournalTypeOK, Insert
<1>2. writing[w] \in Drafts /\ nextId \in Ids /\ nextId \in Nat
  BY <1>1 DEF JournalTypeOK, Ids
<1>3. draft \in Drafts /\ draft.id = nextId /\ draft.at = "inserted"
  BY <1>2 DEF Drafts
<1>4. Draft(w, draft)
  BY DEF Insert
<1> HIDE DEF draft
<1>5. /\ writing' \in [Writers -> Drafts]
      /\ \A v \in Writers : writing'[v] = IF v = w THEN draft ELSE writing[v]
  BY <1>1, <1>3, <1>4, DraftMoves
<1>6. Uncommitted' \subseteq Uncommitted \cup {nextId}
  BY <1>3, <1>5 DEF Uncommitted
<1>7. nextId' = nextId + 1 /\ UNCHANGED <<now, lines, annotating, kept, purging, export, deleted>>
  BY DEF Insert
<1>8. nextId' \in 1..(MaxLines + 1)
  BY <1>1, <1>7
<1>9. JournalTypeOK'
  BY <1>1, <1>5, <1>7, <1>8 DEF JournalTypeOK
<1>10. /\ \A l \in lines : l.id \in Nat
       /\ \A id \in deleted : id \in Nat
       /\ \A id \in Uncommitted : id \in Nat
  <2>1. \A v \in Writers : writing[v].id \in Nat
    BY <1>1 DEF JournalTypeOK, Drafts, Ids
  <2> QED
    BY <1>1, <2>1 DEF JournalTypeOK, Lines, Ids, Uncommitted
<1>11. /\ \A l \in lines : l.id < nextId /\ l.id \notin Uncommitted /\ l.id \notin deleted
       /\ \A id \in deleted : id < nextId /\ id \notin Uncommitted
       /\ \A id \in Uncommitted : id < nextId
  BY DEF NumbersOK, PurgedStaysPurged
<1>12. /\ \A l \in lines : l.id < nextId + 1 /\ l.id # nextId
       /\ \A id \in deleted : id < nextId + 1 /\ id # nextId
       /\ \A id \in Uncommitted : id < nextId + 1 /\ id # nextId
  BY <1>2, <1>10, <1>11
<1>13. \A u, v \in Writers : /\ writing'[u].at = "inserted" /\ writing'[v].at = "inserted"
                             /\ writing'[u].id = writing'[v].id
                             => u = v
  <2>1. \A v \in Writers : writing[v].at = "inserted" => writing[v].id # nextId
    BY <1>12 DEF Uncommitted
  <2> QED
    BY <1>3, <1>5, <2>1 DEF NumbersOK
<1>14. nextId < nextId + 1
  BY <1>2
<1>15. /\ \A l \in lines : l.id < nextId' /\ l.id \notin Uncommitted'
       /\ \A id \in deleted : id < nextId' /\ id \notin Uncommitted'
       /\ \A id \in Uncommitted' : id < nextId'
  BY <1>6, <1>7, <1>11, <1>12, <1>14
<1>16. PurgedStaysPurged'
  BY <1>7, <1>11 DEF PurgedStaysPurged
<1> QED
  BY <1>7, <1>9, <1>13, <1>15, <1>16 DEF NumbersOK

LEMMA CommitKeepsNumbers ==
  ASSUME NumbersOK, NEW w \in Writers, Commit(w)
  PROVE  NumbersOK'
<1> DEFINE line == [id |-> writing[w].id, ts |-> writing[w].ts, note |-> Blank]
<1>1. JournalTypeOK /\ writing[w] \in Drafts /\ writing[w].at = "inserted"
  BY DEF NumbersOK, JournalTypeOK, Commit
<1>2. line \in Lines /\ line.id = writing[w].id
  BY <1>1 DEF Drafts, Lines
<1>3. lines' = lines \cup {line} /\ Draft(w, NoDraft)
      /\ UNCHANGED <<now, nextId, annotating, kept, purging, export, deleted>>
  BY DEF Commit
<1> HIDE DEF line
<1>4. line.id \in Uncommitted
  BY <1>1, <1>2 DEF Uncommitted
<1>5. /\ Uncommitted' \subseteq Uncommitted
      /\ \A v \in Writers : writing'[v].at = "inserted" => v # w /\ writing'[v] = writing[v]
  BY <1>1, <1>3, NoDraftIsTyped, UncommittedShrink
<1>6. line.id \notin Uncommitted'
  <2>1. \A v \in Writers : writing'[v].at = "inserted" => writing'[v].id # line.id
    BY <1>1, <1>2, <1>5 DEF NumbersOK
  <2> QED
    BY <2>1 DEF Uncommitted
<1>7. /\ \A l \in lines : l.id < nextId /\ l.id \notin Uncommitted /\ l.id \notin deleted
      /\ \A id \in deleted : id < nextId /\ id \notin Uncommitted
      /\ \A id \in Uncommitted : id < nextId
  BY DEF NumbersOK, PurgedStaysPurged
<1>8. \A l \in lines' : l.id < nextId /\ l.id \notin Uncommitted' /\ l.id \notin deleted
  BY <1>3, <1>4, <1>5, <1>6, <1>7
<1>9. lines' \subseteq Lines /\ \A l, m \in lines' : l.id = m.id => l = m
  BY <1>1, <1>2, <1>3, <1>4, <1>7 DEF JournalTypeOK
<1>10. writing' \in [Writers -> Drafts]
  BY <1>1, <1>3, NoDraftIsTyped, DraftMoves
<1>11. JournalTypeOK'
  BY <1>1, <1>3, <1>9, <1>10 DEF JournalTypeOK
<1>12. \A u, v \in Writers : /\ writing'[u].at = "inserted" /\ writing'[v].at = "inserted"
                             /\ writing'[u].id = writing'[v].id
                             => u = v
  BY <1>5 DEF NumbersOK
<1>13. PurgedStaysPurged'
  BY <1>3, <1>8 DEF PurgedStaysPurged
<1> QED
  BY <1>3, <1>5, <1>7, <1>8, <1>11, <1>12, <1>13 DEF NumbersOK

\* What an annotation leaves of the lines.
LEMMA AnnotatedLines ==
  ASSUME JournalTypeOK, AnnotationCommits
  PROVE  /\ lines' \subseteq Lines
         /\ \A l, m \in lines' : l.id = m.id => l = m
         /\ \A m \in lines' : \E l \in lines : l.id = m.id /\ l.ts = m.ts
         /\ \A l \in lines : \E m \in lines' : l.id = m.id /\ l.ts = m.ts
<1>1. PICK note \in Notes :
        lines' = {IF l.id = annotating.id THEN [l EXCEPT !.note = note] ELSE l : l \in lines}
  BY DEF AnnotationCommits
<1> DEFINE noted(l) == IF l.id = annotating.id THEN [l EXCEPT !.note = note] ELSE l
<1>2. ASSUME NEW l \in lines
      PROVE  noted(l) \in Lines /\ noted(l).id = l.id /\ noted(l).ts = l.ts
  <2>1. l \in Lines
    BY DEF JournalTypeOK
  <2> QED
    BY <2>1 DEF Lines
<1>3. lines' = {noted(l) : l \in lines}
  BY <1>1
<1> HIDE DEF noted
<1>4. \A l, m \in lines : l.id = m.id => l = m
  BY DEF JournalTypeOK
<1> QED
  BY <1>2, <1>3, <1>4

LEMMA PurgeKeepsNumbers ==
  ASSUME NumbersOK, PurgeDeletes
  PROVE  NumbersOK'
<1> DEFINE gone == {l.id : l \in Expired}
<1>1. JournalTypeOK /\ Expired \subseteq lines
  BY DEF NumbersOK, Expired
<1>2. /\ lines' = lines \ Expired /\ deleted' = deleted \cup gone /\ purging' = 0
      /\ export' = [e \in Exports |-> [export[e] EXCEPT !.due = @ \ gone]]
      /\ UNCHANGED <<now, nextId, writing, annotating, kept>>
  BY DEF PurgeDeletes
<1>3. gone \subseteq Ids /\ \A id \in gone : \E l \in lines : l.id = id
  BY <1>1 DEF JournalTypeOK, Lines
<1>4. \A l \in lines' : l.id \notin gone
  BY <1>1, <1>2 DEF JournalTypeOK
<1> HIDE DEF gone
<1>5. export' \in [Exports -> Downloads]
  <2>1. ASSUME NEW e \in Exports PROVE [export[e] EXCEPT !.due = @ \ gone] \in Downloads
    BY <1>1 DEF JournalTypeOK, Downloads
  <2> QED
    BY <1>2, <2>1
<1>6. JournalTypeOK'
  BY <1>1, <1>2, <1>3, <1>5 DEF JournalTypeOK
<1>7. Uncommitted' = Uncommitted
  BY <1>2 DEF Uncommitted
<1>8. \A id \in deleted' : id < nextId /\ id \notin Uncommitted
  BY <1>2, <1>3 DEF NumbersOK
<1>9. PurgedStaysPurged'
  BY <1>2, <1>4 DEF NumbersOK, PurgedStaysPurged
<1> QED
  BY <1>2, <1>6, <1>7, <1>8, <1>9 DEF NumbersOK

\* The last line of the page, which the cursor becomes, and what is sent are lines.
LEMMA ReadsTypes ==
  ASSUME JournalTypeOK, NEW e \in Exports, ExportReads(e)
  PROVE  export' \in [Exports -> Downloads]
<1> DEFINE page == Page(Rest(export[e].cursor))
           due == IF export[e].cursor = NoLine THEN {l.id : l \in lines} ELSE export[e].due
<1>1. export[e] \in Downloads /\ lines \subseteq Lines
  BY DEF JournalTypeOK
<1>2. due \in SUBSET Ids
  BY <1>1 DEF Downloads, Lines
<1>3. Numbered(Rest(export[e].cursor))
  <2>1. Numbered(lines) /\ Rest(export[e].cursor) \subseteq lines
    BY LinesAreNumbered DEF Rest
  <2> QED
    BY <2>1, FS_Subset DEF Numbered
<1>4. page \in Seq(Lines) /\ (page # <<>> => page[Len(page)] \in Lines)
  <2>1. page \in Seq(Rest(export[e].cursor))
    BY <1>3, PageOfLines
  <2>2. Rest(export[e].cursor) \subseteq Lines
    BY <1>3 DEF Numbered
  <2> HIDE DEF page
  <2>3. page \in Seq(Lines)
    BY <2>1, <2>2
  <2>4. page # <<>> => Len(page) \in 1..Len(page)
    BY <2>3
  <2> QED
    BY <2>3, <2>4
<1>5. export' = [export EXCEPT ![e] =
          IF page = <<>> THEN [export[e] EXCEPT !.at = "done", !.due = due]
          ELSE [export[e] EXCEPT !.cursor = page[Len(page)], !.file = export[e].file \o page, !.due = due]]
  BY DEF ExportReads
<1> HIDE DEF page, due
<1>6. [export[e] EXCEPT !.at = "done", !.due = due] \in Downloads
  BY <1>1, <1>2 DEF Downloads
<1>7. page # <<>> =>
        [export[e] EXCEPT !.cursor = page[Len(page)], !.file = export[e].file \o page, !.due = due] \in Downloads
  <2>1. export[e].file \o page \in Seq(Lines)
    BY <1>1, <1>4 DEF Downloads
  <2> QED
    BY <1>1, <1>2, <1>4, <2>1 DEF Downloads
<1> QED
  BY <1>5, <1>6, <1>7 DEF JournalTypeOK

LEMMA NextKeepsNumbers ==
  ASSUME NumbersOK, [JournalNext]_journalVars
  PROVE  NumbersOK'
<1>0. JournalTypeOK
  BY DEF NumbersOK
<1> DEFINE quiet == lines' = lines /\ nextId' = nextId /\ deleted' = deleted
<1>1. ASSUME quiet, JournalTypeOK', Uncommitted' \subseteq Uncommitted,
             \A v \in Writers : writing'[v].at = "inserted" => writing'[v] = writing[v]
      PROVE  NumbersOK'
  BY <1>1, NumbersKept
<1>2. ASSUME quiet, JournalTypeOK', writing' = writing
      PROVE  NumbersOK'
  <2>1. Uncommitted' = Uncommitted
    BY <1>2 DEF Uncommitted
  <2> QED
    BY <1>1, <1>2, <2>1
<1>3. ASSUME NEW w \in Writers, Build(w) PROVE NumbersOK'
  <2> DEFINE draft == [NoDraft EXCEPT !.at = "built", !.ts = now]
  <2>1. draft \in Drafts /\ draft.at = "built"
    BY <1>0, NoDraftIsTyped DEF Drafts, JournalTypeOK
  <2>2. Draft(w, draft) /\ UNCHANGED <<now, lines, nextId, annotating, kept, purging, export, deleted>>
    BY <1>3 DEF Build
  <2> HIDE DEF draft
  <2>3. writing' \in [Writers -> Drafts]
    BY <1>0, <2>1, <2>2, DraftMoves
  <2>4. JournalTypeOK'
    BY <1>0, <2>2, <2>3 DEF JournalTypeOK
  <2> QED
    BY <1>0, <1>1, <2>1, <2>2, <2>4, UncommittedShrink
<1>4. ASSUME NEW w \in Writers, WriteFails(w) PROVE NumbersOK'
  <2>1. Draft(w, NoDraft) /\ UNCHANGED <<now, lines, nextId, annotating, kept, purging, export, deleted>>
    BY <1>4 DEF WriteFails
  <2>2. writing' \in [Writers -> Drafts]
    BY <1>0, <2>1, DraftMoves, NoDraftIsTyped
  <2>3. JournalTypeOK'
    BY <1>0, <2>1, <2>2 DEF JournalTypeOK
  <2> QED
    BY <1>0, <1>1, <2>1, <2>3, UncommittedShrink, NoDraftIsTyped
<1>5. ASSUME NEW w \in Writers, Insert(w) \/ Commit(w) PROVE NumbersOK'
  BY <1>5, InsertKeepsNumbers, CommitKeepsNumbers
<1>6. CASE AnnotationLoads
  <2>1. \E l \in lines : annotating' = l
    BY <1>6 DEF AnnotationLoads
  <2>2. quiet /\ writing' = writing /\ UNCHANGED <<now, kept, purging, export>>
    BY <1>6 DEF AnnotationLoads
  <2>3. JournalTypeOK'
    BY <1>0, <2>1, <2>2 DEF JournalTypeOK
  <2> QED
    BY <1>2, <2>2, <2>3
<1>7. CASE AnnotationCommits
  <2>1. annotating' = NoLine /\ UNCHANGED <<now, nextId, writing, kept, purging, export, deleted>>
    BY <1>7 DEF AnnotationCommits
  <2>2. /\ lines' \subseteq Lines
        /\ \A l, m \in lines' : l.id = m.id => l = m
        /\ \A m \in lines' : \E l \in lines : l.id = m.id
    BY <1>0, <1>7, AnnotatedLines
  <2>3. JournalTypeOK'
    BY <1>0, <2>1, <2>2 DEF JournalTypeOK
  <2>4. Uncommitted' = Uncommitted
    BY <2>1 DEF Uncommitted
  <2> QED
    BY <2>1, <2>2, <2>3, <2>4, NumbersKept
<1>8. CASE PurgeStarts
  <2>1. quiet /\ writing' = writing /\ purging' = kept /\ UNCHANGED <<now, annotating, kept, export>>
    BY <1>8 DEF PurgeStarts
  <2>2. JournalTypeOK'
    BY <1>0, <2>1 DEF JournalTypeOK
  <2> QED
    BY <1>2, <2>1, <2>2
<1>9. CASE PurgeDeletes
  BY <1>9, PurgeKeepsNumbers
<1>10. CASE SaveRetention
  <2>1. quiet /\ writing' = writing /\ kept' \in Retentions /\ UNCHANGED <<now, annotating, purging, export>>
    BY <1>10 DEF SaveRetention
  <2>2. JournalTypeOK'
    BY <1>0, <2>1 DEF JournalTypeOK
  <2> QED
    BY <1>2, <2>1, <2>2
<1>11. CASE DayPasses
  <2>1. quiet /\ writing' = writing /\ UNCHANGED <<annotating, kept, purging, export>>
    BY <1>11 DEF DayPasses
  <2>2. now' \in Times
    BY <1>0, <1>11, BoundsAssumption DEF DayPasses, JournalTypeOK, Times
  <2>3. JournalTypeOK'
    BY <1>0, <2>1, <2>2 DEF JournalTypeOK
  <2> QED
    BY <1>2, <2>1, <2>3
<1>12. ASSUME NEW e \in Exports, ExportStarts(e) \/ ExportReads(e) \/ ExportStops(e) PROVE NumbersOK'
  <2>1. quiet /\ writing' = writing /\ UNCHANGED <<now, annotating, kept, purging>>
    BY <1>12 DEF ExportStarts, ExportReads, ExportStops
  <2>2. [NoExport EXCEPT !.at = "reading"] \in Downloads
    BY NoDraftIsTyped DEF Downloads
  <2>3. export' \in [Exports -> Downloads]
    BY <1>0, <1>12, <2>2, ReadsTypes, NoDraftIsTyped DEF ExportStarts, ExportStops, JournalTypeOK
  <2>4. JournalTypeOK'
    BY <1>0, <2>1, <2>3 DEF JournalTypeOK
  <2> QED
    BY <1>2, <2>1, <2>4
<1>13. CASE UNCHANGED journalVars
  <2>1. quiet /\ writing' = writing /\ UNCHANGED <<now, annotating, kept, purging, export>>
    BY <1>13 DEF journalVars
  <2>2. JournalTypeOK'
    BY <1>0, <2>1 DEF JournalTypeOK
  <2> QED
    BY <1>2, <2>1, <2>2
<1> QED
  BY <1>3, <1>4, <1>5, <1>6, <1>7, <1>8, <1>9, <1>10, <1>11, <1>12, <1>13 DEF JournalNext

LEMMA InitNumbers ==
  ASSUME JournalInit
  PROVE  NumbersOK
<1>1. 1 \in Times /\ nextId \in 1..(MaxLines + 1)
  BY BoundsAssumption DEF JournalInit, Times
<1>2. writing = [w \in Writers |-> NoDraft] /\ export = [e \in Exports |-> NoExport]
  BY DEF JournalInit
<1>3. JournalTypeOK
  BY <1>1, <1>2, NoDraftIsTyped DEF JournalInit, JournalTypeOK
<1>4. Uncommitted = {} /\ \A w \in Writers : writing[w].at # "inserted"
  BY <1>2, NoDraftIsTyped DEF Uncommitted
<1> QED
  BY <1>3, <1>4 DEF JournalInit, NumbersOK, PurgedStaysPurged

\* Types of the table, the writers and the exports; a number names one line.
THEOREM JournalTypeCorrect ==
  JournalSpec => []JournalTypeOK
<1>1. JournalInit => NumbersOK
  BY InitNumbers
<1>2. NumbersOK /\ [JournalNext]_journalVars => NumbersOK'
  BY NextKeepsNumbers
<1>3. NumbersOK => JournalTypeOK
  BY DEF NumbersOK
<1> QED
  BY <1>1, <1>2, <1>3, PTL DEF JournalSpec

\* What the purge has erased does not come back, though a request may hold a line it loaded
\* before, and a writer a line it has not committed.  The invariant is about numbers: each
\* is given once, so that no line written or annotated later bears the number of a purged
\* one (NumbersOK).
THEOREM PurgedLinesStayPurged ==
  JournalSpec => []PurgedStaysPurged
<1>1. JournalInit => NumbersOK
  BY InitNumbers
<1>2. NumbersOK /\ [JournalNext]_journalVars => NumbersOK'
  BY NextKeepsNumbers
<1>3. NumbersOK => PurgedStaysPurged
  BY DEF NumbersOK
<1> QED
  BY <1>1, <1>2, <1>3, PTL DEF JournalSpec

--------------------------------------------------------------------------------
(* Files *)

Sorted(file) ==
  \A i, j \in 1..Len(file) : i < j => Precedes(file[i], file[j]) /\ file[i].id # file[j].id

\* The cursor is the last line sent; before the first page nothing is due.
AtItsEnd(x) ==
  IF x.file = <<>> THEN x.cursor = NoLine /\ x.due = {} ELSE x.cursor = x.file[Len(x.file)]

\* No line that is there, or will be, bears the number of a line sent and another date.
Settled(l) ==
  /\ l.id < nextId /\ l.id \notin Uncommitted
  /\ \A m \in lines : m.id = l.id => m.ts = l.ts

Sent(x, id) == \E i \in 1..Len(x.file) : x.file[i].id = id

Awaited(x, id) == x.at = "reading" /\ \E l \in lines : l.id = id /\ Precedes(x.cursor, l)

FileOK(x) ==
  /\ Sorted(x.file) /\ AtItsEnd(x)
  /\ \A i \in 1..Len(x.file) : Settled(x.file[i])
  /\ \A id \in x.due : Sent(x, id) \/ Awaited(x, id)

FilesOK == \A e \in Exports : FileOK(export[e])

\* What the writers, the technician and the purge may do to an export under way.
LEMMA FileKept ==
  ASSUME JournalTypeOK, JournalTypeOK', NEW e \in Exports, FileOK(export[e]),
         export'[e].at = export[e].at, export'[e].file = export[e].file,
         export'[e].cursor = export[e].cursor, export'[e].due \subseteq export[e].due,
         nextId <= nextId',
         \A id \in Uncommitted' : id \in Uncommitted \/ id >= nextId,
         \A m \in lines' : m.id \in Uncommitted \/ \E l \in lines : l.id = m.id /\ l.ts = m.ts,
         \A l \in lines : l.id \in export'[e].due => \E m \in lines' : m.id = l.id /\ m.ts = l.ts
  PROVE  FileOK(export[e])'
<1> DEFINE x == export[e]
           y == export'[e]
<1>1. x \in Downloads /\ x.file \in Seq(Lines) /\ Len(x.file) \in Nat
  BY DEF JournalTypeOK, Downloads
<1>2. /\ y.at = x.at /\ y.file = x.file /\ y.cursor = x.cursor /\ y.due \subseteq x.due
      /\ FileOK(x)
  OBVIOUS
<1>3. Sorted(y.file) /\ AtItsEnd(y)
  BY <1>2 DEF FileOK, AtItsEnd
<1>4. ASSUME NEW i \in 1..Len(y.file)
      PROVE  /\ y.file[i].id < nextId' /\ y.file[i].id \notin Uncommitted'
             /\ \A m \in lines' : m.id = y.file[i].id => m.ts = y.file[i].ts
  <2>1. Settled(y.file[i]) /\ y.file[i].id \in Nat
    BY <1>1, <1>2, LinesHaveNat DEF FileOK
  <2>2. nextId \in Nat /\ nextId' \in Nat
    BY NoLineAssumption DEF JournalTypeOK
  <2>3. y.file[i].id < nextId' /\ ~(y.file[i].id >= nextId)
    BY <2>1, <2>2 DEF Settled
  <2> QED
    BY <2>1, <2>3 DEF Settled
<1>5. ASSUME NEW id \in y.due
      PROVE  \/ \E i \in 1..Len(y.file) : y.file[i].id = id
             \/ y.at = "reading" /\ \E m \in lines' : m.id = id /\ Precedes(y.cursor, m)
  <2>1. Sent(x, id) \/ Awaited(x, id)
    BY <1>2 DEF FileOK
  <2>2. CASE Sent(x, id)
    BY <1>2, <2>2 DEF Sent
  <2>3. CASE Awaited(x, id)
    <3>1. PICK l \in lines : l.id = id /\ Precedes(x.cursor, l) /\ x.at = "reading"
      BY <2>3 DEF Awaited
    <3>2. PICK m \in lines' : m.id = l.id /\ m.ts = l.ts
      BY <1>5, <3>1
    <3>3. Precedes(y.cursor, m)
      BY <1>2, <3>1, <3>2 DEF Precedes
    <3> QED
      BY <1>2, <3>1, <3>2, <3>3
  <2> QED
    BY <2>1, <2>2, <2>3
<1> HIDE DEF x
<1> QED
  BY <1>3, <1>4, <1>5 DEF FileOK, Settled, Sent, Awaited, Sorted, AtItsEnd, Precedes

LEMMA ReadsFile ==
  ASSUME NumbersOK, NEW e \in Exports, FileOK(export[e]), ExportReads(e)
  PROVE  FileOK(export[e])'
<1> DEFINE x == export[e]
           y == export'[e]
           rest == Rest(x.cursor)
           page == Page(rest)
           due == IF x.cursor = NoLine THEN {l.id : l \in lines} ELSE x.due
           n == Len(x.file)
           k == Len(page)
<1>0. JournalTypeOK /\ x \in Downloads /\ lines \subseteq Lines
  BY DEF NumbersOK, JournalTypeOK
<1>1. x.file \in Seq(Lines) /\ n \in Nat /\ (\A i \in 1..n : x.file[i] \in Lines) /\ x.at = "reading"
  BY <1>0 DEF Downloads, ExportReads
<1>2. rest \subseteq lines /\ Numbered(rest)
  <2>1. rest \subseteq lines
    BY DEF Rest
  <2>2. Numbered(lines)
    BY <1>0, LinesAreNumbered
  <2> HIDE DEF rest
  <2>3. IsFiniteSet(rest)
    BY <2>1, <2>2, FS_Subset DEF Numbered
  <2> QED
    BY <2>1, <2>2, <2>3 DEF Numbered
<1>3. /\ page \in Seq(rest) /\ k \in Nat
      /\ page = <<>> => rest = {}
      /\ \A i, j \in 1..k : i < j => Precedes(page[i], page[j])
      /\ \A l \in rest : \/ \E i \in 1..k : page[i] = l
                         \/ Precedes(page[k], l)
  <2> HIDE DEF rest
  <2> QED
    BY <1>2, PageOfLines
<1>4. y = IF page = <<>> THEN [x EXCEPT !.at = "done", !.due = due]
          ELSE [x EXCEPT !.cursor = page[Len(page)], !.file = x.file \o page, !.due = due]
  <2>1. export \in [Exports -> Downloads]
    BY <1>0 DEF JournalTypeOK
  <2> QED
    BY <2>1 DEF ExportReads
<1>5. lines' = lines /\ nextId' = nextId /\ writing' = writing
  BY DEF ExportReads
<1>6. Uncommitted' = Uncommitted
  BY <1>5 DEF Uncommitted
<1>7. /\ Sorted(x.file) /\ AtItsEnd(x)
      /\ \A i \in 1..n : Settled(x.file[i])
      /\ \A id \in x.due : Sent(x, id) \/ Awaited(x, id)
  BY DEF FileOK
<1>8. \A l \in rest : l \in Lines /\ l \in lines /\ (x.cursor # NoLine => Precedes(x.cursor, l))
  BY <1>0, <1>2 DEF Rest
<1>9. \A l \in lines : x.cursor = NoLine \/ Precedes(x.cursor, l) => l \in rest
  BY DEF Rest
<1> HIDE DEF rest, page
<1>10. IF x.cursor = NoLine THEN x.file = <<>> /\ n = 0 ELSE n > 0 /\ x.cursor = x.file[n] /\ x.file # <<>>
  <2>1. CASE x.file = <<>>
    BY <1>7, <2>1 DEF AtItsEnd
  <2>2. CASE x.file # <<>>
    <3>1. x.cursor = x.file[n]
      BY <1>7, <2>2 DEF AtItsEnd
    <3>2. n > 0 /\ x.file[n] \in Lines
      BY <1>1, <2>2
    <3> QED
      BY <2>2, <3>1, <3>2, NoLineAssumption
  <2> QED
    BY <2>1, <2>2
\* What is due after the page was sent, or is still to come.
<1>11. ASSUME NEW id \in due
       PROVE  Sent(x, id) \/ \E l \in rest : l.id = id
  <2>1. CASE x.cursor = NoLine
    BY <1>9, <1>11, <2>1
  <2>2. CASE x.cursor # NoLine
    <3>1. Sent(x, id) \/ \E l \in lines : l.id = id /\ Precedes(x.cursor, l)
      BY <1>7, <1>11, <2>2 DEF Awaited
    <3> QED
      BY <1>9, <3>1
  <2> QED
    BY <2>1, <2>2
<1>12. x.cursor = NoLine /\ rest = {} => due = {}
  BY <1>9
<1> HIDE DEF due, x, y, n, k
<1>13. CASE page = <<>>
  <2>1. y = [x EXCEPT !.at = "done", !.due = due] /\ rest = {}
    BY <1>3, <1>4, <1>13
  <2>2. y.file = x.file /\ y.cursor = x.cursor /\ y.due = due
    BY <1>0, <2>1 DEF Downloads
  <2>3. AtItsEnd(y)
    BY <1>7, <1>10, <1>12, <2>1, <2>2 DEF AtItsEnd, n
  <2>4. \A id \in y.due : \E i \in 1..Len(y.file) : y.file[i].id = id
    BY <1>11, <2>1, <2>2 DEF Sent
  <2> QED
    BY <1>5, <1>6, <1>7, <2>2, <2>3, <2>4 DEF FileOK, Settled, Sent, Sorted, AtItsEnd, Precedes, y, n
<1>14. CASE page # <<>>
  <2>1. y = [x EXCEPT !.cursor = page[k], !.file = x.file \o page, !.due = due]
    BY <1>4, <1>14 DEF k
  <2>2. y.file = x.file \o page /\ y.cursor = page[k] /\ y.due = due /\ y.at = "reading"
    BY <1>0, <1>1, <2>1 DEF Downloads
  <2>3. k > 0 /\ \A i \in 1..k : page[i] \in rest /\ page[i] \in Lines /\ page[i] \in lines
    <3>1. k > 0 /\ \A i \in 1..k : page[i] \in rest
      BY <1>3, <1>14 DEF k
    <3> QED
      BY <1>8, <3>1
  <2>4. /\ Len(y.file) = n + k
        /\ \A i \in 1..n : y.file[i] = x.file[i]
        /\ \A i \in 1..k : y.file[n + i] = page[i]
    <3>1. page \in Seq(Lines)
      BY <1>3, <2>3 DEF k
    <3>2. /\ Len(x.file \o page) = Len(x.file) + Len(page)
          /\ \A i \in 1..(Len(x.file) + Len(page)) :
               (x.file \o page)[i] = IF i <= Len(x.file) THEN x.file[i] ELSE page[i - Len(x.file)]
      BY <1>1, <3>1, ConcatProperties
    <3>3. Len(y.file) = n + k
      BY <2>2, <3>2 DEF n, k
    <3>4. \A i \in 1..n : y.file[i] = x.file[i]
      BY <1>1, <1>3, <2>2, <3>2 DEF n, k
    <3>5. ASSUME NEW i \in 1..k PROVE y.file[n + i] = page[i]
      <4>1. n + i \in 1..(n + k) /\ ~(n + i <= n) /\ (n + i) - n = i
        BY <1>1, <1>3
      <4> QED
        BY <2>2, <3>2, <4>1 DEF n, k
    <3> QED
      BY <3>3, <3>4, <3>5
  <2>5. ASSUME NEW i \in 1..n, NEW l \in rest
        PROVE  Precedes(x.file[i], l) /\ x.file[i].id # l.id
    <3>1. x.cursor # NoLine /\ x.cursor = x.file[n] /\ n \in 1..n
      <4>1. n # 0
        BY <1>1
      <4> QED
        BY <1>1, <1>10, <4>1
    <3>2. Precedes(x.file[n], l) /\ l \in Lines /\ l \in lines
      BY <1>8, <3>1
    <3>3. i = n \/ Precedes(x.file[i], x.file[n])
      BY <1>1, <1>7, <3>1 DEF Sorted, n
    <3>4. x.file[i] \in Lines /\ x.file[n] \in Lines
      BY <1>1, <3>1
    <3>5. Precedes(x.file[i], l)
      BY <3>2, <3>3, <3>4, PrecedesIsTotal
    <3>6. x.file[i].id # l.id
      <4>1. Settled(x.file[i])
        BY <1>7
      <4>2. CASE x.file[i].id = l.id
        <5>1. l.ts = x.file[i].ts
          BY <3>2, <4>1, <4>2 DEF Settled
        <5> QED
          BY <3>2, <3>4, <3>5, <4>2, <5>1, LinesHaveNat DEF Precedes
      <4> QED
        BY <4>2
    <3> QED
      BY <3>5, <3>6
  <2>6. ASSUME NEW i \in 1..k, NEW j \in 1..k, i < j
        PROVE  Precedes(page[i], page[j]) /\ page[i].id # page[j].id
    <3>1. Precedes(page[i], page[j]) /\ page[i] \in rest /\ page[j] \in rest
      BY <1>3, <2>3, <2>6 DEF k
    <3>2. page[i] # page[j]
      BY <1>8, <3>1, PrecedesIsTotal
    <3> QED
      BY <1>2, <3>1, <3>2 DEF Numbered
  <2>7. ASSUME NEW i \in 1..(n + k)
        PROVE  \/ i \in 1..n /\ y.file[i] = x.file[i]
               \/ \E m \in 1..k : i = n + m /\ y.file[i] = page[m]
    <3>1. CASE i <= n
      BY <1>1, <2>4, <3>1
    <3>2. CASE i > n
      <4>1. i - n \in 1..k /\ i = n + (i - n)
        BY <1>1, <1>3, <3>2 DEF k
      <4> QED
        BY <2>4, <4>1
    <3> QED
      BY <1>1, <1>3, <3>1, <3>2 DEF k
  <2>8. ASSUME NEW i \in 1..(n + k), NEW j \in 1..(n + k), i < j
        PROVE  Precedes(y.file[i], y.file[j]) /\ y.file[i].id # y.file[j].id
    <3>1. CASE i \in 1..n /\ j \in 1..n
      BY <1>7, <2>4, <2>8, <3>1 DEF Sorted, n
    <3>2. ASSUME i \in 1..n, NEW m \in 1..k, j = n + m
          PROVE  Precedes(y.file[i], y.file[j]) /\ y.file[i].id # y.file[j].id
      BY <2>3, <2>4, <2>5, <3>2
    <3>3. ASSUME NEW l \in 1..k, i = n + l, NEW m \in 1..k, j = n + m
          PROVE  Precedes(y.file[i], y.file[j]) /\ y.file[i].id # y.file[j].id
      <4>1. l < m
        BY <1>1, <1>3, <2>8, <3>3 DEF k
      <4> QED
        BY <2>4, <2>6, <3>3, <4>1
    <3>4. ASSUME NEW l \in 1..k, i = n + l, j \in 1..n
          PROVE  FALSE
      BY <1>1, <1>3, <2>8, <3>4 DEF k
    <3> QED
      BY <2>7, <3>1, <3>2, <3>3, <3>4
  <2>9. Sorted(y.file)
    BY <2>4, <2>8 DEF Sorted
  <2>10. AtItsEnd(y)
    <3>1. n + k > 0 /\ k \in 1..k
      BY <1>1, <1>3, <2>3 DEF k
    <3>2. y.file # <<>>
      <4>1. Len(y.file) # 0 /\ Len(<<>>) = 0
        BY <1>1, <1>3, <2>4, <3>1 DEF k
      <4>2. CASE y.file = <<>>
        BY <4>1, <4>2, Zenon
      <4> QED
        BY <4>2
    <3>3. y.cursor = y.file[Len(y.file)]
      BY <2>2, <2>4, <3>1
    <3> QED
      BY <3>2, <3>3 DEF AtItsEnd
  <2>11. ASSUME NEW i \in 1..Len(y.file) PROVE Settled(y.file[i])
    <3>1. CASE i \in 1..n /\ y.file[i] = x.file[i]
      BY <1>7, <3>1
    <3>2. ASSUME NEW m \in 1..k, y.file[i] = page[m] PROVE Settled(y.file[i])
      <4>1. page[m] \in lines
        BY <2>3
      <4>2. page[m].id < nextId /\ page[m].id \notin Uncommitted
        BY <4>1 DEF NumbersOK
      <4>3. \A l \in lines : l.id = page[m].id => l = page[m]
        BY <1>0, <4>1 DEF JournalTypeOK
      <4> QED
        BY <3>2, <4>2, <4>3 DEF Settled
    <3> QED
      BY <2>4, <2>7, <3>1, <3>2
  <2>12. ASSUME NEW id \in y.due
         PROVE  \/ \E i \in 1..Len(y.file) : y.file[i].id = id
                \/ y.at = "reading" /\ \E l \in lines : l.id = id /\ Precedes(y.cursor, l)
    <3>1. CASE Sent(x, id)
      <4>1. PICK i \in 1..n : x.file[i].id = id
        BY <3>1 DEF Sent, n
      <4>2. i \in 1..(n + k)
        BY <1>1, <1>3 DEF k
      <4> QED
        BY <2>4, <4>1, <4>2
    <3>2. ASSUME NEW l \in rest, l.id = id
          PROVE  \/ \E i \in 1..Len(y.file) : y.file[i].id = id
                 \/ y.at = "reading" /\ \E m \in lines : m.id = id /\ Precedes(y.cursor, m)
      <4>1. CASE \E i \in 1..k : page[i] = l
        <5>1. PICK i \in 1..k : page[i] = l
          BY <4>1
        <5>2. n + i \in 1..(n + k)
          BY <1>1, <1>3 DEF k
        <5> QED
          BY <2>4, <3>2, <5>1, <5>2
      <4>2. CASE Precedes(page[k], l)
        BY <1>8, <2>2, <3>2, <4>2
      <4> QED
        BY <1>3, <4>1, <4>2 DEF k
    <3> QED
      BY <1>11, <2>2, <3>1, <3>2
  <2> QED
    BY <1>5, <1>6, <2>9, <2>10, <2>11, <2>12
    DEF FileOK, Settled, Sent, Awaited, Sorted, AtItsEnd, Precedes, y
<1> QED
  BY <1>13, <1>14

LEMMA NextKeepsFiles ==
  ASSUME NumbersOK, FilesOK, [JournalNext]_journalVars
  PROVE  FilesOK'
<1>0. JournalTypeOK /\ NumbersOK' /\ JournalTypeOK'
  BY NextKeepsNumbers DEF NumbersOK
<1>1. nextId \in Nat /\ nextId <= nextId + 1 /\ nextId <= nextId
  BY <1>0, NoLineAssumption DEF JournalTypeOK
<1>2. ASSUME NEW e \in Exports, export' = export, nextId <= nextId',
             \A id \in Uncommitted' : id \in Uncommitted \/ id >= nextId,
             \A m \in lines' : m.id \in Uncommitted \/ \E l \in lines : l.id = m.id /\ l.ts = m.ts,
             \A l \in lines : \E m \in lines' : m.id = l.id /\ m.ts = l.ts
      PROVE  FileOK(export[e])'
  BY <1>0, <1>2, FileKept DEF FilesOK
<1>3. ASSUME UNCHANGED <<lines, nextId, export>>, Uncommitted' \subseteq Uncommitted
      PROVE  FilesOK'
  BY <1>1, <1>2, <1>3 DEF FilesOK
<1>4. ASSUME UNCHANGED <<lines, nextId, writing, export>>
      PROVE  FilesOK'
  <2>1. Uncommitted' = Uncommitted
    BY <1>4 DEF Uncommitted
  <2> QED
    BY <1>3, <1>4, <2>1
<1>5. ASSUME NEW w \in Writers, Build(w) PROVE FilesOK'
  <2> DEFINE draft == [NoDraft EXCEPT !.at = "built", !.ts = now]
  <2>1. draft \in Drafts /\ draft.at = "built"
    BY <1>0, NoDraftIsTyped DEF Drafts, JournalTypeOK
  <2>2. Draft(w, draft) /\ UNCHANGED <<lines, nextId, export>>
    BY <1>5 DEF Build
  <2> HIDE DEF draft
  <2> QED
    BY <1>0, <1>3, <2>1, <2>2, UncommittedShrink
<1>6. ASSUME NEW w \in Writers, WriteFails(w) PROVE FilesOK'
  BY <1>0, <1>3, <1>6, UncommittedShrink, NoDraftIsTyped DEF WriteFails
<1>7. ASSUME NEW w \in Writers, Insert(w) PROVE FilesOK'
  <2>1. lines' = lines /\ nextId' = nextId + 1 /\ export' = export
        /\ writing' = [writing EXCEPT ![w] = [writing[w] EXCEPT !.at = "inserted", !.id = nextId]]
    BY <1>7 DEF Insert, Draft
  <2>2. \A v \in Writers : writing'[v] = writing[v] \/ writing'[v].id = nextId
    BY <1>0, <2>1 DEF JournalTypeOK, Drafts
  <2>3. \A id \in Uncommitted' : id \in Uncommitted \/ id >= nextId
    BY <1>1, <2>2 DEF Uncommitted
  <2> QED
    BY <1>1, <1>2, <2>1, <2>3 DEF FilesOK
<1>8. ASSUME NEW w \in Writers, Commit(w) PROVE FilesOK'
  <2>1. /\ lines' = lines \cup {[id |-> writing[w].id, ts |-> writing[w].ts, note |-> Blank]}
        /\ nextId' = nextId /\ export' = export /\ Draft(w, NoDraft) /\ writing[w].at = "inserted"
    BY <1>8 DEF Commit
  <2>2. writing[w].id \in Uncommitted
    BY <2>1 DEF Uncommitted
  <2>3. Uncommitted' \subseteq Uncommitted
    BY <1>0, <2>1, UncommittedShrink, NoDraftIsTyped
  <2> QED
    BY <1>1, <1>2, <2>1, <2>2, <2>3 DEF FilesOK
<1>9. CASE AnnotationLoads
  BY <1>4, <1>9 DEF AnnotationLoads
<1>10. CASE AnnotationCommits
  <2>1. UNCHANGED <<nextId, writing, export>>
    BY <1>10 DEF AnnotationCommits
  <2>2. Uncommitted' = Uncommitted
    BY <2>1 DEF Uncommitted
  <2>3. /\ \A m \in lines' : \E l \in lines : l.id = m.id /\ l.ts = m.ts
        /\ \A l \in lines : \E m \in lines' : l.id = m.id /\ l.ts = m.ts
    BY <1>0, <1>10, AnnotatedLines
  <2> QED
    BY <1>1, <1>2, <2>1, <2>2, <2>3 DEF FilesOK
<1>11. CASE PurgeStarts
  BY <1>4, <1>11 DEF PurgeStarts
<1>12. CASE PurgeDeletes
  <2> DEFINE gone == {l.id : l \in Expired}
  <2>1. /\ lines' = lines \ Expired
        /\ export' = [e \in Exports |-> [export[e] EXCEPT !.due = @ \ gone]]
        /\ nextId' = nextId /\ writing' = writing
    BY <1>12 DEF PurgeDeletes
  <2>2. \A l \in lines : l.id \notin gone => l \in lines'
    BY <2>1
  <2>3. Uncommitted' = Uncommitted
    BY <2>1 DEF Uncommitted
  <2> HIDE DEF gone
  <2>4. ASSUME NEW e \in Exports
        PROVE  /\ export'[e].at = export[e].at /\ export'[e].file = export[e].file
               /\ export'[e].cursor = export[e].cursor
               /\ export'[e].due = export[e].due \ gone
    BY <1>0, <2>1 DEF JournalTypeOK, Downloads
  <2>5. ASSUME NEW e \in Exports PROVE FileOK(export[e])'
    <3>1. FileOK(export[e])
      BY DEF FilesOK
    <3>2. \A l \in lines : l.id \in export'[e].due => \E m \in lines' : m.id = l.id /\ m.ts = l.ts
      BY <2>2, <2>4
    <3>3. \A m \in lines' : \E l \in lines : l.id = m.id /\ l.ts = m.ts
      BY <2>1
    <3>4. export'[e].due \subseteq export[e].due
      BY <2>4
    <3> QED
      BY <1>0, <1>1, <2>1, <2>3, <2>4, <3>1, <3>2, <3>3, <3>4, FileKept
  <2> QED
    BY <2>5 DEF FilesOK
<1>13. CASE SaveRetention
  BY <1>4, <1>13 DEF SaveRetention
<1>14. CASE DayPasses
  BY <1>4, <1>14 DEF DayPasses
\* An export concerns itself only.
<1>15. ASSUME NEW e \in Exports, UNCHANGED <<lines, nextId, writing>>, FileOK(export[e])',
              \A f \in Exports : f # e => export'[f] = export[f]
       PROVE  FilesOK'
  <2>1. Uncommitted' = Uncommitted
    BY <1>15 DEF Uncommitted
  <2>2. ASSUME NEW f \in Exports, f # e PROVE FileOK(export[f])'
    <3>1. FileOK(export[f]) /\ export'[f] = export[f]
      BY <1>15, <2>2 DEF FilesOK
    <3> QED
      BY <1>0, <1>1, <1>15, <2>1, <3>1, FileKept
  <2> QED
    BY <1>15, <2>2 DEF FilesOK
<1>16. ASSUME NEW e \in Exports, NEW x, x.file = <<>>, x.cursor = NoLine, x.due = {},
              export' = [export EXCEPT ![e] = x], UNCHANGED <<lines, nextId, writing>>
       PROVE  FilesOK'
  <2>1. export'[e] = x /\ \A f \in Exports : f # e => export'[f] = export[f]
    BY <1>0, <1>16 DEF JournalTypeOK
  <2>2. FileOK(export[e])'
    BY <1>16, <2>1 DEF FileOK, Sorted, AtItsEnd
  <2> QED
    BY <1>15, <1>16, <2>1, <2>2
<1>17. ASSUME NEW e \in Exports, ExportStarts(e) PROVE FilesOK'
  <2> DEFINE x == [NoExport EXCEPT !.at = "reading"]
  <2>1. x.file = <<>> /\ x.cursor = NoLine /\ x.due = {}
    BY DEF NoExport
  <2>2. export' = [export EXCEPT ![e] = x] /\ UNCHANGED <<lines, nextId, writing>>
    BY <1>17 DEF ExportStarts
  <2> HIDE DEF x
  <2> QED
    BY <1>16, <2>1, <2>2
<1>18. ASSUME NEW e \in Exports, ExportStops(e) PROVE FilesOK'
  BY <1>16, <1>18 DEF ExportStops, NoExport
<1>19. ASSUME NEW e \in Exports, ExportReads(e) PROVE FilesOK'
  <2>1. FileOK(export[e])'
    BY <1>19, ReadsFile DEF FilesOK
  <2>2. UNCHANGED <<lines, nextId, writing>> /\ \A f \in Exports : f # e => export'[f] = export[f]
    BY <1>0, <1>19 DEF ExportReads, JournalTypeOK
  <2> QED
    BY <1>15, <2>1, <2>2
<1>20. CASE UNCHANGED journalVars
  BY <1>4, <1>20 DEF journalVars
<1> QED
  BY <1>5, <1>6, <1>7, <1>8, <1>9, <1>10, <1>11, <1>12, <1>13, <1>14, <1>17, <1>18, <1>19, <1>20
  DEF JournalNext

\* An export that ends holds every line that was there from its first page to its last, and
\* no line twice, whatever is written, annotated and purged between two pages and whatever
\* the dates.  The invariant (FileOK) says that what is due and not sent comes after the
\* cursor, and that a number sent will not be seen again with another date (Settled): a
\* line inserted before a page and committed after it takes a number nobody was sent.
THEOREM ExportsAreComplete ==
  JournalSpec => []ExportIsComplete
<1>1. JournalInit => NumbersOK
  BY InitNumbers
<1>2. NumbersOK /\ [JournalNext]_journalVars => NumbersOK'
  BY NextKeepsNumbers
<1>3. JournalInit => FilesOK
  <2>1. ASSUME JournalInit, NEW e \in Exports PROVE FileOK(export[e])
    BY <2>1 DEF JournalInit, NoExport, FileOK, Sorted, AtItsEnd
  <2> QED
    BY <2>1 DEF FilesOK
<1>4. NumbersOK /\ FilesOK /\ [JournalNext]_journalVars => FilesOK'
  BY NextKeepsFiles
<1>5. NumbersOK /\ FilesOK => ExportIsComplete
  <2>1. ASSUME NumbersOK, FilesOK, NEW e \in Exports
        PROVE  /\ export[e].at = "done" =>
                    \A id \in export[e].due : \E i \in DOMAIN export[e].file : export[e].file[i].id = id
               /\ \A i, j \in DOMAIN export[e].file : i < j => export[e].file[i].id # export[e].file[j].id
    <3>1. DOMAIN export[e].file = 1..Len(export[e].file)
      <4>1. export[e].file \in Seq(Lines)
        BY <2>1 DEF NumbersOK, JournalTypeOK, Downloads
      <4> QED
        BY <4>1
    <3>2. FileOK(export[e])
      BY <2>1 DEF FilesOK
    <3> QED
      BY <3>1, <3>2 DEF FileOK, Sorted, Sent, Awaited
  <2> QED
    BY <2>1 DEF ExportIsComplete
<1> QED
  BY <1>1, <1>2, <1>3, <1>4, <1>5, PTL DEF JournalSpec
================================================================================
