----------------------------- MODULE PathProofs -----------------------------
(***************************************************************************)
(* Theorems about the way of a packet through process_received_packet, for *)
(* every value of the constants: the receive queue loses nothing, packets  *)
(* are dealt with once and in order, the gateway counters agree, and       *)
(* CanTransmitted is said only of what was transmitted.                    *)
(***************************************************************************)
EXTENDS ApplicationProofs

(***************************************************************************)
(* The receive queue                                                       *)
(***************************************************************************)

\* The packet in hand is the next one to be settled.
QueueInv ==
  /\ QueueConserved
  /\ step # "receive" => packet.id = settled + 1

queueVars == <<queue, accepted, packet, settled, step>>

\* Whatever the main task does after it has taken a packet, it keeps the
\* packet in hand or is done with it.
LEMMA MainTaskShape ==
  ASSUME TypeInv, MainTask
  PROVE  \/ Receive
         \/ /\ step # "receive" /\ UNCHANGED <<queue, accepted, packet>>
            /\ \/ step' # "receive" /\ settled' = settled
               \/ step' = "receive" /\ settled' = packet.id
  <1>1. CASE IgnorePacket \/ AcceptPacket
    BY <1>1 DEF IgnorePacket, AcceptPacket, radioVars
  <1>2. CASE FindDuplicate \/ FindNothing
    BY <1>2 DEF FindDuplicate, FindNothing, radioVars
  <1>3. CASE Reject \/ Transmit
    BY <1>3 DEF Reject, Transmit, radioVars
  <1>4. CASE \E result \in TransmitResult : TransmitReturns(result)
    BY <1>4 DEF TransmitReturns, radioVars
  <1>5. CASE CacheRequest \/ SendAcknowledgement
    BY <1>5 DEF CacheRequest, SendAcknowledgement, radioVars
  <1>6. QED
    BY <1>1, <1>2, <1>3, <1>4, <1>5 DEF MainTask

\* Packets are numbered as they enter the queue, so the head of the queue is
\* the packet after the last settled one.
LEMMA NextQueueInv ==
  ASSUME TypeInv, QueueInv, [Next]_vars PROVE QueueInv'
  <1>1. /\ accepted \in Nat /\ settled \in Nat /\ queue \in Seq(Packet)
        /\ Len(queue) \in Nat
        /\ Len(queue) + (IF step = "receive" THEN 0 ELSE 1)
             = accepted - settled
        /\ \A i \in 1 .. Len(queue) :
             queue[i].id = accepted - Len(queue) + i
        /\ step # "receive" => packet.id = settled + 1
    BY AllAssumptions
    DEF TypeInv, TypeOK, Assumptions, QueueInv, QueueConserved
  <1>2. CASE \E t \in Offered : OnDataReceived(t)
    <2>1. PICK t \in Offered : OnDataReceived(t)
      BY <1>2
    <2>2. UNCHANGED <<packet, settled, step>>
      BY <2>1 DEF OnDataReceived, mainVars
    <2>3. CASE UNCHANGED <<queue, accepted>>
      BY <1>1, <2>2, <2>3 DEF QueueInv, QueueConserved
    <2>4. CASE Len(queue) < QueueDepth
      <3> DEFINE p == [id |-> accepted + 1, source |-> t.source,
                       intact |-> t.intact, message |-> t.message]
      <3>1. queue' = Append(queue, p) /\ accepted' = accepted + 1
        BY <2>1, <2>4 DEF OnDataReceived
      <3>2. p.id = accepted + 1
        OBVIOUS
      <3> HIDE DEF p
      <3>3. Len(queue') = Len(queue) + 1
        BY <1>1, <3>1
      <3>4. \A i \in 1 .. Len(queue') :
              queue'[i] = IF i <= Len(queue) THEN queue[i] ELSE p
        BY <1>1, <3>1
      <3>5. \A i \in 1 .. Len(queue') :
              queue'[i].id = accepted' - Len(queue') + i
        BY <1>1, <3>1, <3>2, <3>3, <3>4
      <3>6. QED
        BY <1>1, <2>2, <3>1, <3>3, <3>5 DEF QueueInv, QueueConserved
    <2>5. QED
      BY <2>1, <2>3, <2>4 DEF OnDataReceived
  <1>3. CASE Receive
    <2>1. /\ step = "receive" /\ step' = "filter" /\ queue # <<>>
          /\ packet' = queue[1] /\ queue' = Tail(queue)
          /\ UNCHANGED <<accepted, settled>>
      BY <1>1, <1>3 DEF Receive
    <2>2. /\ Len(queue) > 0
          /\ Len(queue') = Len(queue) - 1
          /\ \A i \in 1 .. Len(queue') : queue'[i] = queue[i + 1]
      BY <1>1, <2>1
    <2>3. packet'.id = settled + 1
      BY <1>1, <2>1, <2>2
    <2>4. \A i \in 1 .. Len(queue') :
            queue'[i].id = accepted' - Len(queue') + i
      BY <1>1, <2>1, <2>2
    <2>5. QED
      BY <1>1, <2>1, <2>2, <2>3, <2>4 DEF QueueInv, QueueConserved
  <1>4. CASE MainTask /\ ~Receive
    BY <1>1, <1>4, MainTaskShape DEF QueueInv, QueueConserved
  <1>5. CASE UNCHANGED queueVars
    BY <1>1, <1>5 DEF queueVars, QueueInv, QueueConserved
  <1>6. CASE Restart
    BY <1>1, <1>6 DEF Restart, QueueInv, QueueConserved
  <1>7. QED
    BY <1>2, <1>3, <1>4, <1>5, <1>6
    DEF Next, BusStep, Tick, vars, queueVars, radioVars, mainVars

\* Before the queue exists, nothing is in it.
LEMMA InitQueueInv == Init => QueueInv
  BY DEF Init, QueueInv, QueueConserved

\* Queue and packet in hand are related in every state.
THEOREM QueueInvariant == Spec => []QueueInv
  BY InitQueueInv, NextQueueInv, TypeCorrect, PTL DEF Spec

\* The receive queue loses nothing it accepted, whatever its depth.
THEOREM QueueAlwaysConserved == Spec => []QueueConserved
  <1>1. QueueInv => QueueConserved
    BY DEF QueueInv
  <1>2. QED  BY <1>1, QueueInvariant, PTL

(***************************************************************************)
(* Once per packet and in order                                            *)
(***************************************************************************)

\* The last packet that may have been handed to the CAN driver.
Handled == IF step \in {"can", "store", "ack"} THEN settled + 1 ELSE settled

OrderInv ==
  /\ OncePerPacketInOrder
  /\ \A c \in 1 .. Len(executions) : executions[c].id <= Handled
  /\ \A a \in 1 .. Len(answers) : answers[a].id <= settled
  /\ step \in {"lookup", "gateway", "can", "store", "ack"}
       => packet.source = Txu01

\* A sequence of increasing identities stays one when a larger one is added.
LEMMA IncreasingAppend ==
  ASSUME NEW S, NEW s \in Seq(S), NEW e \in S, Increasing(s),
         \A i \in 1 .. Len(s) : s[i].id < e.id
  PROVE  Increasing(Append(s, e))
  <1>1. /\ Len(Append(s, e)) = Len(s) + 1 /\ Len(s) \in Nat
        /\ \A i \in 1 .. Len(s) + 1 :
             Append(s, e)[i] = IF i <= Len(s) THEN s[i] ELSE e
    OBVIOUS
  <1>2. QED
    BY <1>1 DEF Increasing

\* The identities the invariant compares are numbers.
LEMMA Identities ==
  ASSUME TypeInv
  PROVE  /\ accepted \in Nat /\ settled \in Nat /\ Handled \in Nat
         /\ executions \in Seq(Packet) /\ answers \in Seq(Answer)
         /\ \A p \in Packet : p.id \in Nat
         /\ \A c \in 1 .. Len(executions) : executions[c].id \in Nat
         /\ \A a \in 1 .. Len(answers) : answers[a].id \in Nat
  <1>1. MaxArrivals \in Nat
    BY AllAssumptions DEF Assumptions
  <1>2. accepted \in Nat /\ settled \in Nat
    BY <1>1 DEF TypeInv, TypeOK
  <1>3. Handled \in Nat
    BY <1>2 DEF Handled
  <1>4. executions \in Seq(Packet) /\ answers \in Seq(Answer)
    BY DEF TypeInv, TypeOK
  <1>5. (\A p \in Packet : p.id \in Nat) /\ (\A a \in Answer : a.id \in Nat)
    BY <1>1 DEF Packet, Answer
  <1>6. /\ \A c \in 1 .. Len(executions) : executions[c] \in Packet
        /\ \A a \in 1 .. Len(answers) : answers[a] \in Answer
    BY <1>4
  <1>7. QED
    BY <1>2, <1>3, <1>4, <1>5, <1>6

\* Steps that neither execute nor answer and do not settle backwards.
LEMMA QuietOrderInv ==
  ASSUME TypeInv, TypeInv', QueueInv, OrderInv,
         UNCHANGED historyVars, settled <= settled', Handled <= Handled',
         step' \in {"lookup", "gateway", "can", "store", "ack"}
           => packet'.source = Txu01
  PROVE  OrderInv'
  <1>1. /\ settled \in Nat /\ Handled \in Nat
        /\ \A c \in 1 .. Len(executions) : executions[c].id \in Nat
        /\ \A a \in 1 .. Len(answers) : answers[a].id \in Nat
    BY Identities
  <1>2. executions' = executions /\ answers' = answers
    BY DEF historyVars
  <1>3. settled' \in Nat /\ Handled' \in Nat
    <2>1. MaxArrivals \in Nat
      BY AllAssumptions DEF Assumptions
    <2>2. settled' \in Nat
      BY <2>1 DEF TypeInv, TypeOK
    <2>3. \A n \in Nat : n + 1 \in Nat
      OBVIOUS
    <2>4. QED
      BY <2>2, <2>3, Zenon DEF Handled
  <1>4. QED
    BY <1>1, <1>2, <1>3 DEF OrderInv, OncePerPacketInOrder, Increasing

\* Only Transmit executes and only SendAcknowledgement answers, each for the
\* packet in hand, which is the one after the last that was settled.
LEMMA NextOrderInv ==
  ASSUME TypeInv, TypeInv', QueueInv, QueueInv', OrderInv, [Next]_vars
  PROVE  OrderInv'
  <1>1. /\ accepted \in Nat /\ settled \in Nat
        /\ step # "receive" => settled + 1 <= accepted
        /\ settled <= accepted
        /\ step # "receive" => packet.id = settled + 1 /\ packet \in Packet
    <2>1. accepted \in Nat /\ settled \in Nat /\ Len(queue) \in Nat
      BY Identities DEF TypeInv, TypeOK
    <2>2. QED
      BY <2>1 DEF QueueInv, QueueConserved, TypeInv, ControlInv
  <1>2. CASE Receive
    BY <1>1, <1>2, QuietOrderInv DEF Receive, Handled
  <1>3. CASE IgnorePacket \/ AcceptPacket
    BY <1>1, <1>3, QuietOrderInv DEF IgnorePacket, AcceptPacket, Handled
  <1>4. CASE FindDuplicate \/ FindNothing
    BY <1>1, <1>4, QuietOrderInv
    DEF FindDuplicate, FindNothing, Handled, OrderInv
  <1>5. CASE Reject
    BY <1>1, <1>5, QuietOrderInv DEF Reject, Handled, OrderInv
  <1>6. CASE \E result \in TransmitResult : TransmitReturns(result)
    BY <1>1, <1>6, QuietOrderInv DEF TransmitReturns, Handled, OrderInv
  <1>7. CASE CacheRequest
    BY <1>1, <1>7, QuietOrderInv DEF CacheRequest, Handled, OrderInv
  <1>8. CASE Transmit
    <2>1. /\ step = "gateway" /\ step' = "can"
          /\ executions' = Append(executions, packet)
          /\ UNCHANGED <<answers, settled, packet>>
      BY <1>8 DEF Transmit
    <2>2. executions \in Seq(Packet) /\ packet.id \in Nat
          /\ \A c \in 1 .. Len(executions) :
               executions[c].id \in Nat /\ executions[c].id < packet.id
      BY <1>1, <2>1, Identities DEF OrderInv, Handled
    <2>3. Increasing(executions')
      BY <1>1, <2>1, <2>2, IncreasingAppend
      DEF OrderInv, OncePerPacketInOrder
    <2>4. \A c \in 1 .. Len(executions') :
            executions'[c].id <= settled + 1 /\ executions'[c].source = Txu01
      <3>1. \A c \in 1 .. Len(executions') :
              executions'[c] = IF c <= Len(executions) THEN executions[c]
                               ELSE packet
        BY <2>1, <2>2
      <3>2. packet.source = Txu01
        BY <2>1 DEF OrderInv
      <3>3. QED
        BY <1>1, <2>1, <2>2, <3>1, <3>2 DEF OrderInv, OncePerPacketInOrder
    <2>5. QED
      BY <1>1, <2>1, <2>3, <2>4 DEF OrderInv, OncePerPacketInOrder, Handled
  <1>9. CASE SendAcknowledgement
    <2>1. /\ step = "ack" /\ step' = "receive"
          /\ settled' = settled + 1
          /\ UNCHANGED <<packet, executions>>
      BY <1>1, <1>9 DEF SendAcknowledgement
    <2>2. CASE UNCHANGED answers
      BY <1>1, <2>1, <2>2, QuietOrderInv DEF Handled, historyVars
    <2> DEFINE e == [id |-> packet.id, source |-> packet.source,
                     message |-> m, status |-> status]
    <2>3. CASE answers' = Append(answers, e)
      <3>1. /\ e.id = settled + 1 /\ e.source = Txu01
            /\ AcknowledgementRequested(e.message)
            /\ e \in Answer
        BY <1>1, <2>1
        DEF OrderInv, TypeInv, TypeOK, ControlInv, wanted, m, Answer, Packet
      <3> HIDE DEF e
      <3>2. answers \in Seq(Answer)
            /\ \A a \in 1 .. Len(answers) :
                 answers[a].id \in Nat /\ answers[a].id < e.id
        BY <1>1, <3>1, Identities DEF OrderInv
      <3>3. Increasing(answers')
        BY <2>3, <3>1, <3>2, IncreasingAppend
        DEF OrderInv, OncePerPacketInOrder
      <3>4. \A a \in 1 .. Len(answers') :
              answers'[a] = IF a <= Len(answers) THEN answers[a] ELSE e
        BY <2>3, <3>2
      <3>5. \A a \in 1 .. Len(answers') :
              /\ answers'[a].id <= settled + 1
              /\ answers'[a].source = Txu01
              /\ AcknowledgementRequested(answers'[a].message)
        BY <1>1, <3>1, <3>2, <3>4 DEF OrderInv, OncePerPacketInOrder
      <3>6. QED
        BY <1>1, <2>1, <3>3, <3>5
        DEF OrderInv, OncePerPacketInOrder, Handled
    <2>4. QED
      BY <1>9, <2>2, <2>3 DEF SendAcknowledgement
  <1>10. CASE Restart
    BY <1>1, <1>10, QuietOrderInv DEF Restart, Handled
  <1>11. CASE UNCHANGED <<mainVars, historyVars>>
    BY <1>1, <1>11, QuietOrderInv
    DEF Handled, mainVars, historyVars, OrderInv
  <1>12. QED
    BY <1>2, <1>3, <1>4, <1>5, <1>6, <1>7, <1>8, <1>9, <1>10, <1>11
    DEF Next, MainTask, OnDataReceived, BusStep, Tick, vars

\* Nothing was sent, so nothing is out of order.
LEMMA InitOrderInv == Init => OrderInv
  BY DEF Init, OrderInv, OncePerPacketInOrder, Increasing

\* Each packet is transmitted at most once and acknowledged at most once, in
\* order of arrival, and only the peer's requests are.
THEOREM AlwaysOncePerPacketInOrder == Spec => []OncePerPacketInOrder
  <1>1. OrderInv => OncePerPacketInOrder
    BY DEF OrderInv
  <1>2. QED
    BY <1>1, InitOrderInv, NextOrderInv, TypeCorrect, QueueInvariant, PTL
    DEF Spec

(***************************************************************************)
(* The gateway counters                                                    *)
(***************************************************************************)

\* What % does to a sum of two counters and a one.
LEMMA SmallModulus ==
  ASSUME NEW n \in Nat, NEW modulus \in Nat, n < modulus
  PROVE  n % modulus = n
  BY SMTT(30)

\* The remainder of a number below twice the modulus.
LEMMA WrappedModulus ==
  ASSUME NEW n \in Nat, NEW modulus \in Nat, modulus <= n, n < modulus + modulus
  PROVE  n % modulus = n - modulus
  BY SMTT(30)

\* Counting one more in either of two wrapping counters adds one to their sum.
LEMMA CountOneMore ==
  ASSUME NEW a \in Counter, NEW b \in Counter
  PROVE  /\ (Increment(a) + b) % CounterModulus = (a + b + 1) % CounterModulus
         /\ Increment((a + b) % CounterModulus) = (a + b + 1) % CounterModulus
  <1> DEFINE M == CounterModulus
  <1>1. M \in Nat /\ M > 1 /\ a \in Nat /\ b \in Nat /\ a < M /\ b < M
    BY AllAssumptions DEF Assumptions, Counter
  <1> HIDE DEF M
  <1>2. Increment(a) = IF a + 1 < M THEN a + 1 ELSE 0
    <2>1. CASE a + 1 < M
      BY <1>1, <2>1, SmallModulus DEF Increment, M
    <2>2. CASE a + 1 = M
      <3>1. (a + 1) % M = (a + 1) - M
        <4>1. a + 1 \in Nat /\ M <= a + 1 /\ a + 1 < M + M
          BY <1>1, <2>2
        <4>2. QED
          BY <1>1, <4>1, WrappedModulus
      <3>2. QED
        BY <1>1, <2>2, <3>1 DEF Increment, M
    <2>3. QED
      BY <1>1, <2>1, <2>2
  <1>3. (Increment(a) + b) % M = (a + b + 1) % M
    <2>1. CASE a + 1 < M
      BY <1>1, <1>2, <2>1
    <2>2. CASE a + 1 = M
      <3>1. b % M = b
        BY <1>1, SmallModulus
      <3>2. (a + b + 1) % M = (a + b + 1) - M
        <4>1. a + b + 1 \in Nat /\ M <= a + b + 1 /\ a + b + 1 < M + M
          BY <1>1, <2>2
        <4>2. QED
          BY <1>1, <4>1, WrappedModulus
      <3>3. QED
        BY <1>1, <1>2, <2>2, <3>1, <3>2
    <2>3. QED
      BY <1>1, <2>1, <2>2
  <1>4. Increment((a + b) % M) = (a + b + 1) % M
    <2>1. CASE a + b < M
      BY <1>1, <2>1, SmallModulus DEF Increment, M
    <2>2. CASE a + b >= M
      <3>1. (a + b) % M = (a + b) - M
        <4>1. a + b \in Nat /\ M <= a + b /\ a + b < M + M
          BY <1>1, <2>2
        <4>2. QED
          BY <1>1, <4>1, WrappedModulus
      <3>2. Increment((a + b) % M) = ((a + b) - M) + 1
        BY <1>1, <3>1, <2>2, SmallModulus DEF Increment, M
      <3>3. (a + b + 1) % M = (a + b + 1) - M
        <4>1. a + b + 1 \in Nat /\ M <= a + b + 1 /\ a + b + 1 < M + M
          BY <1>1, <2>2
        <4>2. QED
          BY <1>1, <4>1, WrappedModulus
      <3>4. QED
        BY <1>1, <3>2, <3>3
    <2>3. QED
      BY <1>1, <2>1, <2>2
  <1>5. QED
    BY <1>3, <1>4 DEF M

\* The counters start at zero, like what they count.
LEMMA InitStatistics == Init => StatisticsConserved
  BY AllAssumptions, SmallModulus
  DEF Init, GatewayInit, CanInit, ResetStatistics, StatisticsConserved,
      Assumptions

\* A routed command enters the right-hand side as busy and stays in it as
\* sent or failed.
LEMMA NextStatistics ==
  ASSUME TypeInv, StatisticsConserved, [Next]_vars PROVE StatisticsConserved'
  <1> DEFINE routed == statistics.commandsRouted
             sent == statistics.framesSent
             failed == statistics.transmitErrors
  <1>1. /\ statistics \in Statistics
        /\ routed \in Counter /\ sent \in Counter /\ failed \in Counter
        /\ sent \in Nat /\ failed \in Nat
        /\ busy \in BOOLEAN
    BY AllAssumptions
    DEF TypeInv, TypeOK, CanTypeOK, Statistics, Counter, Assumptions
  <1>2. CASE Reject
    <2>1. /\ UNCHANGED busy
          /\ statistics'.commandsRouted = routed
          /\ statistics'.framesSent = sent
          /\ statistics'.transmitErrors = failed
      BY <1>1, <1>2 DEF Reject, RejectMessage, canVars, Statistics
    <2>2. QED
      BY <2>1 DEF StatisticsConserved
  <1>3. CASE Transmit
    <2>1. /\ ~busy /\ busy'
          /\ statistics'.commandsRouted = Increment(routed)
          /\ statistics'.framesSent = sent
          /\ statistics'.transmitErrors = failed
      BY <1>1, <1>3
      DEF Transmit, Handover, RouteMessage, Statistics
    <2>2. routed = (sent + failed) % CounterModulus
      BY <1>1, <2>1 DEF StatisticsConserved
    <2>3. Increment(routed) = (sent + failed + 1) % CounterModulus
      BY <1>1, <2>2, CountOneMore
    <2>4. QED
      BY <1>1, <2>1, <2>3 DEF StatisticsConserved
  <1>4. CASE \E result \in TransmitResult : TransmitReturns(result)
    <2>1. PICK result \in TransmitResult : TransmitReturns(result)
      BY <1>4
    <2>2. /\ busy /\ ~busy'
          /\ statistics'.commandsRouted = routed
          /\ \/ /\ statistics'.framesSent = Increment(sent)
                /\ statistics'.transmitErrors = failed
             \/ /\ statistics'.framesSent = sent
                /\ statistics'.transmitErrors = Increment(failed)
      BY <1>1, <2>1
      DEF TransmitReturns, Return, CountTransmission, Statistics
    <2>3. routed = (sent + failed + 1) % CounterModulus
      BY <1>1, <2>2 DEF StatisticsConserved
    <2>4. /\ (Increment(sent) + failed) % CounterModulus = routed
          /\ (Increment(failed) + sent) % CounterModulus = routed
      BY <1>1, <2>3, CountOneMore
    <2>5. /\ Increment(sent) \in Nat /\ Increment(failed) \in Nat
      BY <1>1, IncrementType, AllAssumptions DEF Counter, Assumptions
    <2>6. QED
      BY <1>1, <2>2, <2>4, <2>5 DEF StatisticsConserved
  <1>5. CASE Restart
    BY <1>5, AllAssumptions, SmallModulus
    DEF Restart, ResetStatistics, StatisticsConserved, Assumptions
  <1>6. CASE UNCHANGED <<statistics, busy>>
    BY <1>6 DEF StatisticsConserved
  <1>7. QED
    BY <1>2, <1>3, <1>4, <1>5, <1>6
    DEF Next, MainTask, OnDataReceived, Receive, IgnorePacket, AcceptPacket,
        FindDuplicate, FindNothing, CacheRequest, SendAcknowledgement,
        BusStep, FrameOnBus, LateFrameLost, Tick, vars, canVars

\* Every routed command is sent, failed or still in the CAN driver, across
\* the wrap-around of the counters and for every width of theirs.
THEOREM StatisticsAlwaysConserved == Spec => []StatisticsConserved
  BY InitStatistics, NextStatistics, TypeCorrect, PTL DEF Spec

(***************************************************************************)
(* What CanTransmitted says                                                *)
(***************************************************************************)

\* One of these calls, which are on the bus, sent this message of this source.
Sent(execs, bus, source, message) ==
  \E c \in bus : execs[c].source = source /\ execs[c].message = message

Told(source, message) == Sent(executions, onBus, source, message)

ToldNext(source, message) == Sent(executions', onBus', source, message)

TruthInv ==
  /\ CanTransmittedIsTrue
  /\ Len(executions) = calls
  /\ step = "can" => executions[calls] = packet
  /\ step \in {"store", "ack"} /\ status = "CanTransmitted"
       => Told(packet.source, m)
  /\ \A s \in Slots : cache[s].valid /\ cache[s].status = "CanTransmitted"
       => Told(cache[s].source, cache[s].message)

\* Only Ok becomes CanTransmitted, and no refusal of the gateway is Ok.
LEMMA OnlyOkIsTransmitted ==
  /\ \A r \in TransmitResult :
       MapAckStatus(MapTransmitResult(r)) = "CanTransmitted" => r = "Ok"
  /\ \A r \in RouteResult :
       r # "Ok" => MapAckStatus(MapRouteResult(r)) # "CanTransmitted"
  /\ MapAckStatus("InvalidMessage") # "CanTransmitted"
  <1>1. \A r \in TransmitResult :
          MapAckStatus(MapTransmitResult(r)) = "CanTransmitted" => r = "Ok"
    BY DEF TransmitResult, MapTransmitResult, MapAckStatus
  <1>2. \A r \in RouteResult :
          r # "Ok" => MapAckStatus(MapRouteResult(r)) # "CanTransmitted"
    BY DEF RouteResult, MapRouteResult, MapAckStatus
  <1>3. MapAckStatus("InvalidMessage") # "CanTransmitted"
    BY DEF MapAckStatus
  <1>4. QED
    BY <1>1, <1>2, <1>3

\* The frames on the bus and the calls they belong to only become more.
BusGrows ==
  /\ onBus \subseteq onBus'
  /\ \A c \in onBus : executions'[c] = executions[c]

\* What was told stays true when the bus only gains frames.
LEMMA ToldForever ==
  ASSUME BusGrows, NEW source, NEW message, Told(source, message)
  PROVE  ToldNext(source, message)
  BY DEF BusGrows, Told, ToldNext, Sent

\* No step takes a frame off the bus or forgets an execution.
LEMMA NextBusGrows ==
  ASSUME TypeInv, Len(executions) = calls, [Next]_vars
  PROVE  BusGrows /\ Len(executions') = calls'
  <1>1. /\ executions \in Seq(Packet) /\ calls \in Nat
        /\ onBus \subseteq 1 .. Len(executions)
    BY AllAssumptions DEF TypeInv, TypeOK, CanTypeOK, Assumptions
  <1>2. CASE Transmit
    <2>1. /\ executions' = Append(executions, packet)
          /\ calls' = calls + 1 /\ onBus' = onBus
          /\ packet \in Packet
      BY <1>2 DEF Transmit, Handover, TypeInv, ControlInv
    <2>2. QED
      BY <1>1, <2>1 DEF BusGrows
  <1>3. CASE UNCHANGED <<executions, calls>> /\ onBus \subseteq onBus'
    BY <1>3 DEF BusGrows
  <1>4. QED
    BY <1>2, <1>3
    DEF Next, MainTask, OnDataReceived, Receive, IgnorePacket, AcceptPacket,
        FindDuplicate, FindNothing, Reject, TransmitReturns, Return,
        CacheRequest, SendAcknowledgement, BusStep, FrameOnBus, LateFrameLost,
        Tick, Restart, vars, canVars, historyVars

\* The part of the invariant a step keeps that leaves cache, answers and the
\* status of the packet in hand alone.
LEMMA KeptTruth ==
  ASSUME TruthInv, BusGrows
  PROVE  /\ UNCHANGED answers => CanTransmittedIsTrue'
         /\ \A s \in Slots :
              cache'[s] \in {cache[s], Invalid} /\ cache'[s].valid
                /\ cache'[s].status = "CanTransmitted"
              => ToldNext(cache'[s].source, cache'[s].message)
         /\ UNCHANGED <<packet, status>> /\ step \in {"store", "ack"}
              /\ status = "CanTransmitted"
            => ToldNext(packet'.source, m')
  <1>1. ASSUME UNCHANGED answers PROVE CanTransmittedIsTrue'
    <2>1. SUFFICES ASSUME NEW a \in 1 .. Len(answers),
                          answers[a].status = "CanTransmitted"
                   PROVE  ToldNext(answers[a].source, answers[a].message)
      BY <1>1 DEF CanTransmittedIsTrue, ToldNext, Sent
    <2>2. Told(answers[a].source, answers[a].message)
      BY <2>1 DEF TruthInv, CanTransmittedIsTrue, Told, Sent
    <2>3. QED
      BY <2>2, ToldForever
  <1>2. ASSUME NEW s \in Slots, cache'[s] \in {cache[s], Invalid},
               cache'[s].valid, cache'[s].status = "CanTransmitted"
        PROVE  ToldNext(cache'[s].source, cache'[s].message)
    <2>1. cache'[s] = cache[s]
      BY <1>2 DEF Invalid
    <2>2. Told(cache[s].source, cache[s].message)
      BY <1>2, <2>1 DEF TruthInv
    <2>3. QED
      BY <2>1, <2>2, ToldForever
  <1>3. ASSUME UNCHANGED <<packet, status>>, step \in {"store", "ack"},
               status = "CanTransmitted"
        PROVE  ToldNext(packet'.source, m')
    <2>1. Told(packet.source, m) /\ packet' = packet /\ m' = m
      BY <1>3 DEF TruthInv, m
    <2>2. QED
      BY <2>1, ToldForever
  <1>4. QED
    BY <1>1, <1>2, <1>3

\* Steps between which CanTransmitted gains no new place to be said in.
LEMMA QuietTruth ==
  ASSUME TruthInv, BusGrows, Len(executions') = calls', UNCHANGED answers,
         step' = "can" => executions'[calls'] = packet',
         \/ step' \notin {"store", "ack"}
         \/ UNCHANGED <<packet, status>> /\ step \in {"store", "ack"},
         \A s \in Slots : cache'[s] \in {cache[s], Invalid}
  PROVE  TruthInv'
  <1>1. CanTransmittedIsTrue'
    BY KeptTruth
  <1>2. \A s \in Slots :
          cache'[s].valid /\ cache'[s].status = "CanTransmitted"
            => ToldNext(cache'[s].source, cache'[s].message)
    BY KeptTruth
  <1>3. step' \in {"store", "ack"} /\ status' = "CanTransmitted"
          => ToldNext(packet'.source, m')
    BY KeptTruth
  <1>4. QED
    BY <1>1, <1>2, <1>3 DEF TruthInv, Told, ToldNext

\* Two messages that agree in what the cache compares are the same message.
LEMMA SameMessage ==
  ASSUME NEW entry, entry.message \in Message, NEW message \in Message,
         entry.message.seq = message.seq, IsSameRequest(entry, message)
  PROVE  entry.message = message
  BY DEF Message, IsSameRequest

\* The status a cached request is answered with is the one recorded for it.
LEMMA FindDuplicateTruth ==
  ASSUME TypeInv, TruthInv, BusGrows, Len(executions') = calls',
         FindDuplicate
  PROVE  TruthInv'
  <1>1. PICK hit \in Slots :
          /\ FirstHit(hit, packet.source, m.seq, now)
          /\ InvalidateExpired(hit, now)
          /\ status' = IF IsSameRequest(cache[hit], m) THEN cache[hit].status
                       ELSE "InvalidMessage"
    BY DEF FindDuplicate
  <1>2. /\ step = "lookup" /\ step' = "ack"
        /\ UNCHANGED <<packet, answers, executions, onBus>>
    BY DEF FindDuplicate, historyVars, canVars
  <1>3. /\ cache[hit] \in CachedRequest /\ cache[hit].valid
        /\ cache[hit].source = packet.source
        /\ cache[hit].message.seq = m.seq
        /\ m \in Message
    <2>1. cache[hit] \in CachedRequest
      BY <1>1, HitType DEF TypeInv, TypeOK
    <2>2. Matches(cache[hit], packet.source, m.seq, now)
      BY <1>1 DEF FirstHit, Hits
    <2>3. m \in Message
      BY <1>2 DEF TypeInv, ControlInv, Packet, m
    <2>4. QED
      BY <2>1, <2>2, <2>3 DEF Matches
  <1>4. \A s \in Slots : cache'[s] \in {cache[s], Invalid}
    BY <1>1 DEF InvalidateExpired
  <1>5. ASSUME status' = "CanTransmitted" PROVE ToldNext(packet'.source, m')
    <2>1. IsSameRequest(cache[hit], m) /\ cache[hit].status = "CanTransmitted"
      BY <1>1, <1>5
    <2>2. cache[hit].message = m
      BY <1>3, <2>1, SameMessage DEF CachedRequest
    <2>3. Told(packet.source, m)
      BY <1>3, <2>1, <2>2 DEF TruthInv
    <2>4. packet' = packet /\ m' = m
      BY <1>2 DEF m
    <2>5. QED
      BY <2>3, <2>4, ToldForever
  <1>6. \A s \in Slots :
          cache'[s].valid /\ cache'[s].status = "CanTransmitted"
            => ToldNext(cache'[s].source, cache'[s].message)
    BY <1>4, KeptTruth
  <1>7. CanTransmittedIsTrue'
    BY <1>2, KeptTruth
  <1>8. QED
    BY <1>2, <1>5, <1>6, <1>7 DEF TruthInv, Told, ToldNext

\* Config::transmit said Ok: the frame of this call is on the bus.
LEMMA TransmitReturnsTruth ==
  ASSUME TypeInv, TruthInv, BusGrows, Len(executions') = calls',
         NEW result \in TransmitResult, TransmitReturns(result)
  PROVE  TruthInv'
  <1>1. /\ step = "can" /\ step' \in {"store", "receive"}
        /\ status' = MapAckStatus(MapTransmitResult(result))
        /\ result = "Ok" => calls \in onBus
        /\ UNCHANGED <<packet, answers, cache>>
    BY DEF TransmitReturns, Return, historyVars, cacheVars
  <1>2. ASSUME status' = "CanTransmitted" PROVE ToldNext(packet'.source, m')
    <2>1. calls \in onBus
      BY <1>1, <1>2, OnlyOkIsTransmitted
    <2>2. Told(packet.source, m)
      BY <1>1, <2>1 DEF TruthInv, Told, Sent, m
    <2>3. packet' = packet /\ m' = m
      BY <1>1 DEF m
    <2>4. QED
      BY <2>2, <2>3, ToldForever
  <1>3. \A s \in Slots :
          cache'[s].valid /\ cache'[s].status = "CanTransmitted"
            => ToldNext(cache'[s].source, cache'[s].message)
    BY <1>1, KeptTruth
  <1>4. CanTransmittedIsTrue'
    BY <1>1, KeptTruth
  <1>5. QED
    BY <1>1, <1>2, <1>3, <1>4 DEF TruthInv, Told, ToldNext

\* The refusals of the gateway are never CanTransmitted.
LEMMA RejectTruth ==
  ASSUME TypeInv, TruthInv, BusGrows, Len(executions') = calls', Reject
  PROVE  TruthInv'
  <1>1. /\ step = "gateway" /\ step' \in {"store", "receive"}
        /\ status' = MapAckStatus(RejectionOf(m)) /\ ~Routable(m)
        /\ UNCHANGED <<answers, cache>>
    BY DEF Reject, RejectMessage, historyVars, cacheVars
  <1>2. status' # "CanTransmitted"
    <2>1. m.content \in Contents
      BY <1>1 DEF TypeInv, ControlInv, Packet, Message, m
    <2>2. RouteOf[m.content] \in RouteResult
      BY <2>1, AllAssumptions DEF Assumptions
    <2>3. QED
      BY <1>1, <2>2, OnlyOkIsTransmitted DEF RejectionOf, Routable
  <1>3. \A s \in Slots :
          cache'[s].valid /\ cache'[s].status = "CanTransmitted"
            => ToldNext(cache'[s].source, cache'[s].message)
    BY <1>1, KeptTruth
  <1>4. CanTransmittedIsTrue'
    BY <1>1, KeptTruth
  <1>5. QED
    BY <1>1, <1>2, <1>3, <1>4 DEF TruthInv, Told, ToldNext

\* The entry that is written says what the status in hand says.
LEMMA CacheRequestTruth ==
  ASSUME TypeInv, TruthInv, BusGrows, Len(executions') = calls', CacheRequest
  PROVE  TruthInv'
  <1> DEFINE entry == [valid |-> TRUE, source |-> packet.source,
                       message |-> m, status |-> status, cachedAt |-> now]
  <1>1. /\ step = "store" /\ step' = "ack"
        /\ cache' = [cache EXCEPT ![nextEntry] = entry]
        /\ UNCHANGED <<packet, status, answers>>
    BY DEF CacheRequest, StoreRequest, historyVars
  <1>2. \A s \in Slots : cache'[s] = IF s = nextEntry THEN entry ELSE cache[s]
    BY <1>1 DEF TypeInv, TypeOK, CacheTypeOK
  <1>3. status = "CanTransmitted" => ToldNext(packet.source, m)
    BY <1>1, ToldForever DEF TruthInv
  <1>4. ASSUME NEW s \in Slots, cache'[s].valid,
               cache'[s].status = "CanTransmitted"
        PROVE  ToldNext(cache'[s].source, cache'[s].message)
    <2>1. CASE s = nextEntry
      BY <1>2, <1>3, <1>4, <2>1
    <2>2. CASE s # nextEntry
      BY <1>2, <1>4, <2>2, KeptTruth
    <2>3. QED
      BY <2>1, <2>2
  <1>5. CanTransmittedIsTrue'
    BY <1>1, KeptTruth
  <1>6. packet' = packet /\ m' = m /\ status' = status
    BY <1>1 DEF m
  <1>7. QED
    BY <1>1, <1>3, <1>4, <1>5, <1>6 DEF TruthInv, Told, ToldNext

\* The acknowledgement says what the status in hand says.
LEMMA SendAcknowledgementTruth ==
  ASSUME TypeInv, TruthInv, BusGrows, Len(executions') = calls',
         SendAcknowledgement
  PROVE  TruthInv'
  <1> DEFINE e == [id |-> packet.id, source |-> packet.source,
                   message |-> m, status |-> status]
  <1>1. /\ step = "ack" /\ step' = "receive" /\ UNCHANGED cache
        /\ answers' = Append(answers, e) \/ UNCHANGED answers
    BY DEF SendAcknowledgement, cacheVars
  <1>2. CASE UNCHANGED answers
    BY <1>1, <1>2, QuietTruth
  <1>3. CASE answers' = Append(answers, e)
    <2>1. answers \in Seq(Answer)
      BY DEF TypeInv, TypeOK
    <2>2. \A a \in 1 .. Len(answers') :
            answers'[a] = IF a <= Len(answers) THEN answers[a] ELSE e
      BY <1>3, <2>1
    <2>3. ASSUME NEW a \in 1 .. Len(answers'),
                 answers'[a].status = "CanTransmitted"
          PROVE  ToldNext(answers'[a].source, answers'[a].message)
      <3>1. CASE a <= Len(answers)
        <4>1. Told(answers[a].source, answers[a].message)
          BY <2>1, <2>2, <2>3, <3>1
          DEF TruthInv, CanTransmittedIsTrue, Told, Sent
        <4>2. QED
          BY <2>2, <3>1, <4>1, ToldForever
      <3>2. CASE ~(a <= Len(answers))
        <4>1. answers'[a] = e
          BY <2>2, <3>2
        <4>2. Told(packet.source, m)
          BY <1>1, <2>3, <4>1 DEF TruthInv
        <4>3. QED
          BY <4>1, <4>2, ToldForever
      <3>3. QED
        BY <3>1, <3>2
    <2>4. CanTransmittedIsTrue'
      BY <2>3 DEF CanTransmittedIsTrue, ToldNext, Sent
    <2>5. \A s \in Slots :
            cache'[s].valid /\ cache'[s].status = "CanTransmitted"
              => ToldNext(cache'[s].source, cache'[s].message)
      BY <1>1, KeptTruth
    <2>6. QED
      BY <1>1, <2>4, <2>5 DEF TruthInv, Told, ToldNext
  <1>4. QED
    BY <1>1, <1>2, <1>3

\* Nobody has been told anything.
LEMMA InitTruth == Init => TruthInv
  BY DEF Init, CacheInit, CanInit, Invalid, TruthInv, CanTransmittedIsTrue

\* No step says more than the bus carried.
LEMMA NextTruth ==
  ASSUME TypeInv, TruthInv, [Next]_vars PROVE TruthInv'
  <1>1. BusGrows /\ Len(executions') = calls'
    BY NextBusGrows DEF TruthInv
  <1>2. CASE FindDuplicate \/ Reject \/ CacheRequest \/ SendAcknowledgement
    BY <1>1, <1>2, FindDuplicateTruth, RejectTruth, CacheRequestTruth,
       SendAcknowledgementTruth
  <1>3. CASE \E result \in TransmitResult : TransmitReturns(result)
    BY <1>1, <1>3, TransmitReturnsTruth
  <1>4. CASE Receive \/ IgnorePacket \/ AcceptPacket
    BY <1>1, <1>4, QuietTruth
    DEF Receive, IgnorePacket, AcceptPacket, historyVars, cacheVars
  <1>5. CASE FindNothing
    BY <1>1, <1>5, QuietTruth
    DEF FindNothing, InvalidateExpired, historyVars
  <1>6. CASE Transmit
    <2>1. /\ executions' = Append(executions, packet)
          /\ calls' = Len(executions) + 1
          /\ executions \in Seq(Packet)
          /\ step' = "can" /\ UNCHANGED <<packet, cache, answers>>
      BY <1>6
      DEF Transmit, Handover, cacheVars, TypeInv, TypeOK, TruthInv
    <2>2. executions'[calls'] = packet'
      BY <2>1 DEF TypeInv, ControlInv
    <2>3. QED
      BY <1>1, <2>1, <2>2, QuietTruth
  <1>7. CASE Restart
    BY <1>1, <1>7, QuietTruth DEF Restart, historyVars
  <1>8. CASE UNCHANGED <<step, packet, status, cache, answers, executions,
                         calls>>
    BY <1>1, <1>8, QuietTruth DEF TruthInv
  <1>9. QED
    BY <1>2, <1>3, <1>4, <1>5, <1>6, <1>7, <1>8
    DEF Next, MainTask, OnDataReceived, BusStep, FrameOnBus, LateFrameLost,
        Tick, vars, mainVars, cacheVars, historyVars, canVars

\* CanTransmitted is said only of a message whose frame went on the CAN bus,
\* for every cache size, lifetime, queue depth and series of power cycles.
THEOREM CanTransmittedIsAlwaysTrue == Spec => []CanTransmittedIsTrue
  <1>1. TruthInv => CanTransmittedIsTrue
    BY DEF TruthInv
  <1>2. QED
    BY <1>1, InitTruth, NextTruth, TypeCorrect, PTL DEF Spec
=============================================================================
