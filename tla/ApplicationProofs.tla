------------------------- MODULE ApplicationProofs -------------------------
(***************************************************************************)
(* Theorems about Application for every value of its constants, in         *)
(* particular every cache size, lifetime, queue depth and set of packets.  *)
(***************************************************************************)
EXTENDS Application, TLAPS

Assumptions ==
  /\ CacheSize \in Nat \ {0} /\ Lifetime \in Nat
  /\ RouteOf \in [Contents -> RouteResult] /\ CounterModulus \in Nat \ {0, 1}
  /\ MaxCalls \in Nat /\ Offered \subseteq Transmission
  /\ QueueDepth \in Nat \ {0} /\ MaxArrivals \in Nat /\ MaxTime \in Nat
  /\ MaxRestarts \in Nat

\* The named assumptions of the modules in one fact.
LEMMA AllAssumptions == Assumptions
  BY CacheSizeAssumption, LifetimeAssumption, RouteOfAssumption,
     CounterModulusAssumption, MaxCallsAssumption, ApplicationAssumption
  DEF Assumptions

(***************************************************************************)
(* Type correctness                                                        *)
(***************************************************************************)

\* The packet in hand is one while the main task works on it, and the CAN
\* driver is busy exactly while the main task waits for it.
ControlInv ==
  /\ step # "receive" => packet \in Packet
  /\ busy <=> step = "can"
  /\ step \in {"lookup", "store", "ack"} => wanted

TypeInv == TypeOK /\ ControlInv

\* A counter stays in its width.
LEMMA IncrementType ==
  ASSUME NEW n \in Counter PROVE Increment(n) \in Counter
  BY AllAssumptions DEF Assumptions, Counter, Increment

\* The result mappings are total on what they are given.
LEMMA StatusTypes ==
  /\ \A r \in ProcessResult : MapAckStatus(r) \in AcknowledgementStatus
  /\ \A r \in TransmitResult : MapTransmitResult(r) \in ProcessResult
  /\ \A r \in RouteResult : MapRouteResult(r) \in ProcessResult
  <1>1. \A r \in ProcessResult : MapAckStatus(r) \in AcknowledgementStatus
    BY DEF ProcessResult, MapAckStatus, AcknowledgementStatus
  <1>2. \A r \in TransmitResult : MapTransmitResult(r) \in ProcessResult
    BY DEF ProcessResult, MapTransmitResult, TransmitResult
  <1>3. \A r \in RouteResult : MapRouteResult(r) \in ProcessResult
    BY DEF ProcessResult, MapRouteResult, RouteResult
  <1>4. QED  BY <1>1, <1>2, <1>3

\* The receiver boots in a typed state.
LEMMA InitTypeInv == Init => TypeInv
  <1>1. ASSUME Init PROVE TypeInv
    BY <1>1, AllAssumptions
    DEF Init, CacheInit, GatewayInit, CanInit, ResetStatistics, TypeInv,
        TypeOK, ControlInv, CacheTypeOK, CanTypeOK, Statistics, Counter,
        Assumptions, Steps, NoPacket, AcknowledgementStatus, Slots
  <1>2. QED  BY <1>1

\* A packet the radio offers becomes a Packet of the queue.
LEMMA OnDataReceivedTypeInv ==
  ASSUME TypeInv, NEW t \in Offered, OnDataReceived(t) PROVE TypeInv'
  <1>1. t \in Transmission
    BY AllAssumptions DEF Assumptions
  <1>2. ControlInv'
    BY DEF TypeInv, TypeOK, ControlInv, OnDataReceived, mainVars, wanted, m,
           canVars
  <1>3. CacheTypeOK' /\ CanTypeOK' /\ (statistics \in Statistics)'
    BY DEF TypeInv, TypeOK, OnDataReceived, cacheVars, canVars, CacheTypeOK,
           CanTypeOK
  <1>4. CASE Len(queue) < QueueDepth
    <2> DEFINE p == [id |-> accepted + 1, source |-> t.source,
                     intact |-> t.intact, message |-> t.message]
    <2>1. accepted + 1 \in 1 .. MaxArrivals
      BY AllAssumptions DEF Assumptions, TypeInv, TypeOK, OnDataReceived
    <2>2. p \in Packet
      BY <1>1, <2>1 DEF Transmission, Packet
    <2>3. queue' = Append(queue, p) /\ accepted' = accepted + 1
          /\ dropped' = dropped
      BY <1>4 DEF OnDataReceived
    <2>4. queue' \in Seq(Packet) /\ Len(queue') <= QueueDepth
      BY <2>2, <2>3, <1>4, AllAssumptions
      DEF TypeInv, TypeOK, Assumptions
    <2>5. TypeOK'
      BY <1>3, <2>1, <2>3, <2>4
      DEF TypeInv, TypeOK, OnDataReceived, mainVars, clockVars, historyVars,
          cacheVars
    <2>6. QED  BY <1>2, <2>5 DEF TypeInv
  <1>5. CASE ~(Len(queue) < QueueDepth)
    <2>1. dropped' = dropped + 1 /\ UNCHANGED <<queue, accepted>>
          /\ dropped + 1 \in 0 .. MaxArrivals
      BY <1>5, AllAssumptions DEF OnDataReceived, Assumptions, TypeInv, TypeOK
    <2>2. TypeOK'
      BY <1>3, <2>1
      DEF TypeInv, TypeOK, OnDataReceived, mainVars, clockVars, historyVars,
          cacheVars
    <2>3. QED  BY <1>2, <2>2 DEF TypeInv
  <1>6. QED  BY <1>4, <1>5

\* Taking a packet off the queue, filtering and looking up.
LEMMA ReceiveTypeInv ==
  ASSUME TypeInv, Receive PROVE TypeInv'
  <1>1. Head(queue) \in Packet /\ Tail(queue) \in Seq(Packet)
        /\ Len(Tail(queue)) <= QueueDepth
    BY AllAssumptions DEF Receive, TypeInv, TypeOK, Assumptions
  <1>2. TypeOK'
    BY <1>1
    DEF Receive, TypeInv, TypeOK, cacheVars, historyVars, clockVars, canVars,
        CacheTypeOK, CanTypeOK, Steps
  <1>3. ControlInv'
    BY <1>1 DEF Receive, TypeInv, TypeOK, ControlInv, canVars
  <1>4. QED  BY <1>2, <1>3 DEF TypeInv

\* The peer and decoding checks.
LEMMA FilterTypeInv ==
  ASSUME TypeInv, IgnorePacket \/ AcceptPacket PROVE TypeInv'
  <1>1. packet \in Packet
    BY DEF TypeInv, ControlInv, IgnorePacket, AcceptPacket
  <1>2. packet.id \in 0 .. MaxArrivals
    BY <1>1, AllAssumptions DEF Packet, Assumptions
  <1>3. TypeOK'
    BY <1>2
    DEF IgnorePacket, AcceptPacket, TypeInv, TypeOK, radioVars, cacheVars,
        historyVars, clockVars, canVars, CacheTypeOK, CanTypeOK, Steps
  <1>4. ControlInv'
    BY <1>1
    DEF IgnorePacket, AcceptPacket, TypeInv, TypeOK, ControlInv, canVars,
        wanted, m
  <1>5. QED  BY <1>3, <1>4 DEF TypeInv

\* The entry a scan returns is a valid one.
LEMMA HitType ==
  ASSUME CacheTypeOK, NEW s \in Slots, NEW source, NEW seq, NEW time,
         FirstHit(s, source, seq, time)
  PROVE  cache[s] \in CachedRequest
  BY DEF FirstHit, Hits, Matches, CacheTypeOK, Invalid

\* The sweep of a scan leaves a cache behind.
LEMMA SweepType ==
  ASSUME CacheTypeOK, NEW end, NEW time, InvalidateExpired(end, time)
  PROVE  cache' \in [Slots -> CachedRequest \cup {Invalid}]
  <1>1. \A s \in Slots : (IF s < end /\ Expired(cache[s], time) THEN Invalid
                          ELSE cache[s]) \in CachedRequest \cup {Invalid}
    BY DEF CacheTypeOK
  <1>2. QED  BY <1>1 DEF InvalidateExpired

\* A scan of the cache, with and without a hit.
LEMMA LookupTypeInv ==
  ASSUME TypeInv, FindDuplicate \/ FindNothing PROVE TypeInv'
  <1>1. CacheTypeOK'
    <2>1. CASE FindDuplicate
      <3>1. PICK hit \in Slots : InvalidateExpired(hit, now)
        BY <2>1 DEF FindDuplicate
      <3>2. QED  BY <2>1, <3>1, SweepType DEF FindDuplicate, TypeInv, TypeOK,
                                              CacheTypeOK
    <2>2. CASE FindNothing
      BY <2>2, SweepType DEF FindNothing, TypeInv, TypeOK, CacheTypeOK
    <2>3. QED  BY <2>1, <2>2
  <1>2. status' \in AcknowledgementStatus
    <2>1. CASE FindDuplicate
      <3>1. PICK hit \in Slots :
              /\ FirstHit(hit, packet.source, m.seq, now)
              /\ status' = IF IsSameRequest(cache[hit], m)
                           THEN cache[hit].status ELSE "InvalidMessage"
        BY <2>1 DEF FindDuplicate
      <3>2. cache[hit] \in CachedRequest
        BY <3>1, HitType DEF TypeInv, TypeOK
      <3>3. QED  BY <3>1, <3>2 DEF CachedRequest, AcknowledgementStatus
    <2>2. CASE FindNothing
      BY <2>2 DEF FindNothing, TypeInv, TypeOK
    <2>3. QED  BY <2>1, <2>2
  <1>3. step = "lookup" /\ step' \in {"gateway", "ack"}
    BY DEF FindDuplicate, FindNothing
  <1>4. UNCHANGED <<radioVars, packet, settled, log, historyVars, clockVars,
                    statistics, canVars>>
    BY DEF FindDuplicate, FindNothing
  <1>5. TypeOK'
    BY <1>1, <1>2, <1>3, <1>4
    DEF TypeInv, TypeOK, radioVars, historyVars, clockVars, canVars,
        CanTypeOK, Steps
  <1>6. ControlInv'
    BY <1>3, <1>4 DEF TypeInv, ControlInv, canVars, wanted, m
  <1>7. QED  BY <1>5, <1>6 DEF TypeInv

\* The two halves of process_message.
LEMMA StatisticsType ==
  ASSUME statistics \in Statistics
  PROVE  /\ \A msg : RejectMessage(msg) => statistics' \in Statistics
         /\ \A msg : RouteMessage(msg) => statistics' \in Statistics
         /\ \A r : CountTransmission(r) => statistics' \in Statistics
  BY IncrementType
  DEF Statistics, RejectMessage, RouteMessage, CountTransmission

\* A message the gateway refuses gets a status that can be acknowledged.
LEMMA RejectTypeInv ==
  ASSUME TypeInv, Reject PROVE TypeInv'
  <1>1. packet \in Packet /\ packet.id \in 0 .. MaxArrivals
        /\ m \in Message /\ Offered \subseteq Transmission
    BY AllAssumptions DEF Reject, TypeInv, ControlInv, Packet, m, Assumptions
  <1>2. status' \in AcknowledgementStatus
    <2>1. m.content \in Contents
      BY <1>1 DEF Message
    <2>2. RouteOf[m.content] \in RouteResult
      BY <2>1, AllAssumptions DEF Assumptions
    <2>3. RejectionOf(m) \in ProcessResult
      BY <2>2, StatusTypes DEF RejectionOf, ProcessResult
    <2>4. QED  BY <2>3, StatusTypes DEF Reject
  <1>3. statistics' \in Statistics
    BY StatisticsType DEF Reject, TypeInv, TypeOK
  <1>4. TypeOK'
    BY <1>1, <1>2, <1>3
    DEF Reject, TypeInv, TypeOK, radioVars, cacheVars, historyVars, clockVars,
        canVars, CacheTypeOK, CanTypeOK, Steps
  <1>5. ControlInv'
    BY <1>1 DEF Reject, TypeInv, ControlInv, canVars, wanted, m
  <1>6. QED  BY <1>4, <1>5 DEF TypeInv

\* A routed message is handed to the CAN driver.
LEMMA TransmitTypeInv ==
  ASSUME TypeInv, Transmit PROVE TypeInv'
  <1>1. packet \in Packet
    BY DEF Transmit, TypeInv, ControlInv
  <1>2. executions' \in Seq(Packet)
    BY <1>1 DEF Transmit, TypeInv, TypeOK
  <1>3. statistics' \in Statistics
    BY StatisticsType DEF Transmit, TypeInv, TypeOK
  <1>4. CanTypeOK'
    BY AllAssumptions
    DEF Transmit, Handover, TypeInv, TypeOK, CanTypeOK, Assumptions
  <1>5. TypeOK'
    BY <1>2, <1>3, <1>4
    DEF Transmit, TypeInv, TypeOK, radioVars, cacheVars, clockVars,
        CacheTypeOK, Steps
  <1>6. ControlInv'
    BY <1>1 DEF Transmit, Handover, TypeInv, ControlInv, wanted, m
  <1>7. QED  BY <1>5, <1>6 DEF TypeInv

\* The CAN driver comes back with a result.
LEMMA TransmitReturnsTypeInv ==
  ASSUME TypeInv, NEW result \in TransmitResult, TransmitReturns(result)
  PROVE  TypeInv'
  <1>1. packet \in Packet /\ packet.id \in 0 .. MaxArrivals
    BY AllAssumptions
    DEF TransmitReturns, TypeInv, ControlInv, Packet, Assumptions
  <1>2. status' \in AcknowledgementStatus
    BY StatusTypes DEF TransmitReturns
  <1>3. statistics' \in Statistics
    BY StatisticsType DEF TransmitReturns, TypeInv, TypeOK
  <1>4. CanTypeOK'
    BY DEF TransmitReturns, Return, TypeInv, TypeOK, CanTypeOK
  <1>5. TypeOK'
    BY <1>1, <1>2, <1>3, <1>4
    DEF TransmitReturns, TypeInv, TypeOK, radioVars, cacheVars, historyVars,
        clockVars, CacheTypeOK, Steps
  <1>6. ControlInv'
    BY <1>1 DEF TransmitReturns, Return, TypeInv, ControlInv, wanted, m
  <1>7. QED  BY <1>5, <1>6 DEF TypeInv

\* The end of a request: caching and acknowledging.
LEMMA CacheRequestTypeInv ==
  ASSUME TypeInv, CacheRequest PROVE TypeInv'
  <1>1. packet \in Packet /\ packet.source \in Peers /\ m \in Message
    BY DEF CacheRequest, TypeInv, ControlInv, Packet, m
  <1>2. CacheTypeOK'
    <2>1. [valid |-> TRUE, source |-> packet.source, message |-> m,
           status |-> status, cachedAt |-> now] \in CachedRequest
      BY <1>1, AllAssumptions
      DEF TypeInv, TypeOK, CachedRequest, Assumptions
    <2>2. (nextEntry + 1) % CacheSize \in Slots
      BY AllAssumptions
      DEF TypeInv, TypeOK, CacheTypeOK, Slots, Assumptions
    <2>3. QED
      BY <2>1, <2>2
      DEF CacheRequest, StoreRequest, TypeInv, TypeOK, CacheTypeOK
  <1>3. log' \in Seq(LogEntry)
    BY <1>1 DEF CacheRequest, TypeInv, TypeOK, LogEntry
  <1>4. TypeOK'
    BY <1>2, <1>3
    DEF CacheRequest, TypeInv, TypeOK, radioVars, historyVars, clockVars,
        canVars, CanTypeOK, Steps
  <1>5. ControlInv'
    BY <1>1 DEF CacheRequest, TypeInv, ControlInv, canVars, wanted, m
  <1>6. QED  BY <1>4, <1>5 DEF TypeInv

\* An acknowledgement goes out, or is refused by ESP-NOW.
LEMMA SendAcknowledgementTypeInv ==
  ASSUME TypeInv, SendAcknowledgement PROVE TypeInv'
  <1>1. packet \in Packet /\ packet.id \in 0 .. MaxArrivals
        /\ packet.id \in 1 .. MaxArrivals
        /\ packet.source \in Peers /\ m \in Message
    BY AllAssumptions
    DEF SendAcknowledgement, TypeInv, ControlInv, Packet, m, Assumptions
  <1>2. [id |-> packet.id, source |-> packet.source, message |-> m,
         status |-> status] \in Answer
    BY <1>1 DEF Answer, TypeInv, TypeOK
  <1>3. answers' \in Seq(Answer)
    <2>1. answers \in Seq(Answer)
      BY DEF TypeInv, TypeOK
    <2>2. CASE UNCHANGED answers
      BY <2>1, <2>2
    <2>3. CASE answers' = Append(answers, [id |-> packet.id,
                 source |-> packet.source, message |-> m, status |-> status])
      BY <1>2, <2>1, <2>3
    <2>4. QED  BY <2>2, <2>3 DEF SendAcknowledgement
  <1>4. TypeOK'
    BY <1>1, <1>3
    DEF SendAcknowledgement, TypeInv, TypeOK, radioVars, cacheVars, clockVars,
        canVars, CacheTypeOK, CanTypeOK, Steps
  <1>5. ControlInv'
    BY DEF SendAcknowledgement, TypeInv, ControlInv, canVars
  <1>6. QED  BY <1>4, <1>5 DEF TypeInv

\* Bus, clock and power.
LEMMA EnvironmentTypeInv ==
  ASSUME TypeInv, BusStep \/ Tick \/ Restart PROVE TypeInv'
  <1>1. CASE BusStep
    <2>1. CanTypeOK' /\ busy' = busy
      BY <1>1 DEF BusStep, FrameOnBus, LateFrameLost, TypeInv, TypeOK,
                  CanTypeOK
    <2>2. QED
      BY <1>1, <2>1
      DEF BusStep, TypeInv, TypeOK, ControlInv, radioVars, cacheVars,
          mainVars, historyVars, clockVars, CacheTypeOK, wanted, m
  <1>2. CASE Tick
    BY <1>2, AllAssumptions
    DEF Tick, TypeInv, TypeOK, ControlInv, radioVars, cacheVars, mainVars,
        historyVars, canVars, CacheTypeOK, CanTypeOK, wanted, m, Assumptions
  <1>3. CASE Restart
    <2>1. ControlInv'
      BY <1>3 DEF Restart, ControlInv
    <2>2. CacheTypeOK' /\ CanTypeOK'
      <3>1. 0 \in Slots
        BY AllAssumptions DEF Slots, Assumptions
      <3>2. CacheTypeOK'
        BY <1>3, <3>1 DEF Restart, CacheTypeOK
      <3>3. CanTypeOK'
        BY <1>3 DEF Restart, TypeInv, TypeOK, CanTypeOK
      <3>4. QED  BY <3>2, <3>3
    <2>3. statistics' \in Statistics
      BY <1>3, AllAssumptions
      DEF Restart, ResetStatistics, Statistics, Counter, Assumptions
    <2>4. TypeOK'
      BY <1>3, <2>2, <2>3, AllAssumptions
      DEF Restart, TypeInv, TypeOK, historyVars, Steps, Assumptions
    <2>5. QED  BY <2>1, <2>4 DEF TypeInv
  <1>4. QED  BY <1>1, <1>2, <1>3

\* Every step keeps the invariant.
LEMMA NextTypeInv == TypeInv /\ [Next]_vars => TypeInv'
  <1>1. ASSUME TypeInv, Next PROVE TypeInv'
    <2>1. CASE \E t \in Offered : OnDataReceived(t)
      BY <1>1, <2>1, OnDataReceivedTypeInv
    <2>2. CASE MainTask
      BY <1>1, <2>2, ReceiveTypeInv, FilterTypeInv, LookupTypeInv,
         RejectTypeInv, TransmitTypeInv, TransmitReturnsTypeInv,
         CacheRequestTypeInv, SendAcknowledgementTypeInv
      DEF MainTask
    <2>3. CASE BusStep \/ Tick \/ Restart
      BY <1>1, <2>3, EnvironmentTypeInv
    <2>4. QED  BY <1>1, <2>1, <2>2, <2>3 DEF Next
  <1>2. ASSUME TypeInv, UNCHANGED vars PROVE TypeInv'
    BY <1>2
    DEF vars, TypeInv, TypeOK, ControlInv, radioVars, cacheVars, mainVars,
        historyVars, clockVars, canVars, CacheTypeOK, CanTypeOK, wanted, m
  <1>3. QED  BY <1>1, <1>2

\* The state always has the shape the code declares for it, and the main task
\* waits for the CAN driver exactly while a call is in progress.
THEOREM TypeCorrect == Spec => []TypeInv
  BY InitTypeInv, NextTypeInv, PTL DEF Spec

\* The type invariant of the runs, for every value of the constants.
THEOREM TypeOKHolds == Spec => []TypeOK
  <1>1. TypeInv => TypeOK
    BY DEF TypeInv
  <1>2. QED  BY <1>1, TypeCorrect, PTL
=============================================================================
