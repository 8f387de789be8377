---------------------------- MODULE Application ----------------------------
(***************************************************************************)
(* The receiver at work (application.cpp, run_main_loop): the Wi-Fi task's *)
(* onDataReceived callback fills the bounded receive queue, and one main   *)
(* task takes packets off it, filters and decodes them, suppresses         *)
(* duplicates with the request cache, runs the gateway, waits for the CAN  *)
(* driver, caches the outcome and sends the acknowledgement.               *)
(*                                                                         *)
(* The radio is an arbitrary environment: any packet of Offered may arrive *)
(* at any moment, so retries, duplicates, reordering, losses and a         *)
(* restarted TXU01 that reuses sequence numbers are all behaviours.  A     *)
(* power cycle may happen between any two steps and empties the RAM.       *)
(***************************************************************************)
EXTENDS RequestCache, EspNowCanGateway, CanTransmit

CONSTANTS
  Txu01,        \* the configured peer, g_txu01_mac
  Offered,      \* packets the radio may deliver
  QueueDepth,   \* application::Config::receive_queue_depth
  MaxArrivals,  \* bound: packets delivered by the radio
  MaxTime,      \* bound: clock ticks since boot
  MaxRestarts   \* bound: power cycles

\* A packet as decode sees it: corrupt ones decode to no message.
Transmission == [source : Peers, intact : BOOLEAN, message : Message]

ASSUME ApplicationAssumption ==
  /\ Offered \subseteq Transmission
  /\ QueueDepth \in Nat \ {0}
  /\ {MaxArrivals, MaxTime, MaxRestarts} \subseteq Nat
  /\ MaxCalls >= MaxArrivals

VARIABLES
  queue,       \* g_receive_queue
  dropped,     \* g_dropped_receive_packets
  step,        \* where the main task is in process_received_packet
  packet,      \* the packet being processed
  status,      \* the status it will be acknowledged with
  now,         \* esp_timer_get_time
  restarts,    \* power cycles so far
  accepted,    \* number of packets queued so far: the identity of a packet
  settled,     \* identity of the last packet the main task is done with
  log,         \* history: requests stored in the cache since boot
  executions,  \* history: the packet of each CAN transmit call
  answers      \* history: acknowledgements given to ESP-NOW

radioVars == <<queue, dropped, accepted>>
cacheVars == <<cache, nextEntry, log>>
mainVars == <<step, packet, status, settled>>
historyVars == <<executions, answers>>
clockVars == <<now, restarts>>
vars == <<radioVars, cacheVars, mainVars, historyVars, clockVars, statistics,
          canVars>>

Packet == [id : 1 .. MaxArrivals, source : Peers, intact : BOOLEAN,
           message : Message]

NoPacket == [id |-> 0]

Steps == {"receive", "filter", "lookup", "gateway", "can", "store", "ack"}

m == packet.message
wanted == AcknowledgementRequested(packet.message)

LogEntry == [source : Peers, message : Message,
             status : AcknowledgementStatus, at : Nat]

Answer == [id : 1 .. MaxArrivals, source : Peers, message : Message,
           status : AcknowledgementStatus]

(***************************************************************************)
(* map_ack_status                                                          *)
(***************************************************************************)
MapAckStatus(r) == IF r = "Ok" THEN "CanTransmitted" ELSE r

Init ==
  /\ CacheInit /\ GatewayInit /\ CanInit
  /\ queue = <<>> /\ dropped = 0 /\ accepted = 0 /\ settled = 0
  /\ step = "receive" /\ packet = NoPacket /\ status = "InvalidMessage"
  /\ now = 0 /\ restarts = 0
  /\ log = <<>> /\ executions = <<>> /\ answers = <<>>
-----------------------------------------------------------------------------
(***************************************************************************)
(* The Wi-Fi task                                                          *)
(***************************************************************************)

\* Fault: the oldest packet makes room for a new one.
OverwriteOldest(t) ==
  /\ accepted + dropped < MaxArrivals
  /\ accepted' = accepted + 1
  /\ queue' = Append(IF Len(queue) < QueueDepth THEN queue ELSE Tail(queue),
                     [id |-> accepted + 1, source |-> t.source,
                      intact |-> t.intact, message |-> t.message])
  /\ UNCHANGED <<dropped, cacheVars, mainVars, historyVars, clockVars,
                 statistics, canVars>>

\* onDataReceived: never blocks; a packet that finds the queue full is only
\* counted.
OnDataReceived(t) ==
  /\ accepted + dropped < MaxArrivals
  /\ IF Len(queue) < QueueDepth
     THEN /\ accepted' = accepted + 1
          /\ queue' = Append(queue, [id |-> accepted + 1, source |-> t.source,
                              intact |-> t.intact, message |-> t.message])
          /\ UNCHANGED dropped
     ELSE dropped' = dropped + 1 /\ UNCHANGED <<queue, accepted>>
  /\ UNCHANGED <<cacheVars, mainVars, historyVars, clockVars, statistics,
                 canVars>>

(***************************************************************************)
(* The main task                                                           *)
(***************************************************************************)

\* Fault: the packet is looked at and left in the queue.
PeekPacket ==
  /\ step = "receive" /\ queue # <<>>
  /\ packet' = Head(queue)
  /\ step' = "filter"
  /\ UNCHANGED <<radioVars, status, settled, cacheVars, historyVars,
                 clockVars, statistics, canVars>>

\* esp_now_driver::receive(packet, WAIT_FOREVER): blocked while empty.
Receive ==
  /\ step = "receive" /\ queue # <<>>
  /\ packet' = Head(queue)
  /\ queue' = Tail(queue)
  /\ step' = "filter"
  /\ UNCHANGED <<dropped, accepted, status, settled, cacheVars, historyVars,
                 clockVars, statistics, canVars>>

\* Fault: no way out for a packet of the peer that does not decode.
IgnoreStrangers ==
  /\ step = "filter"
  /\ packet.source # Txu01
  /\ step' = "receive" /\ settled' = packet.id
  /\ UNCHANGED <<radioVars, packet, status, cacheVars, historyVars, clockVars,
                 statistics, canVars>>

\* The early returns for an unknown peer and for a packet that does not
\* decode.
IgnorePacket ==
  /\ step = "filter"
  /\ packet.source # Txu01 \/ ~packet.intact
  /\ step' = "receive" /\ settled' = packet.id
  /\ UNCHANGED <<radioVars, packet, status, cacheVars, historyVars, clockVars,
                 statistics, canVars>>

AcceptPacket ==
  /\ step = "filter"
  /\ packet.source = Txu01 /\ packet.intact
  /\ step' = IF wanted THEN "lookup" ELSE "gateway"
  /\ UNCHANGED <<radioVars, packet, status, settled, cacheVars, historyVars,
                 clockVars, statistics, canVars>>

\* A cached request: acknowledge again with the cached status, or reject a
\* different request that carries the same sequence number.
FindDuplicate ==
  /\ step = "lookup"
  /\ \E hit \in Slots :
       /\ FirstHit(hit, packet.source, m.seq, now)
       /\ InvalidateExpired(hit, now)
       /\ status' = IF IsSameRequest(cache[hit], m) THEN cache[hit].status
                    ELSE "InvalidMessage"
  /\ step' = "ack"
  /\ UNCHANGED <<radioVars, packet, settled, nextEntry, log, historyVars,
                 clockVars, statistics, canVars>>

FindNothing ==
  /\ step = "lookup"
  /\ Hits(packet.source, m.seq, now) = {}
  /\ InvalidateExpired(CacheSize, now)
  /\ step' = "gateway"
  /\ UNCHANGED <<radioVars, packet, status, settled, nextEntry, log,
                 historyVars, clockVars, statistics, canVars>>

\* process_message refuses the message: nothing reaches the CAN driver.
Reject ==
  /\ step = "gateway"
  /\ RejectMessage(m)
  /\ status' = MapAckStatus(RejectionOf(m))
  /\ step' = IF wanted THEN "store" ELSE "receive"
  /\ settled' = IF wanted THEN settled ELSE packet.id
  /\ UNCHANGED <<radioVars, packet, cacheVars, historyVars, clockVars,
                 canVars>>

\* process_message routes the command and calls Config::transmit ...
Transmit ==
  /\ step = "gateway"
  /\ RouteMessage(m)
  /\ Handover
  /\ executions' = Append(executions, packet)
  /\ step' = "can"
  /\ UNCHANGED <<radioVars, packet, status, settled, cacheVars, answers,
                 clockVars>>

\* ... which returns with a result.
TransmitReturns(result) ==
  /\ step = "can"
  /\ Return(result)
  /\ CountTransmission(result)
  /\ status' = MapAckStatus(MapTransmitResult(result))
  /\ step' = IF wanted THEN "store" ELSE "receive"
  /\ settled' = IF wanted THEN settled ELSE packet.id
  /\ UNCHANGED <<radioVars, packet, cacheVars, historyVars, clockVars>>

\* cache_request, stamped with the time after the CAN transmission.
CacheRequest ==
  /\ step = "store"
  /\ StoreRequest(packet.source, m, status, now)
  /\ log' = Append(log, [source |-> packet.source, message |-> m,
                         status |-> status, at |-> now])
  /\ step' = "ack"
  /\ UNCHANGED <<radioVars, packet, status, settled, historyVars, clockVars,
                 statistics, canVars>>

\* send_acknowledgement: esp_now_send takes the packet, or fails and the
\* failure is only logged.
SendAcknowledgement ==
  /\ step = "ack"
  /\ \/ answers' = Append(answers, [id |-> packet.id,
           source |-> packet.source, message |-> m, status |-> status])
     \/ UNCHANGED answers
  /\ step' = "receive" /\ settled' = packet.id
  /\ UNCHANGED <<radioVars, packet, status, cacheVars, executions, clockVars,
                 statistics, canVars>>
-----------------------------------------------------------------------------
(***************************************************************************)
(* The environment: CAN controller, clock, power                           *)
(***************************************************************************)
BusStep ==
  /\ \E c \in pending : FrameOnBus(c) \/ LateFrameLost(c)
  /\ UNCHANGED <<radioVars, cacheVars, mainVars, historyVars, clockVars,
                 statistics>>

Tick ==
  /\ now < MaxTime
  /\ now' = now + 1
  /\ UNCHANGED <<radioVars, cacheVars, mainVars, historyVars, restarts,
                 statistics, canVars>>

\* A power cycle: the RAM is lost, packets in it with it, and
\* CanManager::begin resets the CAN controller.  Startup itself is skipped.
Restart ==
  /\ restarts < MaxRestarts
  /\ restarts' = restarts + 1
  /\ cache' = [s \in Slots |-> Invalid] /\ nextEntry' = 0 /\ log' = <<>>
  /\ statistics' = ResetStatistics
  /\ queue' = <<>>
  /\ step' = "receive" /\ packet' = NoPacket /\ settled' = accepted
  /\ now' = 0
  /\ busy' = FALSE /\ pending' = {}
  /\ dropped' = 0
  /\ UNCHANGED <<accepted, status, historyVars, calls, onBus>>

MainTask ==
  \/ Receive \/ IgnorePacket \/ AcceptPacket
  \/ FindDuplicate \/ FindNothing
  \/ Reject \/ Transmit
  \/ \E result \in TransmitResult : TransmitReturns(result)
  \/ CacheRequest \/ SendAcknowledgement

Next ==
  \/ \E t \in Offered : OnDataReceived(t)
  \/ MainTask
  \/ BusStep
  \/ Tick
  \/ Restart

Spec == Init /\ [][Next]_vars

\* The scheduler always runs the main task again (the Wi-Fi callbacks are
\* short), and Config::transmit returns by its deadline.
FairSpec == Spec /\ WF_vars(MainTask)
-----------------------------------------------------------------------------
(***************************************************************************)
(* Properties                                                              *)
(***************************************************************************)

\* The state has the shape the code declares for it.
TypeOK ==
  /\ CacheTypeOK /\ CanTypeOK /\ statistics \in Statistics
  /\ queue \in Seq(Packet) /\ Len(queue) <= QueueDepth
  /\ dropped \in 0 .. MaxArrivals /\ accepted \in 0 .. MaxArrivals
  /\ settled \in 0 .. MaxArrivals
  /\ step \in Steps /\ packet \in Packet \cup {NoPacket}
  /\ status \in AcknowledgementStatus
  /\ now \in 0 .. MaxTime /\ restarts \in 0 .. MaxRestarts
  /\ log \in Seq(LogEntry) /\ answers \in Seq(Answer)
  /\ executions \in Seq(Packet)

\* Two entries of the log answer to the same source and sequence number.
SameKey(i, j) == /\ log[i].source = log[j].source
                 /\ log[i].message.seq = log[j].message.seq

\* A request is let through to the gateway a second time only when its first
\* outcome is older than the cache lifetime or has been displaced by
\* CacheSize later requests: what find_cached_request and the round-robin of
\* cache_request give together, whatever order packets and expiries come in.
DuplicateSuppression ==
  \A i, j \in 1 .. Len(log) :
    (i < j /\ j - i <= CacheSize /\ SameKey(i, j))
      => log[j].at - log[i].at > Lifetime

\* The requests of the log with the key of the packet in hand.
SameRequests == {i \in 1 .. Len(log) : log[i].source = packet.source
                                       /\ log[i].message.seq = m.seq}

\* An acknowledgement reports the latest recorded outcome of its request, and
\* InvalidMessage to another request under the same sequence number: a slot
\* reused, swept or left behind by the ring is never answered from.
AcknowledgesLatestOutcome ==
  step = "ack" =>
    \E i \in SameRequests :
      /\ \A j \in SameRequests : j <= i
      /\ status = IF log[i].message = m THEN log[i].status
                  ELSE "InvalidMessage"

\* CanTransmitted is said only of a message whose frame went on the CAN bus,
\* be it in an acknowledgement repeated from the cache, after an ambiguous
\* timeout or across a power cycle (remote_protocol.h:56).
CanTransmittedIsTrue ==
  \A a \in 1 .. Len(answers) : answers[a].status = "CanTransmitted" =>
    \E c \in onBus : /\ executions[c].source = answers[a].source
                     /\ executions[c].message = answers[a].message

Increasing(s) == \A i, j \in 1 .. Len(s) : i < j => s[i].id < s[j].id

\* Each queued packet is transmitted at most once and acknowledged at most
\* once, in order of arrival, and only the peer's own requests are: the loop
\* of run_main_loop neither repeats nor overtakes a packet.
OncePerPacketInOrder ==
  /\ Increasing(executions) /\ Increasing(answers)
  /\ \A c \in 1 .. Len(executions) : executions[c].source = Txu01
  /\ \A a \in 1 .. Len(answers) :
       /\ answers[a].source = Txu01
       /\ AcknowledgementRequested(answers[a].message)

\* Every packet the callback queued is waiting, in hand or done with: the
\* receive queue loses nothing it accepted, except at a power cycle.
QueueConserved ==
  /\ Len(queue) + (IF step = "receive" THEN 0 ELSE 1) = accepted - settled
  /\ \A i \in 1 .. Len(queue) : queue[i].id = accepted - Len(queue) + i

\* The uint32_t gateway counters stay in step across their wrap-around: every
\* routed command is sent, failed or still in the CAN driver.
StatisticsConserved ==
  statistics.commandsRouted =
    (statistics.framesSent + statistics.transmitErrors
       + (IF busy THEN 1 ELSE 0)) % CounterModulus

\* The main task gets past every packet it was ever given (or the receiver is
\* power cycled and all it held is lost): no early return, duplicate or CAN
\* failure can stop the loop.
EveryPacketSettled ==
  \A id \in 1 .. MaxArrivals : (accepted >= id) ~> (settled >= id)

\* The cache gives what an ideal record of requests would: Application
\* implements RequestWindow, with the acknowledgement about to be sent as the
\* reply.
Window == INSTANCE RequestWindow WITH
  reply <- IF step = "ack" THEN [source |-> packet.source, message |-> m,
                                 status |-> status]
           ELSE [status |-> "none"]

ImplementsWindow == Window!WindowSpec
=============================================================================
