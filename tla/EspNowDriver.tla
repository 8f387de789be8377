---------------------------- MODULE EspNowDriver ----------------------------
(***************************************************************************)
(* esp_now_driver.cpp over its whole life: init with its undo on every     *)
(* failure, deinit, both callbacks, both queues, the peer table.           *)
(*                                                                         *)
(* One task (the owner) calls the interface, one call at a time and in any *)
(* order; init and deinit are taken one ESP-IDF call at a time.  A         *)
(* callback runs to its end once it has begun: there is one core, and the  *)
(* Wi-Fi task, whose priority is above that of every task of the           *)
(* firmware, does not block in it.  It may begin between any two steps.    *)
(*                                                                         *)
(* Calls that are refused at once (an init that finds the driver           *)
(* initialized or its configuration invalid, anything before init, a null  *)
(* or oversized argument) change nothing and are not steps.                *)
(***************************************************************************)
EXTENDS Integers, FiniteSets

CONSTANTS
  Depth,         \* Config::receive_queue_depth, send_result_queue_depth
  Macs,          \* addresses a peer can have
  MaxPeers,      \* ESP-NOW's limit on peers
  MaxCallbacks,  \* bound: callbacks of each kind that get through, per init
  MaxInFlight    \* bound: packets ESP-NOW holds for sending

ASSUME DriverAssumption ==
  {Depth, MaxPeers, MaxCallbacks, MaxInFlight} \subseteq Nat \ {0}

\* Each kind of event has a callback, a queue and a counter of its own.
Kinds == {"receive", "sendResult"}

VARIABLES
  step,         \* where init or deinit is
  initialized,  \* g_initialized
  handle,       \* the kinds whose queue handle is not nullptr
  queues,       \* queue objects of each kind that exist
  length,       \* items in the queue of each kind
  dropped,      \* g_dropped_receive_packets, g_dropped_send_results
  espNow,       \* ESP-NOW: initialized
  registered,   \* ESP-NOW: the kinds whose callback is registered
  peers,        \* ESP-NOW: the peer table
  inFlight,     \* ESP-NOW: packets accepted by esp_now_send, not yet reported
  delivered,    \* history: callbacks that got through since init returned
  gone          \* history: items received, cleared, or lost and forgotten

ownerVars == <<step, initialized>>
queueVars == <<handle, queues, length>>
nativeVars == <<espNow, registered, peers, inFlight>>
countVars == <<dropped, delivered, gone>>
driverVars == <<ownerVars, queueVars, nativeVars, countVars>>

None == [k \in Kinds |-> 0]

DriverInit ==
  /\ step = "idle" /\ initialized = FALSE
  /\ handle = {} /\ queues = None /\ length = None /\ dropped = None
  /\ espNow = FALSE /\ registered = {} /\ peers = {} /\ inFlight = 0
  /\ delivered = None /\ gone = None
-----------------------------------------------------------------------------
(***************************************************************************)
(* init and deinit                                                         *)
(***************************************************************************)
Goto(here, there) == step = here /\ step' = there

BeginInit ==
  /\ Goto("idle", "createReceive") /\ ~initialized
  /\ UNCHANGED <<initialized, queueVars, nativeVars, countVars>>

\* xQueueCreate, or out of memory.
CreateQueue(k, here, there, failed) ==
  /\ \/ /\ Goto(here, there)
        /\ handle' = handle \cup {k}
        /\ queues' = [queues EXCEPT ![k] = @ + 1]
        /\ length' = [length EXCEPT ![k] = 0]
     \/ Goto(here, failed) /\ UNCHANGED queueVars
  /\ UNCHANGED <<initialized, nativeVars, countVars>>

\* Fault: the queues are not deleted when esp_now_init fails.
EspNowInitLeaks ==
  /\ \/ Goto("espNowInit", "registerReceive") /\ espNow' = TRUE
     \/ Goto("espNowInit", "idle") /\ UNCHANGED espNow
  /\ UNCHANGED <<initialized, queueVars, registered, peers, inFlight,
                 countVars>>

EspNowInit ==
  /\ \/ Goto("espNowInit", "registerReceive") /\ espNow' = TRUE
     \/ Goto("espNowInit", "deleteReceive") /\ UNCHANGED espNow
  /\ UNCHANGED <<initialized, queueVars, registered, peers, inFlight,
                 countVars>>

Register(k, here, there, failed) ==
  /\ \/ Goto(here, there) /\ registered' = registered \cup {k}
     \/ Goto(here, failed) /\ UNCHANGED registered
  /\ UNCHANGED <<initialized, queueVars, espNow, peers, inFlight, countVars>>

\* reset_statistics, by init and by anybody: losses counted so far are
\* forgotten.
ForgetLosses ==
  /\ dropped' = None
  /\ gone' = [k \in Kinds |-> gone[k] + dropped[k]]
  /\ UNCHANGED delivered

\* Fault: the counters of the life before are kept.
NoReset ==
  /\ Goto("resetStatistics", "publish")
  /\ UNCHANGED <<initialized, queueVars, nativeVars, countVars>>

ResetForInit ==
  /\ Goto("resetStatistics", "publish")
  /\ ForgetLosses
  /\ UNCHANGED <<initialized, queueVars, nativeVars>>

\* g_initialized.store(true): from here on callbacks get through.
Publish ==
  /\ Goto("publish", "idle")
  /\ initialized' = TRUE
  /\ delivered' = None /\ gone' = None
  /\ UNCHANGED <<dropped, queueVars, nativeVars>>

\* Fault: deinit leaves the flag until it is done.
BeginDeinitFlagUp ==
  /\ Goto("idle", "unregisterReceive") /\ initialized
  /\ UNCHANGED <<initialized, queueVars, nativeVars, countVars>>

BeginDeinit ==
  /\ Goto("idle", "unregisterReceive") /\ initialized
  /\ initialized' = FALSE
  /\ UNCHANGED <<queueVars, nativeVars, countVars>>

\* The undo of init and the whole of deinit.  When the send callback could not
\* be registered init unregisters the receive callback only, which leaves the
\* same behind.
Unregister(k, here, there) ==
  /\ Goto(here, there)
  /\ registered' = registered \ {k}
  /\ UNCHANGED <<initialized, queueVars, espNow, peers, inFlight, countVars>>

\* esp_now_deinit: peers and packets in flight go with it.  It is called only
\* while ESP-NOW is initialized, and then does not fail.
EspNowDeinit ==
  /\ Goto("espNowDeinit", "deleteReceive")
  /\ espNow' = FALSE /\ peers' = {} /\ inFlight' = 0
  /\ UNCHANGED <<initialized, queueVars, registered, countVars>>

\* deleteQueues: vQueueDelete, then the handle becomes nullptr.
DeleteQueue(k, here, there, next) ==
  /\ Goto(here, IF k \in handle THEN there ELSE next)
  /\ queues' = [queues EXCEPT ![k] = IF k \in handle THEN @ - 1 ELSE @]
  /\ length' = [length EXCEPT ![k] = IF k \in handle THEN 0 ELSE @]
  /\ UNCHANGED <<initialized, handle, nativeVars, countVars>>

DropHandle(k, here, next) ==
  /\ Goto(here, next)
  /\ handle' = handle \ {k}
  /\ UNCHANGED <<initialized, queues, length, nativeVars, countVars>>

BringUp ==
  \/ BeginInit
  \/ CreateQueue("receive", "createReceive", "createResult", "idle")
  \/ CreateQueue("sendResult", "createResult", "espNowInit", "deleteReceive")
  \/ EspNowInit
  \/ Register("receive", "registerReceive", "registerResult", "espNowDeinit")
  \/ Register("sendResult", "registerResult", "resetStatistics",
              "unregisterReceive")
  \/ ResetForInit
  \/ Publish

TakeDown ==
  \/ BeginDeinit
  \/ Unregister("receive", "unregisterReceive", "unregisterResult")
  \/ Unregister("sendResult", "unregisterResult", "espNowDeinit")
  \/ EspNowDeinit
  \/ DeleteQueue("receive", "deleteReceive", "dropReceive", "deleteResult")
  \/ DropHandle("receive", "dropReceive", "deleteResult")
  \/ DeleteQueue("sendResult", "deleteResult", "dropResult", "idle")
  \/ DropHandle("sendResult", "dropResult", "idle")
-----------------------------------------------------------------------------
(***************************************************************************)
(* The other calls, each of which is refused before init                   *)
(***************************************************************************)
Ready == step = "idle" /\ initialized

\* A peer that exists is modified in place; a new one needs room.
AddPeer(mac) ==
  /\ Ready /\ mac \notin peers /\ Cardinality(peers) < MaxPeers
  /\ peers' = peers \cup {mac}
  /\ UNCHANGED <<ownerVars, queueVars, espNow, registered, inFlight,
                 countVars>>

RemovePeer(mac) ==
  /\ Ready /\ mac \in peers
  /\ peers' = peers \ {mac}
  /\ UNCHANGED <<ownerVars, queueVars, espNow, registered, inFlight,
                 countVars>>

\* send, to a peer that exists.
Send(mac) ==
  /\ Ready /\ mac \in peers /\ inFlight < MaxInFlight
  /\ inFlight' = inFlight + 1
  /\ UNCHANGED <<ownerVars, queueVars, espNow, registered, peers, countVars>>

\* receive and receive_send_result.
TakeFrom(k) ==
  /\ Ready /\ k \in handle /\ length[k] > 0
  /\ length' = [length EXCEPT ![k] = @ - 1]
  /\ gone' = [gone EXCEPT ![k] = @ + 1]
  /\ UNCHANGED <<ownerVars, handle, queues, nativeVars, dropped, delivered>>

\* clear_queues
ClearQueues ==
  /\ step = "idle" /\ handle # {}
  /\ length' = [k \in Kinds |-> IF k \in handle THEN 0 ELSE length[k]]
  /\ gone' = [k \in Kinds |-> IF k \in handle THEN gone[k] + length[k]
                              ELSE gone[k]]
  /\ UNCHANGED <<ownerVars, handle, queues, nativeVars, dropped, delivered>>

\* reset_statistics
ResetStatistics ==
  /\ step = "idle"
  /\ ForgetLosses
  /\ UNCHANGED <<ownerVars, queueVars, nativeVars>>

Owner ==
  \/ BringUp \/ TakeDown
  \/ \E mac \in Macs : AddPeer(mac) \/ RemovePeer(mac) \/ Send(mac)
  \/ \E k \in Kinds : TakeFrom(k)
  \/ ClearQueues \/ ResetStatistics
-----------------------------------------------------------------------------
(***************************************************************************)
(* onDataReceived and onDataSent, on the Wi-Fi task                        *)
(***************************************************************************)

\* ESP-NOW has something to report; a send it accepted is reported once.
Reports(k) ==
  /\ espNow /\ k \in registered
  /\ k = "sendResult" => inFlight > 0
  /\ inFlight' = IF k = "sendResult" THEN inFlight - 1 ELSE inFlight

\* Fault: the queue is taken to have room for one more than it has.
DeliverOneTooMany(k) ==
  /\ Reports(k)
  /\ initialized /\ k \in handle /\ delivered[k] < MaxCallbacks
  /\ delivered' = [delivered EXCEPT ![k] = @ + 1]
  /\ \/ /\ length[k] <= Depth
        /\ length' = [length EXCEPT ![k] = @ + 1] /\ UNCHANGED dropped
     \/ /\ length[k] > Depth
        /\ dropped' = [dropped EXCEPT ![k] = @ + 1] /\ UNCHANGED length
  /\ UNCHANGED <<ownerVars, handle, queues, espNow, registered, peers, gone>>

\* xQueueSend(..., 0): into the queue, or counted as lost.
Deliver(k) ==
  /\ Reports(k)
  /\ initialized /\ k \in handle /\ delivered[k] < MaxCallbacks
  /\ delivered' = [delivered EXCEPT ![k] = @ + 1]
  /\ \/ /\ length[k] < Depth
        /\ length' = [length EXCEPT ![k] = @ + 1] /\ UNCHANGED dropped
     \/ /\ length[k] = Depth
        /\ dropped' = [dropped EXCEPT ![k] = @ + 1] /\ UNCHANGED length
  /\ UNCHANGED <<ownerVars, handle, queues, espNow, registered, peers, gone>>

\* A callback before init returned or after deinit began does nothing.
Ignore(k) ==
  /\ Reports(k)
  /\ ~initialized \/ k \notin handle
  /\ UNCHANGED <<ownerVars, queueVars, espNow, registered, peers, countVars>>

Callback == \E k \in Kinds : Deliver(k) \/ Ignore(k)

DriverNext == Owner \/ Callback

DriverSpec == DriverInit /\ [][DriverNext]_driverVars
-----------------------------------------------------------------------------
(***************************************************************************)
(* Properties                                                              *)
(***************************************************************************)
Steps == {"idle", "createReceive", "createResult", "espNowInit",
          "registerReceive", "registerResult", "resetStatistics", "publish",
          "unregisterReceive", "unregisterResult", "espNowDeinit",
          "deleteReceive", "dropReceive", "deleteResult", "dropResult"}

\* Every variable has its type, and no queue holds more than its depth.
DriverTypeOK ==
  /\ step \in Steps /\ {initialized, espNow} \subseteq BOOLEAN
  /\ handle \subseteq Kinds /\ registered \subseteq Kinds
  /\ queues \in [Kinds -> Nat] /\ length \in [Kinds -> 0 .. Depth]
  /\ {dropped, delivered, gone} \subseteq [Kinds -> Nat]
  /\ peers \subseteq Macs /\ inFlight \in 0 .. MaxInFlight

\* Whenever the Wi-Fi task may preempt the owner, init and deinit included, a
\* callback that finds the flag up finds its queue, whether ESP-NOW should
\* still have called it or not: the flag goes up after everything a callback
\* uses and down before any of it goes.
CallbacksUseLiveQueues ==
  initialized => \A k \in Kinds : k \in handle /\ queues[k] = 1

\* Between calls the driver is either up as a whole or leaves nothing behind,
\* neither queue, handle, callback nor ESP-NOW itself: after a failure at any
\* point of init, after deinit, and after any series of both.
AllOrNothing ==
  step = "idle" =>
    IF initialized
    THEN espNow /\ registered = Kinds /\ handle = Kinds
         /\ queues = [k \in Kinds |-> 1]
    ELSE ~espNow /\ registered = {} /\ handle = {} /\ queues = None
         /\ peers = {} /\ inFlight = 0

\* Every event that got through since init is in its queue, was taken from it
\* or is counted as dropped: the counters start from zero in each life, miss
\* none of the events that nobody had room for, and no item of an earlier life
\* turns up in a queue.
LossesCounted ==
  initialized =>
    \A k \in Kinds : delivered[k] = gone[k] + length[k] + dropped[k]
=============================================================================
