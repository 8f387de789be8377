---------------------------- MODULE DriverProofs ----------------------------
(***************************************************************************)
(* The life of the ESP-NOW driver, for every queue depth and any number of *)
(* peers, callbacks and lives.                                             *)
(***************************************************************************)
EXTENDS EspNowDriver, TLAPS

(***************************************************************************)
(* What exists at each step of init and deinit                             *)
(***************************************************************************)

\* Both queues exist.
BothQueues == {"espNowInit", "registerReceive", "registerResult",
               "resetStatistics", "publish", "unregisterReceive",
               "unregisterResult", "espNowDeinit"}

\* ESP-NOW is initialized.
EspNowUp == BothQueues \ {"espNowInit"}

HandlesFollow ==
  /\ step = "idle" => handle = IF initialized THEN Kinds ELSE {}
  /\ step = "createReceive" => handle = {}
  /\ step = "createResult" => handle = {"receive"}
  /\ step \in BothQueues => handle = Kinds
  /\ step \in {"deleteReceive", "dropReceive"} => "receive" \in handle
  /\ step = "deleteResult" => "receive" \notin handle
  /\ step = "dropResult" => handle = {"sendResult"}
  /\ handle \subseteq Kinds

\* There is one queue behind each handle, but for the moment between its
\* deletion and the loss of the handle.
QueuesFollow ==
  queues = [k \in Kinds |->
    IF \/ k \notin handle
       \/ k = "receive" /\ step = "dropReceive"
       \/ k = "sendResult" /\ step = "dropResult"
    THEN 0 ELSE 1]

EspNowFollows ==
  /\ espNow <=> (step \in EspNowUp \/ initialized)
  /\ ~espNow => peers = {} /\ inFlight = 0
  /\ registered \subseteq Kinds
  /\ step = "idle" => registered = IF initialized THEN Kinds ELSE {}
  /\ step = "registerReceive" => registered = {}
  /\ step = "registerResult" => registered = {"receive"}
  /\ step \in {"resetStatistics", "publish"} => registered = Kinds
  /\ step = "unregisterResult" => "receive" \notin registered
  /\ step \in {"createReceive", "createResult", "espNowInit",
               "espNowDeinit", "deleteReceive", "dropReceive",
               "deleteResult", "dropResult"} => registered = {}

LifeInv ==
  /\ step \in Steps /\ initialized \in BOOLEAN /\ espNow \in BOOLEAN
  /\ initialized => step = "idle"
  /\ HandlesFollow /\ QueuesFollow /\ EspNowFollows

\* Nothing exists at power-on.
LEMMA InitLifeInv == DriverInit => LifeInv
  BY DEF DriverInit, LifeInv, HandlesFollow, QueuesFollow, EspNowFollows,
         None, Kinds, Steps, BothQueues, EspNowUp

\* init keeps the table, whatever call of it fails.
LEMMA BringUpLifeInv ==
  ASSUME LifeInv, BringUp PROVE LifeInv'
  <1> USE DEF LifeInv, HandlesFollow, QueuesFollow, EspNowFollows, Kinds,
              Steps, BothQueues, EspNowUp, Goto, queueVars, nativeVars,
              countVars
  <1>1. CASE BeginInit
    BY <1>1 DEF BeginInit
  <1>2. CASE CreateQueue("receive", "createReceive", "createResult", "idle")
    <2>1. HandlesFollow' /\ EspNowFollows'
      BY <1>2 DEF CreateQueue
    <2>2. QueuesFollow'
      BY <1>2 DEF CreateQueue
    <2>3. QED  BY <1>2, <2>1, <2>2 DEF CreateQueue
  <1>3. CASE CreateQueue("sendResult", "createResult", "espNowInit",
                         "deleteReceive")
    BY <1>3 DEF CreateQueue
  <1>4. CASE EspNowInit
    <2>1. HandlesFollow' /\ EspNowFollows'
      BY <1>4 DEF EspNowInit
    <2>2. QueuesFollow'
      BY <1>4 DEF EspNowInit
    <2>3. QED  BY <1>4, <2>1, <2>2 DEF EspNowInit
  <1>5. CASE Register("receive", "registerReceive", "registerResult",
                      "espNowDeinit")
    BY <1>5 DEF Register
  <1>6. CASE Register("sendResult", "registerResult", "resetStatistics",
                      "unregisterReceive")
    BY <1>6 DEF Register
  <1>7. CASE ResetForInit
    BY <1>7 DEF ResetForInit, ForgetLosses
  <1>8. CASE Publish
    BY <1>8 DEF Publish
  <1>9. QED
    BY <1>1, <1>2, <1>3, <1>4, <1>5, <1>6, <1>7, <1>8 DEF BringUp

\* A queue is deleted once: where there was none, none is missing.
LEMMA OneLess ==
  ASSUME NEW h, NEW k \in Kinds, NEW q, NEW r,
         q = [j \in Kinds |-> IF j \notin h THEN 0 ELSE 1],
         r = [q EXCEPT ![k] = IF k \in h THEN @ - 1 ELSE @]
  PROVE  r = [j \in Kinds |-> IF j \notin h \/ j = k THEN 0 ELSE 1]
  <1>1. ASSUME NEW j \in Kinds
        PROVE  r[j] = IF j \notin h \/ j = k THEN 0 ELSE 1
    <2>1. q[j] = IF j \notin h THEN 0 ELSE 1
      OBVIOUS
    <2>2. r[j] = IF j = k THEN (IF k \in h THEN q[k] - 1 ELSE q[k]) ELSE q[j]
      OBVIOUS
    <2>3. q[k] = IF k \notin h THEN 0 ELSE 1
      OBVIOUS
    <2>4. QED  BY <2>1, <2>2, <2>3
  <1>2. r = [j \in Kinds |-> r[j]]
    OBVIOUS
  <1>3. QED  BY <1>1, <1>2

\* So do deinit and the undo of init.
LEMMA TakeDownLifeInv ==
  ASSUME LifeInv, TakeDown PROVE LifeInv'
  <1> USE DEF LifeInv, HandlesFollow, QueuesFollow, EspNowFollows, Kinds,
              Steps, BothQueues, EspNowUp, Goto, queueVars, nativeVars,
              countVars
  <1>1. CASE BeginDeinit
    BY <1>1 DEF BeginDeinit
  <1>2. CASE Unregister("receive", "unregisterReceive", "unregisterResult")
    BY <1>2 DEF Unregister
  <1>3. CASE Unregister("sendResult", "unregisterResult", "espNowDeinit")
    BY <1>3 DEF Unregister
  <1>4. CASE EspNowDeinit
    BY <1>4 DEF EspNowDeinit
  <1>5. CASE DeleteQueue("receive", "deleteReceive", "dropReceive",
                         "deleteResult")
    <2>1. HandlesFollow' /\ EspNowFollows'
      BY <1>5 DEF DeleteQueue
    <2>2. QueuesFollow'
      <3>1. /\ handle' = handle
            /\ step' = IF "receive" \in handle THEN "dropReceive" ELSE "deleteResult"
            /\ step \notin {"dropReceive", "dropResult"}
        BY <1>5 DEF DeleteQueue
      <3>2. queues' = [queues EXCEPT !["receive"] =
                         IF "receive" \in handle THEN @ - 1 ELSE @]
        BY <1>5 DEF DeleteQueue
      <3>3. queues = [k \in Kinds |-> IF k \notin handle THEN 0 ELSE 1]
        BY <3>1
      <3>4. queues' = [k \in Kinds |->
                         IF k \notin handle \/ k = "receive" THEN 0 ELSE 1]
        <4>1. "receive" \in Kinds
          OBVIOUS
        <4>2. QED
          BY ONLY <3>2, <3>3, <4>1, OneLess
      <3>5. QED  BY <1>5, <3>1, <3>4
    <2>3. QED  BY <1>5, <2>1, <2>2 DEF DeleteQueue
  <1>6. CASE DropHandle("receive", "dropReceive", "deleteResult")
    BY <1>6 DEF DropHandle
  <1>7. CASE DeleteQueue("sendResult", "deleteResult", "dropResult", "idle")
    <2>1. HandlesFollow' /\ EspNowFollows'
      BY <1>7 DEF DeleteQueue
    <2>2. QueuesFollow'
      <3>1. /\ handle' = handle
            /\ step' = IF "sendResult" \in handle THEN "dropResult" ELSE "idle"
            /\ step \notin {"dropReceive", "dropResult"}
        BY <1>7 DEF DeleteQueue
      <3>2. queues' = [queues EXCEPT !["sendResult"] =
                         IF "sendResult" \in handle THEN @ - 1 ELSE @]
        BY <1>7 DEF DeleteQueue
      <3>3. queues = [k \in Kinds |-> IF k \notin handle THEN 0 ELSE 1]
        BY <3>1
      <3>4. queues' = [k \in Kinds |->
                         IF k \notin handle \/ k = "sendResult" THEN 0 ELSE 1]
        <4>1. "sendResult" \in Kinds
          OBVIOUS
        <4>2. QED
          BY ONLY <3>2, <3>3, <4>1, OneLess
      <3>5. QED  BY <1>7, <3>1, <3>4
    <2>3. QED  BY <1>7, <2>1, <2>2 DEF DeleteQueue
  <1>8. CASE DropHandle("sendResult", "dropResult", "idle")
    BY <1>8 DEF DropHandle
  <1>9. QED
    BY <1>1, <1>2, <1>3, <1>4, <1>5, <1>6, <1>7, <1>8 DEF TakeDown

\* The other calls and the callbacks neither create nor delete anything.
LEMMA UseLifeInv ==
  ASSUME LifeInv,
         \/ \E mac \in Macs : AddPeer(mac) \/ RemovePeer(mac) \/ Send(mac)
         \/ \E k \in Kinds : TakeFrom(k)
         \/ ClearQueues \/ ResetStatistics \/ Callback
         \/ UNCHANGED driverVars
  PROVE  LifeInv'
  <1>1. UNCHANGED <<step, initialized, handle, queues, espNow, registered>>
    BY DEF AddPeer, RemovePeer, Send, TakeFrom, ClearQueues, ResetStatistics,
           Callback, Deliver, Ignore, ownerVars, queueVars, nativeVars,
           driverVars
  <1>2. ~espNow => UNCHANGED <<peers, inFlight>>
    BY DEF AddPeer, RemovePeer, Send, TakeFrom, ClearQueues, ResetStatistics,
           Callback, Deliver, Ignore, Reports, nativeVars, driverVars, Ready,
           LifeInv, EspNowFollows
  <1>3. HandlesFollow' /\ QueuesFollow'
    BY <1>1 DEF LifeInv, HandlesFollow, QueuesFollow
  <1>4. EspNowFollows'
    BY <1>1, <1>2 DEF LifeInv, EspNowFollows
  <1>5. QED  BY <1>1, <1>3, <1>4 DEF LifeInv

\* What exists at each step follows the table for ever.
THEOREM DriverLife == DriverSpec => []LifeInv
  <1>1. LifeInv /\ [DriverNext]_driverVars => LifeInv'
    BY BringUpLifeInv, TakeDownLifeInv, UseLifeInv DEF DriverNext, Owner
  <1>2. QED  BY <1>1, InitLifeInv, PTL DEF DriverSpec

\* A callback that passes its checks finds a queue that exists, at any moment
\* of any init and deinit.
THEOREM CallbacksAlwaysUseLiveQueues == DriverSpec => []CallbacksUseLiveQueues
  <1>1. ASSUME LifeInv, initialized, NEW k \in Kinds
        PROVE  k \in handle /\ queues[k] = 1
    <2>1. step = "idle" /\ handle = Kinds
      BY <1>1 DEF LifeInv, HandlesFollow
    <2>2. queues = [j \in Kinds |-> 1]
      BY <1>1, <2>1 DEF LifeInv, QueuesFollow
    <2>3. QED  BY <2>1, <2>2
  <1>2. LifeInv => CallbacksUseLiveQueues
    BY <1>1 DEF CallbacksUseLiveQueues
  <1>3. QED  BY <1>2, DriverLife, PTL

\* Between calls the driver is up as a whole or leaves nothing behind.
THEOREM AlwaysAllOrNothing == DriverSpec => []AllOrNothing
  <1>1. LifeInv => AllOrNothing
    BY DEF LifeInv, HandlesFollow, QueuesFollow, EspNowFollows, AllOrNothing,
           None, Kinds, EspNowUp, BothQueues
  <1>2. QED  BY <1>1, DriverLife, PTL
-----------------------------------------------------------------------------
(***************************************************************************)
(* The counters                                                            *)
(***************************************************************************)

\* The queues of a new life are empty and its counters are reset before the
\* first callback gets through.
FreshInv ==
  /\ step = "createResult" => length["receive"] = 0
  /\ step \in {"espNowInit", "registerReceive", "registerResult",
               "resetStatistics", "publish"} => length = None
  /\ step = "publish" => dropped = None

CountTypes ==
  /\ length \in [Kinds -> Nat] /\ dropped \in [Kinds -> Nat]
  /\ delivered \in [Kinds -> Nat] /\ gone \in [Kinds -> Nat]

CountInv == CountTypes /\ FreshInv /\ LossesCounted

\* Counters only count up or start again, and queues shrink only when they
\* hold something.
LEMMA NextCountTypes ==
  ASSUME CountTypes, [DriverNext]_driverVars PROVE CountTypes'
  <1>1. CASE BringUp
    BY <1>1
    DEF BringUp, BeginInit, CreateQueue, EspNowInit, Register, ResetForInit,
        Publish, ForgetLosses, CountTypes, queueVars, countVars, None
  <1>2. CASE TakeDown
    BY <1>2
    DEF TakeDown, BeginDeinit, Unregister, EspNowDeinit, DeleteQueue,
        DropHandle, CountTypes, queueVars, countVars
  <1>3. CASE \E mac \in Macs : AddPeer(mac) \/ RemovePeer(mac) \/ Send(mac)
    BY <1>3 DEF AddPeer, RemovePeer, Send, CountTypes, queueVars, countVars
  <1>4. ASSUME NEW k \in Kinds, TakeFrom(k) PROVE CountTypes'
    BY <1>4 DEF TakeFrom, CountTypes
  <1>5. CASE ClearQueues \/ ResetStatistics
    BY <1>5
    DEF ClearQueues, ResetStatistics, ForgetLosses, CountTypes, queueVars,
        None
  <1>6. ASSUME NEW k \in Kinds, Deliver(k) \/ Ignore(k) PROVE CountTypes'
    BY <1>6 DEF Deliver, Ignore, CountTypes, queueVars, countVars
  <1>7. CASE UNCHANGED driverVars
    BY <1>7 DEF driverVars, queueVars, countVars, CountTypes
  <1>8. QED
    BY <1>1, <1>2, <1>3, <1>4, <1>5, <1>6, <1>7
    DEF DriverNext, Owner, Callback

\* No callback gets through while init runs, so what it prepared stays fresh.
LEMMA NextFresh ==
  ASSUME LifeInv, CountTypes, FreshInv, [DriverNext]_driverVars
  PROVE  FreshInv'
  <1>1. CASE BringUp
    BY <1>1
    DEF BringUp, BeginInit, CreateQueue, EspNowInit, Register, ResetForInit,
        Publish, ForgetLosses, FreshInv, CountTypes, queueVars, countVars,
        None, Goto, Kinds
  <1>2. CASE TakeDown
    BY <1>2
    DEF TakeDown, BeginDeinit, Unregister, EspNowDeinit, DeleteQueue,
        DropHandle, Goto, FreshInv
  <1>3. CASE \/ \E mac \in Macs : AddPeer(mac) \/ RemovePeer(mac) \/ Send(mac)
             \/ \E k \in Kinds : TakeFrom(k)
             \/ ClearQueues \/ ResetStatistics
    BY <1>3
    DEF AddPeer, RemovePeer, Send, TakeFrom, ClearQueues, ResetStatistics,
        Ready, ownerVars, FreshInv
  <1>4. CASE Callback
    BY <1>4
    DEF Callback, Deliver, Ignore, ownerVars, queueVars, countVars, LifeInv,
        FreshInv
  <1>5. CASE UNCHANGED driverVars
    BY <1>5 DEF driverVars, ownerVars, queueVars, countVars, FreshInv
  <1>6. QED
    BY <1>1, <1>2, <1>3, <1>4, <1>5 DEF DriverNext, Owner

\* Every step keeps the balance of each kind of event.
LEMMA NextLossesCounted ==
  ASSUME LifeInv, CountInv, [DriverNext]_driverVars PROVE LossesCounted'
  <1> USE DEF CountInv, CountTypes
  <1>1. CASE BringUp
    <2>1. CASE Publish
      <3>1. length' = None /\ dropped' = None /\ delivered' = None
            /\ gone' = None
        BY <2>1 DEF Publish, Goto, FreshInv, queueVars
      <3>2. QED  BY <3>1 DEF LossesCounted, None
    <2>2. CASE ~Publish
      <3>1. ~initialized'
        BY <1>1, <2>2
        DEF BringUp, BeginInit, CreateQueue, EspNowInit, Register,
            ResetForInit, Goto, LifeInv
      <3>2. QED  BY <3>1 DEF LossesCounted
    <2>3. QED  BY <2>1, <2>2
  <1>2. CASE TakeDown
    <2>1. ~initialized'
      BY <1>2
      DEF TakeDown, BeginDeinit, Unregister, EspNowDeinit, DeleteQueue,
          DropHandle, Goto, LifeInv
    <2>2. QED  BY <2>1 DEF LossesCounted
  <1>3. CASE \E mac \in Macs : AddPeer(mac) \/ RemovePeer(mac) \/ Send(mac)
    BY <1>3
    DEF AddPeer, RemovePeer, Send, ownerVars, queueVars, countVars,
        LossesCounted
  <1>4. ASSUME NEW k \in Kinds, TakeFrom(k) PROVE LossesCounted'
    BY <1>4 DEF TakeFrom, Ready, ownerVars, LossesCounted
  <1>5. CASE ClearQueues
    BY <1>5 DEF ClearQueues, ownerVars, LossesCounted
  <1>6. CASE ResetStatistics
    BY <1>6
    DEF ResetStatistics, ForgetLosses, ownerVars, queueVars, None,
        LossesCounted
  <1>7. ASSUME NEW k \in Kinds, Deliver(k) PROVE LossesCounted'
    BY <1>7 DEF Deliver, ownerVars, LossesCounted
  <1>8. ASSUME NEW k \in Kinds, Ignore(k) PROVE LossesCounted'
    BY <1>8 DEF Ignore, ownerVars, queueVars, countVars, LossesCounted
  <1>9. CASE UNCHANGED driverVars
    BY <1>9 DEF driverVars, ownerVars, queueVars, countVars, LossesCounted
  <1>10. QED
    BY <1>1, <1>2, <1>3, <1>4, <1>5, <1>6, <1>7, <1>8, <1>9
    DEF DriverNext, Owner, Callback

\* No event that got through is lost without being counted, in any life.
THEOREM LossesAlwaysCounted == DriverSpec => []LossesCounted
  <1>1. DriverInit => CountInv
    BY DEF DriverInit, CountInv, CountTypes, FreshInv, LossesCounted, None
  <1>2. LifeInv /\ CountInv /\ [DriverNext]_driverVars => CountInv'
    BY NextCountTypes, NextFresh, NextLossesCounted DEF CountInv
  <1>3. CountInv => LossesCounted
    BY DEF CountInv
  <1>4. QED  BY <1>1, <1>2, <1>3, DriverLife, PTL DEF DriverSpec

(***************************************************************************)
(* Limits                                                                  *)
(***************************************************************************)

\* A queue never holds more than it was created for, and ESP-NOW no more
\* packets than it can.
LimitsInv ==
  /\ length \in [Kinds -> 0 .. Depth]
  /\ peers \subseteq Macs /\ inFlight \in 0 .. MaxInFlight

\* No step of the driver passes a limit.
LEMMA NextLimits ==
  ASSUME LimitsInv, [DriverNext]_driverVars PROVE LimitsInv'
  <1> USE DriverAssumption DEF LimitsInv
  <1>1. CASE BringUp
    BY <1>1
    DEF BringUp, BeginInit, CreateQueue, EspNowInit, Register, ResetForInit,
        Publish, queueVars, nativeVars
  <1>2. CASE TakeDown
    BY <1>2
    DEF TakeDown, BeginDeinit, Unregister, EspNowDeinit, DeleteQueue,
        DropHandle, queueVars, nativeVars
  <1>3. ASSUME NEW mac \in Macs, AddPeer(mac) \/ RemovePeer(mac) \/ Send(mac)
        PROVE  LimitsInv'
    BY <1>3 DEF AddPeer, RemovePeer, Send, queueVars
  <1>4. ASSUME NEW k \in Kinds, TakeFrom(k) PROVE LimitsInv'
    BY <1>4 DEF TakeFrom, nativeVars
  <1>5. CASE ClearQueues \/ ResetStatistics
    BY <1>5 DEF ClearQueues, ResetStatistics, queueVars, nativeVars
  <1>6. ASSUME NEW k \in Kinds, Deliver(k) \/ Ignore(k) PROVE LimitsInv'
    <2>1. inFlight' \in 0 .. MaxInFlight
      BY <1>6 DEF Deliver, Ignore, Reports
    <2>2. length' \in [Kinds -> 0 .. Depth]
      BY <1>6 DEF Deliver, Ignore, queueVars
    <2>3. QED
      BY <1>6, <2>1, <2>2 DEF Deliver, Ignore
  <1>7. CASE UNCHANGED driverVars
    BY <1>7 DEF driverVars, queueVars, nativeVars
  <1>8. QED
    BY <1>1, <1>2, <1>3, <1>4, <1>5, <1>6, <1>7
    DEF DriverNext, Owner, Callback

\* Handles, queues, counters and ESP-NOW keep their types, and no queue is
\* deleted twice or filled beyond its depth.
THEOREM DriverTypeCorrect == DriverSpec => []DriverTypeOK
  <1>1. DriverInit => LimitsInv /\ CountTypes
    BY DriverAssumption DEF DriverInit, LimitsInv, CountTypes, None
  <1>2. LimitsInv /\ [DriverNext]_driverVars => LimitsInv'
    BY NextLimits
  <1>3. CountTypes /\ [DriverNext]_driverVars => CountTypes'
    BY NextCountTypes
  <1>4. LifeInv /\ LimitsInv /\ CountTypes => DriverTypeOK
    BY DEF LifeInv, LimitsInv, CountTypes, DriverTypeOK, HandlesFollow,
           QueuesFollow, EspNowFollows
  <1>5. QED
    BY <1>1, <1>2, <1>3, <1>4, DriverLife, PTL DEF DriverSpec
=============================================================================
