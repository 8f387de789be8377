# RXU01 receiver: TLA+ models, model checking and proofs

RXU01 is the receiving unit of a radio-controlled car: ESP32-C3 firmware
(ESP-IDF, FreeRTOS on one core) that receives encoded command messages over
ESP-NOW from one paired transmitter, TXU01, translates each command into a
classic CAN frame, sends it through an MCP2515 controller to the ECUs of the car
and acknowledges the outcome by radio. This directory holds the specifications
of that program. Paths below are relative to the firmware's own root: its
sources are `src/`, its headers `include/`.

## 1. Inventory

| Component | Code | State | Operations | Correct when |
|---|---|---|---|---|
| Application loop | `src/application/application.cpp` | where `process_received_packet` is, the packet in hand, its acknowledgement status | `run_main_loop`, `process_received_packet`, `send_acknowledgement`, `map_ack_status` | each accepted packet is dealt with once, in order, and the loop never stops; what is acknowledged is true |
| Startup | same file, `run` before the main loop | how far `run` has come; what is up | `validate_config`, CAN `begin`, gateway `init`, Wi-Fi `init`, ESP-NOW `init`, `add_peer`, each under `ESP_ERROR_CHECK`, which aborts and so restarts the chip | the main loop is reached with everything up and not otherwise; no restart loop feeds itself |
| Request cache | same file, `g_request_cache`, `g_next_cache_entry` | ring of 16 entries with validity and time stamp | `find_cached_request`, `is_same_request`, `cache_request` | a retry inside the window is answered and not executed; nothing stale is answered from |
| ESP-NOW driver | `src/esp_now_driver/esp_now_driver.cpp` | receive queue, send-result queue, counters, init flag | `init`, `deinit`, `send`, `receive`, `receive_send_result`, the callbacks `onDataReceived`, `onDataSent` | callbacks never block; nothing accepted is lost; every failure of `init` is undone |
| Gateway | `src/esp_now_can_gateway/esp_now_can_gateway.cpp` | configuration, four `uint32_t` counters | `init`, `process_message`, `get_statistics`, `reset_statistics`, `deinit` | a message is rejected or transmitted, never both; the counters agree |
| Command router | `src/can_command_router/can_command_router.cpp` | none (pure) | `is_valid_config`, `build_frame` | a table that is let through cannot produce a bad frame |
| Vehicle protocol | `src/vehicle_can_protocol/vehicle_can_protocol.cpp` | constant tables | validators, `make_command_router_config` | exactly the documented commands get through |
| CAN manager | `src/can_manager/can_manager.cpp` | initialised flag, driver object | `begin`, `send` | result codes say what happened; a failed `begin` holds nothing |
| MCP2515 driver | `src/mcp2515/mcp2515.cpp` | SPI handle; the chip's TXBnCTRL and buffers, CANCTRL, CANSTAT, CNF1–3 | `reset`, `setMode`, `setFilter`, `setFilterMask`, `setBitrate`, `sendMessage` (receive, interrupts, other modes: no caller) | `sendMessage` returns by its deadline, a frame is sent at most once and in order, and the bit rate is the one configured |
| Remote protocol codec | `src/remote_protocol/remote_protocol.cpp` | none (pure) | `encode`, `decode`, CRC | `decode` accepts exactly what `encode` makes |
| Wi-Fi manager | `src/wifi_manager/wifi_manager.cpp` | initialised flag, configuration, ESP-IDF objects, the NVS partition | `init`, `deinit`, `set_channel` | a failed `init` leaves nothing running and can be repeated; the flag and `get_channel` tell the truth |
| Entry point, version constants | `src/main.cpp`, `include/config/software_version.h` | none | `app_main` | — |

### How they interact

```
 TXU01 ~radio~> Wi-Fi task: onDataReceived --xQueueSend(0)--> g_receive_queue
                                                                 | receive(WAIT_FOREVER)
 main task:  process_received_packet: peer? decode? --> cache lookup
                 | miss                                   | hit
                 v                                        v
        gateway.process_message --> build_frame      answer from the cache
                 | Config::transmit
                 v
        CanManager::send --> MCP2515::sendMessage <--SPI--> MCP2515 <--> CAN bus
                 |
                 v
        cache_request --> send_acknowledgement --~radio~> TXU01
```

Before that, `run` brings everything up in one sequence: `validate_config`,
`CanManager::begin` (SPI bus, device, then reset, six filters, two masks, bit rate
and Normal mode of the MCP2515, each with its own mode change), the gateway, Wi-Fi,
ESP-NOW, the peer. Any failure ends in `abort`, which restarts the microcontroller;
the MCP2515 and the NVS partition keep what they have.

There are two tasks: the Wi-Fi task that runs the ESP-NOW callbacks, and the main
task that does everything else synchronously. They share the receive queue and
counters. The third actor is the CAN controller, which acts on its own between
any two SPI transfers; the fourth is the transmitter, whose retries are the
reason for the cache.

### What is hard here

* **Retries and time.** A retry may arrive before, while or after its first copy
  is processed; the cache stamps an outcome after the CAN wait, looks up before
  it, expires lazily and overwrites round-robin.
* **An autonomous controller.** A frame can complete, fail, be retried or lose
  arbitration between reading TXBnCTRL and acting on what was read; a frame
  whose bits are on the wire cannot be recalled.
* **SPI failures that look like data.** A failed `readRegister` returns 0.
* **Bounded resources.** Eight queue places, sixteen cache entries, three
  transmit buffers, 50 ms per command.
* **Power cycles** between any two steps: cache and queue live in RAM.
* **Partial failure in startup**: long sequences of calls, each undone on error, on
  hardware that remembers the last attempt.
* **Bytes**: `decode` must accept exactly what `encode` writes, and an identifier is
  scattered over four registers and put together again.

`PROJECT.json` lists each of these hazards at the line where it bites, with the
properties that cover it.

## 2. The modules

| Module | Models | Composition |
|---|---|---|
| `RemoteMessage` | message fields and acknowledgement statuses the others share | |
| `RequestCache` | the ring, `find_cached_request`, `is_same_request`, `cache_request` | extends `RemoteMessage` |
| `CanTransmit` | *abstract*: what `Config::transmit` promises the gateway | |
| `EspNowCanGateway` | `process_message`, split where it waits for the CAN driver, and its counters | extends `RemoteMessage` |
| `Application` | the callback, the queue, the main loop, acknowledgements, power cycles | extends the three above |
| `EspNowDriver` | the ESP-NOW driver over several lives: `init` and its undo, `deinit`, both callbacks, both queues, peers | stands alone; `Application` has its receive path of one life |
| `RequestWindow` | *abstract*: an ideal record of recent requests | implemented by `Application` |
| `CommandRouter` | `is_valid_config`, `build_frame` as operators | |
| `CommandRouting` | one call of `build_frame` and its properties | extends `CommandRouter` |
| `VehicleCanProtocol` | the car's tables and validators | |
| `RemoteProtocol` | `encode`, `decode` and the CRC, on bytes, with exclusive or by arithmetic | |
| `CanIdentifier` | the layout of a frame in the MCP2515's registers: `prepareId`, `sendMessage`, `readMessage` | |
| `CommandPath` | one message as bytes: encoder, radio, decoder, router, registers, acknowledgement | extends `CommandRouting`, `CanIdentifier`, `RemoteProtocol` |
| `CarCommands` | the documented commands, and what the receiver makes of them | extends `CommandPath`, `VehicleCanProtocol` |
| `Mcp2515Transmit` | `sendMessage` one SPI transfer at a time, and the controller | implements `CanTransmit` |
| `BitTiming` | the tables of `setBitrate` and what the controller makes of them | |
| `CanBegin` | `CanManager::begin`, `reset`, `setMode`, filters, masks, `setBitrate`, one SPI transfer at a time | extends `BitTiming` |
| `WifiManager` | `init` with its undo, `deinit`, `set_channel`, one ESP-IDF call at a time | |
| `Boot` | `run` before the main loop, aborts and restarts | extends `CanBegin`, `WifiManager` |
| `MCApplication`, `MCCommandPath`, `MCBoot` | instances for TLC | |
| `ApplicationProofs`, `PathProofs`, `WindowProofs`, `CodecProofs`, `RoutingProofs`, `DriverProofs`, `McpProofs`, `BootProofs` | theorems | |

The chain of abstraction has two links. `Application` uses `CanTransmit` where the
code calls `Config::transmit`, and `Mcp2515Transmit` is proved to implement
`CanTransmit`, the result of each call included, as long as no SPI transfer
fails; so what `Application` shows of acknowledgements rests on what the
driver does. `Application` in turn implements `RequestWindow`, which knows
nothing of rings, slots or sweeps. `CommandPath` follows the same way through the code
as `Application` and is its complement: one message, no concurrency, all bytes.
`Boot` ends where `Application` begins.

### State and actions against the code

`Application` follows `process_received_packet` from top to bottom with the
program counter `step`:

| `step` | the main task is | leaves by |
|---|---|---|
| `receive` | blocked in `esp_now_driver::receive` | `Receive` |
| `filter` | comparing the source and decoding | `IgnorePacket`, `AcceptPacket` |
| `lookup` | in `find_cached_request` | `FindDuplicate`, `FindNothing` |
| `gateway` | in `process_message` before the CAN call | `Reject`, `Transmit` |
| `can` | waiting in `Config::transmit` | `TransmitReturns` |
| `store` | in `cache_request` | `CacheRequest` |
| `ack` | in `send_acknowledgement` | `SendAcknowledgement` |

The callback is `OnDataReceived`; `BusStep` is the controller; `Tick` the clock.
`log`, `executions`, `answers`, `accepted` and `settled` are history variables:
no guard reads them, except `accepted` where it bounds the arrivals.

`Mcp2515Transmit` follows `sendMessage`: `probe` (the loop over the three
buffers), `load`, `clear`, `request`, `poll`, `decide`, `abort`; each action is one
SPI transfer or one decision on what was read.

`EspNowDriver` takes `init` and `deinit` one ESP-IDF call at a time; the second half
of the steps (`unregisterReceive` to `dropResult`) is shared by `deinit` and by the
undo of a failed `init`, which enters it at the point that matches how far it got.
`receive` and `sendResult` name the two kinds of event, each with a callback, a
queue and a counter.

`Boot` follows `run` with `appStep`:

| `appStep` | `run` is in | leaves by |
|---|---|---|
| `validate` | `validate_config` | `ValidateConfig` |
| `can` | `CanManager::begin`, with `canStep` for its inside | `CanBegun` |
| `gateway` | `esp_now_can_gateway::init` | `InitializeGateway` |
| `wifi` | `wifi_manager::init`, with `wifiStep` for its inside | `WifiInitialized` |
| `espNow`, `peer` | `esp_now_driver::init`, `initialize_txu01_peer` | `InitializeEspNow`, `InitializeTxu01Peer` |
| `running` | the main loop | `Crash` |
| `aborted` | `abort`, called by `ESP_ERROR_CHECK` | `Reboot` |

`CanBegin`'s `canStep` goes through `bus` and `device` (the two SPI calls of ESP-IDF),
`reset` and `clear` (`MCP2515::reset`), and then for each of nine changes to Config
mode (six filters, two masks, the bit rate) through `request` and `poll` of `setMode`;
`cnf` writes the three timing registers, and the last round asks for Normal mode.
`WifiManager`'s `wifiStep` names the next ESP-IDF call; each of them may succeed or be
refused, and an error leads to the undo that `init` has at that place.

`CommandPath`'s `step` is `send` (TXU01's `encode`, and the radio), `decode`, `route`,
`load` (`sendMessage` writes the registers), `acknowledge`.

Definitions whose comment begins with "Fault:" are not part of any
specification. Each is a plausible bug in the definition that follows it, used to
see that a property notices it.

### Modelling assumptions

* One core (`CONFIG_FREERTOS_UNICORE`). Queue operations are atomic, as FreeRTOS
  makes them; nothing else is shared between tasks.
* A callback is one step: on the single core the Wi-Fi task preempts the main task
  and not the other way round, and the callbacks never block. It may come between
  any two steps of `init` or `deinit`. A second core would make the checks and the
  `xQueueSend` of a callback two steps, and `deinit`, which no code calls today,
  would need a lock.
* `esp_now_deinit` and the unregistering calls succeed when ESP-NOW is initialized,
  which is the only time they are made.
* One scan of the cache reads the clock once. The code calls
  `esp_timer_get_time()` for each entry, microseconds apart, on a lifetime of
  seconds.
* A decoded message is a record of what later code compares; type, message ID and
  payload together are one value, `content`, and what the router says of it is the
  constant `RouteOf`. In TLC's instances `RouteOf` is computed by
  `CommandRouter` from the tables in `VehicleCanProtocol`.
* A corrupt packet is one that `decode` refuses, for whatever reason.
* The radio may deliver any packet of the offered set at any time: loss,
  duplication, reordering and a restarted transmitter need no actions of their
  own.
* In `Application` a power cycle goes to the state in which `run` enters its main
  loop. `Boot` justifies that: the loop is entered with everything up
  (`RunningMeansEverythingUp`) and, unless two SPI transfers of one `begin` failed,
  with no transmit buffer left requested (`BeginTellsTheTruth`). Frames on the wire at
  that moment are gone, for the MCP2515 is reset.
* In `Boot` a restart loses RAM and switches the radio off; the NVS partition and the
  registers of the MCP2515 stay. A restart out of the main loop may leave any
  transmit buffers requested. An abort restarts by itself
  (`CONFIG_ESP_SYSTEM_PANIC_PRINT_REBOOT`).
* Of a controller that is absent every register reads as 0x00 or as 0xFF, whichever
  way the line floats. Values of filters, masks and RXBnCTRL are left out: nothing in
  this firmware receives.
* External to `WifiManager`: `esp_wifi_init` of a driver that is initialized succeeds,
  `esp_wifi_deinit` of one that is started fails, and a driver that starts is on
  channel 1.
* `esp_now_driver::init` is one step of `Boot`; `EspNowDriver` has its inside.
* The MCP2515 latches a frame when it starts to send it; once its request is
  withdrawn or its buffer reloaded, the end of that frame changes no flags of the
  buffer. This, and the retry until TXREQ is cleared, are the external part of
  the model.
* A failed SPI write has no effect; a failed read yields 0 (`rx_data` is zeroed
  before the transfer and its value is returned regardless).

## 3. What is checked

| Run | Question | Properties |
|---|---|---|
| `application_dedup` | does the ring suppress and answer what it should while it wraps, expires and is contended? | `TypeOK`, `DuplicateSuppression`, `AcknowledgesLatestOutcome` |
| `application_window` | does the cache implement the ideal window, and can anything stop the main loop? | `ImplementsWindow`, `EveryPacketSettled` |
| `application_paths` | are acknowledgements true and packets conserved along every path, with overflow, late frames and power cycles? | `CanTransmittedIsTrue`, `OncePerPacketInOrder`, `QueueConserved`, `StatisticsConserved` |
| `command_path` | does a message keep its meaning from TXU01's encoder to the registers of the MCP2515 and back in the acknowledgement, and is everything else refused? | `FrameFitsTheBus`, `NamespaceSelectsEcu`, `AcceptedConfigurationHolds`, `CarCommandsAreTranslated`, `MessageSurvivesOrIsRefused`, `OnlyEncodingsAreAccepted`, `FrameSurvivesRegisters`, `AcknowledgementNamesItsRequest` |
| `boot` | does `run` reach its main loop with everything up, and does it get there in the end? | `BootTypeOK`, `BeginTellsTheTruth`, `BitTimeAsConfigured`, `RunningMeansEverythingUp`, `BootCompletes` |
| `wifi_life` | is the station as the manager says, or gone, after any series of calls and refusals? | `WifiTypeOK`, `InitializedMeansRunning`, `NothingLeftRunning`, `DeinitTellsTheTruth`, `ReadableNvsIsKept` |
| `driver_life` | is the driver whole or gone after any series of calls and failures, and is every lost event counted? | `DriverTypeOK`, `CallbacksUseLiveQueues`, `AllOrNothing`, `LossesCounted` |
| `mcp_reliable` | does `sendMessage` keep its contract against the controller? | `BusKeepsCallOrder`, `NothingRequestedWhenIdle`, `FailureIsOwn`, `ImplementsCanTransmit` |
| `mcp_returns` | does every `sendMessage` return, on a dead bus and with SPI failures? | `McpTypeOK`, `SendReturns` |
| `mcp_faulty_spi` | does success mean transmitted when SPI can fail? (no) | `OkMeansTransmitted` |
| `mcp_late_frame` | is nothing transmitted after a timeout? (no) | `NoLateTransmission` |
| `wifi_channel` | is the radio on the channel that a successful `init` asked for? (no) | `InitSetsTheChannel` |

Note on `CanTransmittedIsTrue`: it says the *same message from the same
source* has been on the bus, not that this very packet caused it. A transmitter
that restarts and reuses a sequence number within the lifetime gets the cached
outcome of its earlier life; that is what the code does, and the property is
worded so that it holds nevertheless.

What the models of startup and of the bytes also show, without disagreeing with any
stated claim:

* Config mode is confirmed nine times and Normal mode once, but the timing registers
  are never read back: one lost write of CNF1–3 leaves `begin` successful with the
  wrong bit rate. Hence `~cnfLost` in `BitTimeAsConfigured`. And a failed read of
  CANSTAT yields 0, which is Normal mode, so the last confirmation can be false when
  the request was lost too: hence "one fault" in `BeginTellsTheTruth`.
* Of the 39 settings of `setBitrate` all give the nominal bit time (33 kbps read
  as a bit of 30 µs, 83.3 kbps as one of 12 µs). The default of
  `CanManager::Config`, 8 MHz with 1000 kbps (`include/can_manager/can_manager.h:31-32`), is the only one whose phase
  segment 2 is a single quantum; the controller asks for two.
* `begin` logs that CAN is disabled (`src/can_manager/can_manager.cpp:59`) when there
  is no controller, but `run` aborts on its error: without a controller the receiver
  restarts for ever. So it does with an invalid custom station address, which
  `validate_config` does not look at. `BootCompletes` assumes neither (`CanWork`).
* After a refused undo the Wi-Fi driver may still run while the manager is not
  initialized; a `deinit` then returns OK at once. `NothingLeftRunning` records it as
  `undoRefused`. A later `init` recovers.
* The CRC is sent low byte first, so the burst guarantee of CRC-16 holds in front of
  the CRC field and not across it; a burst that reaches into it can pass.

### Bounds, and why they are enough

* `CacheSize = 2` (16 in the code) with four requests over three sequence
  numbers: the ring wraps around twice, holds live and expired entries together
  and in both orders, and displaces live ones. The theorems hold for every size.
* `Lifetime = 1` tick with a clock up to 3: entries younger than, exactly at and
  past the lifetime, which is what `>` distinguishes. `ApplicationWindow` uses a
  ring of one, lifetime 0 and a power cycle instead.
* `application_dedup` and `application_window` use requests the router refuses,
  for two different reasons: two outcomes and two contents under one sequence
  number are what the cache can tell apart, and the CAN interleavings, which do
  not touch the cache, are left to `application_paths`.
* `application_paths`: seven packets, one for each way through
  `process_received_packet`; three arrivals overflow a queue of two, give a request
  and two retries, and leave a late frame time to meet the next call.
* `CounterModulus = 2` stands for 2^32: the counters wrap with the second command.
* `command_path`: every pair of up to two ECUs out of five and two routes out of six
  that sit at and just past each limit the validator tests, with seven messages; the
  car's tables with every message ID around the documented ones and payloads of up to five
  bytes at and just past the accepted values, and payloads at and past the longest
  `encode` takes; and one packet of 13 bytes spoiled by every error of one or two
  bits, every run of 3 to 16 inverted bits in front of the CRC, every cut, a byte too
  many, and ten values in each header field under a valid CRC. Errors of that size
  are what the code's CRC is chosen for.
* `boot`: ten polls of a mode as in the code, of which at most two find the old mode;
  three SPI faults, one refused call and two restarts with the default setting (enough
  for a `begin` with two faults, on buffers that a running life left requested, after
  one that failed); all 48
  combinations of oscillator and bit rate with one restart; an absent controller;
  every valid and invalid configuration. Theorems hold for any number of each.
* `wifi_life`: any number of calls; a channel below, at both ends of, inside and
  above the valid range.
* `driver_life`: queues of one place, three callbacks of each kind per life (one fills
  the queue, two are lost), room for one peer of two, two packets in flight, and any
  number of lives.
* `mcp_reliable`: three buffers as in the chip, three calls, two ticks; three calls
  are the least in which a late frame of the first can meet the flags and buffers
  of the third.
* `mcp_returns`: two buffers, three calls and two faults: both buffers can be
  left requested, after which the third call finds all of them busy.
* `CHECK_DEADLOCK FALSE`: with all arrivals and ticks spent the model stops
  because the bounds do, where the program would block in `xQueueReceive`.

### Fairness

`FairSpec` assumes `WF_vars(MainTask)` only: the main task, when it can move,
moves. The Wi-Fi callback is short and never blocks, so the scheduler comes back
to it. Nothing is assumed of the radio, the clock or the power. `FairBootSpec` assumes
`WF_bootVars(RunStep \/ Reboot)`: only one task runs before the main loop, and an abort
restarts the chip by itself. Restarts of other causes and faults are bounded in
number, without which nothing could be promised. That
`Config::transmit` returns is part of `MainTask`; it is justified by `SendReturns`,
checked under `WF(DriverStep)` (the same task) and `WF(Tick)` (time passes),
without any assumption on controller or bus.

### What disagrees with the code's own words

* `include/remote_protocol/remote_protocol.h:56` says `CanTransmitted` confirms
  the CAN transmission. One failed SPI read in the poll loop returns 0, which
  reads as "TXREQ clear, no error": `sendMessage` returns `ERROR_OK` for a frame
  that has not been sent (`mcp_faulty_spi`). With SPI transfers that work the
  statement is true (`mcp_reliable`, `CanTransmittedIsTrue`).
* The comment at `src/mcp2515/mcp2515.cpp:771-772` says the pending request is
  cancelled to avoid a late transmission after the timeout is reported. A frame
  already on the wire completes anyway (`mcp_late_frame`). The acknowledgement
  then says `CanTimeout` for a command that was executed; `CanTransmit` therefore
  lets a `Timeout` be ambiguous.
* `include/wifi_manager/wifi_manager.h:26` says that Wi-Fi runs on the channel given in
  `config`. A second `init` with another channel returns `ESP_OK` at once
  (`src/wifi_manager/wifi_manager.cpp:69`) and leaves the radio where it was
  (`wifi_channel`).

## 4. What is proved

All theorems are for every value of the constants that satisfies the named
`ASSUME`s: any queue depth and cache size above zero, any lifetime, any set of
peers, messages and offered packets, any router outcome, any counter width, any
number of transmit buffers, calls, ticks, polls, faults, refusals and restarts. Those
marked * also assume `MaxFaults = 0`, SPI transfers that work; `mcp_faulty_spi` shows
that they cannot do without.

| Module | Theorem | States |
|---|---|---|
| `ApplicationProofs` | `TypeCorrect` | `Spec => []TypeInv` |
| | `TypeOKHolds` | `Spec => []TypeOK` |
| `PathProofs` | `QueueInvariant` | `Spec => []QueueInv` |
| | `QueueAlwaysConserved` | `Spec => []QueueConserved` |
| | `AlwaysOncePerPacketInOrder` | `Spec => []OncePerPacketInOrder` |
| | `StatisticsAlwaysConserved` | `Spec => []StatisticsConserved` |
| | `CanTransmittedIsAlwaysTrue` | `Spec => []CanTransmittedIsTrue` |
| `WindowProofs` | `WindowInvariant` | `Spec => []WindowInv` |
| | `DuplicateSuppressionHolds` | `Spec => []DuplicateSuppression` |
| | `AcknowledgesLatestOutcomeHolds` | `Spec => []AcknowledgesLatestOutcome` |
| | `Refinement` | `Spec => ImplementsWindow` |
| `RoutingProofs` | `AcceptedConfigurationAlwaysHolds` | `RoutingSpec => []AcceptedConfigurationHolds` |
| | `FrameAlwaysFitsTheBus` | `RoutingSpec => []FrameFitsTheBus` |
| | `NamespaceAlwaysSelectsEcu` | `RoutingSpec => []NamespaceSelectsEcu` |
| | `PathRoutesSafely` | `PathSpec => []` the three together |
| | `FlippedIsRefused` | a burst of up to 16 bits in what the CRC covers, or any error in the CRC field, makes `decode` refuse any packet |
| | `OddErrorIsRefused` | an odd number of flipped bits, anywhere in the packet, makes `decode` refuse it |
| | `MessageAlwaysSurvivesOrIsRefused` | `PathSpec => [](CrcNotices(...) => MessageSurvivesOrIsRefused)` |
| | `OnlyEncodingsAreAlwaysAccepted` | `PathSpec => []OnlyEncodingsAreAccepted` |
| | `FrameAlwaysSurvivesRegisters` | `PathSpec => []FrameSurvivesRegisters` |
| | `AcknowledgementAlwaysNamesItsRequest` | `PathSpec => []AcknowledgementNamesItsRequest` |
| | `CarCommandsAreAlwaysTranslated` | `PathSpec => []CarCommandsAreTranslated`, for the validators of the car |
| `CodecProofs` | `BurstIsNoticed` | sequences that differ within 16 bits in a row differ in their CRC |
| | `RoundTrip` | `decode` gives back what `encode` took |
| | `OnlyEncodings` | what `decode` accepts, `encode` writes |
| | `RegistersKeepFrames` | every frame is read back from the registers as it was loaded |
| `DriverProofs` | `DriverTypeCorrect` | `DriverSpec => []DriverTypeOK` |
| | `DriverLife` | `DriverSpec => []LifeInv` |
| | `CallbacksAlwaysUseLiveQueues` | `DriverSpec => []CallbacksUseLiveQueues` |
| | `AlwaysAllOrNothing` | `DriverSpec => []AllOrNothing` |
| | `LossesAlwaysCounted` | `DriverSpec => []LossesCounted` |
| `McpProofs` | `McpTypeCorrect` | `McpSpec => []McpTypeOK` |
| | `McpInvariant` * | `McpSpec => []McpInv` |
| | `BusAlwaysKeepsCallOrder` * | `McpSpec => []BusKeepsCallOrder` |
| | `NothingEverRequestedWhenIdle` * | `McpSpec => []NothingRequestedWhenIdle` |
| | `FailureIsAlwaysOwn` * | `McpSpec => []FailureIsOwn` |
| | `DriverKeepsContract` * | `McpSpec => ImplementsCanTransmit` |
| `BootProofs` | `WifiTypeCorrect` | `WifiSpec => []WifiTypeOK` |
| | `InitializedIsRunning` | `WifiSpec => []InitializedMeansRunning` |
| | `FailedInitLeavesNothing` | `WifiSpec => []NothingLeftRunning` |
| | `DeinitIsTruthful` | `WifiSpec => DeinitTellsTheTruth` |
| | `NvsIsKept` | `WifiSpec => ReadableNvsIsKept` |
| | `BeginIsTruthful` | `BootSpec => []BeginTellsTheTruth` |
| | `BitTimeIsConfigured` | `BootSpec => []BitTimeAsConfigured` |
| | `EverythingIsUp` | `BootSpec => []RunningMeansEverythingUp` |
| | `BootTypeCorrect` | `BootSpec => []BootTypeOK` |

**Argument.** `TypeOK` alone is not inductive: to append an acknowledgement of the
right type one must know that a packet is in hand, and to number the CAN calls
that the main task is in the `can` step exactly while the driver is busy.
`TypeInv` adds that control information and is proved action by action.

`DuplicateSuppression` speaks of the log, while the guard of `FindNothing` speaks
of slots. `WindowInv` connects them. `LogIndex(s)` is the position in the log of
the request last written to slot `s`, computed from `nextEntry` and the length of
the log alone. `RingInv` says that a slot holds just that request, or is invalid
because it had expired. `ThroughInv` says that while a request is between lookup
and store, every entry of the window with its key is old: time only ages
entries, and no other request can be logged in between because there is one main
task. The store then appends a request whose predecessors in the window are all
expired, which is the property.

`Refinement` uses the same invariant: a hit is a request in the window
(`HitIsLogged`), a miss means that the window has none (`MissMeansOld`).
`FindDuplicate` maps to `Repeat`, `CacheRequest` to `Record`,
`SendAcknowledgement` to `Answered`, `Tick` to `Pass`, `Restart` to `PowerCycle`, and all
other steps stutter.

`AcknowledgesLatestOutcomeHolds` stands on the others: the entry that answers is
live, and if a later one had its key, duplicate suppression would make them more
than a lifetime apart, so the earlier one would have expired (`LiveIsLatest`).
It also needs that nothing was logged in the future (`LogInThePast`).

`PathProofs` stands on `TypeInv` and three more invariants. `QueueInv`: packets are
numbered as they are queued, and the one in hand is the next after the last that was
settled. `OrderInv` bounds the numbers in both histories by what has been handled,
so an append keeps them increasing. `TruthInv` carries `Told`, that a frame of this
source and message has been on the bus, from the result of the CAN call through the
status in hand into the cache and back out on a hit. It needs the history of CAN
calls to agree with the number of the call in flight, and needs nothing of
expiry. The counters are integers modulo a width; the proof adds one on both
sides of a congruence.

The router's theorems quantify over all tables of any length. `find_ecu` and
`find_route` return the first match; because a valid table has unique
identifiers the first match is the only one (`FirstOfOne`, `RouteFound`, `EcuFound`),
and the entry's own validity does the rest. The assumption is only that messages
carry a sequence of bytes.

The driver's theorems rest on `LifeInv`, a table of what exists at each step of
`init` and `deinit`. It is needed because `AllOrNothing` speaks only of the moments
between calls: by itself it says nothing of what a step in the middle may undo.
`LossesAlwaysCounted` adds `FreshInv`: what `init` prepared is still empty when the
flag goes up, for no callback gets through before.

`McpInv` says why three buffers do not matter: a call returns only with its request
withdrawn or done, so the next finds TXB0 free and takes it, and the others are
never requested (`ShapeInv`). `WireInv`: the frame on the wire is newer than all on the
bus, for a frame cannot start while another is on the wire. `CallInv` says where the
frame of the call can be at each step. `FlagInv` says that the error flags `poll` reads
were raised by this frame; it needs the order in which `sendMessage` clears TXBnCTRL
and then sets TXREQ. `DriverKeepsContract` maps a call to the contract's handover
(`BeginSendIsHandover`), the end of a frame to its `FrameOnBus`, a frame that is lost
to what the contract allows there, and the two ways out of the poll loop to its
return with a result (`CompletedReturns`, `AbortReturns`); every other SPI transfer,
and the start of a frame, is a stutter.

`RegistersKeepFrames` is arithmetic: a 29-bit identifier is cut into five fields,
two of which share SIDL with EXIDE, and joined again in `readMessage`.

The codec's theorems need no bitwise operator. `RemoteProtocol` defines exclusive or
by arithmetic on nibbles, and the proofs tell bits apart by a cut at a power of two:
`w % m` is what is below it, `w \div m` what is above. A pass of `calculate_crc16` is
followed in three directions. Forward: words with equal top bits and equal bits below a
cut have equal bits below the next cut (`ShiftForward`). Upward: words that are equal above a
cut have equal top bits, and stay equal above the next (`ShiftUpward`). Backward: the
polynomial is odd, so the lowest bit after a pass is the top bit that was shifted out, and
words that are equal below a cut after a pass were equal below the one before, and had equal
top bits (`ShiftBackward`); a pass loses nothing (`ShiftInjective`). `BurstChangesCrc` puts
these together. Take two sequences that differ only within 16 bits in a row, hence in at most
three bytes, and suppose their CRCs are equal after the third. Backward from there, the
registers agree in fewer and fewer low bits, but in enough of them that the top bits shifted
out agree in every pass over the second byte and in the last passes over the first. In
the earlier passes over the first byte the top bits agree by the upward argument, for there the
bytes do. With all top bits equal the forward argument gives equal registers after the
first byte, then after the second, and equal registers with equal CRCs mean equal bytes.
The loop over the remaining bytes keeps different CRCs different, because it reads equal
bytes (`CrcByteInjective`).

`OddErrorIsRefused` rests on parity. The polynomial has an even number of ones (its leading
one included), so a pass never changes the parity of the register: the top bit that is
shifted out takes one away and the exclusive or with 0x1021 puts an odd number back
(`ShiftParity`). The CRC therefore has the parity of the bytes it was computed from
(`CrcParity`), and a packet with its CRC field has even parity in all; an odd number of
flips, counted byte by byte (`CountByte`), spoils that.

The CRC of a sequence is a recursive function of the length of its prefix. That it
exists and what it yields is shown by descending to a least counterexample
(`Least`, `UpToInduction`), which needs first-order facts about the naturals only;
the library's induction theorems take an operator and cannot be used here.

`RoundTrip` and `OnlyEncodings` then are lists of bytes, written and read. They hold
of every message and every byte sequence; nothing is assumed of either but that
bytes are bytes.

`PathInvariant` shows `PathInv`, one conjunct per stage: the packet is what the radio
made of an encoding (`PacketInv`), the message in hand what `decode` made of the packet
(`DecodeInv`), the frame what `build_frame` made of the message (`RouteInv`), the buffer
what `sendMessage` made of the frame, the acknowledgement what `encode` made of
the status. It is needed because each property of the path relates the first stage
to the last and none of them says what the stages between hold. With it each
property is one of the operator theorems above. Assumed are only the types of the
constants: `RoutingAssumption` and `CasesAssumption` (configurations, messages and
spoilings of any size and number), `AcceptsAssumption` and `NullptrAssumption` (what a
validator is). `CrcNotices` in
`MessageAlwaysSurvivesOrIsRefused` restricts bit errors, and nothing else, to those of
`FlippedIsRefused` and `OddErrorIsRefused`; without it the statement would be false, for a CRC of 16 bits
cannot notice every error. Every cut and every extension is covered without it, and
whatever a foreign sender writes under a valid CRC by `OnlyEncodingsAreAlwaysAccepted`. The theorem about the car takes the validators
to be those of `VehicleCanProtocol`, as the run does.

`WifiInv` is a table of what exists at each step of `init`, its undo and `deinit`.
`BootInv` joins it with `BeginInv` and `AppInv`: the first says what each stage of `begin`
has seen (a mode confirmed as Config can only come from a controller that is there;
a transmit buffer still requested or a request for a mode that was lost costs a
fault), the second what each stage of `run` has done. `BitTimeIsConfigured` then
computes the bit time of all 39 entries of the three tables. `BootTypeCorrect` needs
`BootInv` only for the part of Wi-Fi.

### Only model-checked

Liveness (`EveryPacketSettled`, `SendReturns`, `BootCompletes`), because fairness is
outside the prover. Every safety property that a passing run checks is also proved.

Of `MessageSurvivesOrIsRefused` one part of the run goes beyond the theorem: exactly two
flipped bits 16 or more places apart, or on both sides of the border of the CRC field.
`command_path` tries all of them on one packet. That two errors never cancel at any distance
is a fact about the order of x modulo the polynomial (32767), which a
proof would have to count out.

## 5. What is not modelled, and why

* Of the MCP2515 driver: polling for received frames, interrupts and error flags,
  `setClkOut`, and the listen-only, sleep, loopback and one-shot modes. No code in this
  firmware calls them. (`readMessage` is in `CanIdentifier` as what the receiving side
  makes of the registers.)
* `esp_now_can_gateway::deinit`, `reset_statistics`: no caller. The
  `deinit`s of the two radio components have none either and are modelled all the
  same: one because a callback may come in the middle of it, the other because it
  shares its calls with the undo of `init`.
* The getters, which only read, and null pointers given to `encode` and `decode`.
* Logging, formatting and the version constants; ESP-IDF itself; everything
  under `build/`, which is generated.
* Tasks below the main task: `vTaskDelay(pdMS_TO_TICKS(1))` is `vTaskDelay(0)` at
  the configured 100 Hz tick, so the poll loop holds the CPU; idle-task starvation
  is bounded by the 50 ms deadline and not modelled.

## 6. Plan

Done: the modules of section 2, in the order `Application` and its parts,
`Mcp2515Transmit`, `EspNowDriver`, the router, then startup (`Boot`, `CanBegin`,
`WifiManager`), the bytes (`RemoteProtocol`, `CanIdentifier`, `CommandPath`), and the
theorems about each, those about bytes and the whole path last. Left, in this order:

1. `EspNowDriver`'s inside in `Boot`, in place of one step, should the firmware ever
   retry ESP-NOW alone.
2. The receive side of the MCP2515 driver, when the firmware gets a caller for it:
   two receive buffers, overflow flags, and a controller that fills them.

## 7. How to run

```
tlc -workers 2 -config ApplicationDedup.cfg MCApplication.tla
tlapm CodecProofs.tla
```

Each `.cfg` belongs to the module `PROJECT.json` names for its run. `CodecProofs` and
`RoutingProofs` take several minutes each, the other proofs less.
