# AquaMQTT in TLA+

AquaMQTT is ESP32 firmware that sits between the HMI of an Atlantic heat pump and
its main controller. It reads both serial lines, replays each side's frames to
the other, changes the HMI's frame when MQTT asks for it, and publishes what it
sees. Everything here models the C++ under `src/AquaMQTT/`: the tasks in
`src/task/`, the shared state in `src/state/`, the parser in `src/buffer/`, and
the message setters in `lib/AtlanticSerialProtocol/`. File names below are
relative to `src/AquaMQTT/src/` unless they say otherwise.

`PROJECT.json` lists components, runs, mutants, hazards, findings, theorems, and
the source lines of each definition.

## 1. The system

| Component | Code | State | Operations | Correct if |
|---|---|---|---|---|
| FrameBuffer | `buffer/FrameBuffer.cpp` | ring of 70 bytes, locked protocol, locked checksum | `pushByte`, `handleFrame` | never pops what is not there, keeps its locks, finds the frames again from any byte and after any fault |
| ControllerTask | `task/ControllerTask.cpp` | identifiers of the last two frames | `loop`, `sendMessage194` | answers the controller's requests, and transmits at no other time |
| HMITask | `task/HMITask.cpp` | slot of the cycle, version, last emitted request id | `loop`, `sendMessage67/74/193/217` | the HMI sees the cycle its protocol has, and the error message it asked for, once |
| DHWState | `state/DHWState.cpp` | version, checksum kind, last frame of each kind, listener | `storeFrame`, `copyFrame`, `setVersion`, `setChecksumType`, `setListener` | a copied frame can be sent on as it is; every change is notified |
| HMIStateProxy, MainStateProxy | `state/HMIStateProxy.cpp`, `state/MainStateProxy.cpp` | overrides, PV flags, listener | `copyFrame`, `applyHMIOverrides`, `on...` | the controller is told what the user asked for, and nothing the setters forbid |
| MQTTTask | `task/MQTTTask.cpp` | connection, last published copies | `loop`, `messageReceived`, `update...` | the broker ends up with the current values |
| Message codecs | `lib/AtlanticSerialProtocol/src/message/` | - | `getAttr`, `setAttr`, `hasAttr`, `compareWith`, per version | a setter changes its attribute and no other; the sanity checks hold in every order of calls; every byte a value is read from is compared |
| MQTTDiscovery | `lib/AtlanticSerialProtocol/include/mqtt/MQTTDiscovery.h` | - | `buildConfiguration` | Home Assistant is told of what is published, and of nothing else |
| RTCHandler | `handler/RTC.cpp` | - | `loop` | the controller gets the time AquaMQTT has (only `updateTime` is modelled) |
| ListenerTask | `task/ListenerTask.cpp` | as a serial task | `loop` | (not modelled) |
| Wifi, OTA handlers | `handler/*.cpp` | - | `setup`, `loop` | (not modelled) |
| main | `main.cpp` | - | creation order of the above, watchdog | (only creation order and restart are modelled) |

How they interact. `main.cpp` creates the two serial tasks on core 1 and MQTTTask
on core 0; they run concurrently. The serial tasks each own a FrameBuffer. They
share DHWState, whose operations each take one mutex, so that a sequence of two
operations is not atomic. DHWState and the proxies notify MQTTTask with one
notification bit for each frame; MQTTTask is the only one that writes overrides,
from the callback of its own client. All talk to the outside is by bytes on two
serial lines, without acknowledgement, and by MQTT. Nothing of the
above survives a restart.

What is hard about it:

* the request 194 of the controller is a single byte that can also be data; only
  the frames before it tell (`ControllerTask.cpp:57`);
* a parser that joins a line at any byte, loses bytes, and learns its protocol
  and checksum kind from whatever first looks good (`FrameBuffer.cpp:74-243`);
* three critical sections to store the first frame of a kind, two to send an HMI
  frame with overrides, two to decide on an error message, with the other tasks
  in between;
* one error message per request, over three parties of which one may restart;
* a task that is notified before, while and after it looks, and a connection that
  is lost before anyone notices;
* overrides in any combination, on a frame of any age, through setters that
  refuse some orders of the same values;
* attributes that share a byte, or are split over two, differently in each of
  three versions;
* topics that are published only if one of the bytes behind them has changed, by
  tables (which byte, which attribute, which topic, which entity) kept in a dozen
  files.

`PROJECT.json` has each of these as a hazard at its line.

## 2. The modules

```
MessageConstants <- FrameBuffer <- ControllerTask <- MainBus          bytes
       ^
       +---------- DHWState <- FrameChannel <- HMITask <- Mitm        frames
                                    ^
                                    +------- MQTTTask                 notifications
Overrides  <=  OverrideBytes -> HMISetters -> HMIMessage              the HMI's frame
                    |                             |
                    v                             v
              MQTTDiscovery            MessageBits <- Main.., Energy.., ErrorMessage
                    ^                             ^
                    |                             |
Mirror     <=  Publisher ---------> Topics -------+                   topics
```

`A <- B`: B extends or instances A; `A <= B`: B implements A. `MC*` modules give the constants values for TLC, and
`*_proofs` modules hold theorems. A definition called `Mutant...` is a wrong
variant of the one after it; the mutation runs put it in that one's place to see
that the properties notice.

**MessageConstants**: frame identifiers and their lengths for each protocol, and
`GetVersionByIdentifier`. Pairs whose lengths tell the protocol apart are a
table, a constant that the small instance replaces.

**FrameBuffer**: `pushByte` and all of `handleFrame` as one step, since the
buffer is only used by its task. The ring is a sequence. `Await` is the
early return, `Accept` and `Reject` the two outcomes of the checksums. Both
checksum functions are constants. What `pushByte` returns is a variable, for the
tasks that extend the module.

**ControllerTask**: `loop` for one byte. The branch of the byte 194 after a sequence
that awaits it takes time, as `sendMessage194` returns only when all it writes is
sent: `Answer` begins it, `Flush` ends it, and throws away what came in between.
`Parse` is the other branch. `rx` is the serial driver's receive buffer.

**MainBus**: ControllerTask on the main controller's line. The controller is
external: a bus is a heat pump's version and checksum kind with its two cycles,
each a sequence of frames of which the first is the request (`slot` is the frame,
`pos` the byte in it). In the runs these are the cycles of `task/MITM.md` in the
lengths of the code. The task joins at any byte; bytes may be lost, altered, or
come in while the one before has not been read (the flush then throws them away).
While the task sends, the line goes on: the controller, which is silent after a
true request, sends on in the frame in which a false one was seen. It stops sending
between two frames for longer than an answer takes (`OutlastsAnswer`: pauses of at
least 54 ms in `PROTOCOL.md:75-96` and `PROTOCOL_ODYSSEE.md:28-34`; an answer has at
most 37 bytes of 11 bits, at 9550 baud 43 ms), so that a false answer costs the rest
of its frame, or any part of it, and no more. `missed` and `synced` are history:
`synced` says that the last request was recognised at a frame boundary, with the
locks of this heat pump.

**DHWState**: each operation is one step, under its mutex. A payload is a value
of a small set.

**FrameChannel**: the part of `handleFrame` that touches DHWState, as a program
counter: `setVersion`, `setChecksumType`, `storeFrame`, with other tasks between
them. Used by the modules that speak of frames and not of bytes.

**HMITask**: the state machine of the slots, one action per case; a turn of
`loop` is cut at each critical section: its top, the switch, and, in
`sendMessage74`, the copy of the error frame after the copy of the HMI frame. The
payload of the frames 194 and 74 is the request id they hold.

**Mitm**: HMITask, both channels and the store, between an HMI and a controller
that behave as `src/PROTOCOL.md` observes: request ids count up and wrap, the HMI
may turn to another error before it got one, the controller answers a changed id
with one error frame or an empty one. `Reboot` clears everything AquaMQTT knows;
both partners keep running.

**Overrides**: both proxies and the setters of the three protocol versions, as
operators on a frame's interacting attributes, and control messages as actions.
`applyHMIOverrides` is the composition `ApplyHMIOverrides` of setters, in the
order of the code. `copyFrame` and `applyHMIOverrides` are two critical sections;
`SendHmiFrame` covers what can come in between by applying the current overrides
to any frame the HMI may send, an old one included. A PV flag reaches the two
proxies in two steps.

**MQTTTask**: `loop` from the notification to the end of `mMQTTClient.loop()`, one
action for each frame looked at, with stores, control messages and the loss of
the connection in between. It is created before `spawn` sets it as listener at
three places. `missed` is history: what changed before anyone was told to listen.

**MessageBits, HMIMessage, MainStatusMessage, EnergyMessage, ErrorMessage**:
`message/<version>/` as tables. A payload is the set of its bits that are 1; a
kind of frame is what `compareWith` marks for each byte, the bits each getter
reads, and the attributes `hasAttr` knows. What a getter computes from its bits
is left out, except for what can be set.

**HMISetters**: `getAttr` and `setAttr` of the attributes of frame 194 that
AquaMQTT overrides, on these bits. `FallsShort` lists the temperatures of which
LEGACY's conversion by way of floats loses a tenth.

**OverrideBytes**: HMIStateProxy once more, now from the option a user selects to
the bytes written to the controller and back to the option shown. It adds what
Overrides leaves out (air duct, fan, time and date, all other bits of the frame),
and implements Overrides: `Decode` maps a payload to a record of values, and
every setter on bits must do what Overrides says it does to values.

**Topics, MQTTDiscovery, Publisher**: the topics of `update...Status` with the
attributes they are made of; the entities announced for each version and
configuration; and the state between them: what was processed last, the
estimates of the noise filter, what the broker keeps. One action is one call,
since a task alone makes it; when calls happen is the matter of MQTTTask. The
connection is up, lost (a call may break it half way, and it stays lost for a while
before that is noticed), or closed. `publish()` returns whether it is still there and
the code does not ask: `Publish` takes from what a call sends the part that is lost,
while the frame and the estimates count as processed. `lagging` is history: the
topics whose last value was lost. `Restart` loses what AquaMQTT knows, not what the
broker does.

**Mirror**: what Publisher promises: the topics of a source show nothing, or the
picture of one whole frame (`Show`). Once something was lost they are `torn`: each
topic has a value of some frame (`Tear`), until a whole picture is shown again. The
mapping takes the source's topics out of the broker, and a source is torn if one of
them is lagging.

## 3. What is checked

Runs that must pass:

| Run | States | Properties |
|---|---|---|
| `frame_buffer` | 652,035 | `FBTypeOK`, `LocksAgree`, `NoUnderrun`, `LockedHeaderNeverDropped`, `LocksArePermanent` |
| `mainbus_join` | 144,562 | `RecoversInTime`, `RequestsAnswered` |
| `mainbus_faults` | 1,910,940 | `TypeOK`, `RecoversInTime`, `StaysInSync`, `NeverTalksOver` |
| `mitm` | 1,824,186 | `TypeOK`, `CopiesKnowChecksum`, `CycleOrder`, `ErrorIsTheRequestedOne`, `ErrorOnlyOnce` |
| `mitm_liveness` | 150,819 | `RequestReachesController`, `AvailableErrorReachesHmi` |
| `overrides` | 528,000 | `TypeOK`, `EmergencyNeedsElement`, `PVFlagsAgree`, `PVHeatPumpOnlyAsDocumented`, `ModeDecidesTemperature` |
| `publishing` | 575,219 | `TypeOK`, `NoLostWakeup`, `BrokerCatchesUp` |
| `contents` | 31,104 | `TypeOK`, `BrokerMirrorsLast`, `EstimatesAreShown`, `TablesAgree`, `NoEntityIsEmpty`, `EveryTopicIsAnnounced`, `ImplementsMirror` |
| `hmi_bytes` | 20,884 | `OnlyOverriddenChanges`, `SelectedIsShown`, `TimeIsShown`, `ImplementsOverrides` |

What they show:

* `frame_buffer`: on every sequence of bytes the parser pops only what the ring
  holds, although the wait is sized by one variable and the pops by the branch
  another leads to; its two locks agree and stay; once locked, making room never
  costs a frame.
* `mainbus_join`: whichever byte of whichever of the four kinds of bus the task
  joins at, at most one request goes by unanswered, and requests are answered
  again and again.
* `mainbus_faults`: with a lost, altered or late byte anywhere, and data bytes
  194 in the frames 67 and 193, the task misses at most `MaxMissed` requests in a
  row, although out of sync it may take such a byte for a request and lose the rest
  of the frame over the answer; it stays in sync until the next fault, and in sync
  takes no byte of a frame for a request.
* `mitm`: however the three critical sections of a channel interleave with the
  copies of the other, a frame that can be copied is copied with its checksum
  kind; the HMI sees its slots in order also in the cycle in which the version
  becomes known; the error emitted is the one of the HMI's last frame, and is not
  emitted twice, over a restart too.
* `mitm_liveness`: the HMI's request reaches the controller, and an error message
  that is stored and asked for does not stay so for ever; except the one of the
  request id 255 while AquaMQTT has not emitted any since its start
  (`TakenForEmitted`, see section 5).
* `overrides`: no order of overrides, PV modes and HMI frames leads to the
  emergency mode with its element disabled; PV heat-pump mode and the modes BOOST
  and ABSENCE do what is documented whatever else is in force.
* `publishing`: between notification and copy no change of a frame is lost, and
  in the end the broker has the current values, whatever the connection did.
* `contents`: in every version, `compareWith` marks each attribute for every byte
  its getter reads, and no topic belongs to two kinds of frame. So a topic shows
  the last frame though frames publish only differences and the broker outlives
  restarts, unless its own value was lost; the topics of a kind mix frames only from
  such a loss to the next full update that gets through. An entity announced gets a
  value unless that was lost, and a topic published has an entity, but for two
  (`Unannounced`), as long as the connection stands over which they were announced.
* `hmi_bytes`: an override changes the bits of its attribute and no other; mode
  and type, in one byte on Odyssee, keep each other's value; what Home Assistant
  offers is what it shows once selected, as long as no PV mode displaces it and no
  setter refuses it; the date survives in every month.

Runs that must find a violation; each is a finding, with the line it contradicts:

| Run | Property | What it shows |
|---|---|---|
| `framebuffer_code_lengths` | `AwaitedHeaderNeverDropped` | As long as the checksum kind is not known, the parser waits for two checksum bytes; the longest frame with them is one byte longer than the ring, so that its header is dropped while it is awaited. |
| `mainbus_error_frame` | `NeverTalksOver` | A data byte 194 of an error frame, after the frames 67 and 193, is answered as if it were the request: the task transmits into the frame. |
| `overrides_heat_element` | `PVHeatElementOnlyAsDocumented` | Emergency mode is set before the element is enabled; on a frame with its element disabled the setter refuses it. |

### Bounds

* `frame_buffer`: a ring of 6 bytes and a table of frames that fill it exactly or
  leave room, 7 byte values; the checksum functions are chosen so that some
  frames match as both kinds, as one, or as none. All reachable states, without a
  bound on the number of bytes. Only lengths and capacity are small; what depends
  on the real ones is the matter of `framebuffer_code_lengths` and of the proofs.
* MainBus runs use the lengths and the capacity of the code, at most `MaxErrors`
  = 2 cycles with an error frame. `mainbus_join` has no faults and `MaxMissed` = 1:
  joining costs one request. `mainbus_faults` has one fault (`MaxFaults`), enough
  since every state it can lead to counts as the start of a new `missed`; an
  altered byte becomes 0 or 194 (`Noise`), an empty payload byte or a false
  request. `MaxMissed` = 6 is what it takes there; with 5 the invariant is violated.
  How many go by depends on the data: a false header makes the parser wait, a false
  request costs the rest of a frame, and a cycle with an error frame ends in another
  sequence. Payload bytes are 0
  and, at chosen places (`Where194`), 194. A task that joins at the first byte only
  (`FirstBytes`) is enough where faults are allowed.
* Mitm: request ids to 3 (2 for liveness), so that they wrap. The last of them is
  `UINT8_MAX`, as in the code, which is also "no request" and "none emitted yet". One
  request given up, one restart; fewer are given up than there are ids, which
  `ErrorOnlyOnce` needs (with two of two, or three of three, it is violated after a restart; two of three is
  fine); one line with CRC16 and one, Odyssee, with XOR: the two cycles and
  the two kinds of checksum.
* Overrides: `MaxOverrides` = 2 in force at a time, as setters interact in pairs;
  the theorems have no such bound. Values of each kind that a setter tells apart:
  a temperature with decimals and one out of range, a mode a version does not
  know, all combinations of element and emergency mode an HMI sends.
* MQTTTask: two frames, one control message, one lost connection: a change while
  a turn looks at the frame before it, together with a notification from the
  other side.

* Publisher: a setup has at most one kind of frame that changes, with all its bits
  set in all bytes, in the even or in the odd ones, so that every value of two
  bytes changes by each of them alone; in others all kinds are seen together.
  Topics of different kinds are apart (`TablesAgree`), so that kinds do not
  interact. Three configurations cover every switch that adds or drops a topic.
  The estimates are 0 and 1 and move together. The connection breaks once
  (`MaxLosses`), before a call, and all the calls until that is noticed are lost, or
  within one, when half of its topics are (`Cuts`): a topic that is published together
  with another that is not, in each kind of frame. What else is published
  (`others`: entities and statistics) goes with one frame of a kind, as it shares no
  topic with frames. The theorems have no bound on frames, losses or cuts.
* OverrideBytes: for each version a frame with all other bits 0, one with all 1,
  and a mixture, of which one is in emergency mode and one forbids the element.
  `Combinations` says which overrides, PV flags and time are in use together: one
  at a time, two overrides that share a byte or a check, or an override that a PV
  flag displaces; other pairs are the matter of Overrides, which this implements.
  All options of each topic, temperatures with and without a lost tenth, months on
  both sides of each boundary (January, July, August, September). The theorems
  have no such bound, they speak of any bytes and any overrides.

`UINT8_MAX`, `HEATPUMP_MAX_FRAME_LENGTH` and the frame table are parameters, the
theorems hold for the values of the code.

### Fairness

* MainBus: the controller never stops sending; the task reads every 5 ms
  (`ControllerTask::innerTask` loops for ever); an HMI frame is stored in the end.
* Mitm: turns of the task and steps of a channel are weakly fair, as they are on a
  preemptive scheduler with a watchdog. The end of a slot is strongly fair: a
  SLEEP state finds its 100 ms over in the end, in every slot. The HMI answers
  again and again, the controller asks and sends what it owes again and again
  (strong fairness: the moments at which it can come and go). That requests get
  through is what `mainbus_join` shows with `RequestsAnswered`.
* MQTTTask: the task keeps running and `spawn` ends (weak); a lost connection is
  noticed in the end by keepalive, and the 30 minutes of the full update pass
  again and again (strong, as each is a choice a turn of the task takes).
* Publisher, OverrideBytes: none; what they say are safety properties.

## 4. What is proved

For all values of the constants that satisfy the named assumptions, by TLAPS:

| Module | Theorems | Run on a small instance |
|---|---|---|
| `FrameBuffer_proofs` | `FBTypeCorrect`, `FBLocksAgree`, `FBNoUnderrun`, `FBLockedHeader`, `FBLocksPermanent` | `frame_buffer` |
| `MainBus_proofs` | `MainBusTypeCorrect`, `MainBusStaysInSync`, `MainBusNeverTalksOver`, `MainBusRecovers` | `mainbus_faults`, `mainbus_join` |
| `Mitm_proofs` | `MitmTypeCorrect`, `MitmCopiesKnowChecksum`, `MitmErrorIsTheRequestedOne`, `MitmErrorOnlyOnce`, `MitmCycleOrder` | `mitm` |
| `MQTTTask_proofs` | `MQTTTypeCorrect`, `MQTTNoLostWakeup` | `publishing` |
| `Overrides_proofs` | `OverridesTypeCorrect`, `OverridesEmergencyNeedsElement`, `OverridesPVFlagsAgree`, `OverridesPVHeatPumpOnly`, `OverridesModeDecidesTemperature` | `overrides` |
| `OverrideBytes_proofs` | `OnlyOverriddenAreWritten`, `TimeIsTold`, `SelectionIsShown`, `BytesImplementValues` | `hmi_bytes` |
| `Publisher_proofs` | `PublisherTyped`, `PublisherTablesAgree`, `TopicsMirrorFrames`, `FilteredMirrorEstimates`, `PublisherAnnounces`, `PublisherFillsEntities`, `PublisherImplementsMirror` | `contents` |

`FrameChannel_proofs` has the lemmas on the critical sections that the proofs of
Mitm and MQTTTask rest on.

Assumptions: on frame tables (`FrameTableAssumption`: no two
protocols share a pair of identifier and length), on the ring (`FrameBufferAssumption`: a
frame of a locked protocol with its checksum fits it; it does in the code), on
what a controller sends (`MainBusAssumption`: a cycle is the request, then frames of
the heat pump's version with good checksums, the last two of which are a sequence
the task knows), on what an HMI sends (`HMIFramesAssumption`: never the emergency
mode with its element disabled), and on types (`DHWStateAssumption`, `LinesAssumption`,
`HMITaskAssumption`, `MitmAssumption`, `MQTTTaskAssumption`,
`OverridesAssumption`, `PublisherAssumption`). `OverrideBytesAssumption` says
that a frame the HMI sends has no emergency mode with its element disabled, that
years are those from 2000 to 2127 (the frame has seven bits for them), and with
`NoneAssumption` that "no value" is not a value. TLC evaluates each of them on the runs' values. No
checksum function is assumed to have any property, besides the type of its
result.

The arguments:

* **FrameBuffer.** Types, `LocksAgree` and `LockedHeaderNeverDropped` together are
  inductive (`FBInv`). The locks must agree for the wait (`CrcLen`) to cover the
  pops (`Consumed`): with XOR locked the wait is one byte, and `LocksAgree` is
  what rules out that the CRC16 branch then takes two. A header of the locked
  protocol at the front of a full ring would, by the assumption on the lengths,
  be a complete frame, which `Await` does not leave there; and `Rest` is always
  shorter than the ring.
* **MainBus.** `InStep` says where a task in sync is: the ring holds what has come of
  the current frame, or lacks the byte that waits in `rx`, and `mSequence` holds the
  last two frames heard since the request (`Heard`). It is kept because a frame of
  the heat pump, pushed byte by byte with its locks, is awaited up to its last byte
  and then taken whole (`PushFrameByte`), whatever its data: the locks are
  permanent, so no other frame table or checksum can match halfway. While it
  sends, it has forgotten the sequence and the line waits at the first byte behind the
  request, so nothing is there for `Flush` to throw away (`Replying`,
  `FlushInStep`). A task that is
  out of step gets there with the first request it recognises at a frame boundary,
  which `synced` records; `RequestBegins` says that behind a request that waits
  alone the line is at the first byte of the next frame. `QuietBuses` is the
  hypothesis that no frame behind a request sequence holds a byte 194, as then the
  loop has no way to tell. It is the error frame of LEGACY and NEXT that can break
  it: TLC finds the hypothesis true on the buses of the passing runs (`MCQuiet`) and
  the conclusion false without it, in `mainbus_error_frame`. Data bytes 194 in all
  other frames, and error frames in any cycle, are covered.
* **RecoversInTime.** `MainBusRecovers`: at most two requests in a row go by after
  joining and after every fault, for any number of faults and at any byte.
  `RecInv` says that ring and receive buffer together are the last bytes of the
  line (`Known`: a row of places, `Path`), but for `x` bytes at their front that may
  be anything (`Reading`). A fault makes `x` all there is; each byte popped lowers it.
  While the task sends there is nothing to say of them: it was asked for its answer,
  or takes an altered byte for the request, and what comes is thrown away (`RecSends`).
  When the
  first request is pushed instead of answered, it takes its place in the row: all
  from there on is known. The ring is shorter than a cycle (`RequestsApart`), so
  when the second request comes the first has left it, and with it all that is
  unknown. From then on nothing in the ring looks like a frame but frames (`CleanPush`),
  and `Recovering` says what is left until the third request: the second one is still in
  the ring, or the ring slides over frames that are too long to be awaited before the
  locks are taken (an error frame of ODYSSEE fits with its XOR, but not with the two
  bytes of a CRC16), or it begins with a frame and all after it are taken in time
  (`Aligned`), the last two of which are a sequence that awaits the request
  (`AtEnd`). "In time" is a matter of bytes: one `pushByte` takes at most one frame, so
  frames that pile up behind a false header need a byte each. It has three
  hypotheses.
  `ClearBuses`: no data byte is 194, no two bytes inside or across frames look like
  the header of one, and a CRC16 does not begin with the byte an XOR would have, from
  which the code concludes on XOR for ever. The data on a real line need not be so;
  this is what the bound depends on: with data bytes 194 in `mainbus_faults` it is
  six instead of two. `LongCycles`: the frames behind a request have as many bytes as
  the ring holds, and one more for each frame but the first. The shortest cycle there
  is, 67 and 193, has 72 bytes, and the ring 70: this is met with one byte to
  spare, and no longer with a ring of 72. `LossesOnceLocked`: no byte is lost or altered
  before the locks are taken (a late byte may come at any time), since what is left of
  two frames could match as one of another kind. TLC finds the first two true on the
  buses of `mainbus_join` (`MCClear`), and that one request is all that goes by there;
  `mainbus_faults`, where the first and the last do not hold, shows what becomes of
  the bound.
* **CopiesKnowChecksum.** It is not inductive. `ChannelInv` adds where each channel
  is: one that is locked and past a step has set what the step sets (`ChannelsKnow`),
  a frame is only stored once the checksum kind is (`StoredKnow`), every channel
  sets the kind of the one line there is (`OfLine`), and a channel that is idle
  has nothing in hand (`InHand`). Two channels may write version and kind one
  after the other; they write the same.
* **ErrorIsTheRequestedOne.** Between the two copies of `sendMessage74` the HMI's
  frame must not change. `ErrorInv` says why: only channel HMI brings frames 194
  (`OnlyHmiBringsRequests`), it is idle while the task is at the second copy, and
  so the request in hand is still the stored one (`RequestStands`);
  `NothingEmittedUnasked` covers the id taken when there is no HMI frame.
* **ErrorOnlyOnce.** The hard part is the ids that are still somewhere from an earlier
  use: in the frame HMITask is about to store, in the store, with the controller, in
  its answer, in the store again. `Fresh` is the set of ids the HMI can turn to before
  it gets its next answer, counted from how many requests it may still give up
  (`Budget`). `FreshInv` says that a fresh id is over wherever it is: the
  controller has seen it and owes nothing, no answer to it is on its way, and the
  one in the store was emitted. Turning to an id takes it out of the set
  (`FreshAsks`); an answer puts ids back only when nothing but the answered request
  is left anywhere (`Answered`). `RequestInv` follows the request at hand through the
  parties: who has it has let go of the ids before, so that none of those comes in
  once more and makes the same request look new to the controller. A restart only
  empties places. The hypothesis is `MaxGiveUps < MaxRequestId`; TLC finds a second
  emission without it.
* **CycleOrder.** The version may become known in the middle of a cycle, and the
  slots that follow depend on it. `Passed` says for each state what the last frame
  emitted in this cycle can be. `OrderInv` says that it is one of these, and that
  then the store knows the version, and the task from the top of its next turn on:
  `CopyFrame` delivers nothing before, and `sendMessage74` only emits what an HMI
  frame asks for (`RequestStands`). So no slot is left by the way of the other
  kind of cycle once something was emitted.
* **Types of Mitm and MQTTTask.** Store and channels come from `ChannelInv`
  (`ChannelInvTypes`), the last copies from `WakeupInv`. In Mitm the request ids
  stay in range on their way from the HMI through channel and store to the
  controller (`RequestsInRange`).
* **NoLostWakeup.** `WakeupInv` adds that a turn that ended looked at every bit
  it took (`TurnsEnd`), that copies come from stored frames (`CopiesWereStored`),
  and types. The bits are cleared before the frames are copied, so a change in
  between is either copied by this turn or notified for the next.
* **Overrides.** Each setter keeps `Sane` (an emergency mode has its element), so
  every composition of setters does, `ApplyHMIOverrides` included. The two PV flag
  records differ at most in the flag `messageReceived` has in hand (`FlagsLag`).
  What a PV mode or BOOST leads to is computed through the chain of setters, one
  lemma per setter.

* **Publisher.** The tables agree in every version and configuration
  (`AgreeAlways`): each byte an attribute is read from marks it (`MessageCovers`),
  and what is published is written out as names per version (`TopicsAre`), which
  are apart. This is what is needed: if a value differs between the last frame
  and this one, a bit its getter reads does, so its byte is in a marked row, so
  its topic is published; otherwise the topic keeps a value that is the same.
  What is lost is exactly what lags behind (`PublishAt`): a topic that is published
  takes its value or lags, one that is not keeps its value and, unless it was due,
  goes on lagging. `BrokerMirrorsLast` is then inductive together with types, as topics
  of different kinds do not meet; so is `EstimatesAreShown` with the topics of
  estimates. For the refinement, a step leaves the picture of a source untouched, or
  makes each topic of it that does not lag the frame's, and all others what they were
  (`ShowOrTear`): a whole picture if none lags, a torn one otherwise. A first frame and
  a full update publish every topic of the source, so that nothing lags once one of
  them gets through, after a restart too.
  The topics entities read are, group by group, written out as names too; they are
  those that are published, but for the two of `Unannounced` (`AllAreAnnounced`).
  With the invariant that nothing else is ever sent, shown or lost (`Sent`), and that
  statistics are sent together (`AnnounceInv`), this gives both properties on entities.

* **OverrideBytes.** The theorems hold for any payload, eighteen bytes of any value.
  The inductive invariant (`Inv`) says no more than that overrides, flags and time
  have values of their kinds; the work is in the lemmas on bits. A byte is a set of
  bits, which are the digits of a number (`BitsOfNumber`), and no two numbers have
  the same (`SumOfBits`, `SameBits`).
  *Only what is overridden changes*: in every version a setter writes within the
  bits its getter reads (`FieldsContained`, `SetFieldWithin`), and
  `applyHMIOverrides` is a sequence of such writes, each to an attribute that is
  overridden (`ApplyWithin`). Mode and type of ODYSSEE share a byte and no bit of it
  belongs to one alone; that the byte of a pair is read back as this pair
  (`OdysseeReadsBack`) is why the other keeps its value (`ApplyKeeps`).
  *The time is read back*: writes to a byte are read from it and from no other
  (`ReadsWritten`, `ReadsOther`), and the month, of which the date's byte has three
  bits and the year's one, is put together again (`DateReadBack`, `TimeReadBack`).
  *Bytes implement values*: each byte that is decoded belongs to one attribute
  (`Owner`, `ReadsOwned`), so that a setter changes what is decoded for its own
  only (`DecodeKept`), and this as its counterpart on values does
  (`ModeImplements`, `ElementImplements` and so on, up to `ApplyImplements`). The
  overrides map one to one (`MappedOne`, `MappedSet`), so that a step is the step
  of Overrides, or a stutter if it sets what Overrides leaves out.
  *The selected option is shown* then needs no bits for what Overrides knows: the
  values that are left by its setters (`StandardValues`) are those that were asked
  for, the refinement carries them over to the bytes (`SentValues`), and the two
  tables of strings, of options and of what is published, are inverses of each
  other (`SelectedShown`). Fan and air duct are read back from their bits
  (`FanReadBack`, `AirductReadBack`).

Only model-checked: `RecoversInTime` on buses that are not clear, where how many
requests go by depends on the data the task takes for the start of a frame; all
liveness, which is out of the prover's reach, as is ENABLED; and all that would need
an induction over data. `RecInv` itself is no run's invariant, as it speaks of any
row of places; TLC checks what follows from it.

## 5. What is not modelled

* Debug copies of dropped bytes, raw frames published for debugging, logging,
  the values of the statistics, what a getter computes from its bits (but for
  what can be set) and how a value is printed, the Kalman filters: Publisher lets
  an estimate be anything.
* Names, icons, units and identifiers of Home Assistant's entities; the topics of
  custom devices.
* The bytes on the HMI's line: the loopback of what HMITask itself writes, the
  byte 194 it pushes into its own FrameBuffer, the flush of a late answer. HMITask
  is modelled from frames on.
* Timer windows: their getters build a string of hours and minutes.
* ListenerTask: a FrameBuffer and a store, both modelled, without a writer; it
  adds no state. Wifi and OTA: calls of libraries; to the rest they are a lost
  connection and a restart. NTP and the RTC driver, of which UpdateTime is the
  result.
* Wraparound of `millis()`: differences are taken in unsigned arithmetic; a slot
  of 100 ms and a timer of 30 minutes are modelled as choices.

Behaviour met while modelling that no property here judges:

* PV BOOST does not enable the heating element (`HMIStateProxy.cpp`, `PVFull` here),
  though `README-PV.md:74` lists it among the overrides of that mode;
* with no error frame stored, a request id of 0 is answered by an empty frame 74
  (`HMITask.cpp:306`, `:321`);
* an HMI that gives up on as many requests as there are ids, while AquaMQTT
  restarts, may be given the error of an id twice (`ErrorOnlyOnce` with
  `MaxGiveUps` = `MaxRequestId` = 2 in `Mitm.cfg`);
* 255 is a request id and also means "nothing emitted yet" (`HMITask.cpp:17`); asked
  for before any other error was emitted since a start, it is taken for emitted
  (`HMITask.cpp:280`), though `MITM.md:60` promises the error.
  `AvailableErrorReachesHmi` excepts this case and no other (`TakenForEmitted`); without
  the exception TLC finds it violated;
* an error message published into a lost connection is not part of the full
  update (`MQTTTask.cpp:422`), and never reaches the broker;
* the overrides "emergency off" and "element off", given together, leave the
  element on when the HMI's frame has the emergency mode: the element is set
  first (`HMIStateProxy.cpp:133`; `Refused` in OverrideBytes);
* on Odyssee an unknown mode or type byte is set to AUTO and OFF_PEAK_HOURS as
  soon as one of the two is overridden (`odyssee/HMIMessage.cpp:122`;
  `ByteUnknown`);
* the air duct is read from four bits and written to two (`legacy/HMIMessage.cpp:373`);
* LEGACY's total energy has eight bytes, of which four are printed
  (`MQTTTask.cpp:1681`, `Printed`); NEXT's `POWER_TOTAL` is always 0;
* the entity for anti dry heating reads the topic of another capability
  (`MQTTDiscovery.h:1169`, `Unannounced`);
* time and date do not notify MQTTTask; their attributes are not republished until
  the next change or full update.

## 6. Plan

Done, in this order: MessageConstants, FrameBuffer, ControllerTask and MainBus,
DHWState and FrameChannel, HMITask and Mitm, Overrides, MQTTTask; then the tables
of messages and topics with Publisher and its refinement of Mirror, and the
setters on bytes with OverrideBytes and its refinement of Overrides.

What would come next:

1. *HmiBus*: HMITask on its line byte by byte: loopback, the byte it pushes
   itself, a late answer and the flush; composed with FrameBuffer as MainBus is.
   Property: an HMI that answers within its slot gets its frame stored.
2. *ErrorRelay*: an abstract specification of what AquaMQTT promises about an error
   message (asked for, available, emitted once), implemented by Mitm under a
   refinement mapping.
3. Publisher under MQTTTask: frames that come when notifications are taken, so that
   the full update makes up for a loss in the end, topic by topic (liveness).
4. Timer windows against a reference definition.
5. Proofs: `RecoversInTime` on buses with data bytes 194, with a bound that counts
   them; the refinement of ErrorRelay.
