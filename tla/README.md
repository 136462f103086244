# A TLA+ verification of C_Utilities

The repository holds a small event-driven framework in C (`src/system-utilities-c/C_Libraries`:
a static queue, an event framework, a timer framework over the interval timer of the platform)
and the firmware built on it, the controller of a misting device
(`src/esp32MistingController`: a state machine that runs a fan, a stepper pump and a high-voltage
module, a device monitor, a TCP server for a mobile app, and a store in the EEPROM).  Around them
lie small C programs (lists, function pointers, a logger, shared memory).

This directory models the framework, the control core of the firmware, its communication with the
app, the cloud and the WiFi library, and two of the list programs; it checks the models with TLC on small
instances, and proves the main results for every instance with TLAPS.

## 1. Inventory

Paths below are relative to `src/`; `C/` is `system-utilities-c/C_Libraries/` and `E/` is
`esp32MistingController/`.

| component | state | operations | what makes it hard, what makes it correct |
|---|---|---|---|
| Static queue `C/staticQueue.c` | ring buffer: slots, write and read index, `queueMsgCount`, `queueDropCount`, `queueHighMark` | create, destroy, put, get, getters | The count and two indices are kept redundantly and tested against each other ("sanity", lines 101 and 132); an interrupt handler may put while the main loop gets. Correct: a bounded FIFO that counts refusals. |
| Event framework `C/eventFw.c` | the queue, the handler table, `gMaxEvents` (one byte), parameter blocks on the heap | init, add handler, generate (main loop, callbacks, interrupts), process | Failure in the middle of `eventGenerate`, callbacks that generate, interrupts at any call. Correct: each block is owned by one event, accepted events are dispatched once and in order. |
| Timer framework `C/timerFw.c` | up to `gMaxTimers` control blocks, `gTimerCount` | init, create, start, stop, pause, resume, update, destroy, process, getters; the tick | The tick interrupts the stores of a call; callbacks call the API on the timer whose callback runs. Correct: no callback after a stop, none early, none forgotten. |
| Platform timer `C/platformTimer.c` | the SIGALRM handler and the interval timer | start, stop | The source of ticks. |
| Copies for Arduino `E/libraries/frameworks/*.cpp` | as above | as above | The same code; the tick comes from the Ticker library's task, possibly on another core. |
| Misting state machine `E/jumpStateMachine.ino` | current state, eight timers of which five are ever started | ten jumps, five timer callbacks | Events without a jump are dropped; timers outlive the state that started them. Correct: high voltage only in its state and never for ever, always a way out. |
| Hardware control `E/hardwareControl.ino` | on/off and speed of the motors, UART buffer | bldc/sm/hv on and off, BLDC protocol | `smOn` refuses speeds; the answer is ignored. |
| Device monitor `E/deviceMonitor.ino` | `gDeviceAlertBitField`, LED | `getDeviceMonitorData` | An alert must stop the device through a queued event. |
| Application `E/esp32MistingController.ino` | the event queue of 10, four periodic timers, boot | `setup`, `loop`, the handlers | Nobody looks at the answer of `eventGenerate`; handlers generate events while the queue is drained. Restart after a power loss from what the EEPROM says. Correct: no event is lost, the loop comes round. |
| TCP control server `E/tcpControlServer.ino` | two message buffers, `gDataRxMutex`, `gCloudCommandStatus`, `gManualModeOnFlag` | one byte per pass: accept, store, decode, `processCommand`; the same for the cloud | Clients that break off inside a message, messages longer than the buffer, globals that outlive what set them; commands race with alerts and timers, manual mode bypasses the state machine. Correct: what is executed is what was sent. |
| Configuration store `E/platformConfig.ino`, `configuration.ino`, `bootConfiguration.ino` | key-value text in the EEPROM, its copy `gCfg`, `gConfigBytes`, the presence bytes | get, set, delete, load, read, reset | A power loss between two writes, and inside one; a value that does not fit or does not read back. Correct: the area is never overrun, values survive outside a commit, presence bytes tell the truth. |
| WiFi `E/wifi.ino` over `E/libraries/WiFi` | interfaces that are on, the station's link, the status word, events of the driver | connect with retries, leave, scan, access point, the periodic check | The library's task reconnects on its own between any two calls of the handlers; the status is that of the last event delivered. Correct: the device comes back in reach. |
| UDP discovery `E/udpMulticast.ino` | the receiver's `remote_ip` | receive, answer over TCP | Waits for the mutex of the TCP channel; the address is a global. Correct: the answer goes to the host that asked, and discovery gets its turn. |
| Board `E/platform.ino` | the EEPROM | set persistent bytes and texts | Each call is one commit, which `E/libraries/EEPROM` makes by erasing the sector and writing it anew. |
| Linked list `genericLinkList/` | nodes on the heap, the handle and its counters | insert, delete, reset, sort, reverse, search | Pointers of freed or fresh nodes. Correct: every node in use is linked once, except where such a pointer is followed. |
| Rock problem `linkList/rockProblem/` | a node with a count per letter | read letters, count | Letters that a name holds twice. Correct: no shared letter is missed. |
| Logger, shared memory, function pointers | – | demonstrations | Little or no state. |

How they interact: the tick (an interrupt) counts timers down and, for `TIMER_REALTIME`, calls back
at once; other expiries are counted and called from `timerFwProcess`.  Timer callbacks of the
application call `eventGenerate`; `eventFwProcess` calls the handlers.  `loop` runs both, then takes a discovery packet,
a byte of the app and a byte of the cloud; the commands generate events again.  The handlers call
the WiFi library, whose own task handles the events of the driver at the same time.  Timer callbacks of the state machine, the alert handler and the TCP commands all call
`executeStateMachine`, which drives the actuators and starts timers.  dS ("device state") and
the configuration are shared through the EEPROM.

`PROJECT.json` lists every component with its status and, under `hazards`, every place of the code
that is hard to test, with the properties that cover it.

## 2. Modules

| module | models | extends / uses |
|---|---|---|
| `BoundedFifo` | abstract: what a static queue promises | |
| `StaticQueue` | `staticQueue.c`, one action per operation and branch | implements `BoundedFifo` |
| `StaticQueueIsr` | the same at the grain of memory accesses, with a putting interrupt | refines `StaticQueue` when not interrupted |
| `EventFw` | `eventFw.c`, main context and interrupt | `BoundedFifo` as its queue |
| `TimerFw` | `timerFw.c` and the tick of `platformTimer.c` | |
| `JumpStateMachine` | the jump table, operations and timers as functions on a record | |
| `MistControl` | the handlers of the firmware that run the machine | `JumpStateMachine` |
| `ConfigStore` | the store, its presence bytes, `setup` and the handlers that write them, with power losses | |
| `TcpControl` | the channels of the app, of discovery and of the cloud, from the socket to the command | |
| `WifiStack` | the calls of `libraries/WiFi`, as functions on a record of the radio | |
| `MistingController` | the event queue of the application between timers, messages and handlers, and the network it moves between station and access point | `WifiStack` |
| `GenericList` | `genericLL.c` on its heap | |
| `RockProblem` | the counts of `rock.c` | |
| `MCDataStructures` (queue, list and rocks), `MCTimerFw`, `MCMistControl`, `MCConfigStore`, `MCTcpControl`, `MCMistingController` | values of constants for TLC | |
| `StaticQueueProofs`, `EventFwProofs`, `TimerFwProofs`, `MistControlProofs`, `ConfigStoreProofs`, `TcpControlProofs`, `MistingControllerProofs`, `DataStructureProofs` (list and rocks) | theorems and proofs | |

Some MC modules add a constant variable (`program`, `ticking`, `mode`, `scene`) that splits the behaviours into
classes: one run then asks about several programs, or restricts what the environment does in some of them.

Operators marked "Mutant" are altered forms of the definition that follows them: substituted for
it they make TLC refute the property `PROJECT.json` pairs them with, which shows that the property
depends on that piece of code.  No specification uses them.

### Static queue

`slots`, `writePtr`, `readPtr`, `msgCount`, `highMark`, `dropCount` are the fields of
`StaticQueue_t` (indices instead of addresses); `valid` says that the handle is not NULL.
`reply` is the answer of the last call.  The counters are `UInt32_t`: `CountMod` stands for 2^32.
`Cleared` is `calloc` plus the assignments of `staticQueueCreate`.

`StaticQueueIsr` takes put and get of the main context apart into the memory accesses an interrupt
could tell apart (`queueMsgCount++` is a load and a store) and lets an interrupt handler run
`staticQueuePut` to its end at the points in `IrqPoints`.

### Event framework

The queue is an instance of `BoundedFifo`, which `StaticQueue` is proved to implement.
`heap` is the set of parameter blocks allocated; `pc` says at which call (calloc, put, free, get,
callback) the main context is.  An interrupt may fall at the points in `IrqPoints` and runs all of
`eventGenerate`.  A block is an address: a freed one may be allocated again, so sharing shows.
`accepted`, `dispatched` and the `tag` of an event are history.

Abstractions: while `eventFwInit` has no table yet, an interrupt handler that generated an event would go through a NULL
`gEventInfoTable` (eventFw.c:82), so interrupts fall at any call but that one (`IrqPoints`).  The truncation of `gMaxEvents` to a byte is there,
but no run reaches it: the firmware has 17 events and asks for 20.

### Timer framework

One processor: the tick runs to completion between two stores of the main context.  A store is a
step of its own where the tick can tell it from its neighbours (`timerStart`: ticksRemaining,
state, expiryCount; `timerStop`: ticksRemaining, expiryCount, state; `timerPause`: the test and the
state).  `timerFwProcess` is a scan of the slots, first for high then for low priority, with the
callback as a point at which API calls are made, on any timer.  A refused call changes nothing and
is not a step.  `goal` and `elapsed` are history: the ticks a timer was last started with and those
it has run since.  Callbacks of realtime timers run inside the tick and touch no timer.

### Misting controller

`JumpStateMachine` keeps the machine as a record: the state, the three actuators, and per timer
the ticks `left` (0: expired, callback pending; -1: not running) and its `interval`.
`gJumpSm` is the table, `Operate` its operations.  `MistControl` has one action for each handler of
the main loop: timer callbacks, the device monitor, the alert event, and the commands of the app
(off, on, the four cases of the configuration update, the HV check), plus the tick and the loss
of power.  `dS` and `cfg` live in the EEPROM and survive it.  `alarm` is history: an alert has been
handled and the app has not switched the device on since.

Abstractions: a configuration is four waits and whether `smOn` accepts its pump speed; a wait of 0
stands for one below a tick, which `timerUpdateInterval` refuses.  Sensor readings are "ok", "high"
or "failed".  Each handler runs to its end (the main loop calls one at a time).  Timer expiries are
not lost between `TimerFw` and the callback, although the run TimerFwLostExpiry shows how one can be; `MistControl`
therefore says what holds when none is.  The EEPROM writes of one command are one step, and its power
losses fall outside of commits; `ConfigStore` takes both apart.  The alert
event may be lost when the event queue is full.

### Configuration store

`eeprom` and `gCfg` are functions from the keys present to their values; the order of the pairs is left
out.  `Bytes` is the length of the text `createEpCfg` makes of them.  `flags` are the presence
bytes.  A handler leaves its writes in `todo`; each `Write` is one `setConfiguration`, `delConfig` or
presence byte, hence one commit of the EEPROM: `commitErases` is its first half, which leaves the sector blank, and
`commitWrites` its second (`flash` says which has been done last; `eeprom` and `flags` hold what is about to be written).  A commit that
changes no byte does neither.  `PowerLoss` may come between any two steps, any number of
times; on an erased sector it leaves nothing.  A boot (`initSetUp`, `setDeviceNameEEPROM`, `initNetworkConnection`) loads memory from the EEPROM,
names a nameless device, and forgets a network it cannot reach.  `Reloaded` is what `strtok` makes of
a stored value: it ends at the separator, and of an empty value it makes NULL, on which
`strdup` panics, so such a device takes no further step, nor does one that finds its sector erased: there
the bytes 0xFF are a key without a value.  The model allows any shortening,
which also covers that `strtok` is handed the address of a single character where it
expects a string.  `refused` and `torn` are history.

Abstractions: the erasing and the writing of a sector are one step each, so that a half-written one does not occur; the
first boot finds an empty area, not a factory-blank sector, which would not start either; allocations do not fail; an attempt to connect
may succeed or fail; handlers that write nothing are no step.

### TCP control, discovery, cloud

A message is a sequence of bytes, each the pair of its message and its index; `buf` and `cbuf` are the two buffers up to
their write pointers, `rx` and `stream` the two levels of the socket below (`WiFiClientRxBuffer` fetches all that the
socket holds once it has run empty, and `connected()` does not look at it).  `pc` follows the passes of `loop`.  The network
connects, cuts messages as it likes, closes, resets, or lets a host vanish; `sent`, `executed`, `read`,
`tears`, `torn` and `wrapped` are history.  A command is executed if the buffer begins with a whole object, as
`parseObject` has it.

Abstractions: the object of a message has no opening brace inside that could restart the buffer;
the three characters that end a message are one, except that "\r\n" ends it twice; a handler answers at once
or through an event.

### WiFi and the event queue

The radio is a record: interfaces, the station's link, the status word, the driver's events not yet delivered.
`WifiStack` has one function for each call; `_eventCallback` is `Delivered`, with the library's own reconnection, which is two
steps (`disconnect(true)`, `begin()`) of the network_event task between which the main loop may run.
`MistingController` has one action for each handler that touches the radio or generates events, one (`PlainEvent`) for
those that do neither, the loop of `connectWithAp`, and each set of timers that may have expired.

Abstractions: the order of events is kept, their parameters are left out; a channel gives at most one
packet and one message in a pass, as in the code; each call of the library is one step, although it blocks inside
(`WiFiGeneric.cpp:482-503` reads the mode and then sets it), where the network_event task could run as well as between two calls; the contents of `TcpControl`'s messages are reduced to the events they cause.

### List and rocks

`GenericList` keeps blocks with their pointers, so that a freed block, or the unwritten pointer of a new one, is there to be followed.
The recursive functions on `Walk` stand for the loops of the code.  `RockProblem` keeps the count of each letter and, as history,
which names hold it.

## 3. Runs

| run | question | bounds |
|---|---|---|
| DataStructures | Is the ring a bounded FIFO? Where does the list break, and does an intact one get sorted? Is no shared letter missed? | a ring of 3 slots, so that full, empty and both rotations occur in every phase; counters wrap at 5, above the length as 2^32 is; two elements to tell order. A list of up to 4 blocks with two values: equal neighbours, any pointer in a new block, and every split of the merge sort up to two levels. Three names over three letters |
| StaticQueueIsrPreempted | Is every accepted element delivered, with interrupts between the memory accesses of put and get? *Violated* | 2 slots, every interrupt point, 4 accepted elements, twice round the ring |
| EventFw | Never more events than fit, blocks owned, events dispatched once, in order and at all? | queue of 2, 3 blocks (fewer than could be needed: calloc fails), 2 registered event ids and one out of bounds, `Burst` 2 calls per callback, 3 events accepted |
| TimerFw | No callback after a stop, none early, slots counted; does every expiry come to its callback if ticks fall between calls only? | 2 slots, intervals below, at and above the tick, expiryCount up to 1, 2 calls per callback; "fine": a tick at any store, low-priority and realtime timers; "coarse": ticks between calls and slots, high and low priority |
| TimerFwLostExpiry | ... if they also fall inside calls and callbacks? *Violated* | one timer, all points |
| MistControl | HV only while misting and never for ever, never stuck, an alert holds, across a power loss? Without the manual mode: motors follow the state, an alert stops everything, a device left on keeps misting? | all commands, two configurations with waits of 0, 1 and 2 ticks around the delay of `endMist` (1), one power loss |
| MistControlAlertManual | Does an alert stop the device in manual mode? *Violated* | commands on and case 2 |
| ConfigStore | Area never overrun, plain values kept outside a commit, presence bytes honest through one too, last pair never deleted? | 7 keys of which not all fit, a short value and a longer one with the separator, any number of power losses, also between the erasing and the writing of the sector |
| ConfigStoreErased | Is there an area to load at every boot? *Violated* | the same |
| ConfigStoreEmpty | Does every stored value survive a restart? *Violated* | a short value and the empty one |
| TcpControl | Is what is executed what was sent, at most one message lost for each broken connection? Do answers reach their hosts? Do discovery and every client get their turn? | two clients, two hosts, two messages of sizes that fit and do not fit a buffer of 5, two packets, any cutting into pieces; "scene": the app alone, one client beside discovery, or the cloud |
| MistingController | Is the event queue long enough, does the loop come round, does the device come back in reach? | the real queue of 10, every set of expired timers, the longest burst of the app, 3 polls for 30, 3 driver events outstanding |

Why the bounds are enough: an element, block or event is never inspected, so two or three are enough to show
any confusion of two; the indices of a queue of three pass through every relative position; two
timers suffice because the code couples timers only through the scan and the slot count; waits
of 1 and 2 ticks put each timer before, at and after the delay of `endMist`, which is what stale
timers depend on.  The proofs of section 5 remove the bounds for the safety properties they cover.
Two motor keys stand for six, since they are
written alike one after the other; the area of 26 bytes holds six short pairs or four long ones, so that both
space tests refuse in some states and pass in others.  `expiryCount` is only compared with 0 (counted to `MaxExpiry`).
In `TcpControl` the channels share the loop and the mutex but no buffer, so that a scene shows all that one can do to another:
the mutex is held by one client for discovery, and the cloud's channel does not look at it.  A buffer of 5 stands for 256 and a
restart below 2 for one below 5: a message can be torn before and after that index, fill the buffer exactly and wrap.
In `MistingController` 3 outstanding driver events let the library be a whole disconnect-and-begin behind the handlers
(MaxNetEvents is a bound on the calls that make the driver post; the main loop waits for the task only there).

All state machines are checked for deadlock, except in DataStructures, where the rock problem comes to its last name and a broken
list is not followed, and in the runs of ConfigStore, where a device with an erased sector or an empty value never starts again.

### What the runs show

Passing: the queue is the FIFO its interface promises as long as calls do not overlap; the event
framework leaks no parameter and dispatches in order; stopping a timer is final even when the tick
falls inside `timerStop`; a restart never inherits an old expiry; the high voltage is on only
in the state that accounts for it; every state with a motor on has a timer that leads out
of it, also after stale timers, ignored events and refused starts; the byte count the store trusts
is never too small, although it is taken before values are shortened; a presence byte is wrong only for keys that
found no room or a network that power loss kept from being forgotten; the list breaks at a first node whose next pointer is
not NULL by chance and at equal neighbours, and nowhere else.

The control channel executes only commands that its clients sent; the piece a broken connection leaves in the buffer
costs at most one later message, and none if it is shorter than 5 bytes; the mutex may stay taken after a client has gone, and then
discovery waits until another message has ended, but it is never free in the middle of a message; the globals from which
handlers take their addressee still name the right host, because one packet is taken in a pass and the queue is drained
before the next.  The event queue of 10 is long enough for every burst: timers, a device monitor with its two events, a
packet and the longest message.  The device comes back in reach whenever the router goes, although each single check may
meet the library's reconnection between its two calls and then say "Already in AP mode" without an access point.

Violated (PROJECT.json, `findings`):

- *StaticQueueIsrPreempted*: nothing protects the queue between memory accesses, though `eventFw.h`
  says an interrupt handler can generate events.  A put between load and store of `queueMsgCount`
  disappears.
- *TimerFwLostExpiry*: `timerStart` sets the timer running and then clears `expiryCount`
  (timerFw.c:195-196), and the scan clears it after the callback (line 99).  An expiry in between
  is forgotten.  This takes an interval of one tick or a long callback.
- *MistControlAlertManual*: in `STATE_MISTING_END` the alert handler's `EVENT_END_MIST` has no jump;
  in manual mode the motors run in that state and go on.
- *ConfigStoreErased*: every write of a key or a presence byte erases the sector that holds them all and then writes it
  (EEPROM.cpp:145-151).  Power lost in between takes everything with it, also what was not being written, and since `loadCfg` takes the blank bytes
  for a key without a value, the device stops in `strdup(NULL)` at every boot.  All the other results about the store are to
  be read with this: they hold outside of a commit, save `FlagsHonest` and the bound on the area, which hold through it.
- *ConfigStoreEmpty*: an empty value is accepted, and at every later boot `strdup(NULL)` stops the
  device before it can be repaired.  The app can send one as a device name, or as the password of an open
  network.

Other differences can be seen with the same models by changing a constant or the property of a run:
with case 2 among
the commands `MotorsFollowState` fails (leaving manual mode by case 1 in `STATE_MISTING_END`), and
with case 3 `OnMists` (the restart after the delay is skipped in manual mode).
With `SelfDestroy = TRUE` `BlockStaysValid` fails:
`processNonRtTimers` writes to a block after a callback that may have destroyed it.  `WaitHonoured` fails at single
steps: `endMist` leaves the cycle's timers running and the next cycle cannot restart them, so its
first wait is cut short; `WaitsSettle` shows that this heals.  With the values of `ConfigStore`
`Durable` fails too: a value with the separator, such as a password with a colon, is cut short by the next boot.
`BreaksOnlyThere` says where the list goes wrong.  Of two neighbours that match, `sListItemDel` frees the second but links the list to it
through the first, which it has freed before; and `sListItemAdd` does not write the next pointer, the second word of the block, of a first node.
At the head `sListItemDel` deletes one node and behind it all that match, where genericLL.h:30 says "Delete all Nodes".
`IdNeedsRegistration` does not say that the id stored is the one of the answer to the registration, and it need not be: `commandDecoder_Cloud` keeps the status of
the message before, so that the id of a message without a command is stored too if a registration came last.
`setConfiguration` answers 0 when a longer value does not fit (platformConfig.ino:365-368), where configuration.h
promises -1.  `storeDeviceId` (tcpControlServer.ino:266) tests the presence byte the wrong way round: an id stored
just before a power loss never gets its byte.  `cntNode` also counts a letter that one name holds several times and others do not hold.
Some getters do not answer what
their comments say: `staticQueueHighMark` (never raised), `eventProcessCount` (the events still
queued), `timerSingleshot` (compares the type).

## 4. Fairness

- `EventFw`, `TimerFw`: the main context goes on with a call it is in, callbacks return, and
  `eventFwProcess`/`timerFwProcess` are called again and again, because `loop`
  (E/esp32MistingController.ino:928) does nothing else.  Nothing forces a caller to make API calls.
- `TimerFw`: ticks go on for ever (SIGALRM from an interval timer).  It is strong fairness on `Tick`
  because a tick can fall only at the points of `IrqPoints`, and the main context keeps passing
  them.
- `TcpControl`: weak fairness of `Loop`, and strong fairness of `KeepAlive`, since the server switches `SO_KEEPALIVE` on
  (WiFiServer.cpp:56) and a vanished host is found out in the end.  `DiscoveryGetsTurn` asks only that the mutex is free again
  and again, `EachServed` that connections end; no client is assumed to send anything.
- `MistingController`: strong fairness of `Loop` (it may be held up by the bound on driver events, never for ever) and weak fairness of the
  network_event task; strong fairness of a pass in which the WiFi timer has expired, since the timer is periodic; and strong fairness of `FallBack`: a
  check that is repeated every 60 seconds (`WIFI_PERIODIC_CHECK_TIME`) does not for ever meet a reconnection in the moment between its two calls.  The router and the driver are
  not fair: they may never answer.
- `MistControl`: weak fairness of the tick and of each pending callback.  `OnMists` and `WaitsSettle`
  are about the time after the app, or the interruptions, have come to rest.

## 5. Proofs

`tlapm` checks every proof to the last leaf.  Assumptions are the named `ASSUME`s of the modules
(sizes are positive, interrupt points are known ones, callers pass values of the right
kind); TLC evaluates them in the runs.

- `StaticQueueProofs`.  Types are not inductive: `msgCount` stays in bounds only because put tests
  it, and `E_BUG` is avoided only because the indices agree.  `Inv` = types, `RingInv` and
  `NeverBug`; one lemma per operation.  `RingInvariant` and `BugUnreachable` follow.
  `QueueRefinesFifo` maps the occupied slots, read from `readPtr` onwards, to the sequence of
  `BoundedFifo` and shows each operation to be the abstract one.  For `StaticQueueIsr`, `SafeInterruptsDeliver` says at which of the
  main loop's points a putting interrupt is harmless: between operations, and in a get before it has moved the read index and between its last store and its test for
  corruption (`SafePoint`).  There the put sees a count that leaves it a
  free slot; `IsrInv` keeps the object as it would be without the index the operation in progress has moved.  TLC refutes
  `AcceptedDelivered` at each of the other points, so the set cannot be larger.  `MaskedOperationsAreAtomic`: with interrupts
  between operations only, memory accesses add up to the operations of `StaticQueue` (`AtomicOperations`, which no run checks).
- `EventFwProofs`.  `ParamsOwned` counts the events that hold a block by their index in the queue, which shifts with every get.  `Inv`
  says instead who owns a block (`Ownership`: the event that is being made, the one in hand, or one in the queue, and no two), that
  every event on its way has its handler and its parameter (`Handled`), where an event is in hand at all and that nothing is
  queued before the table exists (`Shape`), and that what was accepted is what was dispatched and what is still there.
  `EventTypes`, `ParametersHaveOneOwner`, `DispatchedInOrder` and `NoBugAnswered` follow for every queue length, number of blocks and set of interrupt
  points.
- `TimerFwProofs`.  `TimerTypes`: types and `gTimerCount = Cardinality(used)`.  `StopIsFinal`:
  `StopInv` says a stopped timer has no expiry pending and is not running, except between the
  stores of `timerStop`, where what is left to count is 0.  `CallbackOnTime`: `EarlyInv` says that
  ticks seen plus ticks left cover the interval, and that an expiry is pending only after all of
  them, except between the stores that are about to reset one of the two.
- `MistControlProofs`.  `Sound(d)`: between handlers the machine is in a resting state, HV on only
  in `STATE_HV_INIT`, the fan on in the three states that need it, and the timer that leads out running
  or expired.  Each event preserves it (`EndMist`, `InitBldc`, the callbacks); with what `alarm`, `dS` and
  `cfg` have to do with the state it is inductive.  `MistTypes`, `HighVoltageIsSafe`, `AlwaysAWayOut`
  and `AlertsHold` follow for every set of waits, configurations, readings and commands.  `MotorsFollowMachine` and `AlertsStopDevice` are
  about the behaviours in which the app never switches the manual mode on (`mode`): `AutoInv` says that no handler then finds
  it on, and that the motors are those of the machine's state.
- `ConfigStoreProofs`.  `FlagsAreHonest`: `FlagsHonest` is not inductive, since it says nothing of the
  writes still to come.  `Inv` adds that memory and EEPROM hold the same keys, that a pending presence byte comes after
  the keys it promises (`Promised`), and that pending deletions are followed by the clearing of the byte
  and by no other byte (`Forgotten`).  A power loss inside a commit leaves no byte set.  `PlainValuesSurvive`: `PlainDurable` says
  nothing of the time within a commit; `Mirrored` does, for what is about to be written, and is inductive.  `AreaNeverOverrun` needs sums over the keys
  stored: `Bytes` is shown to count the cells that the pairs take up, by looking at a smallest set of keys for which it would not
  (`SmallestSet`), so that adding, replacing and deleting a pair change it by the length of the pair.  `Fits` puts the types
  (`StoreTypes`) and the bound together.  `LastPairNeverDeleted`: `NameFirst` says that nothing is stored before the device
  name, which nobody deletes.

- `TcpControlProofs`.  `MutexIsHonest`: the mutex and the buffer are written by two steps only.  `AskersAnswered`: events carry the addressee of
  their own pass, because they are handled before the next packet or client is taken.  `TcpTypes` and `IdsNeedRegistration`: `Inv` adds to the types
  that every byte stored, on its way or in a socket belongs to a message that was sent, and in the cloud's channel to one of the cloud; a text that begins
  with a whole message then names one that was sent.  `MessagesFramed`: `FrameInv` relates the buffer to the stream: as long as
  the stream is not torn, the buffer holds the part already read of a message whose rest is the next on the wire, or can take a new one.
  `OneLossPerTear`: `LossInv` charges every message that was read and not executed to a tear, and keeps one loss in hand while the
  buffer is torn.
- `MistingControllerProofs`.  `EventsNeverLost`: the main loop drains the queue before the next timer or message, and what one round
  of timers, their handlers and the WiFi retries can post fits in the ten slots of `eventFwInit(20, 10)`.  `QueueInv` bounds, at each point of
  the loop, the events in the queue together with those their handlers will post (`Load`), and says that the events with such handlers are there at most once.  The theorem asks for
  `QueueSize >= 10`; TLC finds no loss with 8 and one with 7.  `ControllerTypes`: `RadioInv` bounds the driver's events that wait by
  what their handling may still post.
- `DataStructureProofs`.  `ListBreaksOnlyThere` and `SortIsCorrect` are about loops along pointers, modelled by recursive
  functions.  That such a function exists at all is `RecursionDefined`, proved from the least size for which no
  function solves its equation; what it returns follows from the least argument for which it would be wrong (`Smallest`).  The
  invariant `ListHeld`, kept as long as the list is intact, names it as a sequence (`Listed`): a chain of the blocks in use, each once, as long as the count.
  `Deleted` is the invariant of the loop of `sListItemDel`, `Merged` and `SortOf` are what `sortMerge` and the sort return.  That nothing else breaks the
  list is this invariant; that the two hazards do break it (`UnwrittenBreaks`, `TwinsBreak`) is shown from what an intact list is: its walk
  is closed under the next pointers and ends in NULL.
  `SharedLettersCounted`: `RockInv` adds to the bounds on a letter's
  count that only names begun can hold it, so that a count that has reached the number of names begun need not grow.

Proved so are all invariants and action properties of the runs that pass; `AcceptedDelivered` and `AtomicOperations` under the
assumption on the interrupt points that the violated run drops.  Only model-checked: liveness (`EventuallyDispatched`,
`CoarseExpiryDelivered`, `MistingPauses`, `AutoOnMists`, `WaitsSettle`, `DiscoveryGetsTurn`, `EachServed`, `LoopReturns`,
`BackInReach`), which is beyond this prover, and the properties that the code violates.  The list's `sListItemGet`
and the getters of the frameworks have no property of their own.

## 6. Not modelled, and why

- The ESP32's second core: on it the tick may run at the same time as a call, and `timerCreate` shows a block to it before it is filled.
- Failing allocations in the store and in the list, and the functions that no handler calls.
- JSON parsing, the contents of status and configuration messages.
- A failing `softAP`, a scan that fails, and that the network event queue carries pointers to the driver's events.
- The UART protocol of the BLDC board and the pulse timer of the stepper: device I/O.
- Third-party Arduino libraries other than the operations of `libraries/WiFi` that the firmware calls: most of the lines under
  `src/` are theirs (I2C, SPI, HTTP, motor drivers), with no state that the firmware relies on.  The copies of the framework under
  `E/libraries/frameworks` are the same code as `C/`, whose models cover them, save for where the tick runs.
- Demonstration programs (logger, shared memory, function pointers): little or no state.

## 7. Order of work, and what is left

Done: `BoundedFifo`, `StaticQueue`, `StaticQueueIsr`, `EventFw`, `TimerFw`, `JumpStateMachine`,
`MistControl`, `ConfigStore`, then `TcpControl`, `WifiStack`, `MistingController`, `GenericList`, `RockProblem`: the framework first
because everything rests on it, then the control of
the high voltage, the behaviour with most at stake, then what survives a power loss, then how the device is reached.

Left, in order:

1. `MistControl` over `ConfigStore`: the atomic `cfg` as the abstraction of the six writes, with
   the mixture of old and new values a power loss can leave.
2. The tick and a call at the same time, on two cores.
3. An abstract specification of the app's channel, a stream of messages that a tear cuts once, with `TcpControl` implementing it; `MessagesFramed`
   and `OneLossPerTear` are its two halves.
4. The UART protocol of the BLDC board.
