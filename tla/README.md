# QF6 demo programs: specifications, checks and proofs

The repository is a collection of Android demo programs for the QF6 board (Java, one small C++
client) over vendor libraries that are not part of it. This directory models the programs'
own logic, and of the native code they are built from the two parts that are code and not
declarations: the atomic operations and the reference counting of the vendored headers.

## Inventory

Paths are relative to `src/`; `MA` is
`HCBI_API/RS485_demo2/app/src/main/java/com/example/rs485_demo/MainActivity.java`, `LCD` is
`LCD_demo/app/src/main/java/com/example/lcd_demo/LCD_Demo.java`, `CAM` is
`HCBI_API/Camera_demo/app/src/main/java/com/example/camera_demo/MainActivity.java`, `ETH` is
`ETHERNET_demo/app/src/main/java/com/example/ethernet_demo/EthernetDemo.java`. The vendored headers
and the native client are under `RS485/tl/native_client/jni/`.

| component | state | operations | what is hard | what makes it correct | here |
|---|---|---|---|---|---|
| Modbus master: reception (`MA`) | per port `check_rcv_data`, `data_index`, `rcv_data`, expected id and function, a 20 ms timer; one `data_tx` | reader thread, timer, Handler, writer threads, `ReadyToReceive`, `StopReceive`, `CheckReceivedData`, request buttons | no field is locked or volatile; two threads cancel one timer; both ports share `data_tx` | a request has at most one verdict; "CRC pass" reports an answer that was really sent, once; a reception ends | `Rs485Master`, `Rs485Session`, `Rs485Proofs` |
| Modbus master: frames (`MA`, `Modbus.java`, `ModbusMessage.java`) | `request`, CRC tables | `F1` .. `F24`, `frame_init`, `sendFrame`, `crc16`, `CheckReceivedData` | one-byte counts, a 256-byte buffer, signed bytes, tables | counts are right in every frame that fits; the tables are the CRC-16; among replies of the right length the verdict tells the intact one | `ModbusFrame`, `ModbusCrc`, `ModbusTables`, `Rs485Proofs` |
| LCD demo | `timer1`, `timer2`, the brightness setting | four buttons, two timer tasks | a task cancels the Timer in a field that may have changed | every press has its effect | `LcdDemo`, `LcdProofs` |
| Camera demo (`CAM`) | `mCamera`, `mrec`, `recording`, `current_camera`, visible buttons | capture, record, switch, resume, pause, surface callbacks | callbacks in an order the framework chooses; taps whose clicks run late; failures half way | released objects are not held or used; the buttons come back; the microphone follows the camera | `CameraDemo`, `CameraProofs` |
| Ethernet demo (`ETH`) | switches, `SetStateOnly`, `RTBS` | state broadcasts, switches, route removal | a state change before the receiver is registered; a restored switch; a table read before it changes | the switch shows the interface's state; only the user commands; only gateway routes go | `EthernetDemo`, `EthernetRoutes`, `EthernetProofs` |
| IR demos, learning | `learning`, `keyId`, status text, radio buttons | learn thread, Handler, send | `keyId` read late; taps that wait; exceptions; re-creation | the text tells the last result; the key chosen is learnt | `IrDemo`, `IrDemoLearn`, `IrProofs` |
| IR demos, power and database | none | one library call per button | nothing | | not modelled |
| GPIO demo | one `level` array, button colours | polling thread, Handler, `setGpo` | the array is sent by reference and refilled | the screen catches up with the pins | `GpioDemo` |
| binder clients (`RS485/tl`) | tokens, proxies | `doSend`, its thread, `sendCommand`, `readReply` | a service that dies or restarts in between; fixed delays; a dangling pointer | what is asked was accepted by the same service; an accepted press is shown | `BinderClients`, `BinderProofs` |
| reference counting (`utils/StrongPointer.h`, `utils/RefBase.h`) | `m_ptr`, `mCount` | `sp`, `wp`: constructors, assignment, `clear`, `promote` | threads that drop and promote at the same time | deleted once, after the last owner, and never used again | `StrongPointer`, `SharedObject`, `SpProofs` |
| atomics (`cutils/atomic-*.h`) | one word | cas, add, inc, dec, and, or, swap | other threads between two instructions of a loop | each call is one atomic step, and returns | `NativeAtomics`, `AtomicWord`, `AtomicsProofs` |
| audio demos | `isRecording`, `mRecorder` | record, routing | an exception half way | the recorder is released once | not modelled |
| system information, touch | none | one call per button | nothing | | not modelled |

The demos do not call each other: each is an application of its own, and they meet only in the
vendor library and, the two RS485 clients, in the service they call. The native client is built on
`sp`, and `sp` on the atomics: `StrongPointer` takes a count for one step because `NativeAtomics`
shows that it is. `PROJECT.json` lists the hazards at their lines, with the
properties that are about them. Failures the models contain and no property is about, because nothing
is promised then: a port that could not be opened (`MA:269`), a routing table longer than `RTBS`
(`ETH:368`), a `learnShort` that throws and leaves BUSY on the screen (`IrDemoLearn.java:115`), a `setGpo`
that fails after the colours changed (`GpioDemo.java:101`), a transaction whose status `client.cpp` does
not look at.

## How the modules correspond to the code

### Rs485Master (detailed) and Rs485Session (abstract)

One action per access to a shared field, so that TLC interleaves the threads as the machine may.

* **Reader thread** (`MA:138-208`): `rpc[p]` is its place in the loop. `start` (timer start), `read`,
  `cancel`, `test` (`check_rcv_data`), `load` and `store` (`rcv_data[data_index] = data[0]`),
  `reload` and `inc` (`data_index++`). A read may return -1 (`ReaderReadsNothing`: the old byte is
  used again), throw `IOException` (`ReaderFails`), or hit a null port; a store past the array and a
  null port kill the process (`crashed`).
* **Timer**: `CountDownTimer.start` posts a tick and leaves earlier ones, `cancel` removes all of
  them, so `ticks[p]` counts those pending. `onFinish` runs on the main thread (`TimerFires`) and
  queues `MSG_RECEIVE_TIMEOUT` (`timeouts[p]`); `cancel` does not take back a queued message.
  This is what the platform does and is modelled from how the code uses it.
* **Main thread**: one callback at a time, `mpc` its place: `Click` (`onClick` up to
  `new byte[length]`), `CopyFrame`, `SpawnWriter`, `ReadyToReceive`; or `HandleTimeout`,
  `CheckReceivedData`, `StopReceive`. `check_rcv_data` and `data_index` are ordinary fields, so their
  two stores in `ReadyToReceive` and `StopReceive` may be seen in either order (`mleft` holds the
  stores left). Beyond that,
  a store is assumed to be seen by the next access of the other thread: every iteration of the
  reader passes through `read`, `start` and `cancel`, and every callback through the looper, which
  synchronise. Other reorderings that the Java memory model allows are not modelled.
* **Writer threads**: a set of pending writers; each reads `data_tx` when it runs. `data_tx` has a
  moment when it holds zeroes, between `new byte[]` and `Arrays.copyOf`.
* **Line and devices** (external): a frame written to a port is answered with one reply, refused, or
  ignored; a port without a device ignores all.

A byte is symbolic, `[id, func, pos]`: which reply it belongs to and where. A reply is `ReplyLen`
bytes, and the CRC is taken to be perfect: it passes for exactly one whole reply. `ModbusFrame`
justifies the shape of that assumption on real bytes, for replies of the right length; a cut reply
that passes by accident (below) is left out of `Rs485Master`.

`Rs485Session` is the promise to the user: a request opens a wait; a wait is closed by at most one
verdict; "CRC pass" reports an answer of that request that a device has sent to that port and that
was not reported before. The refinement mapping takes a port to be waiting from the store of
`check_rcv_data = TRUE` to the verdict.

### ModbusFrame and ModbusCrc

One behaviour is one call: an `F` function lays out `request.buff` or is refused
(`IllegalArgumentException`) or overruns the array; the loop of `crc16` runs one byte per step, beside
a bit-by-bit CRC-16; `sendFrame` closes the frame; an echo comes back whole, with one bit flipped, or
cut; `CheckReceivedData` compares the header, then the CRC. The functions are pure, so one call at a
time loses nothing. Where a caller passes an array, it has the length the function asks for, and the
sub-requests of one F21 carry equally many registers. `ModbusCrc` takes the two tables as constants and
assumes of them only that entry `i` holds the CRC-16 of the byte `i` (`TablesAssumption`);
`MCModbusFrame` gives it the 512 numbers of the code, which are `ModbusTables`, and TLC evaluates the
assumption on them. `^` is written out bit by bit in arithmetic (`Xor`), so that it can be proved about.
`FrameInit`, `FrameNext` and `FrameSpec` have names of their own because `Rs485Proofs` extends
`ModbusFrame` beside `Rs485Master`.

### LcdDemo

A `java.util.Timer` is a number; `field` holds the Timers in `timer1` and `timer2`, `phase` how far
each has come. `new Timer()` and `schedule` are separate steps of the main thread, the effect of a
task and the `cancel` it ends with separate steps of its Timer thread. Time is counted in units of
50 ms and does not pass a task that is due and has not begun: a Timer thread starts its task within
50 ms of the time it is due (`QueryFollowsOff` depends on it, the other properties do not).
`schedule` on a cancelled Timer throws `IllegalStateException`, and the process dies.

### CameraDemo

One action per callback of the main thread, since callbacks do not interleave within. Cameras and
recorders are numbered as they are made, 0 is null, and each has the state its library object is in
(`camState`, `recState`). The system asks for a pause or a resume at any time (`queue`); a picture is
a message that outlives its camera; a surface is created when the view is laid out and goes in a pause
or, as a fault, before. Each call that may throw does so at the place where the code makes it: inside
a `try` the rest of the block is skipped, outside the process dies (`crashed`). `switchCamera` may
fail to stop the preview, to open the other camera or to set it up, and leaves the fields as they are
at that point.

A tap and its click are two steps. `Tap` needs a resumed activity, a laid out view and a visible button, and
only appends the click to the queue; the click runs in its turn and, like `onClick` in the code (`CAM:83`, `93`,
`108`), looks neither at the visibility nor for a pause. So a click may wait behind another one that hides
its button, or behind `onPause`. The history `strays` holds the buttons whose `onClick` has run so since the
last `onResume` or `onPause`; the properties name it where they make an exception. What is taken for granted
of the framework: touch input reaches resumed activities only, so the clicks of a session are in the queue
before its next `onResume`; `setContentView` destroys the surface of the old view at once; `Camera.open` of a
camera that is still held throws; a picture asked for before `unlock` is lost.

### EthernetRoutes and EthernetDemo

`EthernetDemo` extends `EthernetRoutes`. `Show` is `setText` with `State_Switch`, whose `setChecked`
calls the listener if the switch changes; the listener looks at `SetStateOnly`. `onCreate` is three
kinds of steps, so that an interface may change between `getNetworkState` and `registerReceiver`. A
re-creation saves the checked states and restores them after `onCreate`, with the listeners in place
and `SetStateOnly` false. The service (external) serves commands in order, may refuse one, and
broadcasts a change to a registered receiver. `RemoveAllRouteTables` reads the rows, all or those
before an `IOException`, then removes them one per step while others change the table. Masks are four
octets, and `GetPrefixLen` counts them the way the code does. A toggle by the user is one step: a click
that waits while a command disables its switch is not told from one that came before.

### IrDemo, IrDemoLearn, GpioDemo and BinderClients, composed in BoardDemos

Each has the main thread's queue, and the steps of its own threads: `learnShort` with its message and
the flag after it (`LearnShort`, `EndLearning`; `ReadKeyId`, `LearnReturns`, `SetClickable`), `getGpi`
pin by pin. A tap waits in the queue like any message, and a tap on a button of an earlier instance is
dropped. Instances of an activity are numbered; an old one keeps its fields, threads and texts, except
that `status` of `IrDemoLearn` is static. In `GpioDemo` the Handler reads the shared array text by text;
the history `thrown` flips with each read that fails.
`BoardDemos` starts one of the four: they are separate programs and share nothing, so that this is
all their composition can do, and one run checks them.

### BinderClients

The service lives at most `MaxLives` times; a proxy refers to the life it was made for, and a call of
another life fails, as may any call. `accepted` and `asked` record per life which client's command
and question the service took. `HelloActivity`: `DoSend` sends and, if the call returned, leaves a
sleeping thread (`ReadReply`) that keeps the instance it came from. `client.cpp`: one step per call, none
of which looks at a status. What `readReply` returns to `printf` is a dangling pointer: the reply or
freed bytes.

### StrongPointer and SharedObject

The steps of `operator=` are those of the code: `incStrong` of the new object, the test of `m_ptr`,
`decStrong`, the `delete` of the thread that was told 1, the store. A constructor is an assignment to a
null pointer, the destructor is `clear`. `promote` counts up only from a count above zero (libutils,
external) and stores without counting again. `RefBase`, which `wp` needs, counts in libutils;
its strong count is taken to behave as the one of `LightRefBase` does. `SharedObject` is the promise: a set of owners per
object; an owner joins only while another holds it; it is deleted once, when nobody does. The owners of
the refinement are the pointers that have been counted and not counted down, those of a running
assignment included (`References`).

### NativeAtomics and AtomicWord

One step per instruction that reads or writes the word. On Arm and MIPS a load sets a reservation, a
conditional store needs it and clears everybody's; a reservation can also be lost to a context switch.
On x86 `cas` and `add` are one locked instruction, `and` and `or` a plain load and a
compare-exchange. `AtomicWord` is the promise: between call and return one instant at which the word
is read and replaced (`Linearizable` is the refinement).

## Runs

| run | question | instance |
|---|---|---|
| `rs485_races` | do the races on the shared fields break the promise of `Rs485Session`, the buffer or the timeout? | one port, the same request twice, 3-byte replies, a 4-byte buffer, one I/O error, timeouts between any two bytes; 2.0 million states |
| `rs485_timing` | does an undisturbed exchange pass, and does a reception end? | one port, a raw and a framed request, no timeout inside a reply, fair threads |
| `rs485_two_ports` | what does the shared `data_tx` do to the other port? | two ports, a device on one, one request for each; 1.9 million states |
| `lcd_timers` | which tasks are lost, and is the query after the panel-off? | four Timers, panel-off after 3 units, brightness 0..5 in steps of 2, fair threads |
| `lcd_every_press` | the comment `LCD:44`: does every press turn the panel off? Violated, see below | as above |
| `modbus_frame` | counts, tables and verdicts | arguments at and beyond the ends of their ranges |
| `camera` | who holds camera, recorder and microphone in every order of the callbacks and of clicks that wait, what can kill the program, do the buttons come back? | four `Camera.open`, three recorders, two faults, a tap behind at most two waiting messages; 823 thousand states |
| `camera_pause` | the comment `CAM:148`: is no camera held in a pause? Violated, see below | two `Camera.open`, no recording, no fault, a tap behind at most one waiting message |
| `atomics` | are the loops atomic, and do they return? | two threads, two calls each of six kinds, a two-bit word, one lost reservation, all three processors |
| `strong_pointer` | is the count right at every step, is a deleted object used, is the last drop told? | two threads with two `sp` and a `wp` each, two objects, two operations each |
| `ethernet` | which commands are sent, what do the switches show, which routes go? | two interfaces, one change by itself, one toggle, one re-creation, one change of the table, four routes; 1.2 million states |
| `board_demos` | what do the learn screens and the GPIO screen show in the end, which key is learnt; is the right life of the RS485 service asked, is an accepted press shown? | four taps on `IrDemo`, three on `IrDemoLearn`, one re-creation of each, two keys, two input pins, two waiting messages; two presses, two tokens, two instances, two lives, two commands of `client.cpp` |

Bounds. Two clicks on one port are the least that bring a stale byte, a stale timeout or a stale
index into a second reception; three clicks were tried once (8.3 million states, no error) and take
too long to keep. A reply of three bytes has an id, a function and a CRC, all that
`CheckReceivedData` looks at; a buffer of four is overrun by two replies in a row, so the exception
happens. One fault is enough for each kind of error at each place. Four Timers are two presses of
`mButton2`, the least that overlap. For the frames, 123 registers are the longest
`F16` that fits and 124 do not; coil counts lie around multiples of 8. The address 3194 is the CRC of
`<<16, 24>>` as its two bytes are sent, so that an `F24` frame of slave 16 cut after it passes.

Four cameras are two resumes with a switch after each, two faults a failure and one that meets its
consequences (a tap or a resume is left out when the cameras or recorders left would not do for what waits, `RoomFor`); three waiting messages are two clicks that disturb each other and a pause or a picture among
them (five, with five cameras and one fault, were tried once: 7 million states, no error). A two-bit word wraps, and two threads are what a loop has to tell apart. Two operations
per thread let one drop the last pointer while the other copies or promotes it. One toggle and one
re-creation are the least that restore a switch which no longer agrees with its interface; with two
toggles (4 million states) nothing new was found. In `FourRoutes` a prefix of 20 ends inside an
octet, and a table of four rows overruns `RTBS`, shortened to three. Two presses and two lives let a
thread wake up in the next life. Three taps are two learnings and a radio button between them.

Each of the larger modules has its type invariant; where no run lists it, it is a part of the inductive
invariant of the proofs (`NativeAtomics`, `StrongPointer`, `BinderClients`, `EthernetDemo`, `ModbusFrame`).

The runs set `CHECK_DEADLOCK FALSE`: a system with no click left, a blocked `read` and no timer is at
rest, and a process that has died stays dead.

### What the runs show

* `IndexInBuffer`, `VerifiedBytesAreStable`: the lost update of `data_index++` cannot make the index
  pass the end of the array, nor let the reader write into bytes that are being verified.
* `NoStuckReception`, `ReceptionEnds`: whatever the order of the two cancels, a reception that has a
  byte has a timeout to come. A request that nobody answers at all has none: the code starts the
  timer before `read` only, so such a request stays open until the next one.
* `NoAnswerReportedTwice`, `ImplementsSession`: stale bytes, a lost reset, a byte read twice or a stale
  timeout may cost a verdict, but never produce a false or a second "CRC pass".
* `CleanExchangePasses`: conversely, a request clicked while nothing is under way, whose whole reply
  is tested after `ReadyToReceive` began to hold, does pass. A reply faster than `ReadyToReceive`
  loses bytes: the request is sent first (`MA:439-440`).
* `NotOvertaken`: the frame that goes out is the request's own unless a later click came first. With
  two ports a quick second click does send the second frame on the first port; it is then not
  reported as an answer.
* `LostOnlyIfOverlapped`, `UnhurriedTaskRuns`: a task cancels the newer Timer in its field only if that
  one was made while an older task was unfinished; every other task runs.
* `TablesAreCrc16`, `VerdictIsIntact`, `ByteCountIsRest`, `PayloadIsCovered`: see the module.
  `F15` sends one spare byte when the number of coils is a multiple of 8. `VerdictIsIntact` speaks of
  replies as long as the request: `CheckReceivedData` compares no lengths, and a reply cut where its
  bytes end with the CRC of those before them passes, as the run reaches with address 3194.

* `HeldCameraIsCurrent`, `MicFollowsCamera`, `OnlyFirstRecorderLeaks`: whatever fails half way through
  `switchCamera`, `startRecording` or `onResume`, and whenever a click runs, no camera is left open behind
  the field, and the microphone is that of `current_camera`. In a pause nothing is held and the microphone is
  the internal one, unless a click on Switch has run in that pause. The one recorder that is never released is
  the one made by the field's initialiser, which the first recording replaces (`CAM:228`).
* `CrashNeedsFaultOrPause`: the program can die although no call fails: when a pause is handled before
  the message of a picture (`CAM:218`), or before the view is laid out (`CAM:356`), both on a null
  `mCamera` in the background; and by a late click, as the second of two queued clicks on Capture, whose
  `takePicture` finds no preview (`CAM:87`). The property says that there is no other way: as long as each
  click still finds its button on the screen and no call fails, no order of taps, pictures, pauses and resumes
  kills it, and the next `onResume` makes up for what a late click has done.
* `RecordingIsReal`, `ButtonsComeBack` name their exceptions: a start that failed leaves the red button on
  a recorder that is not running, a switch that failed leaves all buttons invisible, and Switch queued behind
  Record drops the recorder under the red button (`CAM:288-292`).
* `OnlyUsersCommand`: setting a switch commands nothing. The exception is real: when the interface
  changed while the activity was re-created, the framework's restored switch sends a command.
* `SwitchAgreesWhenSettled`: the switch is right once broadcasts and commands are done, except after a change
  between `ETH:204` and `ETH:303`, which nobody tells the activity.
* `OnlyGatewayRoutesGo`: the prefix computed from a printed mask finds the route again. A destination
  printed by its name is not found; nor is it removed.
* `LastResultIsShown` depends on the order of `IR_demo`'s lines 195 and 204: the message before the flag.
* `LearntKeyWasChecked`: the key learnt was checked at some time since the press, not necessarily when
  learn was pressed; after a restored screen it may be key 0 while another button is checked.
* `DisplayCatchesUp`: mixed polls are shown, but once the inputs are steady and no more reads fail the texts come
  to agree with them for good, unless the first poll fails: then a null in the array kills the process.
* `HelloReadsWhatItSent`, `AcceptedPressIsShown`: a restart of the service or of the activity misdirects no
  sleeping thread, and no answer is dropped on the way to the screen.
* `Linearizable`, `CallsReturn`; `CountIsReferences`, `NoUseAfterFree`, `Implements`, `LastDropDeletes`: the
  headers keep their promises on a sequentially consistent memory.

### Findings

`EveryPressTurnsOff`: press `mButton2` twice within five seconds. The first `screenTask` ends with
`timer1.cancel()` (`LCD:85`), and `timer1` is by then the second Timer: the second panel-off never runs,
although `LCD:44` says "To turn off the panel after 5000 ms, and then to query panel state after
50 ms." If the user wakes the panel after the first one, it stays on.

`NoneHeldInPause`: tap Switch when the pause is already queued. `onPause` releases the camera (`CAM:148`:
"Release camera so other applications can use it.") and clears `mCamera`; then the click runs, finds the field
null, and opens the other camera (`CAM:307`, `324`) with its microphone. It stays held until the next
`onResume`. `HeldCameraIsCurrent` is what holds instead.

## Fairness

`Rs485Master`: weak fairness of each reader (the scheduler runs a thread that can run), of each
started timer (it expires) and of the main thread's next callback (the looper takes its messages).
No device has to answer, no writer has to write and nobody has to click. `LcdDemo`: weak fairness
of time, of each Timer thread, and of the `onClick` that has begun; none of a new press.
`CameraDemo`: weak fairness of the main thread's callbacks and waiting clicks (the looper) and of the picture a
camera has been asked for. `NativeAtomics`, `StrongPointer`: a thread inside a call keeps running; nobody has to
make a call. With the calls bounded, weak fairness is enough for the loops: a store that fails does so
because another one succeeded or a reservation was lost, and both are finite. `BinderClients`: a
sleeping thread wakes up, and the looper serves its queue. `GpioDemo`: the polling thread and the Handler
run; the inputs may keep changing. Nothing is assumed of the user, the service or the network.

## Proofs

TLAPS checks, for every value of the constants allowed by the named assumptions of the modules:

* `Rs485Proofs!TypeCorrect`. `ClickCounted` (a click in progress has been counted) strengthens
  `TypeOK`: a writer's request number is at least 1 because of it.
* `Rs485Proofs!FrameNotOvertaken`: inductive with `TypeOK`, once `SpawnWriter` is known to follow
  `CopyFrame`.
* `Rs485Proofs!IndexStaysInBuffer` and `VerifiedBytesDoNotChange`. The inductive invariant `IndexInv`
  follows the index through the reader's loop: at `store` the index it holds is at least the field
  (others only reset the field to 0), at `reload` the field is below the length because the store
  succeeded, and at `inc` so is the index it holds; hence the incremented value is at most the length.
* `Rs485Proofs!NoReceptionStuck`. The property says nothing of a port the main thread is working on,
  so it is not inductive. `StuckInv` adds what holds half way through `ReadyToReceive` (once the index
  is reset, a byte that raises it again has re-armed the timer) and half way through `StopReceive`
  (once its store to `check_rcv_data` is done, the reception is over).
* `Rs485Proofs!NoDoubleReport`. An answer is followed by its last byte: `CountInv` says that the verdicts
  given, the copies of that byte on the wire, and the one that can still be passed (`Pending`: it is in the
  reader's hand or stored, in both cases behind the byte before it) are together no more than the answers sent.
  `StoreInv` is what keeps a lost update of `data_index` from making one stored byte count twice. Two places of
  the wire never count for one answer, because a reply holds its last byte once (`PlacesTail`,
  `PlacesConcat`, with the cardinality of the places).
* `Rs485Proofs!MasterImplementsSession`: with `Counted` and `WaitInv` (a verdict is given while waiting; after
  it the flag goes before the main thread does), each step is `Ask`, `Answer`, a verdict or a stutter of
  `Rs485Session`.
* `Rs485Proofs!CleanExchangesPass`. `CleanInv` follows an undisturbed exchange through three stages:
  `NoAnswerYet` (nothing on the port's wire, buffer empty), `Arriving` (`InOrder`: the bytes in the buffer,
  the one in the reader's hand and those on the wire are, one after the other, the bytes of the reply, and
  the index counts the ones stored) and `ExchangeOver` (the verdict is given). When the timer runs out the
  whole reply is stored, because on a line without gaps (`~MidFrameGap`, the hypothesis of the theorem and
  the setting of `Rs485Timing` and `Rs485TwoPorts`) it does not run out before. Reply length, faults and
  what the other port does are arbitrary.
* `Rs485Proofs!ByteCountsAreExact` and `PayloadsAreCovered`, about `ModbusFrame` for any arguments. Each
  counted frame is a head that ends with the number of bytes behind it modulo 256, and those bytes
  (`HeadAndRest`); the two bytes kept for the CRC in a buffer of 256 leave less than 256 behind the count, so
  it has not wrapped. `FrameTyping`: every frame is a sequence of bytes no longer than the buffer.
* `Rs485Proofs!TablesAreTheCrc`. The laws of `Xor` (closed, commutative, undone by itself, `XorSwaps`) are
  proved for numbers below 2^n by doubling n: the bits of a number are its last bit and those of its half
  (`XorHalves`, `LawsDouble`, `XorLaws`). With them an even number added by `Xor` before a shift of the
  reference is its half added after it (`ShiftOutLinear`), and eight shifts only move an upper byte down
  (`Shift8Linear`): one lookup of the byte `crc.hi ^ b` is eight shifts of the whole CRC (`LookupIsCrc`). `FrameTyped` carries the equality with the reference from byte to byte.
* `Rs485Proofs!VerdictsTellDamage`. A shift that subtracts the polynomial leaves a set top bit, one that does
  not leaves none, so a shift can be undone, and two lookups with one result start from equal CRCs exactly
  when they take equal bytes (`LookupInjective`). `FrameInv` carries a function with the CRC after each
  byte from the call to the verdict: over a damaged reply the loop follows it up to the damaged byte, leaves
  it there, and meets it at no later byte (`Follows`, `DamagePersists`). The argument uses only that one
  byte differs, so the flipped bits of `ReplyDamaged` stand for any change of one byte. A reply damaged so is refused, and one that comes back as it was sent passes (`IntactRepliesPass`). TLC
  cannot evaluate the invariant, which asks for such a function without a bound; it checks what follows from it.
* `LcdProofs!TypeCorrect` and `TasksLostOnlyIfOverlapped`. The inductive invariant `LostInv` says that a
  field holds the newest Timer of its kind, and that any Timer made after an unfinished one of its
  kind is marked as overlapping, so that what a finishing task cancels is either its own Timer or an
  overlapping one.
* `LcdProofs!QueryComesAfterOff`. `QueryInv` follows a press from Timer `i` to Timer `i + 1`: while both are
  scheduled the first is due earlier, and since no time passes a task that is due, it has begun, or was
  cancelled, when the second runs. It needs where `onClick` is, because the two Timers are made in four steps.

* `CameraProofs!TypeCorrect`; `HeldCameraStaysCurrent` by `CamInv`: every camera but the one in the field is
  released or was never opened, whatever step `switchCamera` stopped at, and the field is null in a pause without
  a late Switch (`ClearedInPause`); `QueueInv` orders the queue: one lifecycle message at a time, the clicks of a
  session before its resume, none before the new view is laid out. `MicAlwaysFollows` follows from it;
  `RecordersReleased` by `RecInv` (a recorder that records is in the field and its camera is held).
* `CameraProofs!CrashIsExcused` and `RecordingStaysReal`, by `DemoInv`. While no click has come late
  (`SessionInv`, `Orderly`), a picture is taken with all buttons hidden, so that one is under way at a time, and any
  picture still queued comes before every click (`PicturesFirst`); a recording hides the two buttons that would
  take its recorder away. While nothing has failed either (`CalmInv`), the camera previews whenever a click
  finds its button, so that no callback of it can throw.
* `EthernetProofs!PrefixIsFoundAgain`: `GetPrefixLen` of a printed mask is the prefix it was printed for, for all 33
  of them. `LoopSparesTheRest` rests on it, for any set of routes: `RoutesInv` says of each row that it was
  printed for a route and that only its turn in the loop, or somebody else, takes that route away.
* `EthernetProofs!SettledSwitchesAgree`. `SwitchInv`: the last broadcast on its way for an interface carries
  the state it has, and a text or a switch is out of step only while a broadcast or a command is on its way. The lemmas
  about the last element that concerns an interface (`LastTail`, `LastAppend`, `AboutConcat`) say what a
  delivery, a change or a command does to it. `CommandsAreUsers`: `SavedInv` says that the saved switch of an
  interface that has not changed since is the one `onCreate` shows again, so that its restore calls no listener.
* `AtomicsProofs!StoresAreCurrent` (a store takes all reservations with it, so one that stands is
  current) and `LoopsAreAtomic`: the step that decides a call maps to `AtomicWord!Apply`, every other
  instruction to a stutter, for every size of the word and every set of threads and calls whose
  bitwise instructions stay within the word.
* `SpProofs!CountsAreReferences`. Counting owners needs the cardinality of `References(o)` before
  and after each step; the lemmas say by how much each step changes it. With it: what is held is
  live, a new object is known to its maker alone, an object whose count is zero is held by nobody. From these
  follow `NothingFreedIsUsed` and, step by step, `CountsImplementOwnership`. The sets of threads and
  pointers are finite, otherwise arbitrary.
* `BinderProofs!ReadsFollowCommands`: a sleeping press holds a token its life has accepted.
* `IrProofs!LastResultsAreShown`: at most one learning of an instance is under way, the messages of an
  instance are in the order of its learnings, and the result of the last one waits in the queue or is
  shown. `LearntKeysWereChecked`: the field a thread will read is the checked button, or the screen is restored
  and untouched. Both are about the specification of their own screen (`IrSpec`, `LnSpec`), as that of `BinderProofs` is about `BinderSpec`; in
  `BoardDemos` the other demos leave its variables alone.

The proofs assume nothing beyond the named `ASSUME`s of the modules.

In `EthernetRoutes` the assumption is that the kernel's table is finite and a prefix has at most 32 bits, in
`EthernetDemo` that the interfaces start in one of the states the demo knows.

`CleanExchangesPass` has one hypothesis more, `~MidFrameGap`. `ModbusFrame` assumes that ids, addresses and
words are integers and counts natural numbers, `ModbusCrc` that the tables are indexed by 1 to 256, hold
bytes, and hold the CRC-16 of every byte.

Only model-checked: the liveness properties (`AcceptedPressIsShown`, `DisplayCatchesUp`, `CallsReturn`,
`LastDropDeletes`, `ButtonsComeBack`, `ReceptionEnds`, `UnhurriedTaskRuns`), because the prover does not
handle fairness. Every safety invariant and action property of the passing runs, and every refinement, is
also a theorem.

## Not modelled

* The GPO buttons of the master (`MA:344-416`): one `setGpo` call each.
* A second `onCreate` of the master's activity: it starts two more reader threads on the same
  static fields, which then share out the bytes of every reply. Nothing in the code is meant to hold
  then, so a model would only list what breaks.
* A re-creation of the camera activity (all its fields start anew), and a `surfaceChanged` without a
  `surfaceCreated`.
* The Ethernet demo's other buttons, the brand lists of `IrDemo`, the power and database screens, the
  system information and touch demos, and the routing demos: texts passed to one library call, and
  lists filled from one.
* The audio recorder demo: a sequential handler with one field; when `prepare` or `start` throws after
  `mRecorder` was set, the next press leaks that recorder.
* What a device does with a request beyond answering, refusing or ignoring it; collisions on the line;
  which reply the RS485 service keeps under a token both clients use.
* Memory weaker than sequential consistency in the native code: the barriers of `cutils/atomic-*.h`, and the
  acquire and release loads and stores, which order other words than the one they are about.
* The weak count and the virtual hooks of `RefBase`, and the rest of the vendored headers
  (`binder`, `system`, `log`, `Vector.h`, `String8.h`, ...). Most of the repository's C and C++ is in those
  headers: declarations of code that is in libutils and libbinder, constants, and macros. Their
  behaviour is not in the repository, and the two native files of the project hardly use it; so the
  share of C and C++ lines modelled here is small, although the logic of the project itself is covered.
* Wording, colours other than those of the GPIO buttons, and logging.

## Plan

Worth adding: barriers as a store-buffer model of the atomics, with the deletion after `decStrong` as the
property; a second reader generation in `Rs485Master`, to state what does survive a rotation.
