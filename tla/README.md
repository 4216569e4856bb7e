# The bumper interface firmware: specifications, checks and proofs

This directory specifies the firmware in `../src`: an AVR microcontroller that samples up to eight
proximity sensors, pretends over a USB serial port to be a laser range finder speaking SCIP 2.0,
and keeps a few settings in its EEPROM. The application is `src/ymbumper`. The USB library
`src/LUFA` is vendored with it: its device stack is modelled as the firmware builds it
(`USB_DEVICE_ONLY`, `INTERRUPT_CONTROL_ENDPOINT` in `src/ymbumper/makefile`), its host stack and
class drivers, which the firmware does not build, as a host or device program would use them.

Contents: [inventory](#inventory), [modules](#modules), [runs](#runs), [fairness](#fairness),
[disagreements found](#disagreements-with-the-code), [proofs](#proofs),
[what is not covered](#what-is-not-covered), [plan](#plan).

## Inventory

Four contexts run on the firmware's one processor: `main()`, which polls; the interrupt of timer 0
(every millisecond), of the ADC (every conversion), and the two of the USB controller. There are no
threads and no locks; everything they share they share through globals and controller registers.

The application, and the half of the library under it:

| component | source | state | operations |
|---|---|---|---|
| main loop and SCIP handlers | `ymbumper.c` | `Mode`, the request (`MDStart` .. `MDNum`), its progress (`iMDStep`, `iMDNum`), `MsCnt` | one command per pass, one step of streaming per pass, the timer interrupt |
| command line and settings | `ymbumper.c`, `scip2.c` | `read_buffer`, the settings in use and in the EEPROM | assembling and parsing a line, five `$` commands, the boot |
| answers | `scip2.c` | the block being filled | `sendScipData(Int)`, `sendScipResponse` |
| sensors | `ymbumper.c` (`ADC_vect`, `ScipReset`) | `Raw`, `Data`, `Offset`, `Distance`, `iScan`, `ADMUX` | the ADC interrupt, RS |
| byte stream | `Util.c`, LUFA `Endpoint.c` | the banks of the bulk endpoints, the frame flag | `getUSBByte`, `sendUSBByte`, `flushSendStream`, `Endpoint_WaitUntilReady` |
| USB device stack | LUFA `USBInterrupt.c`, `USBTask.c`, `DevChapter9.c`, the events in `ymbumper.c` | device state, configuration, address, selected endpoint, interrupt enables | `USB_GEN_vect`, `USB_COM_vect`, every kind of control request |
| time stamp, set-up, texts, descriptors | `ymbumper.c`, `texts.h`, `Descriptors.c` | `Timestamp`; otherwise constants | not modelled on their own, see below |

The rest of the library that has logic of its own:

| component | source | state | operations |
|---|---|---|---|
| USB host stack | LUFA `Host.c`, `HostChapter9.c`, `USBInterrupt.c` (host half) | `USB_HostState`, waits, the request in progress, VBUS, interrupt enables | one state of the enumeration per pass, control requests in stages, bus reset, four interrupts |
| pipe configuration | `Class/Host/*.c`, `ConfigDescriptor.c` | position in the descriptors, pipes bound | `..._Host_ConfigurePipes`, `USB_GetNextDescriptorComp` |
| HID report parser | `Class/Host/HIDParser.c` | state stack, sizes of reports, collection path, fields found | one item at a time; reading, writing and sizing a report |
| HID class | `Class/Device/HID.c`, `Class/Host/HID.c` | last report, idle period, banks | device task, `GET_REPORT`, `SET_IDLE`, receiving |
| CDC class | `Class/Device/CDC.c`, `Class/Host/CDC.c` | banks, frozen pipe, baud rate | sending bytes and strings, flush, receiving |
| mass storage class | `Class/Device/MassStorage.c`, `Class/Host/MassStorage.c` | tag, stage, command block, stalls, reset flag | a command in three phases, `GET_MAX_LUN`, reset |
| RNDIS class | `Class/Device/RNDIS.c`, `Class/Host/RNDIS.c` | message buffer, adapter state, a frame each way | six messages, notification, frames |
| other class drivers, OTG, scheduler, board drivers, terminal | `src/LUFA`, `src/Common` | | see [what is not covered](#what-is-not-covered) |

How they interact:

* the main loop reads a line with the byte stream, parses it, runs a handler, answers through the
  encoder and the byte stream; a settings handler also writes the EEPROM;
* the timer interrupt increments `MsCnt`, which the main loop increments, tests and clears;
* the ADC interrupt computes `Distance` and `Raw`, which scans are built from and RS clears;
* the USB interrupts change the endpoint selection, the configuration and the address under the
  byte stream's feet, and restore the selection when they return;
* a host program polls the host stack; when a device is addressed it reads the configuration, binds
  the pipes of a class driver, and calls that driver, which sends control requests of its own;
* the two ends of a class driver meet in the banks of a pair of pipes and in control requests, which
  the device handles between two turns of its task, or in an interrupt.

What is hard about it, and therefore what the properties are about (`PROJECT.json` lists the hazards
with their lines):

* *Interleaving and atomicity.* `MsCnt ++` and a 32-bit `Offset = 0` are several instructions with
  interrupts enabled; the byte stream tests an endpoint and then clears it; both USB interrupts use
  the selection register in the middle of main()'s own use; the suspend and disconnect handlers
  execute `sei()` inside an interrupt; the host stack stores its next state some time after it read
  the old one, and an interrupt stores that variable too.
* *Timeouts.* Waits are counted in USB frames, which stop on a suspended bus, and the first frame
  found may be an old one; a failed flush has queued its packet all the same; a host may halt an
  endpoint, or have its banks cleared, in the middle of a call; a host that gave up on
  a mass storage command finds the device still in it; the ADC interrupt can be held off for several
  conversions.
* *Protocol sequences.* A new request during a stream; a SET_ADDRESS whose transfer the host
  aborts; a wake-up after a reset; a configuration selected twice; a device pulled out in the middle
  of its enumeration; answers that belong to an earlier command or message.
* *Loss of power.* A setting is acknowledged, used, and then written byte by byte.
* *Boundaries.* Uninitialised arguments, 16-bit truncation of what was tested at 32 bits, a block
  that ends exactly with the answer, a serial number without a closing quote, a full bank at a
  flush, a field of a report that does not begin with a byte.

What makes each component correct: a measurement delivers exactly what was asked (main loop);
what was acknowledged is in use and survives a boot, and the serial number always ends (settings);
a host decodes what was meant (answers); no contact is invented and none is missed (sensors); bytes
arrive once and in order and calls return (byte stream, CDC); main() keeps its endpoint, the state
and the endpoints agree, and the device can always be woken (device stack); a device is enumerated
completely or given up, in time (host stack); pipes belong together (pipe configuration); fields
lie apart (parser); an input that lasts is seen (HID); an answer is the one to the question
(mass storage, RNDIS); commands run once and in order (mass storage); frames flow (RNDIS).

## Modules

| module | models | correspondence |
|---|---|---|
| `ScanStream` | the promise of an MD, MS, MR, ME, MI request: exactly so many scans, one every so many windows, each announcing how many are owed | abstract; no source |
| `Ymbumper` | the main loop, every handler of the command table, the timer interrupt, the watchdog restart | variables carry the names of the globals; one action per handler (`ScipMeasure`, `ScipGet`, ...), one per step of the streaming half; `MsCnt ++` is `LoadMsCnt` and `StoreMsCnt` |
| `Pacing` | `Ymbumper` and two history variables | counts timer interrupts and passes since the last scan window |
| `Sampler` | the free-running converter, `ADC_vect`, RS's clearing loop | `BandGapInterrupt` and `SensorInterrupt` are the two branches of the interrupt; an RS clears an `Offset` in two stores, cut anywhere and in either order |
| `Stream` | `getUSBByte`, `sendUSBByte`, `flushSendStream`, `Endpoint_WaitUntilReady`; what `USB_Device_ClearSetFeature` does to the two bulk endpoints | one action per access to an endpoint register, so that the host comes between any two; a turn of the wait is one action for each way it ends |
| `UsbDevice` | `USB_GEN_vect`, `USB_COM_vect` and all they call, main()'s selection | `gen` is the stack of the GENs in progress; each of GEN's four tests is an action, and so is each store of the bodies behind them. Clearing a flag of `UDINT` or a bit of `UDIEN` is a load and a store (`Loaded`). COM is one action per wait for the host |
| `Settings` | line assembly, the parser, `$STH $SDI $SRE $SFR $SSN`, EEPROM writes, boot | a handler is one action per EEPROM byte; `Assembled` keeps what older lines left in the buffer |
| `ScipData` | width limits, six-bit characters, blocks, checksums; a host that checks the lines and reads the words | one action per word, per character, and for the end of the answer; the host takes a line, then a character at a time, whenever one is there |
| `UsbHost` | `USB_Host_ProcessNextHostState`, `USB_Host_SendControlRequest` and its waits, `USB_Host_ResetDevice`, the host half of `USB_GEN_vect` | one action per state of the enumeration, whose closing store of `USB_HostState` is `Assign`; a request is a sequence of stages; an interrupt comes between any two steps |
| `PipeConfig` | the `_Host_ConfigurePipes` functions over any configuration | a driver is a record of what it looks for; one action per descriptor |
| `HIDParser` | `USB_ProcessHIDReport`, `USB_GetHIDReportItemInfo`, `USB_SetHIDReportItemInfo`, `USB_GetHIDReportSize` | one action per kind of item; reports are sets of bits; sizes, counts, IDs and offsets have the widths of their C types |
| `HIDReports` | the HID device's task and a host that receives | `HID_Device_USBTask` is one action |
| `CdcLink` | one direction of a serial line between the two CDC drivers, in either role | one action per access to an endpoint or pipe |
| `MassStorage` | both mass storage drivers over one pipe in each direction | one action per phase of the host's call and of the device's task, with every way a wait ends |
| `Rndis` | both RNDIS drivers | a control request is one action which may fail before or after it arrives; a call of the host thaws its pipe and freezes it again, each in an action; `Bus` moves one bank, of a thawed pipe only |
| `MCPacing`, `MCStream`, `MCSampler`, `MCUsb` | the inputs of TLC's runs | |
| `MCConsole`, `MCHost`, `MCDrivers` | runs that hold several programs, one of which runs in each behaviour | a variable says which, and never changes |
| `*_proofs` | theorems about `Ymbumper` with `Pacing`, `Sampler`, `Stream`, `UsbDevice`; `Console_proofs`: `Settings` and `ScipData`; `UsbHost_proofs`: `UsbHost`, `PipeConfig`, `HIDParser`; `MassStorage_proofs`; `Drivers_proofs`: `Rndis`, `CdcLink` and `HIDReports` | see [Proofs](#proofs) |

The components meet at few places, so each is checked alone against the most general behaviour of
its neighbours. `Ymbumper` accepts any request with any arguments, because the parser initialises
only those it reaches. `Stream` is called in any order. `UsbDevice` lets main() select an endpoint
whenever no interrupt runs. `UsbHost` lets a device answer, stall, fail or be silent at every stage;
`PipeConfig` and `HIDParser` read any descriptors; control requests of `MassStorage` and `Rndis`
fail at any point, as those of `UsbHost` may. `Ymbumper` and `ScanStream` are composed by
refinement, `Pacing` extends `Ymbumper`.

A definition whose comment calls it a slip is not used by the specifications. It stands before the
definition it would replace and differs from it as a plausible mistake in the code would; putting it
in its place violates the property that `PROJECT.json` names beside it, which shows that the
property depends on that line of the code.

### Abstractions

* Values: a sensor reading, a byte of a stream (its position in the stream), a descriptor (its
  number of packets), a packet (its kind, its size and the number of its command) and a command's
  name (one character) are reduced to what properties tell apart. No command's name is a prefix of
  another, so the parser's linear search finds at most one.
* `MsCnt` is 8 bits wide and a window 10 counts; the run uses smaller numbers. The code has no guard
  that keeps a pass shorter than 256 ms, and neither has the model: `CounterAssumption` asks only
  that the counter is wider than a window, and the run lets `MsCnt` wrap inside one pass. A wrap
  delays an open window, so `WindowNotLate` counts passes anew from it.
* Control requests wait for the host in loops without effects; a turn of such a loop that finds
  nothing is a stutter. The stall handshake and the feature flags are left out of `UsbDevice`, because
  no property is about them; a halt of a bulk endpoint is in `Stream`. A request that nobody handles
  is stalled in `LeaveTask`.
* `UsbDevice` reads the two registers of a test (`USB_INT_HasOccurred` and `USB_INT_IsEnabled`) in one
  step. A SET_CONFIGURATION that selects no configuration is left out of the run's requests; the
  proofs hold for any set of them.
* In `Stream` a byte that `getUSBByte` reads from an endpoint which the host had cleared after the test
  is none of the host's bytes, and is not in `got`.
* The controller is described from how the code uses it: RXSTPI ends the transfer in progress and
  frees the transmit bank; a bus reset forgets the address and all endpoints but 0; the bus idles
  only while the cable is in; plugging in and its detection take longer than main() needs to look
  once. These definitions are marked external in `PROJECT.json`.
* An EEPROM byte whose writing loses power has its old or its new value.
* `MassStorage` has no data toggles, and the tag of a command is its number. The SCSI commands are
  records of direction and length; the callback may end one at any moment, passed or failed.
* `CdcLink` has no `FAST_STREAM_TRANSFERS` (they unroll the loop of `Stream`), and a program that
  asks for the number of received bytes receives them before it calls `USB_USBTask`.
* `Rndis` is built with control requests in an interrupt. A frame whose stream failed half-way leaves
  that direction out of step for good; the model then stops it (`brokenOUT`, `brokenIN`). The pipes of
  the host have one bank. A frozen pipe does not communicate (`Pipe.h:302`), so the last bank of a
  frame that the host wrote stays in its pipe until the next call thaws it (`HeldOUT`), unless the bus
  takes it before the pipe is frozen; a device that waits for it meanwhile times out and the stream
  breaks.
* `HIDParser` keeps where a field lies and in which report; usages, units, limits and feature
  reports, which take the same branches, are left out, and so are `LargestReportSizeBits` and what a
  failed parse leaves behind. Whether a field is wanted is decided for all fields of an item alike.
  Items whose data the descriptor does not hold are left out. A PUSH copies the size of a
  `HID_ReportItem_t` into an entry of `StateTable`, which is smaller (`HIDParser.c:86`): what it writes
  over is written by later PUSHes, or, when it pushes the last entry, lies behind the array. The
  outcome of that is `"Undefined"` or a clean copy, and nothing is promised of the first.
* `PipeConfig`: `Pipe_ConfigurePipe` succeeds; a descriptor that lies beyond the end of the
  configuration, which the search does look at (`ConfigDescriptor.c:121`), may be anything, and
  `PipesBelongTogether` exempts what is bound to one.

## Runs

Every passing run is exhaustive within its bounds. `expect: violation` runs show a disagreement.

| run | asks | bounds, and why they are enough |
|---|---|---|
| `scip` | On the four-sensor board: ranges, array bounds, counters, whether the stream is what `ScanStream` promises, whether windows close in time, sending goes on and finite requests end, for every handler in any order | `MsPeriod = 2`, `MsMod = 5`, up to four timer interrupts per pass: a window can close with and without losing one, and the counter can wrap within a pass, in the interrupt and in the loop. Requests hold every letter, each side of every range test, arguments above 16 bits, finite, endless and skipping streams; the longest finite stream owes two scans, so first, middle and last differ |
| `scan_rate` | Do windows last `MsPeriod` milliseconds? (violation) | a counter at which passes and interrupts differ |
| `stream` | Are bytes delivered once and in order, in both directions, whatever times out or is halted? Does a wait last its timeout, and does every call return? | two banks of two bytes; six bytes out: both banks, a full bank, and the bank after it; two bytes from the host with one to it; empty packets; blocking and not; a timeout of one frame tells an old frame flag from a whole timeout. Three bytes out, or two in, with two requests to halt an endpoint or clear one: halted and cleared, cleared twice, cleared between the accesses of one call |
| `stream_race` | Is only an empty bank cleared? (violation) | three bytes |
| `stream_flush` | Does a successful flush end with a short packet? (violation) | both banks must be waiting: six bytes |
| `sampler` | Baselines, contacts, channels, and that a lasting contact is forgotten | a moving sensor with three levels and a resting one, scale 4 (0x1000 in the code; the proofs hold for all), an `Offset` cut at one weight |
| `usb` | Selection, configuration, clock, address and requests under both interrupts | two interrupts in progress: a GEN or a COM between any two stores of a GEN; a third would meet what the second can leave. One interrupt inside a body (`DisturbedOnce`): until a reset sets everything anew it is followed only by interrupts between bodies, for after it nothing is claimed of configuration and clock; the theorems know no such bound. A request of each kind that takes a path of its own, a configuration that exists and one that does not; main() selects one endpoint |
| `usb_unplug` | Does a control transfer end when the cable is pulled? (violation) | no nesting needed |
| `host` | Is a device enumerated completely or given up, each stage in time? Are pipes bound together? Do fields lie apart? | waits of two turns, resets of one, a timeout of one frame (two turns of the counter), one packet of data: every loop is entered, repeated and left. Configurations of up to six descriptors: two interfaces with two endpoints each; two endpoint numbers. Report descriptors of up to seven items, four fields, two report IDs, one of which does not fit a byte, sizes of 3 and of 511 (255 in a byte), and counts of 2 and 255: fields that are not bytes, numbers that are cut, and a report that outgrows its 16-bit size |
| `console` | Do acknowledged settings stay in use and survive? Is the serial number a string? Does a host decode what was meant? | three commands and any number of losses of power; lines with too few and too many characters, no closing quote, no quotes, arguments beyond a byte and beyond `int8_t`; a serial number of four bytes and a buffer of six, so that both overflow. Up to three words around the limit of each width, blocks of five characters: a word is split at each of its places, and answers end exactly with a block |
| `class_drivers` | Of four pairs of class drivers: are answers and data one's own, commands in order, bytes in order, inputs seen, flushes complete, and do calls and frames get through? | mass storage: two commands (without data, in, out, for a unit that is not there) and a class request between them, blocks of three units of which two are the header, so that a block can be cut anywhere and data takes two packets. CDC: two banks of two bytes, five bytes. HID: two banks, three inputs, repetition on and off. RNDIS: two calls of a message that is answered, one that is not and one that the device does not know; two frames of one or two parts, both in one direction or one in each |
| `hid_set` | Is the value written into a field the value read from it? (violation) | fields of one and eight bits |

A run that holds several programs (`host`, `console`, `class_drivers`) starts one of them in each
behaviour and leaves the others as they begin; that asks the same of each as a run of its own would.
In `class_drivers` a fairness condition may name steps of several programs: since the program never
changes, it is the condition for each of them.

What a property needs to be violated is in the comment above it. Those that deserve a remark:

* `ImplementsStream` is the refinement of `ScanStream`. A reboot is the only step that forgets a
  request; a QT leaves the counters as they are, and the next request must reset them.
* `KeepsSending` and `FiniteEnds` hold unless `MsCnt` wraps for ever: a host that makes every pass
  wait for 256 interrupts may find each window open when its pass looks.
* `NoFalseContact`, `BaselineBetween` exempt sensors in `torn`: an ADC interrupt between two stores
  of RS's `Offset = 0` leaves a sum that is neither zero nor a baseline. `ContactForgotten` shows
  that also such a sensor recovers.
* `MainOnItsEndpoint` exempts a reset of the endpoints (`clobbered`): `USB_GEN_vect` configures
  endpoint 0 and leaves it selected (`USBInterrupt.c:145`).
* `ReadOrDroppedWhole` promises that a packet lost to the race of `stream_race` is lost whole, and
  `NothingLost` that only the host itself takes a byte back: a CLEAR_FEATURE empties the endpoint's
  banks (`DevChapter9.c:379`), and what was in them is `dropped`, or no longer among the `accepted`.
* `TimeoutNotEarly` exempts a wait for an endpoint the host has halted: it ends at once
  (`Endpoint.c:123`).
* `ConfiguredHasEndpoints` and `FrozenCanWake` hold while no body of GEN is disturbed (`Undisturbed`): no
  interrupt came between its stores, and no bus reset between a load and a store of `UDINT`, since the
  last reset that interrupted no other GEN. Bodies can be disturbed, since the events of a
  disconnection and of a suspension execute `sei()` (`ymbumper.c:765`, `:772`), and then both properties
  fail; that is listed among the [disagreements](#disagreements-with-the-code).
* `UnreadSetupKept` exempts a COM that returns to a main loop which never selected a bulk endpoint:
  until its first access `UENUM` is 0, and `USB_INT_Clear` then clears endpoint 0's RXSTPI.
* `SettingsSurvive` promises `res` only while `frt` is not negative: a boot replaces both.
* `EnumerationEnds` holds as long as VBUS does: a dip during `USB_Host_ResetDevice` is forgotten by
  the store that ends the reset, and the host then waits for frames on a bus without power.
* `EnumeratedCompletely` asks no more than that the device which the application was told of has its
  address when `UHADDR` is set; an interrupt's `Unattached` that is overwritten by `Assign` leaves
  the host in a state for a device that is gone, until the next wait finds out.
* `OwnAnswers` is promised until a call has failed: the host compares neither tag nor signature, and
  after a failed call an old status is taken for a new one. `ExecutedInOrder` holds in any case.
* `CallsEnd` exempts a host that waits for the last bank of its data (`MassStorage.c:249`): that loop
  looks at no stall and counts no frames.
* `ReportsSeen` exempts a change that a `GET_REPORT` put into the buffer of the last report, while
  the host has switched repetition off: nothing sends it.
* `FieldsApart` exempts a POP that brings back another report's ID, fields of the ID 0 in a
  descriptor that uses IDs (those before the first REPORT ID, or an ID that is cut to 0), and a
  report once its size has wrapped at 16 bits (`wrapped`), whose fields begin again at its front.
* `PipesBelongTogether` says what the code does, which is less than "of one function". A driver that
  leaves a data interface with only one of its endpoints keeps that one (`partial`) and may add the
  other of the next interface; it does not look which control interface a data interface belongs to;
  and after a restart `ControlInterfaceNumber` still names the first control interface, while the
  notification pipe is the second's (`CDC.c:55`).
* `FramesFlow` asks that every frame arrives once and in order, the last one perhaps only into the
  host's frozen pipe, except those the host gives back unread: `RNDIS_Host_ReadPacket` tests for a
  readable bank and, if there is none, clears a packet that arrived since (`Host/RNDIS.c:402`); such a
  frame is received as `Unread` if that packet was all of it, and breaks the stream otherwise. Frames
  in more banks than the pipe has arrive only if the bus is quick enough, so nothing is promised once
  a stream has broken.

`MassStorage!ReadHeader`'s branch for a packet that again leaves the header incomplete is there for
other sizes than those of the run, in which two packets always complete it.

Deadlock is checked in `scip`, `scan_rate` and the two USB device runs, whose programs never stop.
In the others a program may come to the end of its inputs: bytes, words, descriptors or calls.

## Fairness

* `FairPacingSpec`: weak fairness of the main loop's step. The loop has no blocking wait except in
  the byte stream, whose calls return (`CallsReturn`). Neither host nor timer is fair, so
  `KeepsSending` and `FiniteEnds` rest on the loop's own increment of `MsCnt`.
* `Stream!FairSpec`: weak fairness of the code's steps, and of the start of a frame, which a bus
  that is neither suspended nor disconnected delivers every millisecond. The host need neither read
  nor write. `CallsReturn` assumes that the bus is not left suspended while attached.
* `Sampler!FairSpec`: the free-running converter is weakly fair, its interrupt strongly fair, since
  the USB interrupts may hold it off again and again but end each time.
* `UsbDevice!FairSpec`: weak fairness of the two interrupts' steps, nothing of the host. It is used
  only for the violation, where the wait is disabled for ever and fairness does not help it.
* `UsbHost`, in `HostSpec`: main() polls, enabled interrupts are taken, a bus with a device has
  frames, and the controller notices what is plugged in or gone. The device need do nothing.
* `MassStorage`: the host's code runs, and its waits time out (strongly, since a wait may be
  interrupted by packets that come again and again). Nothing of the device is fair.
* `HIDReports`: the device's task and its millisecond tick, and a host that keeps receiving.
* `Rndis`: both programs run, the device's application takes the frames it finds, the host's looks
  for frames again and again, a wait that lasts fails, and the bus moves banks as long as their pipes
  are thawed; that it does so before a pipe is frozen is not assumed.

## Disagreements with the code

1. `scan_rate`: PP answers `SCAN:6000;` (`texts.h:20`), one scan in ten milliseconds, but the main
   loop increments `MsCnt` in every MD pass as well (`ymbumper.c:634`), so a window is shorter by
   the number of passes in it.
2. `stream_race`: "If OUT endpoint empty, clear it" (`Util.c:38`), but a packet that arrives between
   the test and the clear is acknowledged to the host and released unread.
3. `stream_flush`: "Send an empty packet to ensure that the host does not buffer data sent to it"
   (`Util.c:80`), but when both banks wait for a slow host the second `Endpoint_ClearIN` does
   nothing, and a later flush that succeeds does not make up for it.
4. `usb_unplug`: the waits of a control transfer end on "Device was disconnected from the host
   during" the transfer (`Endpoint.h:474`), but they run inside `USB_COM_vect` with interrupts
   blocked, so `USB_GEN_vect` cannot store the state they wait for. Pulling the cable during a
   control transfer stops the firmware.
5. `hid_set`: a value goes "into the correct position in the HID report buffer" (`HIDParser.h:275`),
   but `USB_SetHIDReportItemInfo` (`HIDParser.c:332`) has the bit of the value and the bit of the
   report in each other's place: only a field that begins at bit 0 of a byte, and is no longer than
   a byte, is stored as it is.

Found while modelling, without a text that says otherwise, and therefore only listed here:

* An old command's status is taken for a new one's by the mass storage host, and a response that
  nobody fetched stops the frames of a network adapter, until a call succeeds.
* The RNDIS task clears `ResponseReady` after it wrote the notification (`Device/RNDIS.c:167`): a
  message handled in between is not notified.
* With interrupts enabled in the middle of GEN a wake-up inside the suspension's body disables itself
  again and leaves the clock frozen with WAKEUP disabled (`USBInterrupt.c:93-96`); one
  between the stores of a reset leaves the device configured, with configuration 0
  (`USBInterrupt.c:138-139`); and a read-modify-write of `UDINT` that was cut loses the flag of a reset.
* A class driver binds the pipes of two data interfaces when the first has only one of them
  (`Host/CDC.c:62`), and sends its requests to the first control interface after a restart.
* A PUSH writes past the state stack when it fills it, which with the default depth of two every PUSH
  does (`HIDParser.c:86`); a report of more than 8191 bytes has overlapping fields.
* The last bank of a frame stays in the host's frozen pipe until the next call (`Host/RNDIS.c:462`),
  and a packet that arrives between two tests is thrown away unread (`Host/RNDIS.c:407`).
* `getUSBByte` returns a byte the host never sent when the endpoint is cleared between `Util.c:49` and
  `:50`.
* With eight sensors `out` is two words too short for a full range (`ymbumper.c:607`).
* A host may be told twice that a device is unattached: once by the error, once by the interrupt.
* Two bytes of `dist` are written one after the other and nothing marks them as belonging together
  (`ymbumper.c:496`); while `frt` in the EEPROM is negative, as on a new board, a boot replaces
  `res` as well (`ymbumper.c:556`).
* A SETUP that arrives in the status stage of an aborted request does not end its wait
  (`Endpoint.c:79`), and a new request that arrives while the previous one ends is stalled as one
  that nobody handled (`DevChapter9.c:118`).

## Proofs

TLAPS proves the following for every value of the constants that the named assumptions allow. TLC
checks the same properties on the instances above, except the type invariants, which are proved
instead.

**`Ymbumper_proofs`** (from `BoardAssumption`, `CounterAssumption`, `RequestsAssumption`): for every
board, counter width and set of requests.
`IInv` = `TypeOK` ∧ `RequestInRange` ∧ `StreamCounters` ∧ `SentBounded` is inductive. The range is
needed for what `Points` returns to be bounded (`SentBounded`, from which array bounds follow), and
the counters for `Refinement`: `MDNum - iMDNum` is only what `ScanStream` calls `owed` while
`iMDNum < MDNum`. Theorems `TypeCorrect`, `RangeCorrect` (with `SlotsInBounds`), `CountersCorrect`;
`Refinement` shows that initial states map to initial states and each step to a step of `ScanStream`
or a stutter. `PacingCorrect` (`WindowNotLate`) rests on `PaceInv`: in a window that a pass found
open, `MsCnt` is at least the number of such passes since the window began or since `MsCnt` last wrapped,
because the loop's own increment is never lost. No assumption bounds the interrupts of a pass, which
may wrap the counter any number of times; each time the count of passes begins anew.
`ScansCorrect` is the measure under `KeepsSending` and `FiniteEnds`: while a stream goes on, windows
to skip, passes until the open window is found closed, and the place in the pass
(`WindowsLeft`, `PassesLeft`, `Place`) are bounded and fall with each step of the loop until a scan
is sent (`ScansCome`), and `ScansLeft` falls with each scan; a timer interrupt raises none of them.
Steps that wrap `MsCnt` are excepted: they may take the window back to its beginning.

**`Sampler_proofs`** (from `SensorAssumption`): for every number of sensors, scale, threshold, level
and way of cutting a clear. `Pipeline` says which of the stages of the converter (`ADMUX`, the
running conversion, the finished one) holds the channel of `iScan`, also when the interrupt was
late; `ChannelCorrect` follows. `Baselines` adds to the types that an unsampled sensor's `Offset` is
zero unless torn, without which the first sample would not set the baseline up, and that a sensor
being cleared is marked; `BaselineCorrect`, `NoFalseContactCorrect` and `ContactSeenCorrect` follow
by arithmetic on quotients, which is a group of lemmas of its own. `ForgettingCorrect` is what
`ContactForgotten` rests on: a sample brings its baseline strictly nearer or there, never past it,
and then shows no contact (`BaselineApproaches`); no other step but RS moves it (`OwnBaseline`).

**`Stream_proofs`** (from `StreamAssumption`): for any number and size of banks, any timeout below
255, and any traffic,
with any endpoint halted or cleared between any two steps.
* `TimeoutCorrect` (`TimeoutNotEarly`): `WaitInv`, the frames of a wait and those the counter still
  waits for make up the timeout, less one that may be old.
* `ReceiveCorrect` (`ReadOrDroppedWhole`): `ReceivedInv`. The banks hold bytes in the order they were
  sent, all later than those read or dropped (`Ordered`); where a packet ends another begins
  (`PacketsEnd`); a packet that is about to be cleared has not been read from (`ClearedWhole`). A
  CLEAR_FEATURE takes the rest of every packet that waits, which `PacketsEnd` shows to end where another
  begins.
* `SendCorrect` (`NothingLost`): `SentInv`. Received bytes, waiting banks and the bank being filled
  are the bytes accepted, laid end to end; `Places(base)` gives the place at which each bank begins,
  because the prover has no induction over a flattened sequence. `SendControl` says that a bank is free
  when a byte is written, and `Numbered` that the byte is none of those accepted.
* `TurnsCorrect`, the measure under `CallsReturn`: a call that does not block has at most
  `2 * USB_STREAM_TIMEOUT_MS + 8` steps before it (`TurnsBounded`), each of its own takes one and no
  step of the host gives one back (`TurnsSpent`).
* `TypeCorrect`: banks hold no more than they can, and the 8-bit frame counter never wraps.

**`Console_proofs`**, the settings (from `SettingsAssumption` and `TextAssumption`): `SerialInv` strengthens `SerialTerminated` with
what is on its way to the last cell (only a NUL) and where the copying loop stands (`i < Room`).
`SerialCorrect` holds for every set of lines, any length of the serial number, and any loss of power.
`UseCorrect` and `SurvivalCorrect` (`SettingsInUse`, `SettingsSurvive`) rest on `ValueInv`: what the
memory holds once the write in progress has ended (`Final`) agrees with what was acknowledged, except
for the setting a handler is about to write, of which it agrees up to the byte the handler has come
to. A loss of power takes away that setting and the one of the write in progress, which is `torn`.
`SerialQuotedCorrect` (`SerialIsQuoted`) rests on `TextInv`: what the copying loop has stored so far
is the beginning of the quoted text, the buffer still holds the rest of it, and the text ends with
the closing quote, the NUL or the room there is.

The answers (from `AnswerAssumption`: words of one to four characters, blocks with room for one), for
every sequence of words and every length of blocks, stated of `ConsoleSpec` because `MCConsole`
instantiates `ScipData`:
* `RoundTripCorrect` (`RoundTrip`). What a host reads is a fold over data that was folded before, and
  the prover has no induction over either. So the host is a state machine that reads beside the
  sender, and the invariant says where each of the two is. A *place* is a word of the answer and a
  character of it; a text `Carries` the characters from one place to another if there is a sequence
  of places, each after the one before, whose characters it holds. `AnswerInv`: the lines sent, the
  block, the rest of the word being encoded, and the words left follow each other without a gap
  (`Path`, `Chain`), and the host's rest begins at the place its number has come to (`HostInv`).
  That the number is right is Horner's rule for one more character (`ReadsOn`).
* `BlocksCorrect` (`BlocksWhole`), from `BlockInv`: a block that is not full is not sent before the
  end. That no block is empty rests on the guard `Remains`.

**`UsbDevice_proofs`** (for every set of requests and every depth of nesting):
`gen` is a sequence of places and loaded flags (`NestingTypes`), and while no body is disturbed only the
innermost GEN is in one (`Shape`), so that one place tells which of its stores are done. `FrozenCorrect`
(`FrozenCanWake`) rests on `ClockInv`, which says at each place what is enabled and whether the clock
runs, and `ConfigurationCorrect` (`ConfiguredHasEndpoints`) on `ConfigInv`, which says the same of state,
number and endpoints: outside the status stage of SET_CONFIGURATION, while no reset waits, the number
from which a wake-up rebuilds the state agrees with the endpoints. Both properties are proved for
undisturbed bodies only, as they are false of others. `SelectionCorrect` needs `SelectionInv`: while COM
runs, its saved register holds main()'s endpoint; it holds however GEN is cut. `AddressCorrect` needs `AddressInv`: when
the bank is free again after the status stage, the host has taken it or has ended the transfer.
`SetupCorrect` needs `SavedInv`: the selections that COM's two levels save agree, so that it returns
to the endpoint it came from (`DataInv` says which request waits for data). `TypeCorrect` shows among others that no packet of a descriptor is
sent after its last.

**`UsbHost_proofs`** (from `HostAssumption`, `DriversAssumption`, `ReportAssumption`), which extends
`MCHost` because a theorem about a module that is instantiated is stated where it is composed:
* `TimeoutCorrect` (`AnswersInTime`). `CountInv` is the invariant of `Stream`'s wait once more, for a
  16-bit counter, repeated stages and calls of `USB_Host_WaitMS` whose caller must be known.
* `EnumerationCorrect` (`EnumeratedCompletely`), for every interleaving of `USB_GEN_vect`, the cable and
  the bus with main(). `AddressInv` follows an address from the device's acknowledgement to `UHADDR`
  (`Answered`, `Sent`, `ToWait`, `Waits`, `ToSet`, `Sets`), and says at each point what may have become
  of the device (`Here`, `Leaving`, `Unheard`, `Gone`). `Assign` may store a state over the
  `Unattached` of an interrupt; main() then waits in `WaitForDevice` for a device that is gone, and the
  one that is plugged in meanwhile must not be taken for it. It is not (`Anew`), but only because
  the wait has more than one turn left (`HostAssumption`; it has 100): TLC violates the property with a
  wait of a single turn.
* `RequestCorrect`, what `EnumerationEnds` rests on: `StagesLeft` (stages and bytes of a control request)
  before `TurnsLeft` (turns of the wait it is in) is bounded and falls with each of its steps
  (`RequestBounded`, `RequestShrinks`), whatever the device, the cable and the interrupt do between.
  `AwakeCorrect` (`WaitsAwake`) adds the one wait that such a measure cannot end: `USB_Host_WaitMS` waits
  for frames only of a bus that runs, or in a state that ends it at the next turn.
* `PipesCorrect` (`PipesBelongTogether`), for all class drivers that need what they have enough with,
  and all configurations. `PipeInv` says of each pipe that is bound what `BindingOK` says, of the
  interface whose endpoints are looked at that it is one of the driver's, and of a search that went
  back that it stands on an interface.
* `FieldsCorrect` (`FieldsApart`), for all sequences of items with data of any width and whatever the
  parser's depths are, until a report outgrows its 16-bit size; nothing is said of a parse whose PUSH
  overran its stack. `ParserInv`: no two entries are of one report, each field lies within what its report
  has come to (`FitsIn`) and behind those laid out before it (`Behind`); the first `REPORT ID` takes
  the report of the earlier fields over, which is why those no longer count (`Counts`).

**`MassStorage_proofs`** (from `StorageAssumption`), which extends `MCDrivers` for the reason given above:
* `OrderCorrect` (`ExecutedInOrder`) needs no assumption. `NumberInv`: the command blocks on their way
  are newer than the one the device took last, those behind newer than those ahead, and the one about
  to be sent newer than all. What stalls, timeouts and resets do to the banks is to empty them, which
  keeps it.
* `AnswersCorrect` (`OwnAnswers`), for all commands and sizes of packets. `AnswerInv`: unless a call
  has failed, or clears a stall and is about to fail (`Clearing`), the banks are empty between calls
  (`Quiet`). During a call its command block is on its way (`Posted`); or the device carries it out,
  and the bytes that host, banks and device have still to transfer add up (`Served`, `Flow`); or the
  device dropped it and what is left in the banks answers nothing (`Lost`).
* `CallsCorrect`, the measure under `CallsEnd`: the host's stages in the order of the code, and within one
  the bytes it still needs, fall with each turn (`CallGoesOn`) except one that polls in
  `MS_Host_WaitForDataReceived`, which the timeout counts (`CallBounded` bounds both).

**`Drivers_proofs`** extends `MCDrivers` too.
* `ResponseCorrect` (`OwnResponse`), from no assumption. `ResponseInv`: while a call waits for its
  response, the device's buffer holds it and no other, which is where it matters that the message
  takes the place of any response left there.
* `FramesInOrderCorrect` (`FramesInOrder`), from `NetworkAssumption`, for any number of frames and of
  banks a frame needs: what either end has received are the other's first frames, each once and in
  order, except that the host may have given one back unread in its place. It is the safety of
  `FramesFlow`, up to the first stream that fails half-way in a direction (`Rndis` moves nothing in it
  afterwards). `FrameInv`: the frames that the receiver has read, the bank of its pipe, that of the
  other's, and those the sender has written follow each other without a gap (`OutChain`, `InChain`),
  whichever of the banks a frozen pipe holds back.
* `QuietSeenCorrect` (`QuietSeen`), the safety of `ReportsSeen`, for any number of banks: once no report is
  on its way and the device finds nothing new, the host has seen the input as it is.
* The serial line, for any number and size of banks and any number of bytes (`LineAssumption`): one
  inductive invariant, `LineInv`, for three theorems. `InOrder` says of the packets read, waiting and
  being filled that they hold the bytes from the next one to the last accepted, each once and in
  order (`Hold`); it is inductive with `WriterInv` (the writer never stores into a bank that is not
  free, although it tests for room only after a store) and `ReaderInv` (the reader was told of no more
  bytes than its packet holds). `InOrderCorrect` states it; `ReceivesNext`, that each byte received
  is the one after the byte before, which is what a program relies on; `FlushCorrect` (`FlushEnds`)
  rests on `ShortInv`: unless a wait failed, a call that ends leaves a packet that is not full, or one
  was sent.

Model-checked only:
* all liveness (`KeepsSending`, `FiniteEnds`, `ContactForgotten`, `CallsReturn`, `EnumerationEnds`,
  `CallsEnd`, `ReportsSeen`, `FramesFlow`): what is proved for all constants is the safety each rests on, a
  bounded measure that steps only lower, or what holds when nothing is left to do. That
  fair steps are taken until the measure is used up stays with TLC, since this prover has neither
  fairness of composed actions (`ENABLED`) nor induction over the measure;
* the violations.

## What is not covered

* `Timestamp`: main() reads and RS clears its four bytes while the timer interrupt counts
  (`ymbumper.c:660`). The lasting effect of the same kind of tearing is in `Sampler`.
* Which sensors a scan carries: `ProcessDistance`'s results are computed and not sent, only their
  number is used (`ymbumper.c:619`). No text of the repository says what a range should mean, so
  there is nothing to check beyond bounds.
* What an EEPROM byte holds after a brown-out in the middle of its writing (`ymbumper.c:456`) beyond
  its old and its new value: that depends on the hardware.
* The set-up of clocks, timer, ADC and pins: register writes before interrupts are enabled.
* How long a pass lasts. A read that is meant not to block waits up to a whole timeout
  (`Util.c:42`), which makes scans late by an amount that no property states.
* A suspension flag raised while it was disabled (`USBInterrupt.c:122`): the device suspends once
  more after a wake-up and is woken again, which `FrozenCanWake` allows.
* Class drivers of other kinds (audio, MIDI, printer, still image): how a host binds their pipes is
  in `PipeConfig`; their transfers are the waits, streams and freezes of `MassStorage` and `CdcLink`
  again. Of HID, output and feature reports, `SET_PROTOCOL` and reports of several IDs; of CDC, line
  states and notifications.
* OTG: no program of the repository uses both roles. The scheduler, the terminal driver, the drivers
  of boards and other peripherals: not called by the firmware, and mostly pure input and output.
* Texts and descriptors: constant tables. Of a descriptor only its length in packets matters.
* Peculiarities of modelled code that are in the models but that no property judges, since nothing
  says what should happen: a wait of the host that failed stores the next state as well as the error
  (`Host.c:54`); the size of the control pipe is taken from a descriptor that may have ended before
  it (`Host.c:140`); the search for descriptors looks at what lies beyond the last one
  (`ConfigDescriptor.c:121`); a POP does not bring back the report that the fields are laid out in
  (`HIDParser.c:96`).
* Peculiarities that are not in the models: the largest size of a report is kept from the beginning
  of its last field (`HIDParser.c:255`); a report is asked for by its ID with SET_REPORT
  (`Host/HID.c:161`); a frame that is too long is stalled in its bank and left there
  (`Device/RNDIS.c:186`).

Of the repository's 29 000 lines of C some 16 000 are comments and blank lines, most of them the
documentation in LUFA's headers; the definitions stand for about 4 000 lines. What is left beside
the components above is declarations, register macros for each board and chip, and drivers that
repeat modelled steps.

## Plan

The order was: main loop and its abstract stream first, since it is the program's purpose; then the
byte stream under it; the sensors; the USB interrupts; settings and encoding; then the host stack,
and the class drivers with the pipe configuration and parser before them; last the proofs of the
byte stream, of the types, of the host's drivers, and of the measures under the liveness
properties. What is left:

1. *Composition.* The parser in front of `Ymbumper`, so that its `Requests` come from lines instead
   of being any arguments, and the scan's words from `Sampler` through `ScipData`; the byte stream
   with bus resets from `UsbDevice` in the middle of a transfer.
2. *The clock.* `Timestamp`'s increment, its torn reads and clears, and the time-adjustment mode.
3. *Class drivers.* Output and feature reports of HID with the parser's report IDs; the events and
   blocks of the still image host; notifications of the CDC device.
4. *Proofs.* Refinements of abstract specifications of the other components, as there is one for the
   main loop.
