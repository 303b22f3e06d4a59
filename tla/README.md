# Verification of mdalarm

`mdalarm` is a Linux daemon (`src/src/*.cpp`) that logs in to the Hikvision
cameras listed in a MySQL table, switches their motion detection on, and, when a
camera reports motion, sends a text message to every phone number of that camera
through a message module on a USB serial port.  This directory holds TLA+ models
of the daemon, the TLC configurations that check them, and TLAPS proofs.

## The system

| part | state | operations | code |
|---|---|---|---|
| alarm ring | `struAlarmMotionDetect[32]`, write and read index | callback, count, two getters, release | `HikDev.cpp`, `HikDev.h` |
| main | `ServiceRun`, locals of the loop | startup steps, poll loop, clean-up, SIGTERM handler, pid file | `main.cpp` |
| cameras | SDK initialised, callback registered, alarm channels | login, motion detection, arm | `HikDev.cpp` |
| camera table | `CameraInfoName`, `CameraInfoFromDB`, `IpWarnToPhoneFromDB` | one read at startup, lookups by index and by ip | `DataBase.cpp` |
| serial port | `fd`, `isnormal`, `ucReadLineBuf` with two indices | open, set, write, read a line, close | `SerialPort.cpp` |
| alarm text | none | UTF-8 to UTF-16BE digits, packing | `SerialPort.cpp` |
| configuration | six strings | parse `DbCfg.csv`, the database port | `CsvParse.cpp`, `main.cpp` |
| CSV reader | buffer of three blocks, byte counts under a mutex, a worker thread | read ahead, next line, header, row, destructor | `csv.h` |
| pid file | `/var/run/mdalarm/mdalarm.pid` | create, remove; start, stop, restart of the init scripts | `main.cpp`, `mdalarmd`, `mdalarmd.bak` |

The parts meet in `main()`.  At startup it writes the pid file, parses the
configuration, reads the camera table, initialises the SDK, and for every camera
logs in and arms it; then it opens the serial port.  A step that fails clears
`ServiceRun` and the following steps run all the same.  From the first armed
camera on, a thread of the SDK calls `HikDevAlarmCallback`, which writes the ring;
`main` polls the ring once per second, or at once while there is work, takes the
alarms one by one, looks the camera up, packs a message for each phone, writes it
and at the end of the batch advances the read index.  The ring has no lock; the only
threads of the program that synchronise are those of `csv.h`, whose reader runs ahead of
`ParseCsvData`.  Around the process, an init script starts, stops and restarts it.

What is hard to get right, and what the properties are about:

* two threads share the ring, and the code reads the write index twice per count;
* the ring may be lapped;
* the settings of a camera are read, changed and written back while its owner may change
  them too;
* SIGTERM and new alarms come at every moment, also during startup;
* every step of the startup can fail, and later steps run after an earlier one failed;
* the descriptor of the serial port is non-blocking: writes are short, refused, or
  flushed, and the device can be unplugged;
* text is cut, moved and inserted at counted places;
* the worker of `csv.h` fills a block that the caller copies outside the mutex, ends by
  itself at the end of the file, and is joined by a destructor at any moment;
* processes that overlap in a restart, or die, share one pid file.

The hazards, each at its line, are in `PROJECT.json`.

## The modules

### AlarmRing, AlarmQueue, AlarmRingProofs

`AlarmRing` is the ring between its two threads.  Every access to the shared write
index is a step of its own, since the Makefiles build without optimisation: the
callback copies the device (a step in which the slot is half written), stamps the
time, increments the index and tests it; `HikDevGetAlarmNum` reads the index for its
test and again for its result.  Each getter is a step.  `DWORD` arithmetic wraps at
`Word`.  A read outside the array returns garbage or faults.

An alarm is its number in the order of recording.  Three history flags mark the
ways in which the ring breaks: `overrun` (the callback catches up with the read
index), `torn` (the reset of the write index falls between the two reads of a
count), `replayed` (a count sees the index at `MAX` before its reset while the read
index is at 0).  `Healthy` is none of these.  The properties say what holds while the
ring is healthy, and some what holds after.

`AlarmQueue` is the promise: a queue of `MAX - 1` alarms whose reader takes batches.
`ImplementsQueue` is the refinement; `healthy` of the queue is `Healthy` of the ring.

### AlarmService, AlarmServiceProofs

`main()` from start to end, one action per step, each with its success and its failures.
The ring is the queue of `AlarmRing`; its bounds are not repeated here, and no more
alarms are recorded than 31 slots hold.  `CreatePidFile`, `ParseCsvData` (with the
uncaught exception of `csv.h`), `ConnectDataBase`, `InitialSDK`, the login loop,
the two calls of `HikDevMotionDetectCfg` (`GetDVRConfig`, `SetDVRConfig`), the callback
registration, the alarm channel, `OpenSerial`; then `While`, `Alarm`, `Send`, `Release`; then
the three steps of the clean-up, whose results main ignores: `remove` and `NET_DVR_Cleanup`
may fail and leave things as they are (history `failed`), `close` frees the descriptor in any
case.  `Motion`, `Owner` and `Sigterm` are enabled all the time.  A phone number of one to six
digits makes `PackMsgToAlarm` throw (see MessageText) and the process abort.

The settings of a camera (`NET_DVR_PICCFG_V30`) are the two fields the code changes and
the rest.  `Owner` is any other client of the camera: it may change the settings before the
read, between the read and the write, or after.  A write that is reported as failed may
have reached the camera.  `wanted` is what the owner gave last; `touched` says whether an
owner has changed the settings since the service read them, and whether the write has
overwritten that change.

`return -1` in the alarm loop (`main.cpp:242`) is not an action: it is taken for a camera
whose name is found and whose phones are not, and `NamedMeansPhones` of CameraDb shows that
there is none.

`sent` counts what is handed to `writeBuffer`; what becomes of it afterwards is the
matter of SerialWriter.  Names fit into `BufSent` here; MessageText says when they do.

### CameraDb, CameraDbProofs

The read of the camera table, one step per MySQL call, field, row and camera, and
the lookups as operators on the state it leaves, `HikDev` being what the login loop of
main gives to the SDK.  A phone list is a sequence of characters, split as
`ExtractPhoneNumber` does; a port is one too, read by `StrToUint` (module `Decimal`) and
cut to 16 bits.  `FirstStop` keeps the order in which
the `std::map` is walked: whether a row is dropped or the whole call fails depends on
which of a NULL and a missing column comes first.

### SerialWriter, SerialPortProofs

`Open` tries the devices in turn, `writeBuffer` hands a message to the kernel's queue,
which takes what fits; whatever is not complete goes to `tcflush`.  `Transmit` is the
UART, `Unplug` and `Plug` the USB bus.  A message is two or three chunks, the last of
which ends the line, so that a torn message is seen as the modem sees it.

### LineReader, LineReaderProofs

`readLine` with its array, its two indices, the moves in place and the second turn
after a read.  `main` does not call it at this commit (`#if 0`), but the class offers it.

### MessageText, SerialPortProofs

`ConvertToUtf16Be`, a turn of its loop per step, on byte sequences put together from
characters of one to four bytes and broken fragments; `PackMsgToAlarm` with its four
insert positions, and main's unchecked copy of the result into `BufSent`.  The fixed
texts are sequences of distinct places, so a part that lands one place off is seen.

### CsvLines, CsvConfig, Decimal, CsvConfigProofs

`CsvLines` is `LineReader` with `AsynchronousReader`: the caller and the worker thread, the
mutex (the worker keeps it while it reads, the caller within a step), both condition
variables with spurious wake-ups, the buffer of three blocks byte by byte, the byte
order mark, newlines, carriage returns, a last line without a newline, the length limit,
and the destructor.  The read-ahead delivers a byte at a step, so a copy or a
destruction in the middle of it would be seen.  `CsvConfig` puts on top of it what
`ParseCsvData` does: the header with its exceptions, the row, the columns trimmed and
brought into order, the empty values, the end of the reader's scope, and main's `StrToUint`
of the port.  An exception that leaves `ParseCsvData` finds no handler, and g++ calls
`terminate` without unwinding: the process ends with the reader as it is (`Aborted`).  A second
kind of client reads as many lines as it likes.
The reference is the file itself: `FileLines` cuts it at its newlines, `WellFormed` and
`ValueUnder` say what its columns mean.

### ServiceInstances, InitScript, InitScriptBak, InitScriptProofs

`ServiceInstances` has any number of processes of the service, each reduced to its steps
on the pid file: before `signal()`, open and truncate, write, startup, loop, remove, end.
A descriptor may belong to a file that another process has removed since.  A process
may fail, abort, get SIGTERM (deadly before `signal()`) or SIGKILL anywhere, and its `remove`
may fail; `abandoned` remembers the two ways of leaving the file behind.
`InitScript` drives them as `src/mdalarmd` does, with `killproc` waiting and then killing,
`InitScriptBak` as `src/mdalarmd.bak`, which takes the number from the file and does not
wait.

### SharedLemmas

Induction and recursion in a form that the provers can use, lemmas about sequences, and
what `StrToUint` computes (see Proofs).

## Runs

| run | bounds | shows |
|---|---|---|
| `alarm_ring` | 3 slots, words modulo 8, 6 alarms | order, count, backlog, stop, liveness, refinement |
| `every_motion_handled` | same | a full ring looks empty: violated |
| `no_phantom_alarm` | same | alarms handled without a motion: violated |
| `service` | 3 tables of 2 cameras, 2 settings, 3 alarms and changes by owners | startup, arming, handling, stop, clean-up |
| `camera_db` | one row with phone lists of up to 4 characters or one of 9 ports, two rows with shorter lists, 4 orders of fields; 40 and 10 for 2^32 and 2^16 | lookups and logins against the table |
| `serial_writer` | 3 devices, queue of 4 chunks, 4 messages of 0, 2 or 3 | order, torn lines, delivery |
| `success_means_sent` | same | a message reported as written is flushed away: violated |
| `line_reader` | array of 4, 7 bytes | lines against the stream |
| `message_text` | names of up to 3 pieces out of 11, phones of 0, 6, 7, 11 digits, shortest and longest time and ip, `BufSent` of 268 | conversion, packing, copy |
| `csv_config` | blocks of 5 bytes, two columns, some 700 files of up to 4 lines, 16 for 2^32 | lines and configuration against the file, shutdown |
| `init_script` | 3 process numbers | pid file through restarts and crashes |
| `stop_is_told` | 2 process numbers | a stop that reaches nobody: violated |

Six alarms take both indices of a ring of 3 twice round, which is what a torn count, a
replay and an overrun need; `Word` is larger than twice the ring, as 2^32 is.  Three
alarms give a batch of two with a third arriving during it.  The bound counts
changes of settings too: three give an owner one before the read, one between the read and
the write and one after it, and the two settings differ in every part, so that a write of the
wrong ones is seen.  A queue of 4 chunks
makes a message of 3 fit whole, in part or not at all.  Seven bytes fill an array of
4 past its end with a newline in every place.  Three pieces give every piece a
neighbour on both sides; with 268 places the longest message fits with two characters
and not with three.  Lines of 0, 3, 4 and 5 bytes in blocks of 5 put every kind of line
end on, before and behind the border of a block, and four of them make the worker read
up to twice, be caught in a read by the destructor, and end by itself.  In
`init_script` a third process can start while one ends and one runs.

Fairness.  `AlarmRing` and `AlarmService`: weak fairness of main, whose sleeps end and
whose calls are taken to return; none for the callback, the cameras, their owners or SIGTERM.
The code itself sees to that for two of the calls only: the connection to MySQL has a
timeout of 7 s and the serial port is opened without blocking.  That queries of MySQL and
calls of the SDK return, with an error if need be, is up to those libraries, and
`StopsInTheEnd` and `AlarmsAreSent` rest on it.  `SerialWriter`:
the UART keeps transmitting; nothing is assumed of main.  `LineReader`: the caller
polls, and strong fairness of the successful read, because a poll may time out while
bytes are on their way but not for ever.  `MessageText`: the program goes on.
`CsvConfig`: both threads run and reads of a file return; none for spurious wake-ups.
The scripts and their processes need none, only safety is claimed of them.

### What the violated runs show

* A callback never looks at the read index.  When as many alarms as there are slots
  arrive before a batch is released, the ring looks empty and they are all lost
  (`HikDev.cpp:94`).
* A count taken while the callback resets the write index is wrong: a whole ring too
  many, or close to 2^32 (`HikDev.cpp:722`).
* `writeBuffer` answers every failure with `tcflush`, which discards messages that an
  earlier call reported as written (`SerialPort.cpp:550`).
* `main` removes the pid file whoever wrote it (`main.cpp:267`).  With `mdalarmd.bak`, whose
  stop does not wait, the old process removes the file of the new one, and the next stop
  reports success without having signalled anyone.  `mdalarmd` waits, and
  `PidFileNamesService` holds.

Some lines of the repository give values that are not those of the code.  `next_line` throws
for every line of `block_len`, that is 2^20, bytes or more (`csv.h:535`, the throw conjunct of
`LinesOfTheFile`), and the text of the exception says that the line "exceeds the maximum length of
2^24-1" (`csv.h:150`).  `writeBuffer` returns `UART_TRUE`, which is 0, when all was written and
`UART_FALSE`, which is -1, on an error (`SerialPort.h:20`); its comment says -1 when correct and 0
on an error (`SerialPort.cpp:532`), as does that of `readBuffer` (`SerialPort.cpp:368`), and that of
`Set` says 1 and 0 (`SerialPort.cpp:223`).  `main` does not look at the result.

Modelling also met things no line of the repository contradicts: a phone number of
fewer than seven digits ends the process with an uncaught exception
(`SerialPort.cpp:158`); a camera name of more than 63 characters can overrun `BufSent`
(`main.cpp:254`); characters of two UTF-8 bytes come out 0x3000 too high
(`SerialPort.cpp:97`); a `DbCfg.csv` with a blank first row or a column too many aborts the
process instead of being rejected (`csv.h:983`); a second `mdalarmd start` runs a second
service (`mdalarmd:19`); and what the owner of a camera changes while the service is between
reading and writing its settings is overwritten (`HikDev.cpp:522`), which `SettingsKept` shows to
be the only loss.

## Proofs

`AlarmRingProofs` proves, for a ring of any size of at least 2, any word of more than
twice that size, any events and any number of alarms (`RingAssumption`), the safety
properties of `alarm_ring`: `TypeOK`, `WriteInBounds`, `ReadInBounds`, `Fifo`, `Backlog`,
`StopKeepsBatch`, `CountIsBacklog`, `SleepsOnlyWhenEmpty` and `ImplementsQueue`.

None of these is inductive.  The invariant has two layers:

* `SafeInv` holds of every state, broken or not: types, `WriteInBounds`, and
  `BatchBounds`, which says that the batch in hand can be released into a legal read
  index and, unless its count was torn, ends at most one lap past the array.  It is
  needed because a broken ring goes on running, and the next count starts from the
  read index the broken batch left.
* `DataInv` holds while the ring is healthy.  `IndexInv` ties the indices to the history
  counters; `SlotsInv` says that the slots from the read index on hold the alarms
  recorded and not released, in order, and what the slot under the callback's hand
  holds so far; `LoopInv` says where main is in its batch and what it has read;
  `HandledInv` is `Fifo`.

Two facts carry the argument: while the ring is healthy the slot under the callback is
never one of those main still has to read (`Distance` is at most `MAX - 1`), and a count
whose two reads straddle a step of the callback is exact unless it is torn or
replayed.  The refinement maps the increment of the write index to `Publish` or
`Overflow`, the end of a count to a stutter or `Miscount`, the end of the for body to
`Handle` and the release to `Release`; everything else stutters.

`InitScriptProofs` proves `PidFileNamesService` and `StaleFileIsAbandoned` for any set of process
numbers (`PidsAssumption`: a number is neither of the two other contents of the file).
The second is inductive.  The first is not: a process that is starting has to be
followed from its open on.  `OneAtATime` says that services started one at a time are
there one at a time, because the script starts the next only when killproc has seen the
last one go; from it, nobody removes the file between open and write (`OpenIsLinked`),
and from the write on the file has the number of every process that is still meant to
run (`StartedIsNamed`).

`AlarmServiceProofs` proves `HandlesOnlyWhenReady`, `ArmedDetects`, `ExitCleansUp`, `SettingsKept`
and `EachPhoneOnce` for any camera tables that are sequences with sequences of phones
(`ServiceAssumption`), any settings that an owner may give (`SettingsAssumption`: two fields of
their types and a rest), any number of alarms and of changes by owners, and any moment of
SIGTERM.  `StateInv` carries the first four: while `ServiceRun` is set every step that main has behind it has succeeded
(`ReadyInv`); what `HikDevStartAlarm` has done for the camera it is at (`ArmInv`); what is about to be written
to a camera is what its owner gave it last, switched on, unless the owner has changed it
since the read (`SettingsInv`), and a change is lost only on a camera that the login loop does
not come to again (`LostBehind`: a second read would forget that the owner was overwritten);
what the clean-up has undone so far, or failed to (`EndInv`); and the ring holds exactly the alarms recorded and not
released, a batch being a part of it (`QueueInv`).  `EachPhoneOnce` speaks of the moments between
two batches only; `SentInv` says for every place in the loop what has been written: the
messages of the alarms before the one in hand, and those of its first `j - 1` phones.  That a
callback in the middle of a batch leaves the messages of earlier alarms alone is the lemma
`MessagesKept`.

`CameraDbProofs` proves `FailureLeavesNoCamera`, `NamedMeansPhones` and `LookupMatchesTable` for every
table, order of fields and outcome of the MySQL calls.  The first two need no assumption on
the constants.  The point that needs an invariant is the failure in the middle of the rows,
where the code clears nothing: a missing column stops every row, so it shows at the first
one, before a camera is kept (`CamerasInv`).  `LookupMatchesTable` needs `TablesAssumption`: no two
fields of a table have the same name, as in SQL, and 2^16 divides 2^32.  `TableInv` carries
it: a key that is not `Missing` has the place of its field (`NamesInv`); the cameras kept are
those of the complete rows so far (`RowsInv`); and while the phones are split the cameras
behind have lost their `phonenums` to the map, where every entry is the list of some camera
with that ip (`LookupInv`), which is why the property speaks of the phones of a camera
whose ip is its own only.  `ExtractCorrect` says what the split of a list gives: the numbers,
joined with commas, are the list, and none of them contains a comma.

`SerialPortProofs` proves `SentInOrder` and `TornLinesHaveFailures` of SerialWriter for any number of devices, any
room in the kernel's queue and any sizes of messages (`WriterAssumption`).  What is on the
wire and what waits in the queue are taken as one sequence, `Out`.  `FollowInv` says which
chunk may come next: the next one of the message, or the first of another if the message
before is complete or a call from it up to the new one failed; `TailInv` says the same of the
message to come, and `OrderInv` is the order.  The first attempt was not inductive:
`CountInv` has to say that before the port is ready no call has a result.  For the torn
lines a map from the line ends that are not intact to the failed calls is shown to be
injective (`TornCause`, `TornApart`), and the inequality is that of the cardinalities.

It also proves the three invariants of MessageText, for names, phone numbers, times and ips
of any length and a buffer of any size.  `TextAssumption` says of what names are made:
characters in their UTF-8 form, and fragments, which are shorter than their first byte
announces.  `TextInv` is inductive:

* `DecodeInv` carries `DecodesUtf8`: `ConvertToUtf16Be` is at the beginning of a piece, or inside one
  that is to be dropped, and what has come out is that of the pieces before.  A fragment
  cannot swallow the piece after it, whose first byte is no continuation byte.
* `CharsInv` carries the part of `FailsOnlyOutOfBounds` about `BufSent`, for names that need not be
  regular: no more characters have come out than pieces have been begun.  Each character
  begins at another piece, as only the first byte of a piece is no continuation byte.
* `StageInv` says that the message is what the four inserts give, and when they throw.
  `InsertsBetween` shows that with eleven digits every insert falls between two parts.

Where a piece begins in the bytes of the name is a sum that `SumsExist` and `SumsGrow` of
`SharedLemmas` are about.

`LineReaderProofs` proves `TypeOK`, `BytesConserved`, `LinesAreLines` and `FullForEver` for every size of
the array and number of bytes (`ReaderAssumption`).  Together with `PlacesInv` (the bytes kept
stand behind those returned, and at the front of the array while a read adds to them) they
are inductive.  The moves in place are reasoned about as parts of the array (`WindowType`,
`WindowSplit`).

`CsvConfigProofs` proves, for every block length of at least 3 (`BlockAssumption`), every modulus
(`UintAssumption`), every file of bytes (`UsesAssumption`), every set of column names without
repetition (`ColumnsAssumption`) and every caller:

* `BufferIsOwned`.  `CountsInv` carries it: the two byte counts, which are only touched under the
  mutex, say whose the third block is.  A read in progress has been asked for, what is asked
  for has not been delivered, and the caller copies only after a delivery and before it asks
  again.
* `TypeOK`, with the assertions of `next_line`.  `WindowInv` carries it: while a line is looked for
  the window begins in the first block, and it ends there while the second is to be filled.
  So the byte that is added for a last line without a newline, which the length test leaves
  room for, still is in the second block.
* `LinesOfTheFile`.  `FileInv` carries it, in five parts: the bytes of the two blocks in use and
  of the third, once delivered, are those of the file that end where the reading is
  (`HoldsInv`, `ReadInv`); a block that is not full is the last one (`EofInv`); between two calls the
  window begins where the last line returned ended, or it is empty at the end of the file
  (`LineInv`); and the reading ends only where the file does (`EndInv`).  The ends of lines are
  defined one after the other (`LineEnds`), so that the next one is the first newline after
  the last, which is what the scan of the window looks for.
* `ConfigMatchesFile`.  `CallerInv` says for every step of `ParseCsvData` what the header and the row in
  hand are in terms of the lines of the file.  That a header with as many known columns as
  there are columns has each of them once is a pigeonhole argument: the map from columns to
  places is onto, and so it is one to one just when there are as many of both (`Pigeonhole`).
* `OutcomeCorrect`: the last part of `ConfigMatchesFile` (`NothingHalfSet`), which needs nothing of the file.

`SharedLemmas` holds what these proofs share.  The library's induction theorems take an
operator as a parameter and cannot be cited with the provers at hand, so induction is
stated here for sets (`SetInduction`, `BoundedInduction`): a set of natural numbers with 0 that is
closed under successor is `Nat`.  It is proved from the well-foundedness of `<`, and with it
that a set has a least element, that a recursive function on `0 .. n` exists and satisfies
its equation (`RecursionExists`), and what `FlattenSeq` returns for a sequence with one more
element (`FlattenAppend`).  That is why `Chop`, `Extract`, `Complete`, `LineEnds`, `StrToUint` and
`DecimalValue` are written as recursive functions.  `NumberCorrect`, about `StrToUint`, stands here
because two components use it: it succeeds exactly on texts of digits, and returns the
number they mean modulo 2^32, although the code takes the remainder at every digit.

Only model-checked: the liveness properties (`MessageIsPacked` among them), which are out of the
prover's reach, and the counterexamples of the runs that expect a violation.

## Not modelled

The functions that format and print what the SDK reports (`HikDevGetDevCfg`,
`HikDevGetNetCfg`, `HikDevOutput...`, `HikDevMacHexToStr`), `XorCode` and `sendWheelSpd`
change no state and are not called.  Of `csv.h` the parts the service does not
instantiate are left out: quotes, comments, numeric columns, other byte sources, the
texts of its errors.  The SDK, the MySQL client and the logger are third-party code, seen
through what their calls can return; their headers (`HCNetSDK.h`, `inc/mysql`,
`inc/spdlog`) are some 97,000 of the repository's 100,000 lines and hold declarations and
library code, none of the service's own logic.  Logging is left out.  The loop bound of
`SerialPort::Set` (`sizeof` of an array of words) is not modelled: with main's arguments
the first entry matches.  Only one alarm callback runs at a time: the code has nothing
for two.

## Plan

1. Model (done): AlarmRing and AlarmQueue, AlarmService, CameraDb, SerialWriter,
   LineReader, MessageText, CsvLines and CsvConfig, ServiceInstances with both scripts.
2. Proofs (done): every safety property of the runs that pass, with the refinement of
   AlarmQueue by AlarmRing.
3. Composition: AlarmService over SerialWriter, so that `AlarmsAreSent` reaches the wire.
