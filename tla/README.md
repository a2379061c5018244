# A verification of BafangEmulator

BafangEmulator pretends to be the controller of a Bafang mid-drive motor on up
to four serial ports at once. A configuration tool reads and writes the
sections *general*, *basic*, *pedal* and *throttle*; the emulator answers out of
two settings files that all ports share. This directory holds TLA+ modules that
model it, TLC configurations that check the models on small instances, and
proofs checked by TLAPS. All paths below are relative to `src/BafangEmulator/`.

## 1. Inventory

| part | state | operations | talks to |
|---|---|---|---|
| **main** `Source.cpp` | two `profile`s `g`, `c`; one `std::future` per port | load the profiles, start a worker per port, wait for them | constructs `serial_handler`; a worker ends when an exception leaves it |
| **serial_handler** `serial_handler.cpp` | its `serial`; references to both profiles; one static mutex for all ports | constructor (connect, param), `poll`, `on_data_available` with its switch over command and type and its exception handler | called back by `serial`; calls `deserialize`, `build`, `parse`, `flush_all`, `write` |
| **serial** `serial.cpp`, **bind** `bind.h` | handle, `port_`, `buffer_`, three callbacks; may be moved and assigned | `connect`, `disconnect`, `param`, `poll` (blocking `ReadFile`, append, callback), `peek`, `flush`, `flush_all`, `read`, `read_all`, `write` | the port; callbacks run on the caller's thread |
| **packet** `packet*.h`, `packet.cpp` | none | `serialize`, `deserialize` (truncation), `verify` (8 bit sum), layouts and status codes | pure |
| **packet_builder** `packet_builder.cpp` | none of its own | four `build`s (profile to payload; `build(general)` saves), three `parse`s (copy, check, change the copy, put it back, save) | reads and writes the profiles |
| **profile** `profile.cpp` | `data_`, `exists_`, `filename_`; the file | constructor, `find` (which stores defaults while the file does not exist), `add`, `save`, `save_as`, `compare` | the disk |
| **getopt** `getopt.c` | `optind`, `place`, `optarg` | `getopt_long`, `getopt` | called by main before anything else |
| **trace** `trace.cpp` | the flags, a mutex of its own; the log file | `message` (a line to the file and the console), `binary` (a line per 16 bytes) | called by main and all workers, mostly under the mutex of serial_handler |

What is hard about it, and what makes it correct (PROJECT.json has every hazard
with its line):

* **Concurrency.** `parse` is a read-copy-update of a profile shared by up to
  four threads. Correct means: one worker in `on_data_available` at a time on
  every path (returns, `default` labels, exceptions), and no update lost.
* **Reads that write.** `find` stores defaults in a profile whose file does not
  exist, and a later write of *another* section saves them. Correct means: no
  section is ever served differently because of that.
* **Crash and partial failure.** `save_as` empties the file and writes it line
  by line; opening may fail after the profile in memory has changed; a full
  disk is not noticed and may end inside a line; a file that cannot be opened is
  taken for none; the response may fail to be sent after the write was stored.
  Correct means, while files can be opened and disks are not full: memory and
  disk agree outside of `save`, `success` means stored, and whatever a restart
  finds still makes sections that could be written back. What is left when they
  are full is said in section 3.
* **Framing.** `ReadFile` hands requests over in pieces, the handler looks at
  the buffer after every piece, `flush_all` throws away whatever is in it, and
  a packet that throws in `deserialize` stays where it is.
* **Exceptions while threads run.** `std::async`, `connect`, `param` and the
  constructors of the profiles may throw. Correct means: the profiles outlive
  every worker that refers to them, no port stays open without an owner, and
  whoever was told that a port is connected is told when it is not. The code does
  not do the latter in two cases: a `connect` over an open port that throws, and a
  listener that is replaced.
* **The log.** Four workers and main write lines made of three `fprintf` to two
  outputs. Correct means: lines are whole, the outputs agree, and the rows of a
  dump stay together.
* **Text.** What a user typed on the command line or wrote into a settings file,
  and what a save that was cut short left there. Correct means: nothing is read
  beyond its end, every form of an option means the same, and numbers come back
  as they were stored.
* **Numbers.** An index into an array of 16 wheels that comes out of a file, a
  byte made of two settings, an 8 bit checksum that leaves out the command,
  range checks, and status codes numbered in an order other than that of the
  bytes they are about.

## 2. Modules

```
Packet   Profile                       bytes and settings
   \      /   \
 PacketBuilder  ProfileFile ---------- MCProfileFile
   |
   |-- ConfigStore                     what clients are promised
   |-- SerialHandler                   the program
   |     `-- SerialHandlerRefinement   the program is a ConfigStore
   |           `-- MCSerialHandler     with ShippedProfiles
   |-- ConfigTool ---- MCConfigTool    with ShippedProfiles
   `-- ShippedProfiles

Serial ---- MCSerial
Trace ----- Main ----- MCMain
CommandLine ---- MCCommandLine
```

Each of PacketBuilder, SerialHandler, SerialHandlerRefinement, ConfigTool,
ProfileFile, Serial, Main and CommandLine has its theorems in a module of its own,
`<module>_proofs`. The proofs about ConfigTool and SerialHandler build on those
about PacketBuilder, and that of the refinement on those about SerialHandler.

SerialHandler and ConfigTool are the core: what clients see. The other four look
at what they take for granted. **ProfileFile** is the text below Profile: its
`SavesAreCuts` says that a file between two lines is one of `Cuts` of Profile,
`TornFilesLoseTheirTail` that one that ends inside a line is one of `TornFiles` of
PacketBuilder, `NumbersSurvive` that settings may be taken for numbers. **Serial** is the class
of which each worker of SerialHandler has one object that it connects once.
**CommandLine** is what `main` does before, **Main** what it does around the
workers of SerialHandler: start them, outlive them and log.

**Packet** - the bytes of the protocol. `Truncated`, `Deserializes` and `Verify`
are `deserialize` and `verify`; `Payload` is the payload member afterwards;
`Request` is what a client's `serialize` produces. The size byte is in the sum
but is never compared with anything, as in the code. In the response to *read
general*, which nothing takes apart, a multi-byte field is one element.

**Profile** - `[exists, data]`, with `data` a function from (section, name) to
integers. `Load` is the constructor, `AddAll` is `add`, `Find` is what `find`
returns and `FindAll` what it stores, `Cuts` are the contents that `save_as`
can leave when it stops between two lines (each line is flushed, in the order
of the `std::map`). A file is `NoFile`, `Holding(d)` or `Garbled`, with a line
that makes the constructor throw: it is not `Readable`.

**PacketBuilder** - `build` and `parse` as tables: `Finds(t)` has a row for each
call of `find` (name, default), `Steps(t, b)` a row for each check and `add`
(name, value added, values that pass, status otherwise). The two tables are
written down separately, from their own functions. `Status` is the status of
the first row that fails. The two checks that the code writes with
contradictory bounds (`> 55 && < 18`) are in the table as they are in the code.
`TornFiles` are the files that a full disk leaves when it ends inside a line: the
lines before it, and a bad line, or a value without its last digits (`Fragments`).

**SerialHandler** - the running program. One client and one worker per port:

| step of a worker | code |
|---|---|
| `Connect` | the constructor; with the fault "connect" it throws and the worker is over |
| `Poll` | `serial::poll`: `ReadFile` returns all that has arrived or, if `ReadSize` says so, less; after its timeout nothing. No mutex is held |
| `Lock` | the `lock_guard` |
| `TooShort`, `Reject`, `Discard` | fewer than two bytes; `deserialize` throws, nothing is flushed; the `default` labels |
| `ReadConfig` | read basic/pedal/throttle, which look at two bytes only: `flush_all`, `build` with the defaults `find` stores |
| `ReadGeneral` | the same after `deserialize`, and on to `save` if the profile does not exist |
| `Write` | `deserialize`, `flush_all`, `parse` up to the completed copy `temp`, or the status of the first failing check |
| `Commit` | `config = temp` |
| `Save`, `SaveFails` | `save_as`: complete; cut short unnoticed between two lines or inside one (fault "diskfull"); the file cannot be opened (fault "open"), which throws out of `parse` or `build` |
| `Reply` | `serial::write`, which may throw (fault "write"); the `lock_guard` ends |

`Send`, `Disturb` and `GiveUp` are the client and the line; `Kill` ends the
process at any moment, leaves a prefix of the lines if a worker is in `save`,
and starts it again with what is on disk. At every start a file that is there may
not be opened (fault "read"), and its profile is then empty and does not exist;
and a bad line ends `main` before any worker is launched, so that all workers are
"done". A handler is cut into several steps
where the moments between them matter: before `config = temp` (a lost update),
around `save` (kill, failure) and before `write` (failure, late client). All
other statements under the mutex touch nothing another actor sees.

**ConfigStore** - what the clients are promised: a register per section, atomic
reads and writes, `success` only after the write took effect, and a crash that
loses nothing unless a write was being stored. **SerialHandlerRefinement** maps
SerialHandler to it: the register of a section is what the next read would
serve, a write takes effect at `Commit`.

**ConfigTool** - one session without concurrency but with all data: the tool
reads a section, changes at most one byte to any value, the line may change one
byte of the packet to any value, the emulator deserializes and parses it. The save at the end
of `parse` succeeds (`OnDisk`).
**ShippedProfiles** is `config.el`.

**ProfileFile** - a file as a sequence of lines: `[section]`, `key=text`, empty,
or anything else. A text is a sequence of digits and of `Letter`, which stands
for all other characters. `ReadLine` is one round of the constructor's loop, and
`Reads` folds it over a file; `ToInt` folds `ReadChar`, one character of
`operator>>`, over a text. `Order` has the names of the settings in the order of
the two levels of `std::map`. `save_as` is `Open` (which empties the file, and sets
`exists_` and `filename_`), one `WriteLine` per line and `Saved`; or `OpenFails`.
Where the two loops are is `todo`, the places in `Order` of the settings that have
not been written, and `head`, the section that was written last: `NextLine` is
the section of the next setting or, below it, the setting. `DiskFull`
and `Kill` leave what has been written, and possibly a part of the next line
(`LineIsCut`, `Torn`). A user may put files in place that are malformed, repeat keys and
sections, or hold no numbers.

**Serial** - objects that are constructed, given callbacks (`Event`), connected,
polled, read, moved (`Move`, `Assign`) and destroyed in any order. A port can be
open once. `believes` is what the listener of the events `connected` and
`disconnected` has been told. `Taken` is the effect of `read`, `read_all`,
`flush` and `flush_all` on the buffer; `received` and `taken` are history.

**Trace** - `message`: `Enter` is the `lock_guard`, then for each output
`Header` (the first `fprintf`), `Rest` (the two others, `fclose` and the next
round), or `FileMisses`, when `fopen` fails. Callers put the lines they log into
`say` and go on when they are gone, so that every call is interleaved with those
of all other threads, part by part.

**Main** - `main`'s thread from "Application start" to its end, and a worker per
port: `Connect` and `Param` (the constructor of serial_handler, which may
throw), then rounds of `Poll` (`ReadFile`, without mutex), `Lock`, `Handle` and
`Unlock`. What a request does is SerialHandler; here it is the lines it logs.
`LoadProfiles` logs each profile that is read, if its file can be opened (`Files`),
and may throw at either. `LaunchFails` is `std::async` that throws; `Finish` is `wait` on all workers, or
the destructors of the futures, which wait as well, then those of the profiles.

**CommandLine** - one step per call of `getopt_long` and of the `switch` over
its result: `Ends` (-1), `Letter` (`-p`), `Long` (`--port`, abbreviations, `=`).
Arguments are sequences of pieces, so that options and texts are never taken
apart where nothing depends on it.

## 3. Runs

SerialHandler (`MCSerialHandler`):

| run | shows |
|---|---|
| `SerialHandler_crash` | with kills at every point, responses that fail and ports that do not open: `MutexOwner`; `CopyIsFresh` (no lost update); `OnlyCommitsMove` (a section is served differently only after an accepted write of that very section, and then as written - so neither stored defaults, nor rejected writes, nor saves move anything); `ServedIsAccepted` (what is served, even out of a file cut short, would be accepted back); `ExistsMeansOnDisk`; `MemoryIsOnDisk`; `SuccessIsStored`; `ImplementsConfigStore` (to its clients, every behavior is one of `ConfigStore`) |
| `SerialHandler_badDisk` | what is left of this when files cannot be opened, at the start or for saving, disks are full in the middle of a line, clients give up and the process is killed: `OnlyTornIsRefused` (of all that is served, only an assist level torn from 255 to 25 would not be accepted back), `ExistsMeansOnDisk` (a profile that exists is on disk; the converse is not so here), `OnlyCommitsMove` |
| `SerialHandler_frames` | requests in pieces, on undisturbed lines: `RequestsKeepTheirFrame` (no request is split, merged, lost or answered with another's type), `Answered` (every client gets its answer, while the ports compete for the mutex), `WheelIndexInRange` |
| `SerialHandler_noise` | a line that adds lost ends, damaged writes and unsupported requests, a client that retries: `OnlySentIsWritten` (no write that nobody sent), `WedgedForever` |
| `SerialHandler_diskfull`, `SerialHandler_wedged` | violations, see 7 |

ConfigTool (`MCConfigTool`):

| run | shows |
|---|---|
| `ConfigTool_edit` | every byte of every section set to every value: `WrittenIsReadBack` (accepted means served back byte for byte), `RejectionNamesEdit` (the status names the byte that was changed, and nothing unedited is refused), `OnlyTheWrittenSectionMoves`, `WheelIndexInRange`; and every byte of the packet of an unedited section damaged to every value: no damaged packet is taken for success with other content than was meant |
| `ConfigTool_lowbattery` | a violation, see 7 |

The parts around them:

| run | shows |
|---|---|
| `ProfileFile` | `NumbersSurvive` (what was added or stored as default is what is found, over saves, restarts and the text in between); `SavesAreCuts`; `TornFilesLoseTheirTail` (a file cut inside a line is refused or holds the first settings, the last one perhaps without its last digits, and nothing else); `ExistsMeansOnDisk` for the name that the profile has by now |
| `Serial` | `PortsAreOwned` (every open port has exactly one owner); `StreamIsKept` (bytes are neither lost, doubled nor reordered by any sequence of reads, flushes, moves and reconnects); `BeliefsStayTrue` (a listener that was told "connected" has this port open until it is told otherwise, unless it is replaced or its object fails to connect anew, which tell nobody) |
| `Main` | `ProfilesOutliveWorkers`; `LinesAreWhole` and `LogsAgree` (the file lacks only lines for which it could not be opened, and both have one order); `DumpsAreWhole`; `EveryPortIsServed` (a worker that was launched polls its port or has given it up) |
| `CommandLine` | `NoNullArgument`; `UsageIsUnderstood` (the forms that `usage` lists, in every order, mean what it says); `EveryLineEnds`; `TypeOK`, which bounds `optind` |

**Bounds.** Two ports: all workers run the same code and share only the mutex
and the profiles, so that the interference of others shows with one other; the
theorems are for any set of ports. `MaxSends` is the number of messages and
noise in a behavior, two or three: a write, a write of another port and a read
after them; a message that follows a bad one and a retry. `ReadSize = {1, 9}`
cuts requests after the command, and a throttle write of ten bytes before its
verification byte. The messages are one or two of each kind with bytes at the bounds
of their checks; the data is varied in ConfigTool instead, where all 256 values
of every byte are tried. Files at the start: none, the throttle section alone
(so that defaults and stored settings mix) and the shipped `config.el`. The run
with bad disks does not read the general section, whose save is the same code. Ports
are symmetric in the runs without liveness; `SerialHandler_frames`, which checks
`Answered`, uses no symmetry. In ConfigTool one byte is changed in a session,
by the tool or by the line.

ProfileFile: `MaxCalls = 4` calls of `add`, `find` and `save_as` in all, over any
number of starts: two changes, a save and what follows it. Two sections of two
keys are the least with which an order within and among sections shows; the
numbers have one and three digits, so that a cut may leave two, one or none.
Serial: three objects, as an assignment over a connected object that is then
moved on needs three; `MaxConnects = 3` and `MaxBytes = 2` allow a byte before
and after a reconnect; `ReadMax = 2` (8092 in the code) makes `ReadFile`
return less than there is. Main: two workers and main are three threads in the
log; `MaxRounds = 1` round of the poll loop each, `MaxRows = 2` rows per dump and
`MaxMisses = 1` log file that cannot be opened; both profiles have `Files`, so
that either is read or throws. With one round a worker still
contends for both mutexes with all the lines of the other one. CommandLine has
bounded lines instead: all of up to three arguments out of 22, all of up to four
options with their arguments out of 11.

**Fairness.** `LiveSpec` has weak fairness of every worker: it is a thread that
the system schedules, and every call in it returns (`ReadFile` has a timeout).
It has strong fairness of `Lock` for every worker: others take the mutex again
and again, but each of them waits in `ReadFile`, without the mutex, in between,
for up to 100 ms when nothing arrives, so that a waiting thread does get it. Nothing is assumed about clients or
the line. `Answered` is checked without faults, since a response that cannot be
written and a save that throws both leave the client without an answer.

Main has weak fairness of every thread: launched threads run, and output to the
file and the console returns. That `Launch` gives each worker its thread at once
is what the Windows runtime does; the standard would allow to defer it, and the
mutant `LaunchDeferred` shows that then only the first port is served.
CommandLine is sequential, and weak fairness says that it does not stop.

**Deadlock** is checked in all runs but those of ConfigTool and CommandLine,
whose sessions and lines end. Main ends, too, but names its ends in `AtEnd`, so
that threads that wait for each other are still found.

## 4. What is proved

A theorem holds for every value of the constants that satisfies the assumption
of its module, and the hypotheses that the tables name. Those are about the
environment: which faults happen, what clients send, what a file holds that was
there before the program. An assumption says what the constants are (messages are
byte strings, files hold settings) and that the config file's wheel index is in
range, as `build` has undefined behavior otherwise.

### PacketBuilder_proofs

Lemmas about the pure operators, for all profiles and payloads:

* what `find` and `add` leave is a profile (`TouchedType`, `AddingType`), and moves no
  section, or none but the one that is written (`ReadsMoveNothing`,
  `WritesMoveTheirSection`);
* what `parse` accepts, `build` serves (`ReadBack`): the two tables have the same
  names (`StepsMatch`), and what makes two settings of a byte and an index of a wheel
  is undone;
* `parse` refuses with the status of the first check that fails (`RefusedStatus`,
  `ChecksAgree`), and what is served of settings that pass could be written
  (`ServedPasses`);
* a request is one packet of its type that verifies (`RequestShape`); a change of one
  byte changes the sum (`SumMoves`, `VerifyMoves`). The sum is a fold, which the
  prover cannot do induction over: `SumsExist` takes the least set on which the
  fold would have no values, and has it contradict itself.

### SerialHandler_proofs

| theorem | property | if |
|---|---|---|
| `TypeCorrect` | `TypeOK` | |
| `MutualExclusion` | `MutexOwner` | |
| `CopiesStayFresh` | `CopyIsFresh` | |
| `WheelStaysInRange` | `WheelIndexInRange` | |
| `ExistenceIsTracked` | `ExistsMeansOnDisk` | |
| `BadPacketsStay` | `WedgedForever` | |
| `SectionsMoveByWrites` | `OnlyCommitsMove` | |
| `ServedCouldBeWritten` | `ServedIsAccepted` | `FilesPass`: the config file holds settings that could have been written; and disks are not full |
| `OnlyTornRefused` | `OnlyTornIsRefused` | `FilesPass` |
| `MemoryIsStored` | `MemoryIsOnDisk` | files can be opened for saving, disks are not full |
| `SuccessMeansStored` | `SuccessIsStored` | disks are not full |
| `RequestsAreTakenWhole` | `RequestsKeepTheirFrame` | `Undisturbed`: clients send whole requests and wait for the answer, lines add nothing; and `Unbroken`: no kills, no save that throws, no response that is lost |
| `WritesWereSent` | `OnlySentIsWritten` | `Undisturbed` |

The inductive invariant that all of them rest on is

    IInv == TypeOK /\ MutexOwner /\ CommitsAreFresh /\ WheelsInRange /\ FilesReadable /\ ExistsMeansOnDisk

* `MutexOwner` is inductive only with its other direction, that the owner is
  inside; all the rest leans on it, since it is why nobody else is between
  `Write` and `Commit`.
* `CommitsAreFresh` is `CopyIsFresh` with what it needs: at "commit" the request
  is a write with an *accepted* payload. Without that the copy's wheel could be
  anything, and `WheelsInRange` would not survive `Commit`.
* `WheelsInRange` is about the profile and the file: a kill puts the file, or a
  part of it that a save left, into the profile, and the default stands in for
  a line that was lost.
* `ExistsMeansOnDisk` needs the freshness of the copy, because `config = temp`
  assigns `exists_` too. That a profile on disk also exists is part of it where
  files can be opened at the start and disks are not full, and needs
  `FilesReadable`: a file with a bad line is there, and no profile has it.

`InitInv` and `NextInv` establish it, with a lemma per action or group of
actions. On top of it:

* `BadPacketsStay` rests on `WedgedExtended`: appending to a buffer that starts with
  a complete, failing packet leaves it one.
* `SectionsMoveByWrites` is a step property: `Changes` says which steps change a
  profile at all, and `ViewMoves` that of these only `Commit` moves a section, to
  what `ReadBack` says, and no other section.
* `ServedCouldBeWritten` needs more than what it says. Two settings, SMM and SMS, make
  up one byte, and two that no write could have stored may make up one that passes
  (SMM = 3 and SMS = 65 make 1). A save that is cut short then keeps the first and
  loses the second, and the default that stands in for it makes up a byte that
  fails. So the invariant `SettingsStayPassing` is about the settings, one by one,
  in memory and on disk; it is the reason why `FilesPass` is, too.
* `OnlyTornRefused` weakens it to `SettingsNearlyPassing`: a setting passes, or is an
  assist level of 25. A number without its last digits is smaller and not zero,
  and the ranges of the checks begin at 0 or 1 and have no gap that it could fall
  into but that of the assist levels, which are 0 to 9 or 255.
* `MemoryIsStored` adds `AllStored`: a profile that exists agrees with its file,
  except where the worker whose request concerns this profile is in `save`.
* `SuccessMeansStored` adds `AnswersAreTrue`: whoever is past the commit has a
  section that is served as in the request, and a response that says so. It does
  without `MemoryIsOnDisk`, since another port's save may have failed before: the
  file then lacks what memory has, until the next save.
* `RequestsAreTakenWhole` and `WritesWereSent` rest on `InFrame`: while a client
  waits, what is in the buffer and on the wire make up its request, or its
  request has been taken and nothing is left. When a process is killed or a response
  gets lost, a client may wait for an answer with nothing under way, which is
  where the first theorem ends and the second one does not.

### SerialHandlerRefinement_proofs

| theorem | property | if |
|---|---|---|
| `EmulatorIsConfigStore` | `ImplementsConfigStore` | `SoundFiles`: files can be opened, at the start and for saving, and disks are not full; `FilesPass` |

Initial states map to initial states (`InitMaps`), and `NextMaps` has a lemma for
every action that is not a stutter: `ReadMaps`, `WriteMaps`, `CommitMaps`,
`SaveMaps`, `ReplyMaps`, `KillMaps`. The invariant behind it is `IInv` with
`AllStored`, `AnswersAreTrue`, `SettingsStayPassing` and `DefaultsUntilSaved`: a
profile that is not on disk yet holds nothing but defaults, or is just being saved.
Without it a restart without a file, which is the crash of ConfigStore, would move
sections that nobody has written to.

### ConfigTool_proofs

| theorem | property | if |
|---|---|---|
| `WheelStaysInRange` | `WheelIndexInRange` | |
| `WritesReadBack` | `WrittenIsReadBack` | |
| `RejectionsNameTheEdit` | `RejectionNamesEdit` | `ConfigsPass`, and `TypeArrives` always |
| `WritesMoveTheirSectionOnly` | `OnlyTheWrittenSectionMoves` | `TypeArrives` always |

The run has the edits of two config files, none and `config.el`; these are about all. The
invariant is `InSession`: the tool has the section as it is served but for the byte
it edited, and what arrives is the request or has one byte changed. `DamageShows`
says that a packet with one changed byte that verifies as a request of the same
type is the one that was sent. `TypeArrives` excludes one thing, that the line turns
the type byte into another type: the sum is over as many bytes as the type
says, so that the beginning of the basic section (24 bytes) may verify as a
pedal section (11 bytes) if its bytes happen to sum up. With a config file of
ALC9 = 93 and nothing else, the damage of 82 to 83 does that (83 + 27 + 20 + 25 +
10 + ... + 90 is 93 modulo 256), and the emulator answers about a section that
nobody edited. `WrittenIsReadBack` holds even then.

### ProfileFile_proofs

| theorem | property |
|---|---|
| `FilesAreLines` | `TypeOK` |
| `NumbersComeBack` | `NumbersSurvive` |
| `EverySaveIsACut` | `SavesAreCuts` |
| `TornFilesStayShort` | `TornFilesLoseTheirTail` |
| `ExistingIsOnDisk` | `ExistsMeansOnDisk` |

for any names, files of users, numbers of a byte and number of calls. That lines and
characters are read one after the other is a fact about folds: `ReadingsExist` and
`ScansExist`, by a least length at which it fails, give `ReadsOneMore`, the only
thing that the rest uses. `NumberIsReadBack` has `std::to_string` undone by
`operator>>`. The invariant has `Saving` besides the properties: while `save_as`
runs, what is in the file reads as the settings that are no longer in `todo`, below
the section `head`; and `todo` are the last ones of the profile's settings, so that
what is written is one of the `Cuts` (`WrittenIsCut`). When the line under way is
torn, it is refused, or it is a setting whose text is cut: `CutText` says, going down
from the whole text, that every beginning reads as the number without its last
digits, and `LastIsShort` that this setting is the last one of its cut.

### Serial_proofs

| theorem | property |
|---|---|
| `TypeCorrect` | `TypeOK` |
| `PortsStayOwned` | `PortsAreOwned` |
| `StreamStaysKept` | `StreamIsKept` |
| `ListenersStayInformed` | `BeliefsStayTrue` |

for any number of objects, ports and bytes and any size of reads. The first
inductive invariant is `TypeOK /\ Owned`, where `Owned` is `PortsAreOwned` port by
port: a port is open just when some object has its handle, and no two have the same.
`TypeOK` is needed for a move: the object that takes the handle had none, since it
was not there. The actions are of three kinds: handles stay (`Event`, `Poll`, ...),
an object gives its handle up (`OwnedWithout`), and a handle goes to an object
that gives up its own (`OwnedElsewhere`).

`StreamIsKept` is not inductive, since it says nothing of the wire that `Poll` reads
from. `Streams` adds that what an object has received, followed by what is still to
come on its port, rises and has arrived (`Rising(Upcoming(o), arrived)`), and that
nothing waits on a closed port. `Poll` then leaves `Upcoming` as it is, a byte that
arrives is put behind it, and everything else cuts it to what has been received or
takes it to another object (`StreamsCarried`), where `Owned` says that nobody else
reads from the port that was closed. `BeliefsStayTrue` is a property of steps, with
`TypeOK` as their invariant: one lemma per group of actions says which listeners
stay informed (`NextInforms`).

### Main_proofs

| theorem | property |
|---|---|
| `TypeCorrect` | `TypeOK` |
| `ProfilesStay` | `ProfilesOutliveWorkers` |
| `LinesStayWhole` | `LinesAreWhole` |
| `LogsStayTogether` | `LogsAgree` |
| `DumpsStayWhole` | `DumpsAreWhole` |

for any number of workers, rounds, rows and files that cannot be opened. The
inductive invariant of the first three has one part for the log and one for the
life of the process. `Turns` says that who is inside `message` has its mutex and a
line to write; `Halves` that an output has an odd number of parts just when the
thread that writes there is in the middle of its line, and which part is the last
one: without it, nothing says whose header stands before a rest. `Phases` ties
where `main` is to the workers that can exist: none beyond `launched`, and only
those that are over at the exit. Every action of a thread either leaves the log
alone (`SilentInv`), puts lines into its own `say` while it is quiet (`SaysInv`), or
is a step of `message`.

`LogsAgree` needs that no line is there twice, which is nothing that the log itself
could know: it rests on where the threads are. `Told` says, for each thread, which
lines it can have logged or be about to log at that point of its program, so that the
ones it adds are new (`Once`). `Same` then says that file and console hold the same lines
but for the missed ones and for the one line under way, and `SameOrder` that they have
the same order; a line that is put at the end of both keeps it.

`DumpsAreWhole` needs both mutexes. `Holds` is that of serial_handler: who dumps
has it. `Dumping` says that what is left of a dump is its last rows, and that the
row before them is the last row on the console (`Follows`): others log lines in
between, but no rows, since those are said with the mutex held.

### CommandLine_proofs

| theorem | property |
|---|---|
| `StaysInArgv` | `TypeOK` |
| `StringsAreNotNull` | `NoNullArgument` |
| `UsageMeansWhatItSays` | `UsageIsUnderstood` |

for every command line, of any length. `Inside` adds that `main` returns
before it would ask for the rest of a group of letters, and that arguments of
options are strings unless `getopt` has said that they are missing.

`UsageIsUnderstood` compares with a reference over the whole line, and the invariant
says where `main` is in it: after each call of `getopt_long` there is an `n` such that
`optind` is behind what the first `n` options were written as, and ports, general and
config are what these options say (`Reached` in `Understood`). A step takes it from `n` to
`n + 1` (`ComesFurther`), because the option that is next is understood in each of its
forms (`LetterUnderstands`, `LongUnderstands`), and `getopt_long` does not end before
the last one (`EndsUnderstood`). What a line starts with is what its first options are
written as (`JoinedNext`): `FlattenSeq` is defined by recursion, so that this takes the
first place where it would not hold, as the sums above do. What is assumed of an
option is `IsItem`: it is one of `usage()` that has an argument, in a form that it can
have, and text that is attached to a letter is not empty. Its text
is any sequence of pieces, also one that starts with a dash or contains `=`.

### What is only model-checked

* Liveness, which is out of reach of the prover: `Answered`, `EveryPortIsServed`,
  `EveryLineEnds`.
* `OnlySentIsWritten` with noise and clients that give up (`SerialHandler_noise`).
  Its theorem is about undisturbed lines.
* The other properties are proved for what the run of the same name checks, or
  for more: `MemoryIsOnDisk`, `SuccessIsStored` and `ImplementsConfigStore` are checked
  under the faults for which their theorems are stated, and do not hold under the
  others, as section 7 shows for full disks. The damaged type byte is enumerated in
  `ConfigTool_edit` for the files there.


## 5. How to run

    tlc -config SerialHandler_crash.cfg MCSerialHandler      # and so on
    tlapm SerialHandler_proofs.tla                           # and so on

## 6. Mutants

An operator under a comment `Mutant:` is a plausible bug of the definition that
follows it (a missing lock_guard, a forgotten save, a flush in the exception
handler, a check that is off by one). PROJECT.json pairs each with a property
that fails with it.

## 7. Where the code disagrees with what is said about it

* **A full disk is answered with success** (`SerialHandler_diskfull`).
  `save_as` never looks at its stream; a restart serves defaults. If the disk ends
  inside a line, the restart serves a number without its last digits, or, if the
  line is bad, ends at once, as does every later one, until somebody mends the file.
* **One bad packet silences a port** (`SerialHandler_wedged`). It stays at the
  head of the buffer, every later input is appended behind it and fails with
  it, and the buffer grows. `WedgedForever` proves that only a restart helps.
* **The low battery check never fails** (`ConfigTool_lowbattery`): `> 55 && < 18`.
  The check of the pedal's work mode has the same form.

Five more remarks, which no run is about. The sum of 8 bits leaves out the command,
and reaches as far as the type says: a damaged type byte turns the beginning of a
longer section into a write of a shorter one, whose sum may happen to be right
(see `TypeArrives` in section 4). `em3ev.el` has `DA=10` for the throttle
while `parse` accepts 0..9 and 255, so that the section which is served from it is
rejected when it is written back unchanged; an assist level of 255 that a full disk
made 25 is the same (`OnlyTornIsRefused`). A settings file that is there but
cannot be opened when the process starts is taken for none, and replaced by
defaults with the first save. A `connect` over an open port closes it first, and when the
new one cannot be opened, throws without calling `disconnected_`: its listener still
believes in the port that is closed (`BeliefsStayTrue`); serial_handler connects
once, so that it does not meet this. `usage()` names four ports, `-p` may be repeated
for more.

## 8. What is not modelled

* Values in hand edited files that are undefined in the code: a wheel index
  outside 0..15, a number too large for its type (in ProfileFile, texts hold a number
  of at most nine digits, or none, which goes beyond any value of a setting); blanks
  and signs before a number, which `operator>>` accepts and no setting is saved with;
  and `build(general)`, which copies four bytes out of a string that may be shorter.
* The text of log lines: dates, source lines, and rows of `binary`, which are
  passed as a format (a byte 37 in them is undefined). Lines that a handler logs
  between its request and its response. The log file grows with every timeout of
  every port; nothing bounds it.
* A console or a disk that blocks its writer for good, with the mutex of the log
  and of the profiles held: output is assumed to return.
* `param` and `write` of serial change nothing of the object; that they may throw
  is in SerialHandler and Main. A `ReadFile` that fails leaves everything as it
  is, after which `poll` is called again. Responses are sent whole or not at all.
* `profile::compare` changes nothing and is used by unit tests only.
* What getopt prints on errors, and what `main` does not use of it: `optreset`,
  optional arguments, flags.
* The unit tests and googletest.

## 9. Plan

Done: Packet, Profile, PacketBuilder, ConfigTool, SerialHandler, ConfigStore and
the refinement, ProfileFile, Serial, Trace, Main and CommandLine, and the theorems
of section 4. Each safety property that holds has a theorem, two of them for a part of
what is checked:

1. `OnlySentIsWritten` with noise, where the buffer may hold anything and a write
   is only known to be a message or noise.
2. `MemoryIsOnDisk`'s part that is left when saves may fail.
