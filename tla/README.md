# A TLA+ development of Comedilib

Comedilib is the user-space library of the Comedi data-acquisition drivers: a
program opens a device file, the library asks the driver what the device is
made of, and from then on every call is a check of its arguments, one or a few
`ioctl`s, and a translation of what came back. This directory holds TLA+
modules translated from the sources of the library, of its C++ binding and of
its programs, TLC configurations that check them on small instances, and TLAPS
proofs about the parts where a small instance is not enough. Paths below are
relative to the repository's `src/` (`lib/` is `src/lib/`).

## 1. Inventory

### 1.1 The library

| component | state | operations | interacts with |
|---|---|---|---|
| device handle, `lib/comedi.c`, `lib/filler.c` | `comedi_t`: file, `devinfo`, array of subdevices, each with optional per-channel lists (flags, maxdata, range types, range tables) | `comedi_open`, `comedi_close`, thin wrappers of one ioctl each, `comedi_set_read_subdevice` and its twin | everything else reads the handle; `cmd.c` hangs `cmd_mask` under a subdevice |
| subdevice information, `lib/get.c` | none; reads the handle | getters | handle |
| streaming buffer, `lib/buffer.c` | none; the kernel keeps a ring, two offsets, two 32-bit byte counters, a size and a maximum | contents, mark read, mark written, offsets, counts, sizes | the streaming loops of the demos, which see the ring through `mmap` or `read` and `write` |
| command preparation, `lib/cmd.c` | `cmd_mask` and `cmd_mask_errno` of each subdevice | `comedi_get_cmd_src_mask`, `comedi_get_cmd_generic_timed` | driver's COMEDI_CMDTEST; all threads share the handle |
| digital I/O, `lib/dio.c` | none | read, write, configure a channel; `comedi_dio_bitfield2` | driver; other programs that write the same subdevice |
| analog I/O, `lib/data.c` | none | read, read n in chunks of 100, delayed read, write, hint | driver, by COMEDI_INSN or the older COMEDI_TRIG |
| slowly-varying inputs, `lib/sv.c`; timed helpers, `lib/timed.c` | `comedi_sv_t` | averaging measurement that collects short transfers; a block at a fixed rate | driver, ranges |
| ranges and conversion, `lib/range.c`; timers, `lib/timer.c` | out-of-range behaviour (one global) | to and from physical units, `comedi_find_range`; periods of hardware timers | handle |
| instruction wrappers, `lib/insn_config_wrappers.c` | none | one or two INSN_CONFIG each | driver |
| calibration, `lib/calib.c`, `lib/calib_yacc.y`, `lib/calib_lex.l` | parsed file: an array of settings | parse, apply, converters, clean up | analog I/O writes the calibration DACs |
| error reporting, `lib/error.c`, `lib/ioctl.c` | thread-local `comedi_errno`, log level | `comedi_errno`, `comedi_perror`, argument validators | every call |
| SCXI, `scxi/scxi.c` | module handle; the chassis' selected slot | open, register read and write | digital I/O and the serial subdevice |
| C++ binding, `c++/include/comedilib.hpp` | objects that share C structures | a method for each C function, which throws | library |

### 1.2 The programs

The demos are where the library's streaming protocol is written down as code:
`demo/mmap.c` (input through the mapping), `demo/ao_mmap.c` (output through it), and
`cmd.c`, `tut3.c`, `select.c`, `poll.c`, `sigio.c`, `ext_trig.c`, `ledclock.c`,
`gpct_buffered_counting.c`, `ao_waveform.c` and `do_waveform.c` (by `read` and
`write`). `sender.c` and `receiver.c` are the two ends of a serial link over digital
lines. The counter demos are sequences of configuring calls. `comedi_config`
attaches boards and resizes buffers, `comedi_board_info` and `demo/info.c` print all
that a handle knows. The programs under `testing/` exercise drivers.

### 1.3 What is hard, and what would make it right

* **Failure in the middle of building.** `comedi_open` interleaves allocations
  and ioctls over nested loops, and the calibration parser builds its settings
  element by element; cleanups decide by different criteria (pointers that are
  non-NULL; flags) what to free. Right means: at each point what is live is
  exactly what may be dereferenced now or freed later.
* **Two parties on one ring.** The device moves between any two statements of a
  streaming loop; counters wrap; deliveries and reads end inside a sample or a
  scan; writes are cut; the loop keeps its own idea of where it is. Right means:
  the program sees every sample once, whole, in order and in its column, and an
  output never plays what was not put there.
* **Threads on one handle.** `comedi_errno` is thread-local, so threads are
  expected; `cmd_mask`, `devinfo` and the out-of-range behaviour are plain memory.
  Right means, at least: what one thread leaves behind is right for the next.
* **Stages.** A command is adjusted by the driver over several tests. Right means:
  what the caller is given passes unchanged, at the rate asked for.
* **Calls that are several ioctls, programs that are several calls.**
  `comedi_dio_bitfield2` without INSN_BITS, chunked and delayed reads, SCXI
  transfers, the configuration of a counter, `comedi_config`: others act in between
  and any step fails. Right means: the answer is one the device could have given,
  what was done is a first part of what was asked, and nothing an earlier use left
  is taken for one's own.
* **Short transfers.** COMEDI_TRIG may give fewer samples than asked for; `read` and
  `write` may be cut. Right means: the pieces make up the whole.
* **Loops over what the driver says** must terminate.

The individual places are the `hazards` of `PROJECT.json`, each with the properties
that watch it.

## 2. Modules

| module | models | composes |
|---|---|---|
| `ComediHandle` | open, describe, close | - |
| `DeviceSurvey` | what the handle says: content and probes, getters, the programs that ask for all of it | - |
| `CppBinding` | objects of the C++ binding | - |
| `ComediBuffer` | `lib/buffer.c` over the kernel's ring | - |
| `BufferSizes` | the sizes of buffers, and `testing/bufconfig.c` | - |
| `ComediConfig` | `comedi_config` | EXTENDS `BufferSizes` |
| `SampleStream` | abstract: what streaming input promises | - |
| `MmapReader` | the loop of `demo/mmap.c` | EXTENDS `ComediBuffer`, implements `SampleStream` |
| `ReadStream` | the programs that acquire by `read` | EXTENDS `ComediBuffer`, implements `SampleStream` |
| `MmapWriter` | `demo/ao_mmap.c` from `comedi_command` on | EXTENDS `ComediBuffer` |
| `WriteStream` | the programs that output by `write` | EXTENDS `ComediBuffer` |
| `ComediCmd` | `lib/cmd.c`, any number of threads | - |
| `StreamSubdevice` | which subdevice the file streams, and the handle's copy of that | - |
| `DataInsn` | `lib/data.c` | - |
| `SlowVoltage` | `lib/sv.c`, `lib/timed.c` | - |
| `Conversion` | `lib/range.c`, `lib/timer.c` | - |
| `CalibFile` | calibration files: parsed, applied, looked up | - |
| `DioBitfield` | `comedi_dio_bitfield2` both ways, with `comedi_dio_read` and `_write` | - |
| `InsnConfig` | the configuring instructions | - |
| `CounterDemos` | the programs that set up counters | EXTENDS `InsnConfig` |
| `Scxi` | registers of an SCXI chassis | - |
| `BitLink` | `demo/sender.c` to `demo/receiver.c` | - |
| `ComediBuffer_proofs` | theorems about any program over the buffer | EXTENDS `ComediBuffer` |
| `MmapReader_proofs` | theorems about the mapped loop alone | EXTENDS `MmapReader` and `ComediBuffer_proofs` |
| `ComediHandle_proofs` | theorems about the handle, the C++ objects and the survey | EXTENDS `MCComediHandle` |
| `StreamInput_proofs`, `StreamOutput_proofs` | theorems about all the streaming programs | EXTEND `MCStreamInput` and `MmapReader_proofs`; `MCStreamOutput` and `ComediBuffer_proofs` |
| `ComediCmd_proofs`, `Calls_proofs`, `Analog_proofs` | theorems about `ComediCmd`; about the parts of `MCCalls`; about those of `MCAnalog` | EXTEND the `MC` module |
| `MC...` | instances for TLC | EXTEND or INSTANCE the modules they run |

A definition introduced by a comment "A slip:" is not part of a specification. It
is the definition after it with a plausible mistake in it; substituting it must
break the property it is listed with under `mutants` in `PROJECT.json`, which
shows that the property depends on that piece of the code.

### 2.1 ComediHandle

A step is one allocation or one ioctl with its success and its failure, in the
order of the code; `pc` names where `_comedi_open`, `_comedi_get_subdevices` or
`_comedi_get_rangeinfo` is, `cur` and `chan` are the two loop counters, `info` what
COMEDI_SUBDINFO answered. `heap` is the set of live objects, each named by its
kind, its subdevice and its channel; since a pointer is set exactly when its
object is made, it also says which pointers are non-NULL. `orphans` collects what
a cleanup missed. The three ways to free are sets of objects
(`FreedByGetSubdevices`, `FreedByOpen`, `FreedByClose`), read off the cleanup code.
`GetCmdSrcMask` is only the allocation of `cmd.c`, here because `comedi_close` has
to free it. Names copied from devinfo are left out; what the lists contain and the
probes for commands and INSN_BITS, which allocate nothing, are in `DeviceSurvey`.

`HeapIsDue` says what must be live at each point, derived from the control state
alone and so independently of the cleanup code: what is missing would be
dereferenced, what is too much is never found again. `LossesAreKnown` says that
cleanups lose nothing but two kinds of object; `FailedOpenFreesAll`, which the
comment at `comedi.c:81-84` implies, fails for one of the two (section 5).

### 2.2 ComediBuffer, MmapReader, MmapWriter, SampleStream

The kernel's half is external. It is modelled from what `lib/buffer.c` and the
demos use of it: a ring of `Size` bytes, a read and a write offset, two counters
modulo `CountMod` (2^32 in the code), a status that becomes `overflow` or `underflow`
when the device finds no room or no data, after which a call may fail with EPIPE.
Bytes are numbered in the order they enter the stream and the ring holds those
numbers, so that a property can say *which* byte is where. `written` and `read`
count without wrapping and exist for the properties only. On its own the module
has an arbitrary program, that marks any number of bytes at any time.

`MmapReader` replaces that program by the statements of the loop in `demo/mmap.c`:
`Poll` is `comedi_get_buffer_contents` with the arithmetic on `front` and `back`,
`PrintSample` one iteration of the inner loop reading through the mapping, `Mark`
the call of `comedi_mark_buffer_read`. The device's step interleaves with each.
`SampleStream` is the promise (samples appear whole, in order, none before it was
produced); `StreamSpec` is the refinement, with `produced` mapped to the bytes
delivered and `out` to what was printed.

`MmapWriter` does the same for `demo/ao_mmap.c`. A waveform of exactly one buffer
is stored, marked and triggered; then only marking continues. The content is
abstracted to the position in the period, which is all `PlaysPeriod` compares.

### 2.3 ReadStream, WriteStream

Eight programs acquire by `read`. They have one outline (choose or write out a
command, test it, make its subdevice the one `read` reaches, start, read until the
stream ends) and differ in four ways, which are the fields of a program record:
where the command comes from, which failures it insists on, how it waits (in the
read, in `select`, polling the card, for SIGIO) and how it prints. The card keeps
what it acquired in a fifo until it interrupts or is polled; then the driver moves it
into the ring of `ComediBuffer`. `chunk` is what the last read brought and `col` the
column of the next sample. The module implements `SampleStream` as `MmapReader` does.
`WriteStream` has the preload, the trigger and the feeding of three programs;
`gen` counts bytes generated and `left` those of the chunk not yet written, so that a
write cut in the middle is visible as what the device plays next.

### 2.4 BufferSizes, ComediConfig

COMEDI_BUFCONFIG is external: sizes in whole pages, up to a maximum only root may set,
refused while busy or out of memory (`refused`). The four functions of `lib/buffer.c`
are operators on top of it; the actions named `Test...` are the one test whose purpose
is to put back what it found. `ComediConfig` starts from a parsed command line and takes
the steps of `main` one call at a time, each with its failure: the option list, the
initialization files laid end to end in one block with their lengths in four option
words, COMEDI_DEVCONFIG, and then the sizes for streams and for single subdevices.

### 2.5 DeviceSurvey

The content `comedi_open` copies, including which per-channel lists exist, and the
answers of its two probes, each of which may fail and then counts as "no". The
getters are operators that follow the code's own tests, which are not the same: a
flag (`comedi_range_is_chan_specific`), a pointer (`comedi_get_range`,
`comedi_maxdata_is_chan_specific`) or the length of another table. The two programs
walk over everything with them; a NULL read through is the state "crashed".

### 2.6 ComediCmd

A step is one access to the shared subdevice record or one ioctl, since other
threads get in between: test of `cmd_mask_errno`, test of `cmd_mask`, allocation
and publication, probe, remembering its failure, copy. The masks ever allocated are
kept in `content`, with `mask` the one the handle names, because a racing thread
probes its own mask and copies from the handle's. A copy made while the driver
stores its answer into the same structure is a data race, modelled as any mixture
of old and new fields (`Seen`). The rest of `__generic_timed` works on local data
and is one step, `Timed`. `Cmdtest` is external: five kinds of answer following the
stages documented for `comedi_command_test`, for a driver with a set of sources, a
shortest period and a clock tick.

### 2.7 StreamSubdevice, DioBitfield

`current` is the kernel's state of the open file, `devinfo` the handle's copy; the
test that skips the ioctl, the ioctl and the store are separate steps. The kernel
accepts only a subdevice that can stream that way.

For `DioBitfield` an `unsigned int` is the set of its one bits; `Width` bits instead of
32. A line is high by its latch when it is an output and by the world (`pin`) when it
is an input. Between two channels of the fallback somebody may write a latch or a
line may change. `shown` collects the levels each channel had during the call, so
that `ReadsSeen` can say that a bit read is a level that was there. The order in the
code, `*bits` updated first and the error looked at second, with `bit` uninitialized
on the first pass, is kept in `ReadBit`.

### 2.8 DataInsn, SlowVoltage, Conversion

In `DataInsn` the device has one multiplexer that other processes switch between any
two ioctls; a conversion is its number, its channel and for how long that channel
had been selected. Both transports are there: COMEDI_INSN and INSNLIST, and
COMEDI_TRIG, which passes long samples as two halves in the order of the machine.
Either may give fewer samples than asked for (for instructions
`doc/funcref.txt:155-158` says so), and a list may stop after any of its instructions
and answer how many were completed (`doc/funcref.txt:171-175`); the three of a delayed
read are select, wait and convert. On a driver without COMEDI_INSN `comedi_do_insn` is a
list of one instruction that answers what was asked for (`do_insn`). `SlowVoltage`
collects pieces: `taken` is what the driver handed out, `val` where the code put it,
and the mean is kept as the sequence it is the mean of. Its subdevice has short or
long samples. `comedi_sv_measure` tells them apart and `comedi_timed_1chan` does not:
there `val` is the byte of the stream at which what the code takes for a sample begins. In
`Conversion` physical values are fractions; rounding of doubles is left out. The array functions take one element a step, and another thread
may change the out-of-range behaviour between any two. A timer function keeps nothing
and is one step; `Halvings` is where its loop stops.

### 2.9 CalibFile

A file is the sequence of the elements the grammar reduces; the actions of
`calib_yacc.y` are the actions here, with the parser's own state (`caldac`, `poly`,
`index`) that is carried from one element to the next, and every allocation failing
or not. `live` counts heap objects and `Reached` those that can still be found: the
objects of settings are a set (`Objects`), each named by its setting and its field.
What a file *means* is told without the parser, from the positions of its elements
(`Meaning`, `File`): which setting an element is in, which coefficients came since the
last polynomial, which origin or DAC field was given last.
`comedi_apply_parsed_calibration` is a walk over settings and their DACs with one
`comedi_data_write` per step; the converters are a search. Lexing is abstracted to
which element comes next.

### 2.10 InsnConfig, CounterDemos

A wrapper lays its arguments out as the words of an instruction and reads results
from them; the driver is a table of settings keyed by kind, channel and index, `set`,
which other processes also write. `CounterDemos` is each program as a list of calls, of
which some must succeed (`must`) and of others the answer is not looked at, over a
driver that may hold what an earlier use left.

### 2.11 Scxi, BitLink, CppBinding

`Scxi` unfolds a call into its transfers (`todo`); what a transfer does depends on the
lines SS and D/A and on who is selected, which is all the state of a chassis. An entry
says how many of the following are skipped when it fails. `BitLink` joins the two
programs by the two wires: a list of three instructions that set a line per bit (its
waits change nothing), each of which may fail, a conversion at the falling edge, reads
that cut the stream anywhere, a sample printed at a time, and a timeout of `select`
that ends a row.
`CppBinding` keeps every C structure there was with whether it is live, who shares it,
and which a running method uses; methods are grouped by what they do with the answer
of their C function.

## 3. Runs

A run puts together modules that share a device or a buffer. Its MC module has a
variable `by` that says which program or component a behaviour is about; the state of
the others rests. Each property of a run is the conjunction of the named parts the
component modules state; a part is listed here after the property.

| run | instance | shows |
|---|---|---|
| `handle` | `by` "C": 2 subdevices, each any of 5 shapes, every call failing or not | `HeapIsDue`, `LossesAreKnown`, and that `comedi_open` returns (`OpenReturns`) |
| | "C++": a device, two subdevices, a calibration, two structures | `ObjectsValid` (`LivesWhileShared`, `IndexInDevice`), `ThrowsAlone` (`ThrowsWhenFailedStep`, `ThrowChangesNothingStep`) |
| | "survey": 2 subdevices of 7 kinds, 4 kernels | `SurveyTells` (also `ProbesSafe`) |
| | "config", "sizes": 3 subdevices of which 2 stream, 16 command lines, 6 pairs of sizes | `ConfiguredAsAsked` (`FirmwareWhole`, `FailsInPlace`, `TestRestores`) |
| `stream_input` | 2 samples of 2 bytes, counters modulo 7, 14 bytes; `by` "mmap", or "read" with eight programs, 3 columns, reads and a fifo of 4 bytes | `StreamSpec` for all; `ReaderInStep`, `MarkedInFull` for the mapped loop; `PrintsItsStream` (`ReadsItsCommand`, `ColumnIsChannel`, `EndsComplete`); `AllPrintedInTheEnd` (`AllPrinted`, `AllRead`), `Ends` |
| `stream_output` | 4 bytes, counters modulo 6, 14 bytes; `by` "mmap", "write" with chunks of 2, 3 and 5, or "any" program on the bare buffer, both directions | `ContentsExact`, `UnreadIntact`; `PlaysStream` (`PlaysPeriod`, `StartsFilled`); `KeepsPlaying` (`Refilled`, `TestEnds`) |
| `cmd` | one thread, 7 drivers, 0 to 3 channels, 5 periods, a probe that may fail; or two threads, 2 drivers | `SupportedAlone` (`MaskSupported` of one thread), `MasksTrue` (`MaskCovers`, `SettledMask`, `FewMasksLost`), `TimedUsable`, `RateKept` |
| `calls` | `by` "config": 2 channels, 3 routes, 2 calls; "demo": 3 channels, 2 periods, 5 high times; "dio": 3 channels, 2-bit integers, 4 kinds of subdevice; "stream": 5 subdevices; "scxi": modules of class 1, 2, 2, one failure; "link": one byte in rows of 3 | `AnswersTrue` (`AnswerTellsEffect`, `GetsBack`, `RoutesListed`), `CountersAsMeant` (`ConfiguredAsMeant`, `ArmedConfigured`, `NothingLeftOver`, `PulseAsAsked`), `BitfieldExact` (`WritesExactly`, `ReadsSeen`, `AgreesWithInsnBits`, `FailureStops`), `CopyIsCurrent`, `RightRegister` (also `LostNotStray`, `Released`), `BitsArrive` (also `RowsFull`) |
| `analog` | `by` "insn": 2 channels, chunks of 2, up to 3 samples; "slow": up to 3 samples, short or long; "convert": arrays of 2, 8 ranges, 13 values, 16 periods; "calib": files of up to 6 elements in 5 vocabularies | `SamplesArrive` (`ReadsInOrder`, `FailureKeepsChunks`, `DelayedSettled`), `WriteArrives`, `MeasuresAll` (`AveragesAll`, `BlockIsStream`, `BufferFreed`), `Returns`, `Converted` (`ArrayConverted`, `NearestCode`, `NarrowestCover`, `TimerClose`), `ParsedAsWritten` (also `NothingLost`), `CalibrationFits` (`AppliedInOrder`, `ConverterFits`) |
| `handle_leak`, `mmap_writer_errno`, `cmd_wrap`, `dio_readback`, `routes_null`, `sampl_from_phys` | as the runs above (`mmap_writer_errno`: `MmapWriter` alone; `cmd_wrap`: one thread, two periods) | one disagreement each, section 5 |

The runs `handle`, `stream_input`, `stream_output`, `cmd`, `calls` and `analog` also check
one type invariant each.

**Bounds.** Two subdevices make an earlier one that is complete, and a current one at
any stage; the shapes are those that change the control flow, with up to two channels so
that the inner loop repeats. The kinds of the survey include lists without channels and
channels whose ranges differ in number. In the buffers `CountMod` is no multiple of
`Size`, as offsets and counters must not wrap together by accident, and `Total` is
enough for each counter to wrap twice and each offset three times. With 3 columns and
samples of 2 bytes no scan fits the buffer or a read, so that reads end inside scans;
the driver moves whole samples, but to the mapped loop bytes come in any number, and it
may find half a sample. The chunks 2, 3 and 5 of the output divide the buffer, straddle
its end, and exceed it. In `analog` three samples take a full chunk and a rest; 5
vocabularies of calibration elements make every order of elements, repeated and missing
ones included, without files that mix unrelated features; `Ticks` holds both sides of
each limit of a prescaler. Periods of 0 ticks, for which the code divides by 0, are left
out, and whether the scale that `acl8112_timer` finds fits the hardware's field is not asked. `Width` 2, three channels and base channels 0, 2 and 3 let
the width, then the number of channels limit the loop, and base 3 is out of range. One
failure in a chassis is the most `LostNotStray` speaks of. The drivers of `MCComediCmd`
cover every alternative of `__generic_timed`: scans started by their own timer, back to
back, or at each conversion; no usable start source; limits and clock ticks that force
each stage of adjustment. `UIntMod` is 64, far above every period but the one of
`cmd_wrap`. The command lines of `comedi_config` have options up to and past the last
word, files of which the first, a middle one or the last are missing, and sizes for
streams that coincide with sizes for single subdevices. At most one interference per
call bounds `DioBitfield` and `InsnConfig`.

**Deadlock** is checked in `cmd`. In the others a program that has left its loop or a
device that has delivered its `Total` has nothing more to do, and a behaviour that is
about one component stops with it; that loops are left is what the liveness
properties say.

**Fairness.** `ComediHandle`: WF of the steps inside `comedi_open`, a function that runs
to its return once called and blocks only in ioctls that answer. `MmapReader`,
`ReadStream` and `MmapWriter`: WF of the program's step; the loops sleep and poll but
leave only as their code says. `SlowVoltage`: WF of the step of the call that is in
progress. In these nothing is assumed of the device, of other threads, or of a
program that might call the library: `AllPrinted`, `Refilled`, `Returns` and `Ends` follow
from the program's progress alone. `WriteStream` writes to a file in blocking mode, and
a blocked write goes on only when the device takes bytes; WF of `Take`, once the
command is triggered, is the timer that drives an output.

**Threads.** `MaskSupported` and `CopyIsCurrent` are checked with one thread. They
do not hold with two: the mask is published filled with TRIG_ANY before it is probed
(`cmd.c:73-75`), and the ioctl and the copy in `comedi_set_read_subdevice` are two
steps (`comedi.c:246-248`). The library's documentation does not promise otherwise.
`MasksTrue` states what remains.

**What properties leave out.** `ReadsInOrder` allows a zero where the driver gave no
sample, and `DelayedSettled` an answer of 1 or 2 with one; `BlockIsStream` asks for the
whole stream of short samples only; `WriteArrives` excepts the answer of a list of one
instruction; `PulseAsAsked` excepts a high time longer than the period; `Ends` speaks of a broken stream only for programs that
look at an error other than EAGAIN; `BufferFreed` excepts a failed read of
`comedi_timed_1chan`; `Returns` excepts a trigger that failed and a read that ended
inside a sample; `TestEnds` excepts a buffer that is a multiple of the chunk;
`LostNotStray` excepts the transfer that raises D/A; `ThrowsWhenFailedStep` excepts
`do_insnlist`; `NothingLeftOver` excepts `gpct_encoder.c`. Each is what the code does and
is explained in section 5.

## 4. Proofs

TLAPS proves the following for all values of the constants that satisfy the named
assumptions of the modules. Where a run puts components together, the theorem is about
the specification of that run (`HandleSpec`, `InputSpec`, `OutputSpec`, `CmdSpec`,
`CallsSpec`, `AnalogSpec`) and names the very property the run checks; the part of the
property that is about another component is untouched by the step and comes for nothing.
`HeapAccounting` and `Losses`, the theorems of `ComediBuffer_proofs` and `MmapReader_proofs`,
and those of `ComediCmd_proofs` but the last are about the component's own specification.

| module | theorem | states |
|---|---|---|
| `ComediHandle_proofs` | `HeapAccounting`, `Losses` | `HeapIsDue` with `TypeOK`; `LossesAreKnown` |
| | `StructuresShared`, `ThrowsInVain` | `ObjectsValid`; `ThrowsAlone` |
| | `SurveyComplete` | `SurveyTells` |
| `ComediBuffer_proofs` | `BufferSafe` | `BufferTypeOK`, `ContentsExact`, `UnreadIntact` for an arbitrary program |
| `MmapReader_proofs` | `InStep`, `Granted`, `Implements` | `ReaderInStep`; `MarkedInFull`; `StreamSpec` of the mapped loop |
| `StreamInput_proofs` | `InputTypes`, `PrintsStream`, `AllImplement` | `InputTypeOK`; `PrintsItsStream`; `StreamSpec` of every input program |
| `StreamOutput_proofs` | `OutputTypes`, `OutputContents`, `OutputIntact`, `OutputPlays` | `OutputTypeOK`; `ContentsExact`; `UnreadIntact`; `PlaysStream` |
| `ComediCmd_proofs` | `CmdTypes`, `MasksAreTrue`, `TimedIsUsable`, `RateIsKept`, `SupportedWhenAlone` | `TypeOK`; `MasksTrue`; `TimedUsable`; `RateKept`; `SupportedAlone` |
| `Calls_proofs` | `BitfieldExactness`, `CopyCurrent` | `BitfieldExact`; `CopyIsCurrent` |
| | `AnswersAreTrue`, `CountersConfigured` | `AnswersTrue`; `CountersAsMeant` |
| | `RegistersRight`, `MessageArrives`, `CallsTypes` | `RightRegister`; `BitsArrive`; `CallsTypeOK` |
| `Analog_proofs` | `SamplesInOrder`, `WritesWhole`, `MeansComplete` | `SamplesArrive`; `WriteArrives`; `MeasuresAll` |
| | `ConvertedClose` | `Converted` |
| | `ParsedRight`, `CalibrationFit` | `ParsedAsWritten`; `CalibrationFits` |
| | `AnalogTypes` | `AnalogTypeOK` |

Three theorems have a hypothesis besides. `RateIsKept` has `NoWrap`, that `period + len / 2` is
below `UIntMod` for all the periods and lengths asked for: exactly the sum that wraps in
`cmd_wrap`, where the property fails, and true of the constants of `cmd`. `CopyCurrent` has
`OneThread`, which is how `calls` is instantiated and without which it is false (section 3).
`CountersConfigured` has `PeriodsFit`: the sum of a period or up time and half a clock period,
by which the pulse generator rounds, stays below `UIntMod`. That sum is one of unsigned
ints in the code, so a period within half a tick of 2^32 ns does wrap. It is true of the
constants of `calls`.

**Assumptions on constants.** `CountMod > Size`: the condition under which a difference of two
wrapping counters is the number of unread bytes, which Comedi's buffers meet at 2^32, a
width no run could reach. The buffer is a whole number of samples, as pages are of
samples of 2 or 4 bytes. Threads are finitely many (`FewMasksLost` counts them). A
driver has a shortest period and a tick as `DevicesAssumption` says. The classes of C++
objects are disjoint, and "none" is no object. A described subdevice has the fields
`comedi_open` reads, each of its type (`SurveyParameters`). The numbers `Conversion` works
on are integers, and a range is not empty. The coefficients of a calibration file are
fractions of integers and an element for a DAC gives some of its three fields; a board's DAC
is a subdevice and a channel; the limits of a file's size are positive (`CalibFile`'s
`Parameters`).

### 4.1 The handle

`HeapIsDue` is not inductive: it says what is live in terms of `pc`, `cur` and `chan`,
and does not say that inside the loop body `cur` is a used subdevice, that `chan` is
within its ranges while one is being read, or that it is 0 outside. `IInv` adds those
(`Counters`, with `TypeOK` and `LoopInv`). Preservation has one lemma for each of the
parts of `HeapIsDue` (`NoneKeptStep`, `ScratchThereStep`, `ListsThereStep`,
`RangeinfoListsThereStep`, `RangesThereStep`), each with one step per action. `Losses`
then follows because an object in the heap is due (`NoneKept`), and what is due at a
failing step is in the set its cleanup frees, save for `rangeinfo_list` and the masks of
unused subdevices (`FailLoses`, `CloseLoses`).

`LivesWhileShared` needs to know, besides the types, that a structure is held only by
objects of its class (`ClassesHold`), that the temporary of a running method is nobody
else's (`TempAlone`), and that a method that has not begun has no answer (`Unanswered`);
with `IndexInDevice` that is `CppInv`. What all operations share is in three lemmas: an object
lets go of its structure (`AfterRelease`), takes a new one (`NewTaken`) or one that is
already shared (`ShareTaken`).

For the survey `SurveyInv` describes what has been told so far. `Handle` says that the array
of subdevices is that of the driver up to where `comedi_open` has got, and `LinesTold` that
the lines of finished subdevices are complete and those of the current one are what
comes before the current channel and range (`Upto`). `GettersTell` is the core: although
each getter asks a different question (a flag, a pointer, the length of another table),
each answers what the driver has.

### 4.2 The buffer and the streams

The conjunction of the buffer's three invariants is inductive. The lemmas about bytes
entering and leaving (`EnterKeeps`, `LeaveKeeps`, and their parts about order alone,
`EnterInOrder` and `LeaveInOrder`) carry the arithmetic: an unread byte is not among the next
`n` slots from the write offset, and moving the read offset by `n` shifts the distance of
every byte that remains by `n`. Ring positions and counters are reduced by one
conditional subtraction instead of `%`, equal to it on the ranges concerned and within
reach of the SMT solver. Each program is shown to make only steps of the arbitrary program
of `ComediBuffer` (`LoopIsAProgram`, `WriterCalls`, `PlayerCalls`, `ReadBuffer`), so
`BufferStep` is proved once.

For the mapped reader, `RInv` adds to the buffer's invariant and `ReaderInStep` that the
position is a multiple of the sample size, so that a sample never straddles the end
of the mapping (`SampleFits`), and that the samples printed make up the bytes read
plus those in hand (`Printed`). `NextSample` is the core: at each iteration the bytes at
the position are the next sample of the stream. Products with the symbolic sample size
are beyond linear arithmetic; a few small lemmas (`DivMod` to `Monotone`) state what is
needed of them.

For the programs that `read`, `ReadInv` has four parts: a command that the last test passed
is complete and on the file's own subdevice (`SetupInv`); fifo, written and read are whole
samples (`CardInv`); the samples printed and those of the last read make up the bytes read
(`OutInv`), which is the refinement's invariant and gives the column; and whoever waits in
`select` finds at the read what `select` promised (`EndInv`). For output, `PeriodInv` relates
`filled`, the offsets and the ring, and `FeedInv` says that what entered the buffer is what
was generated less what is `left` of the cut chunk. Both then give what the device plays
(`PeriodPlays`, `FeedPlays`).

### 4.3 Calls

`CmdInv` holds for any number of racing threads. What makes it inductive is what masks are
between publication and the end of the probe: every mask ever made covers the driver's
sources, the half-made ones with TRIG_ANY (`Covering`); the handle's mask is the driver's
unless a thread is still probing it or about to remember its failure (`Settling`); and
each mask has a thread that made it and made no other (`Owned`). `AloneInv` adds that a lone
thread past its test of `cmd_mask_errno` finds no failure remembered. `TimedUsable` and
`RateKept` are arithmetic on the driver's clock: a period put on the grid of ticks stays
there when tested again (`GridIsStable`, `TestedPasses`), and rounding a scan to
conversions costs at most half of one (`NearestQuotient`, `RateOf`).

`BitfieldInv` says of the loop of `comedi_dio_bitfield2` what is done for the channels passed
and not for those ahead, for latches (`LoopWrites`), for the bits (`LoopKeeps`, `LoopSees`,
`LoopAgrees`) and for where the loop may be at all (`LoopPlace`, which carries the check
of channels). `CopyInv` says that between ioctl and store the two sides differ only in the one
being stored.

`InsnInv` has what was asked for as the sum of what is read and what is left, read in whole
chunks (`Portions`), and up to there the order of conversions, with gaps only at the ends of
chunks and zeroes in them (`InFront`), nothing beyond (`Behind`), and what the answer of
`comedi_data_read` tells so far (`Told`). `SvInv` has the array allocated exactly
inside a call (`SvPhase`), what was collected as what the driver handed out (`Collected`), and
two bytes of the stream, in order, for each sample counted (`BlockSoFar`). Of short samples
that is the stream: once half a sample is lost there is always one too few, which is
why a block returned as read is complete. Of long ones at least half is left.

`ConvInv` has every element of an array done as far as the loop is, at the behaviour seen
when the call began, and `find_range` with the narrowest of the ranges passed. Its core is
arithmetic: a quotient rounded to the nearest lies within half (`RoundedNearest`), so that
a code taken to physical units and back is itself (`CodeBack`). How a timer halves a
divider is an induction: `LeastNat`, a property of numbers that some number has has a least
one that has it, gives that halving ends (`HalvingEnds`) and that powers of two are what their
recursion says (`Powers`), and by `HalvedClose` the setting found is the closest.

For calibration files the obvious definitions, folds over the file, are out of the
prover's reach. So `CalibFile` says what a file means by its positions, and the proof is
about what one more element changes. An element belongs to the setting that is open
(`Open`), so the meaning of every other is as it was, and that of the open one changes in
one field (`MeaningMore`, on top of `PickMore`, which appends to a sequence picked out by a
set of positions). `FileRead`, that what the parser has is what was read so far, is kept by each of its
actions (the lemmas `Reads...`). Objects are counted as a set (`Owned`): an element that
makes one adds one (`ReachedIs`, `ChangeCounts`), and inverting polynomials adds one for each
setting it fills in (`FillCounts`).

While a calibration is applied the board is `BoardAfter(p)`, where `p` is the last DAC
passed (`Halfway`); the walk over settings and their DACs goes through the elements of
the file in order (`WalksOn`, `WritesOn`), so that the latest one wins. A converter that is
an inverse is right because a polynomial of two coefficients is a line
(`LinearIs`) and going there and back ends where it began (`ThereAndBack`).

`Kinds` adds to the types of these parts what the type invariants alone do not give, such as
how many conversions there can have been when a call ends.

`AnswersTrue` follows from `ConfigInv`: where a call is (`Placed`), that a setting is made of
words (`Clean`), and that the call answered last is in the driver's table as long as nobody
came between (`Kept`). `comedi_set_other_source`, which issues its instruction twice, is the
case with two steps. The core is `KindsSet` and its consequences: two instructions that
set the same kind lay it out in the same way, so that the getter finds what the setter
put.

`CountersInv` follows a demo through its list: each setting insisted on so far is in
place (`Made`), and where the counter is reset first, all there is after the reset is the
demo's own (`Own`). A later call could undo an earlier one if it made the same
setting; that it does not is shown by `PlaceOf`, which finds from a key the one place in the
program where it is made (`AtPlace`). What the registers then hold is arithmetic on division
(`Quotient`, `TicksNear`, `PulseTicks`).

`ScxiInv` first describes what is left of a call as the rest of its plan (`ScxiPlaced`), so that
the state of the lines can be told from the place alone. Without a failure that is
`Untroubled`, from which the chassis is free after a call. `Strayed` is what one failed transfer
leaves: for each place in the plan, either D/A still marks the transfer as data, or the
slot is not yet selected, or it is the call's own; a failure to raise D/A is excluded, after
which nothing can be said (`stuck`, which is what the property says too).

`LinkInv` adds to the property where the clock is in each part of a list (`LinkLines`). It
may be high between lists only after a failed one, and then the sample of its bit is still
to come, at the next falling edge, whichever list it is of: that is why a failure costs a
bit at most. The rows are full because what is printed of a read never passes
the end of a row without a line end.

`TypesInv` adds to the types whose channels a setting is of and how far a demo is. For the
stream state the type is not inductive as it stands once there is more than one thread:
a thread stores into the handle a subdevice it has chosen long before, and what makes
it a subdevice is that the kernel has accepted a command there since (`StreamTypes`).

### 4.4 Only model-checked

* Liveness: `OpenReturns`, `AllPrintedInTheEnd`, `Ends`, `KeepsPlaying`, `Returns`. The prover
  does not do ENABLED.
* `ConfiguredAsAsked` and the part of `HandleTypeOK` about `ComediConfig`: the options and the
  size of the firmware are folds over a list, and what these compute for every input needs
  induction over data. The other parts of `HandleTypeOK` are proved on the way
  (`HeapAccounting`, `CppInv`, `SurveyInv`).

## 5. Disagreements found

Each of the first six is a run of its own.

* `handle_leak`: `comedi.c:81-84` relies on `_comedi_get_subdevices` to have cleaned up;
  it frees the elements of `rangeinfo_list` (`filler.c:183-187`) and not the array.
* `cmd_wrap`: `scan_period_ns + chanlist_len / 2` (`cmd.c:108`) wraps for the slowest
  requests, and the command comes out at the fastest rate.
* `mmap_writer_errno`: `comedi_get_buffer_contents` translates EPIPE to EBUF_OVR, "buffer
  overflow", also for an output that underflowed (`buffer.c:83`).
* `dio_readback`: `dio_funcref.txt:21-24` promises that each channel is read after the
  writing; the fallback reads only those it did not write (`dio.c:281-293`).
* `sampl_from_phys`: `range.c:198` compares with the minimum of the range where it means the
  maximum, so every value above the minimum becomes the largest code.
* `routes_null`: `extensions_funcref.txt:409-411` allows NULL for the list; with a count
  above 0 the routes are stored through it (`insn_config_wrappers.c:458`).

Seen while modelling, kept in the modules as the code has it, and not the subject of
a run of its own:

* Commands: a failed probe of trigger sources that is repeated sets `errno` and not
  `comedi_errno` (`cmd.c:49-52`); `comedi_get_cmd_generic_timed` returns -EINVAL for an
  empty channel list where `command_funcref.txt:229` says -1.
* Handle: `comedi_close` does not free the command mask of an unused subdevice
  (`comedi.c:104`), which `LossesAreKnown` names.
* Samples: an INSN_READ of which fewer samples come than were asked for, which
  `doc/funcref.txt:155-158` allows, passes in `comedi_data_read_n` for a whole chunk, with zeroes at
  its end and the answer 0 (`data.c:160-165`); a delayed read whose list stops after selecting
  or waiting answers 1 or 2, no error, and stores a zero (`data.c:223`); without COMEDI_INSN the
  answer of `comedi_data_read` and `comedi_data_write` is 1 whether or not a sample was moved.
  `comedi_timed_1chan` takes the samples of every subdevice for `sampl_t` (`timed.c:46`, `79-85`),
  where `sv.c:77` and `data.c:125` ask for SDF_LSAMPL: on a subdevice of long samples a block is
  halves of samples, and half of the stream at least is never read. `comedi_data_read_hint` asks for a read of 0 samples, for which
  nothing is done (`data.c:93`), so it never selects the channel; reads answer 0 with COMEDI_TRIG where the
  documentation says 1; `comedi_sv_measure` answers 0 and stores nothing when the driver
  gives no sample; `comedi_timed_1chan` leaks its array when a read fails
  (`timed.c:79-82`) and waits for samples that cannot come after a failed trigger;
  a period whose frequency is above a base clock divides by 0 (`timer.c:46`, `92`).
* Conversion: the two directions may be made from different settings of a calibration
  file.
* Calibration: a file without a driver or board name leads to `strcmp` of NULL; the
  structure is lost when the file cannot be opened (`calib_yacc.y:511-516`); the
  expansion origin and the fields of a DAC that are not given are those of the one
  before; `1e3` is lexed as a hexadecimal number.
* Streams: `select.c`, `poll.c`, `ext_trig.c` and `ledclock.c` call `select` again for ever
  after an error that is not EAGAIN (`select.c:139`); `sigio.c` installs its handler
  without SA_RESTART; `tut3.c` ignores that no command could be prepared; `cmd.c:113-121`
  converts every channel with the range and maximum of one; the write test preloads
  until a write is short and hangs when the buffer is a multiple of its chunk
  (`testing/cmd_1.c:205`).
* Link: a list of instructions that fails loses its bit; a pause splits a row.
* SCXI: `comedi_scxi_register_readwrite` answers 0 whatever failed; a failure to raise D/A
  leaves the slot selected and harms later calls.
* Counters: `comedi_set_other_source` issues its instruction twice; `gpct_encoder.c` goes on
  after a failed reset; the low time of `gpct_pulse_generator.c` wraps when the high
  time is longer than the period; `pwm.c` arms before period and duty cycle are set.
* C++: `device::do_insnlist` throws always (`comedilib.hpp:145-152`); reading 0 samples
  throws `out_of_range`; `subdevice::softcal_converter` (`comedilib.hpp:1017-1023`) alone does
  not ask for its device, so that it does not throw on a subdevice without one.
* `comedi_config`: sizes of 4 GiB and more wrap to 0 and are silently not set; a comma
  after the last option is a usage error; a size that is refused leaves the board
  attached and the earlier sizes set; with a removal, buffer options are ignored.
* `testing/bufconfig.c:125-141` leaves a buffer of one page, found empty, at its maximum.

## 6. Plan and what is not modelled

Done, in this order: `ComediHandle`, because the handle is under everything; the buffer
and the two mapped streams, where concurrency is; the calls with several steps
(`ComediCmd`, `StreamSubdevice`, `DioBitfield`); `CalibFile`; `DataInsn` and `SlowVoltage`;
`ReadStream` and `WriteStream`; `Scxi`; `Conversion`; `InsnConfig` and `CounterDemos`;
`BitLink`; `CppBinding`; `BufferSizes` and `ComediConfig`; `DeviceSurvey`.

What remains to be proved is in section 4.4. The way there would be the one taken in
`CalibFile`: the firmware's layout told by positions in the list of options instead of a
fold over it.

Not modelled:

* Printing, option parsing, message texts, log levels.
* The lexer and the tables of the grammar of calibration files: what they reduce to is
  the input of `CalibFile`.
* Rounding of doubles.
* `comedi_lock` and `comedi_unlock`, getters that copy one field (version, names), and
  `comedi_find_subdevice_by_type`: one ioctl or one loop without state.
* Demos that are straight sequences of two or three calls modelled elsewhere, and the
  tests of drivers; the Perl and SWIG bindings, which forward calls.
* Drivers and the kernel, which are not in this repository; what the library uses of
  them is external in `ComediBuffer`, `ComediCmd`, `DataInsn`, `InsnConfig`, `Scxi`, `BitLink` and
  `BufferSizes`.

## 7. How to run

    tlc -config MCComediHandle.cfg MCComediHandle
    tlapm ComediHandle_proofs.tla

`MCX_y.cfg` goes with module `MCX`. `calls` takes about two minutes and `analog` one; the
others take seconds.
