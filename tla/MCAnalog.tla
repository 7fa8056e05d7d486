------------------------------- MODULE MCAnalog -------------------------------
(***************************************************************************)
(* The calls that move samples one at a time or in small blocks, and those *)
(* that convert and calibrate them: DataInsn, SlowVoltage, Conversion and  *)
(* CalibFile, of which a behavior runs one.  They share no state but the   *)
(* device.                                                                 *)
(***************************************************************************)
EXTENDS Integers, Sequences

CONSTANTS Chans, MaxChunkSize, MaxN, Settling, Halves, BufSz,
          RangeSet, MaxDatas, Volts, Ticks, N,
          Themes, MaxElements, MaxArefs, MaxCoefs, Dacs, Queries, HardRanges

VARIABLES by, at, fn, n, ret,
          insn, insnlist, lsampl, bigEndian, mux, settle, conv, dac, chan, arg, value, count, buf,
          sv, fresh, data, val, heap, taken, trig, bytes,
          behavior, rng, maxdata, src, seen, i, oor, dest,
          pc, read, calib, caldac, poly, index, path, live, unfilled, query, pos, found, board, answer, got

D == INSTANCE DataInsn
S == INSTANCE SlowVoltage
C == INSTANCE Conversion
F == INSTANCE CalibFile

ASSUME AnalogAssumption == D!Parameters /\ S!Parameters /\ C!Parameters /\ F!Parameters

common == <<at, fn, n, ret>>
insnOnly == <<insn, insnlist, lsampl, bigEndian, mux, settle, conv, dac, chan, arg, value, count, buf>>
slowOnly == <<sv, fresh, data, val, heap, taken, trig, bytes>>
convertOnly == <<behavior, rng, maxdata, src, seen, i, oor, dest>>
calibOnly == <<pc, read, calib, caldac, poly, index, path, live, unfilled, query, pos, found, board, answer, got>>
analogVars == <<by, common, insnOnly, slowOnly, convertOnly, calibOnly>>

InsnIdle ==
  /\ insn = TRUE /\ insnlist = TRUE /\ lsampl = TRUE /\ bigEndian = FALSE
  /\ mux = (CHOOSE c \in Chans : TRUE) /\ settle = 0 /\ conv = 0 /\ dac = <<0, 0>>
  /\ chan = mux /\ arg = 0 /\ value = <<0, 0>> /\ count = 0 /\ buf = D!Unset
SlowIdle ==
  /\ sv = [subdevice |-> "short", chan |-> 0, maxdata |-> S!Maxdata(0), n |-> 0]
  /\ fresh = TRUE /\ S!Idle
ConvertIdle == behavior = TRUE /\ C!Idle

AnalogInit ==
  \/ by = "insn" /\ D!Init /\ SlowIdle /\ ConvertIdle /\ F!Init
  \/ by = "slow" /\ S!Init /\ InsnIdle /\ ConvertIdle /\ F!Init
  \/ by = "convert" /\ C!Init /\ InsnIdle /\ SlowIdle /\ F!Init
  \/ by = "calib" /\ F!Init /\ InsnIdle /\ SlowIdle /\ ConvertIdle

UsesInsn == by = "insn" /\ UNCHANGED <<by, slowOnly, convertOnly, calibOnly>>
UsesSlow == by = "slow" /\ UNCHANGED <<by, insnOnly, convertOnly, calibOnly>>
Converts == by = "convert" /\ UNCHANGED <<by, at, n, ret, insnOnly, slowOnly, calibOnly>>
Calibrates == by = "calib" /\ UNCHANGED <<by, common, insnOnly, slowOnly, convertOnly>>

AnalogNext ==
  \/ UsesInsn /\ D!Next
  \/ UsesSlow /\ S!Next
  \/ Converts /\ C!Next
  \/ Calibrates /\ F!Next

AnalogSpec == AnalogInit /\ [][AnalogNext]_analogVars /\ WF_analogVars(UsesSlow /\ S!CallStep)

MCRanges == {[min |-> a, max |-> b, unit |-> u] : a \in {-5, 0}, b \in {1, 5}, u \in {"V", "mA"}}
MCVolts == {<<v, 2>> : v \in {-11, -10, -9, -3, -1, 0, 1, 2, 3, 5, 9, 10, 11}}

-----------------------------------------------------------------------------
\* Files with DACs, with a selector each, and with polynomials.
El(k, v) == [k |-> k, v |-> v]
Fr(k, q) == [k |-> k, q |-> q]
Dac(g) == [k |-> "caldac", given |-> g]
CalEnd == [k |-> "end"]
DacA == Dac([subdevice |-> 5, channel |-> 0, value |-> 1])
DacB == Dac([channel |-> 1, value |-> 2])
DacV == Dac([value |-> 3])
MCThemes == {{El("channel", 1), DacA, DacV, CalEnd},
             {El("aref", 1), El("subdevice", 1), DacA, CalEnd},
             {El("range", 1), DacA, DacB, CalEnd},
             {Fr("coefficient", <<2, 1>>), Fr("origin", <<1, 1>>), [k |-> "to_phys"], [k |-> "from_phys"], CalEnd},
             {Fr("coefficient", <<0, 1>>), Fr("coefficient", <<-1, 1>>), El("channel", 1), [k |-> "to_phys"], CalEnd}}
MCDacs == {[subdevice |-> 5, channel |-> 0], [subdevice |-> 5, channel |-> 1]}
Asked(s, c, r, a) == [subd |-> s, chan |-> c, range |-> r, aref |-> a]
MCQueries == {Asked(0, 1, 1, 1), Asked(0, 0, 0, 0), Asked(1, 0, 0, 1)}
MCHardRanges == {[min |-> -5, max |-> 5, maxdata |-> 4], [min |-> 0, max |-> 3, maxdata |-> 0]}

-----------------------------------------------------------------------------
\* The properties of the four modules, where they run; each part is stated in
\* full in its module.  Every variable holds a value of its kind.
AnalogTypeOK ==
  /\ by \in {"insn", "slow", "convert", "calib"}
  /\ by = "insn" => D!TypeOK
  /\ by = "slow" => S!TypeOK
  /\ by = "convert" => C!TypeOK
  /\ by = "calib" => F!TypeOK

\* DataInsn: samples are stored in the order of conversion, but for those that
\* the driver did not give, and those before a failure stay; a delayed read
\* converts its channel after it settled.  A write that answers 1 has written
\* its value, but for what COMEDI_TRIG makes of one and what a list of one
\* instruction does not tell.
SamplesArrive ==
  by = "insn" => D!ReadsInOrder /\ D!FailureKeepsChunks /\ D!DelayedSettled
WriteArrives == [][by = "insn" => D!WriteArrivesStep]_analogVars

\* SlowVoltage: an average is over all of its samples, a block of short samples
\* is the stream and one of long samples is not, the buffer is freed, and every
\* call returns.
MeasuresAll == by = "slow" => S!AveragesAll /\ S!BlockIsStream /\ S!BufferFreed
Returns == by = "slow" => S!Returns

\* Conversion: an array is converted as each of its samples at one setting of
\* the behaviour, to the nearest code; the range found is the narrowest that
\* covers; the period of a timer is the closest it has.
Converted ==
  by = "convert" => C!ArrayConverted /\ C!NearestCode /\ C!NarrowestCover /\ C!TimerClose

\* funcref.txt:610-612, which does not hold.
TruncatesOnlyOutside == by = "convert" => C!TruncatesOnlyOutside

\* CalibFile: the parser's result is what the file says, and what it allocates
\* is freed or handed over; what is applied, and the converters found, are of
\* the settings that match the channel.
ParsedAsWritten == by = "calib" => F!ParsedAsWritten /\ F!NothingLost
CalibrationFits == by = "calib" => F!AppliedInOrder /\ F!ConverterFits
=============================================================================
