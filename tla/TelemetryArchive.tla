--------------------------- MODULE TelemetryArchive ---------------------------
(***************************************************************************)
(* The text archive of a recorded session: the encoder, the decoder that   *)
(* reads it line by line, and the two inspections of what was decoded,     *)
(* TelemetryArchive::inspect and SessionVerifier::verify.                  *)
(*                                                                         *)
(* A line is a record of its fields.  The program itself encodes sessions  *)
(* for their checksum; archives are stored and decoded by the users of the *)
(* class.  In between the archive is a file like any other: lines can be   *)
(* lost, doubled, exchanged, torn or added.  It keeps no checksum of       *)
(* itself, so a line changed into another well-formed one is outside what  *)
(* the decoder can notice, and outside this model.                         *)
(***************************************************************************)
EXTENDS Integers, FiniteSets, SequencesExt

CONSTANTS
  Channels,      \* TelemetryDictionary::channels, all of them required
  Samples,       \* samples a sensor can have: records of value, unit and valid
  SensorSets,    \* sets of channels a frame is recorded with
  MaxFrames,     \* bound: frames of the session
  MaxEdits       \* bound: accidents to the file

ASSUME ChannelsAssumption == IsFiniteSet(Channels) /\ SensorSets \subseteq SUBSET Channels
ASSUME BoundsAssumption == MaxFrames \in Nat /\ MaxEdits \in Nat

VARIABLES
  recorded,      \* the frames of the recorder
  written,       \* how many of them are encoded
  archive,       \* the lines of the file
  edits,         \* how many accidents it had
  exchanged,     \* whether lines were exchanged in one of them
  at,            \* the line getline returns next
  decoded,       \* frames decoded so far
  open,          \* the frame whose sensors are being read, if any
  verdict        \* what has become of the archive

file == <<archive, edits, exchanged>>
vars == <<recorded, written, file, at, decoded, open, verdict>>

------------------------------------------------------------------------------
Header == [kind |-> "header"]
Blank == [kind |-> "blank"]
Torn == [kind |-> "torn"]
Footer(n) == [kind |-> "END", count |-> n]

FrameLine(frame) ==
  [ kind |-> "FRAME", sequence |-> frame.sequence, simTime |-> frame.simTime,
    count |-> Cardinality(DOMAIN frame.sensors) ]

SensorLine(frame, name) ==
  [kind |-> "SENSOR", name |-> name, sample |-> frame.sensors[name]]

FrameLines(frame) ==
  LET names == SetToSeq(DOMAIN frame.sensors)
  IN  <<FrameLine(frame)>> \o [i \in DOMAIN names |-> SensorLine(frame, names[i])]

(* Values are written as text; a number that is not finite is not read.    *)
Legible(sample) == sample.value # "nan"

------------------------------------------------------------------------------
(* TelemetryArchive::inspect and the errors of SessionVerifier::verify;    *)
(* its warnings do not fail a session.                                     *)
Inspect(frames) ==
  [ frameCount |-> Len(frames),
    sequenceMonotonic |-> \A i \in 2..Len(frames) : frames[i].sequence > frames[i-1].sequence,
    timeMonotonic |-> \A i \in 2..Len(frames) : frames[i].simTime >= frames[i-1].simTime ]

Errors(frames) ==
  IF frames = <<>> THEN {<<"EMPTY_SESSION", 0>>}
  ELSE      {<<"SEQUENCE_ORDER", i>> : i \in
               {j \in 2..Len(frames) : frames[j].sequence <= frames[j-1].sequence}}
       \cup {<<"TIME_ORDER", i>> : i \in
               {j \in 2..Len(frames) : frames[j].simTime <= frames[j-1].simTime}}
       \cup UNION { {<<"MISSING_CHANNEL", i, c>> : c \in Channels \ DOMAIN frames[i].sensors} \cup
                    {<<"NONFINITE_VALUE", i, c>> : c \in
                       {d \in DOMAIN frames[i].sensors : frames[i].sensors[d].value = "nan"}} \cup
                    {<<"UNIT_MISMATCH", i, c>> : c \in
                       {d \in DOMAIN frames[i].sensors : frames[i].sensors[d].value # "nan"
                                                         /\ frames[i].sensors[d].unit # "own"}}
                    : i \in DOMAIN frames }

Passed(frames) == Errors(frames) = {}

------------------------------------------------------------------------------
Init ==
  /\ recorded = <<>> /\ written = 0
  /\ archive = <<>> /\ edits = 0 /\ exchanged = FALSE
  /\ at = 1 /\ decoded = <<>> /\ open = <<>>
  /\ verdict = "recording"

(* TelemetryRecorder::push, as the lab calls it.                           *)
Record ==
  /\ verdict = "recording" /\ Len(recorded) < MaxFrames
  /\ \E names \in SensorSets : \E sensors \in [names -> Samples] :
       recorded' = Append(recorded, [ sequence |-> Len(recorded) + 1,
                                      simTime |-> Len(recorded) + 1,
                                      sensors |-> sensors ])
  /\ UNCHANGED <<written, file, at, decoded, open, verdict>>

(* TelemetryArchive::encode, a frame at a time.                            *)
EncodeHeader ==
  /\ verdict = "recording" /\ verdict' = "encoding"
  /\ archive' = <<Header>>
  /\ UNCHANGED <<recorded, written, edits, exchanged, at, decoded, open>>

EncodeFrame ==
  /\ verdict = "encoding" /\ written < Len(recorded)
  /\ archive' = archive \o FrameLines(recorded[written + 1])
  /\ written' = written + 1
  /\ UNCHANGED <<recorded, edits, exchanged, at, decoded, open, verdict>>

EncodeFooterOfChannels ==
  /\ verdict = "encoding" /\ written = Len(recorded)
  /\ archive' = Append(archive, Footer(Cardinality(
                   UNION {DOMAIN recorded[i].sensors : i \in DOMAIN recorded})))
  /\ verdict' = "stored"
  /\ UNCHANGED <<recorded, written, edits, exchanged, at, decoded, open>>

EncodeFooter ==
  /\ verdict = "encoding" /\ written = Len(recorded)
  /\ archive' = Append(archive, Footer(Len(recorded)))
  /\ verdict' = "stored"
  /\ UNCHANGED <<recorded, written, edits, exchanged, at, decoded, open>>

(* An accident to the file: a line lost, torn, doubled, followed by a      *)
(* blank one or exchanged with the next, or the file cut short.            *)
Damage ==
  /\ verdict = "stored" /\ edits < MaxEdits
  /\ edits' = edits + 1
  /\ \E i \in DOMAIN archive :
       \/ /\ archive' \in { RemoveAt(archive, i),
                            ReplaceAt(archive, i, Torn),
                            InsertAt(archive, i, archive[i]),
                            InsertAt(archive, i + 1, Blank),
                            SubSeq(archive, 1, i) }
          /\ UNCHANGED exchanged
       \/ /\ i + 1 \in DOMAIN archive
          /\ archive' = [archive EXCEPT ![i] = archive[i + 1], ![i + 1] = archive[i]]
          /\ exchanged' = TRUE
  /\ UNCHANGED <<recorded, written, at, decoded, open, verdict>>

------------------------------------------------------------------------------
(* TelemetryArchive::decode, a line at a time.                             *)
reading == verdict = "reading" /\ at <= Len(archive)
line == archive[at]
malformed == /\ verdict' = "malformed"
             /\ UNCHANGED <<at, decoded, open>>

(* What can stand at this place of a well-formed archive.                  *)
Expected ==
  IF open = <<>> THEN line.kind \in {"blank", "END", "FRAME"}
  ELSE /\ line.kind = "SENSOR" /\ Legible(line.sample)
       /\ line.name \notin DOMAIN open[1].frame.sensors

DecodeBegin ==
  /\ verdict = "stored"
  /\ IF archive # <<>> /\ archive[1] = Header
     THEN verdict' = "reading" /\ at' = 2 /\ UNCHANGED <<decoded, open>>
     ELSE malformed
  /\ UNCHANGED <<recorded, written, file>>

DecodeBlankAgain ==
  /\ reading /\ open = <<>> /\ line = Blank
  /\ UNCHANGED vars

DecodeBlank ==
  /\ reading /\ open = <<>> /\ line = Blank
  /\ at' = at + 1
  /\ UNCHANGED <<recorded, written, file, decoded, open, verdict>>

DecodeFooterUncounted ==
  /\ reading /\ open = <<>> /\ line.kind = "END"
  /\ IF \A i \in at + 1..Len(archive) : archive[i] = Blank
     THEN verdict' = "accepted" /\ UNCHANGED <<at, decoded, open>>
     ELSE malformed
  /\ UNCHANGED <<recorded, written, file>>

DecodeFooter ==
  /\ reading /\ open = <<>> /\ line.kind = "END"
  /\ IF /\ line.count = Len(decoded)
        /\ \A i \in at + 1..Len(archive) : archive[i] = Blank
     THEN verdict' = "accepted" /\ UNCHANGED <<at, decoded, open>>
     ELSE malformed
  /\ UNCHANGED <<recorded, written, file>>

DecodeFrame ==
  /\ reading /\ open = <<>> /\ line.kind = "FRAME"
  /\ at' = at + 1
  /\ LET frame == [sequence |-> line.sequence, simTime |-> line.simTime, sensors |-> <<>>]
     IN  IF line.count = 0
         THEN decoded' = Append(decoded, frame) /\ UNCHANGED open
         ELSE open' = <<[frame |-> frame, left |-> line.count]>> /\ UNCHANGED decoded
  /\ UNCHANGED <<recorded, written, file, verdict>>

WithSensor(frame, name, sample) ==
  [ frame EXCEPT !.sensors =
      [c \in DOMAIN @ \cup {name} |-> IF c = name THEN sample ELSE @[c]] ]

DecodeSensorTwice ==
  /\ reading /\ open # <<>> /\ line.kind = "SENSOR"
  /\ Legible(line.sample)
  /\ at' = at + 1
  /\ LET frame == WithSensor(open[1].frame, line.name, line.sample)
     IN  IF open[1].left = 1
         THEN decoded' = Append(decoded, frame) /\ open' = <<>>
         ELSE open' = <<[frame |-> frame, left |-> open[1].left - 1]>> /\ UNCHANGED decoded
  /\ UNCHANGED <<recorded, written, file, verdict>>

DecodeSensor ==
  /\ reading /\ open # <<>> /\ Expected
  /\ at' = at + 1
  /\ LET frame == WithSensor(open[1].frame, line.name, line.sample)
     IN  IF open[1].left = 1
         THEN decoded' = Append(decoded, frame) /\ open' = <<>>
         ELSE open' = <<[frame |-> frame, left |-> open[1].left - 1]>> /\ UNCHANGED decoded
  /\ UNCHANGED <<recorded, written, file, verdict>>

(* Every other line, and the end of the file without a footer.             *)
DecodeRefuses ==
  /\ verdict = "reading"
  /\ ~(reading /\ Expected)
  /\ malformed
  /\ UNCHANGED <<recorded, written, file>>

Decode ==
  DecodeBlank \/ DecodeFooter \/ DecodeFrame \/ DecodeSensor \/ DecodeRefuses

Done == verdict \in {"accepted", "malformed"} /\ UNCHANGED vars

Next == Record \/ EncodeHeader \/ EncodeFrame \/ EncodeFooter \/ Damage \/ DecodeBegin \/ Decode \/ Done

(* decode is one loop of one call: once begun it goes on.                  *)
Spec == Init /\ [][Next]_vars /\ WF_vars(Decode)

------------------------------------------------------------------------------
Frame == [ sequence: 1..MaxFrames, simTime: 1..MaxFrames,
           sensors: UNION {[names -> Samples] : names \in SUBSET Channels} ]

Line ==
  {Header, Blank, Torn} \cup [kind : {"END"}, count : Nat]
    \cup [ kind : {"FRAME"}, sequence : 1..MaxFrames, simTime : 1..MaxFrames,
           count : 0..Cardinality(Channels) ]
    \cup [kind : {"SENSOR"}, name : Channels, sample : Samples]

TypeOK ==
  /\ recorded \in Seq(Frame) /\ decoded \in Seq(Frame)
  /\ written \in 0..Len(recorded)
  /\ archive \in Seq(Line)
  /\ edits \in 0..MaxEdits /\ exchanged \in BOOLEAN
  /\ at \in 1..Len(archive) + 1
  /\ open \in Seq([frame : Frame, left : 1..Cardinality(Channels)]) /\ Len(open) <= 1
  /\ verdict \in {"recording", "encoding", "stored", "reading", "accepted", "malformed"}

(* What the decoder accepts is the recorded session, or both inspections   *)
(* find fault with it: no accident to the file goes unnoticed.             *)
AcceptedIsSound ==
  verdict = "accepted" =>
    \/ decoded = recorded
    \/ ~Inspect(decoded).sequenceMonotonic /\ ~Passed(decoded)

DamageIsNoticed == edits <= 2 => AcceptedIsSound

(* However many lines were lost, torn, doubled or added, as long as none   *)
(* were exchanged.                                                         *)
LossIsNoticed == ~exchanged => AcceptedIsSound

(* Even if lines were exchanged, and however often: as many frames as were *)
(* recorded, in their order, at their times and as large as they were; at  *)
(* most a reading stands in another frame than it was taken in.            *)
ReadingsAtMostMove ==
  verdict = "accepted" =>
    \/ ~Inspect(decoded).sequenceMonotonic /\ ~Passed(decoded)
    \/ /\ Len(decoded) = Len(recorded)
       /\ \A k \in DOMAIN decoded :
            /\ FrameLine(decoded[k]) = FrameLine(recorded[k])
            /\ \A name \in DOMAIN decoded[k].sensors : \E i \in DOMAIN recorded :
                 /\ name \in DOMAIN recorded[i].sensors
                 /\ decoded[k].sensors[name] = recorded[i].sensors[name]

(* docs/STAGES_351_400.md:17: an archive to which nothing happened is read *)
(* back frame for frame, unless a value was not finite, and then refused.  *)
IntactArchiveIsRead ==
  edits = 0 =>
    /\ verdict = "accepted" => decoded = recorded
    /\ verdict = "malformed" =>
         \E i \in DOMAIN recorded : \E c \in DOMAIN recorded[i].sensors :
           ~Legible(recorded[i].sensors[c])

Size(frame) == Cardinality(DOMAIN frame.sensors)

(* The lines of a file after place p are the sensors of a frame, in some   *)
(* order.                                                                  *)
SensorsFollow(lines, p, frame) ==
  {lines[i] : i \in p + 1..p + Size(frame)} =
    {SensorLine(frame, name) : name \in DOMAIN frame.sensors}

Stands(lines, p, frame) ==
  /\ p + Size(frame) <= Len(lines)
  /\ lines[p] = FrameLine(frame)
  /\ SensorsFollow(lines, p, frame)

(* Every line of an archive that was accepted, however damaged, is the     *)
(* header, a line of one of the decoded frames, which stand there one      *)
(* after the other, the footer that counts them, or blank: nothing was     *)
(* skipped, merged or read twice.                                          *)
NothingIsSkipped ==
  verdict = "accepted" =>
    /\ archive[1] = Header
    /\ \E start \in [1..Len(decoded) -> 2..Len(archive)], end \in 2..Len(archive) :
         /\ archive[end] = Footer(Len(decoded))
         /\ \A k \in DOMAIN decoded :
              /\ Stands(archive, start[k], decoded[k])
              /\ start[k] + Size(decoded[k]) <
                   IF k = Len(decoded) THEN end ELSE start[k + 1]
         /\ \A i \in 2..Len(archive) :
              \/ archive[i] = Blank \/ i = end
              \/ \E k \in DOMAIN decoded : i \in start[k]..start[k] + Size(decoded[k])

(* Decoding ends with a verdict, whatever the file holds.                  *)
DecodingEnds == verdict = "reading" ~> verdict \in {"accepted", "malformed"}
==============================================================================
