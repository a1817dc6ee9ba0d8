------------------------ MODULE TelemetryArchiveProofs ------------------------
(***************************************************************************)
(* Theorems about TelemetryArchive, for every set of channels, samples and *)
(* frames and any number of accidents to the file.                         *)
(***************************************************************************)
EXTENDS TelemetryArchive, FiniteSetTheorems, FunctionTheorems, SequenceTheorems,
        WellFoundedInduction, TLAPS

USE ChannelsAssumption, BoundsAssumption

------------------------------------------------------------------------------
(* Frames and lines.                                                       *)

LEMMA FrameFields ==
  ASSUME NEW frame \in Frame
  PROVE  /\ frame = [ sequence |-> frame.sequence, simTime |-> frame.simTime,
                      sensors |-> frame.sensors ]
         /\ frame.sequence \in 1..MaxFrames /\ frame.simTime \in 1..MaxFrames
         /\ DOMAIN frame.sensors \subseteq Channels
         /\ frame.sensors \in [DOMAIN frame.sensors -> Samples]
         /\ IsFiniteSet(DOMAIN frame.sensors)
         /\ Size(frame) \in Nat /\ Size(frame) <= Cardinality(Channels)
<1>1. PICK names \in SUBSET Channels : frame.sensors \in [names -> Samples]
  BY DEF Frame
<1>2. DOMAIN frame.sensors = names
  BY <1>1
<1>3. IsFiniteSet(names) /\ Cardinality(names) <= Cardinality(Channels)
  BY FS_Subset
<1>4. Cardinality(names) \in Nat
  BY <1>3, FS_CardinalityType
<1>5. QED
  BY <1>1, <1>2, <1>3, <1>4 DEF Frame, Size

(* A line is of the sort that its kind says.                               *)
LEMMA LineKinds ==
  ASSUME NEW l \in Line
  PROVE  /\ l.kind \in {"header", "blank", "torn", "END", "FRAME", "SENSOR"}
         /\ l.kind = "blank" <=> l = Blank
         /\ l.kind = "END" => l.count \in Nat /\ l = Footer(l.count)
         /\ l.kind = "FRAME" =>
              /\ l.sequence \in 1..MaxFrames /\ l.simTime \in 1..MaxFrames
              /\ l.count \in 0..Cardinality(Channels)
              /\ l = [ kind |-> "FRAME", sequence |-> l.sequence, simTime |-> l.simTime,
                       count |-> l.count ]
         /\ l.kind = "SENSOR" =>
              /\ l.name \in Channels /\ l.sample \in Samples
              /\ l = [kind |-> "SENSOR", name |-> l.name, sample |-> l.sample]
BY DEF Line, Header, Blank, Torn, Footer

LEMMA LinesOfFrame ==
  ASSUME NEW frame \in Frame
  PROVE  /\ FrameLine(frame) \in Line
         /\ \A name \in DOMAIN frame.sensors : SensorLine(frame, name) \in Line
BY FrameFields, FS_CardinalityType DEF FrameLine, SensorLine, Line, Size

(* The encoder writes the line of a frame and then one for each sensor.    *)
LEMMA FrameIsEncoded ==
  ASSUME NEW frame \in Frame
  PROVE  /\ FrameLines(frame) \in Seq(Line)
         /\ Len(FrameLines(frame)) = Size(frame) + 1
         /\ FrameLines(frame)[1] = FrameLine(frame)
         /\ \E names \in [1..Size(frame) -> DOMAIN frame.sensors] :
              /\ \A i, j \in 1..Size(frame) : names[i] = names[j] => i = j
              /\ \A name \in DOMAIN frame.sensors : \E i \in 1..Size(frame) : names[i] = name
              /\ \A i \in 1..Size(frame) :
                   FrameLines(frame)[i + 1] = SensorLine(frame, names[i])
<1> DEFINE channels == DOMAIN frame.sensors
           n == Cardinality(channels)
           names == SetToSeq(channels)
           sensorLines == [i \in DOMAIN names |-> SensorLine(frame, names[i])]
<1>1. n \in Nat /\ n = Size(frame) /\ IsFiniteSet(channels)
  BY FrameFields DEF Size
<1>2. \E f \in Bijection(1..n, channels) : TRUE
  BY <1>1, FS_CardinalityType DEF ExistsBijection
<1>3. \E f \in [1..n -> channels] : IsInjective(f)
  BY <1>2 DEF Bijection, Injection
<1>4. names \in [1..n -> channels] /\ IsInjective(names)
  BY <1>3 DEF SetToSeq
<1> HIDE DEF names
<1>5. \A name \in channels : \E i \in 1..n : names[i] = name
  <2> DEFINE image == {names[i] : i \in 1..n}
  <2>1. names \in Bijection(1..n, image)
    <3>1. names \in [1..n -> image] /\ \A t \in image : \E i \in 1..n : names[i] = t
      BY <1>4
    <3>2. \A i, j \in 1..n : names[i] = names[j] => i = j
      BY <1>4 DEF IsInjective
    <3>3. QED
      BY <3>1, <3>2, Fun_IsBij
  <2>2. Cardinality(image) = n
    BY <1>1, <2>1, FS_CountingElements DEF ExistsBijection
  <2>3. image = channels
    BY <1>1, <1>4, <2>2, FS_Subset
  <2>4. QED
    BY <2>3
<1>6. sensorLines \in Seq(Line) /\ Len(sensorLines) = n
  <2>1. sensorLines \in [1..n -> Line]
    BY <1>4, LinesOfFrame
  <2>2. QED
    BY <1>1, <2>1, SeqDef
<1>7. <<FrameLine(frame)>> \in Seq(Line) /\ Len(<<FrameLine(frame)>>) = 1
  BY LinesOfFrame
<1>8. FrameLines(frame) = <<FrameLine(frame)>> \o sensorLines
  BY DEF FrameLines, names
<1> HIDE DEF sensorLines
<1>9. /\ FrameLines(frame) \in Seq(Line) /\ Len(FrameLines(frame)) = n + 1
       /\ \A i \in 1..n + 1 : FrameLines(frame)[i] =
            IF i <= 1 THEN <<FrameLine(frame)>>[i] ELSE sensorLines[i - 1]
  BY <1>1, <1>6, <1>7, <1>8, ConcatProperties
<1>10. ASSUME NEW i \in 1..n
       PROVE  FrameLines(frame)[i + 1] = SensorLine(frame, names[i])
  <2>1. i + 1 \in 1..n + 1 /\ ~(i + 1 <= 1) /\ (i + 1) - 1 = i
    BY <1>1
  <2>2. FrameLines(frame)[i + 1] = sensorLines[i]
    BY <1>9, <2>1
  <2>3. QED
    BY <1>4, <2>2 DEF sensorLines
<1>11. FrameLines(frame)[1] = FrameLine(frame)
  BY <1>1, <1>9
<1>12. \A i, j \in 1..n : names[i] = names[j] => i = j
  BY <1>4 DEF IsInjective
<1> HIDE DEF channels, n
<1>13. \E f \in [1..n -> channels] :
         /\ \A i, j \in 1..n : f[i] = f[j] => i = j
         /\ \A name \in channels : \E i \in 1..n : f[i] = name
         /\ \A i \in 1..n : FrameLines(frame)[i + 1] = SensorLine(frame, f[i])
  <2>1. names \in [1..n -> channels]
    BY <1>4
  <2> WITNESS names \in [1..n -> channels]
  <2>2. QED
    BY <1>5, <1>10, <1>12
<1>14. /\ FrameLines(frame) \in Seq(Line) /\ Len(FrameLines(frame)) = Size(frame) + 1
  BY <1>1, <1>9
<1>15. n = Size(frame) /\ channels = DOMAIN frame.sensors
  BY <1>1 DEF channels
<1>16. \E f \in [1..Size(frame) -> DOMAIN frame.sensors] :
         /\ \A i, j \in 1..Size(frame) : f[i] = f[j] => i = j
         /\ \A name \in DOMAIN frame.sensors : \E i \in 1..Size(frame) : f[i] = name
         /\ \A i \in 1..Size(frame) : FrameLines(frame)[i + 1] = SensorLine(frame, f[i])
  <2>1. PICK f \in [1..n -> channels] :
          /\ \A i, j \in 1..n : f[i] = f[j] => i = j
          /\ \A name \in channels : \E i \in 1..n : f[i] = name
          /\ \A i \in 1..n : FrameLines(frame)[i + 1] = SensorLine(frame, f[i])
    BY <1>13
  <2>2. f \in [1..Size(frame) -> DOMAIN frame.sensors]
    BY <1>15
  <2>3. /\ \A i, j \in 1..Size(frame) : f[i] = f[j] => i = j
        /\ \A name \in DOMAIN frame.sensors : \E i \in 1..Size(frame) : f[i] = name
        /\ \A i \in 1..Size(frame) : FrameLines(frame)[i + 1] = SensorLine(frame, f[i])
    BY <1>15, <2>1
  <2>4. QED
    BY <2>2, <2>3
<1>17. QED
  BY <1>11, <1>14, <1>16

------------------------------------------------------------------------------
(* What the accidents do to a file, line by line.                          *)

LEMMA Removed ==
  ASSUME NEW s \in Seq(Line), NEW i \in 1..Len(s)
  PROVE  /\ RemoveAt(s, i) \in Seq(Line) /\ Len(RemoveAt(s, i)) = Len(s) - 1
         /\ \A k \in 1..Len(s) - 1 : RemoveAt(s, i)[k] = s[IF k < i THEN k ELSE k + 1]
<1> DEFINE before == SubSeq(s, 1, i - 1)
           after == SubSeq(s, i + 1, Len(s))
<1>1. Len(s) \in Nat /\ i \in Int /\ i - 1 \in Int /\ i + 1 \in Int /\ Len(s) \in Int
  OBVIOUS
<1>2. \A k \in 1..Len(s) : s[k] \in Line
  BY ElementOfSeq
<1>3. /\ before \in Seq(Line) /\ Len(before) = i - 1
      /\ \A k \in 1..i - 1 : before[k] = s[k]
  BY <1>1, <1>2, SubSeqProperties
<1>4. /\ after \in Seq(Line) /\ Len(after) = Len(s) - i
      /\ \A k \in 1..Len(s) - i : after[k] = s[i + k]
  <2>1. /\ after \in Seq(Line)
        /\ Len(after) = IF i + 1 <= Len(s) THEN Len(s) - (i + 1) + 1 ELSE 0
        /\ \A k \in 1..Len(s) - (i + 1) + 1 : after[k] = s[(i + 1) + k - 1]
    BY <1>1, <1>2, SubSeqProperties
  <2>2. QED
    BY <1>1, <2>1
<1> HIDE DEF before, after
<1>5. RemoveAt(s, i) = before \o after
  BY DEF RemoveAt, before, after
<1>6. /\ before \o after \in Seq(Line) /\ Len(before \o after) = Len(s) - 1
      /\ \A k \in 1..Len(s) - 1 :
           (before \o after)[k] = IF k <= i - 1 THEN before[k] ELSE after[k - (i - 1)]
  <2>1. /\ before \o after \in Seq(Line) /\ Len(before \o after) = Len(before) + Len(after)
        /\ \A k \in 1..Len(before) + Len(after) :
             (before \o after)[k] = IF k <= Len(before) THEN before[k] ELSE after[k - Len(before)]
    BY <1>3, <1>4, ConcatProperties
  <2>2. Len(before) = i - 1 /\ Len(before) + Len(after) = Len(s) - 1
    BY <1>1, <1>3, <1>4
  <2>3. QED
    BY <2>1, <2>2
<1>7. ASSUME NEW k \in 1..Len(s) - 1
      PROVE  (before \o after)[k] = s[IF k < i THEN k ELSE k + 1]
  <2>1. CASE k < i
    BY <1>1, <1>3, <1>6, <2>1
  <2>2. CASE ~(k < i)
    <3>1. /\ (before \o after)[k] = after[k - (i - 1)]
          /\ k - (i - 1) \in 1..Len(s) - i /\ i + (k - (i - 1)) = k + 1
      BY <1>1, <1>6, <2>2
    <3>2. QED
      BY <1>4, <2>2, <3>1
  <2>3. QED
    BY <2>1, <2>2
<1>8. QED
  BY <1>5, <1>6, <1>7

LEMMA Inserted ==
  ASSUME NEW s \in Seq(Line), NEW i \in 1..Len(s) + 1, NEW l \in Line
  PROVE  /\ InsertAt(s, i, l) \in Seq(Line) /\ Len(InsertAt(s, i, l)) = Len(s) + 1
         /\ \A k \in 1..Len(s) + 1 :
              InsertAt(s, i, l)[k] = IF k < i THEN s[k] ELSE IF k = i THEN l ELSE s[k - 1]
<1> DEFINE before == SubSeq(s, 1, i - 1)
           after == SubSeq(s, i, Len(s))
           start == before \o <<l>>
<1>1. Len(s) \in Nat /\ i \in Int /\ i - 1 \in Int /\ Len(s) \in Int
  OBVIOUS
<1>2. \A k \in 1..Len(s) : s[k] \in Line
  BY ElementOfSeq
<1>3. /\ before \in Seq(Line) /\ Len(before) = i - 1
      /\ \A k \in 1..i - 1 : before[k] = s[k]
  BY <1>1, <1>2, SubSeqProperties
<1>4. /\ after \in Seq(Line) /\ Len(after) = Len(s) - i + 1
      /\ \A k \in 1..Len(s) - i + 1 : after[k] = s[i + k - 1]
  BY <1>1, <1>2, SubSeqProperties
<1>5. <<l>> \in Seq(Line) /\ Len(<<l>>) = 1 /\ <<l>>[1] = l
  OBVIOUS
<1> HIDE DEF before, after
<1>6. /\ start \in Seq(Line) /\ Len(start) = i
      /\ \A k \in 1..i : start[k] = IF k <= i - 1 THEN before[k] ELSE <<l>>[k - (i - 1)]
  BY <1>1, <1>3, <1>5, ConcatProperties
<1>7. InsertAt(s, i, l) = start \o after
  BY DEF InsertAt, before, after
<1> HIDE DEF start
<1>8. /\ start \o after \in Seq(Line) /\ Len(start \o after) = Len(s) + 1
      /\ \A k \in 1..Len(s) + 1 :
           (start \o after)[k] = IF k <= i THEN start[k] ELSE after[k - i]
  <2>1. /\ start \o after \in Seq(Line) /\ Len(start \o after) = Len(start) + Len(after)
        /\ \A k \in 1..Len(start) + Len(after) :
             (start \o after)[k] = IF k <= Len(start) THEN start[k] ELSE after[k - Len(start)]
    BY <1>4, <1>6, ConcatProperties
  <2>2. Len(start) = i /\ Len(start) + Len(after) = Len(s) + 1
    BY <1>1, <1>4, <1>6
  <2>3. QED
    BY <2>1, <2>2
<1>9. ASSUME NEW k \in 1..Len(s) + 1
      PROVE  (start \o after)[k] = IF k < i THEN s[k] ELSE IF k = i THEN l ELSE s[k - 1]
  <2>1. CASE k < i
    <3>1. k \in 1..i - 1 /\ k \in 1..i /\ k <= i /\ k <= i - 1
      BY <1>1, <2>1
    <3>2. (start \o after)[k] = start[k] /\ start[k] = before[k] /\ before[k] = s[k]
      BY <1>3, <1>6, <1>8, <3>1
    <3>3. QED
      BY <2>1, <3>2
  <2>2. CASE k = i
    <3>1. k \in 1..i /\ k <= i /\ ~(k <= i - 1) /\ k - (i - 1) = 1 /\ ~(k < i)
      BY <1>1, <2>2
    <3>2. (start \o after)[k] = start[k] /\ start[k] = <<l>>[1]
      BY <1>6, <1>8, <3>1
    <3>3. QED
      BY <1>5, <2>2, <3>1, <3>2
  <2>3. CASE k > i
    <3>1. (start \o after)[k] = after[k - i]
      BY <1>1, <1>8, <2>3
    <3>2. k - i \in 1..Len(s) - i + 1 /\ i + (k - i) - 1 = k - 1
      BY <1>1, <2>3
    <3>3. after[k - i] = s[k - 1]
      BY <1>4, <3>2
    <3>4. ~(k < i) /\ k # i
      BY <1>1, <2>3
    <3>5. QED
      BY <3>1, <3>3, <3>4
  <2>4. k < i \/ k = i \/ k > i
    BY <1>1
  <2>5. QED
    BY <2>1, <2>2, <2>3, <2>4
<1>10. QED
  BY <1>7, <1>8, <1>9

(* Of the lines of a file, each has its origin in a line of the old one.   *)
CameOf(new, old, origin) ==
  /\ origin \in [1..Len(new) -> 1..Len(old)]
  /\ \A i \in 1..Len(new) : new[i] \in {old[origin[i]], Blank, Torn}

NoneTwice(new, origin) == \A i, j \in 1..Len(new) : origin[i] = origin[j] => i = j

AllLeft(new, old, origin) ==
  \A i \in 1..Len(old) : \E j \in 1..Len(new) : origin[j] = i /\ new[j] = old[i]

(* An accident loses lines or doubles one, and keeps them in order, or it  *)
(* exchanges two that are next to each other.                              *)
LostOrDoubled(new, old, origin) ==
  /\ NoneTwice(new, origin) \/ AllLeft(new, old, origin)
  /\ \A i, j \in 1..Len(new) : i <= j => origin[i] <= origin[j]

Swapped(new, old, origin) ==
  /\ NoneTwice(new, origin) /\ AllLeft(new, old, origin)
  /\ \E x \in Nat : \A i, j \in 1..Len(new) :
       i < j => (i = x /\ j = x + 1) \/ origin[i] <= origin[j]

(* What is left are lines that were there, blank or torn ones, and unless  *)
(* two were exchanged they stand in the order they had.                    *)
LEMMA DamagedLines ==
  ASSUME TypeOK, Damage
  PROVE  /\ archive' \in Seq(Line)
         /\ exchanged' \in BOOLEAN
         /\ \E origin : /\ CameOf(archive', archive, origin)
                        /\ \/ exchanged' = exchanged /\ LostOrDoubled(archive', archive, origin)
                           \/ exchanged' = TRUE /\ Swapped(archive', archive, origin)
<1>1. /\ archive \in Seq(Line) /\ exchanged \in BOOLEAN
      /\ DOMAIN archive = 1..Len(archive) /\ Len(archive) \in Nat
      /\ \A k \in 1..Len(archive) : archive[k] \in Line
  BY LenProperties, ElementOfSeq DEF TypeOK
<1>2. Blank \in Line /\ Torn \in Line
  BY DEF Line
<1>3. PICK i \in 1..Len(archive) :
        \/ /\ archive' \in { RemoveAt(archive, i), ReplaceAt(archive, i, Torn),
                             InsertAt(archive, i, archive[i]),
                             InsertAt(archive, i + 1, Blank), SubSeq(archive, 1, i) }
           /\ UNCHANGED exchanged
        \/ /\ i + 1 \in 1..Len(archive)
           /\ archive' = [archive EXCEPT ![i] = archive[i + 1], ![i + 1] = archive[i]]
           /\ exchanged' = TRUE
  BY <1>1 DEF Damage
<1>4. CASE archive' = RemoveAt(archive, i) /\ UNCHANGED exchanged
  <2> DEFINE origin == [k \in 1..Len(archive) - 1 |-> IF k < i THEN k ELSE k + 1]
  <2>1. archive' \in Seq(Line) /\ Len(archive') = Len(archive) - 1
    BY <1>1, <1>4, Removed
  <2>2. origin \in [1..Len(archive') -> 1..Len(archive)]
    BY <1>1, <2>1
  <2>3. \A j, k \in 1..Len(archive') : j <= k => origin[j] <= origin[k]
    BY <1>1, <2>1
  <2>4. \A k \in 1..Len(archive') : archive'[k] = archive[origin[k]]
    BY <1>1, <1>4, <2>1, Removed
  <2>5. \A j, k \in 1..Len(archive') : origin[j] = origin[k] => j = k
    BY <1>1, <2>1
  <2> HIDE DEF origin
  <2>6. CameOf(archive', archive, origin) /\ LostOrDoubled(archive', archive, origin)
    BY <2>2, <2>3, <2>4, <2>5 DEF CameOf, LostOrDoubled, NoneTwice
  <2>7. QED
    BY <1>1, <1>4, <2>1, <2>6
<1>5. CASE archive' = ReplaceAt(archive, i, Torn) /\ UNCHANGED exchanged
  <2> DEFINE origin == [k \in 1..Len(archive) |-> k]
  <2>1. /\ archive' \in Seq(Line) /\ Len(archive') = Len(archive)
        /\ \A k \in 1..Len(archive) : archive'[k] = IF k = i THEN Torn ELSE archive[k]
    BY <1>1, <1>2, <1>5, ExceptSeq DEF ReplaceAt
  <2>2. /\ origin \in [1..Len(archive') -> 1..Len(archive)]
        /\ \A j, k \in 1..Len(archive') : j <= k => origin[j] <= origin[k]
        /\ \A k \in 1..Len(archive') : archive'[k] \in {archive[origin[k]], Blank, Torn}
    BY <1>1, <2>1
  <2>3. \A j, k \in 1..Len(archive') : origin[j] = origin[k] => j = k
    BY <1>1, <2>1
  <2> HIDE DEF origin
  <2>4. CameOf(archive', archive, origin) /\ LostOrDoubled(archive', archive, origin)
    BY <2>2, <2>3 DEF CameOf, LostOrDoubled, NoneTwice
  <2>5. QED
    BY <1>1, <1>5, <2>1, <2>4
<1>6. ASSUME NEW p \in {i, i + 1}, NEW l \in {archive[i], Blank},
             archive' = InsertAt(archive, p, l), UNCHANGED exchanged
      PROVE  /\ archive' \in Seq(Line)
             /\ \E origin : /\ CameOf(archive', archive, origin)
                            /\ LostOrDoubled(archive', archive, origin)
  <2> DEFINE origin == [k \in 1..Len(archive) + 1 |-> IF k <= i THEN k ELSE k - 1]
  <2>1. p \in 1..Len(archive) + 1 /\ l \in Line
    BY <1>1, <1>2
  <2>2. /\ archive' \in Seq(Line) /\ Len(archive') = Len(archive) + 1
        /\ \A k \in 1..Len(archive) + 1 : archive'[k] =
             IF k < p THEN archive[k] ELSE IF k = p THEN l ELSE archive[k - 1]
    <3> DEFINE longer == InsertAt(archive, p, l)
    <3> HIDE DEF longer
    <3>1. /\ longer \in Seq(Line) /\ Len(longer) = Len(archive) + 1
          /\ \A k \in 1..Len(archive) + 1 : longer[k] =
               IF k < p THEN archive[k] ELSE IF k = p THEN l ELSE archive[k - 1]
      <4>1. archive \in Seq(Line)
        BY <1>1
      <4>2. QED
        BY <2>1, <4>1, Inserted DEF longer
    <3>2. archive' = longer
      BY <1>6 DEF longer
    <3>3. QED
      BY <3>1, <3>2
  <2>3. origin \in [1..Len(archive') -> 1..Len(archive)]
    BY <1>1, <2>2
  <2>4. \A j, k \in 1..Len(archive') : j <= k => origin[j] <= origin[k]
    BY <1>1, <2>2
  <2>5. ASSUME NEW k \in 1..Len(archive')
        PROVE  archive'[k] \in {archive[origin[k]], Blank, Torn}
    <3>1. k \in Int /\ i \in Int
      BY <1>1, <2>2
    <3>2. CASE k < p
      BY <2>2, <3>1, <3>2
    <3>3. CASE k = p
      BY <2>2, <3>1, <3>3
    <3>4. CASE k > p
      BY <2>2, <3>1, <3>4
    <3>5. QED
      BY <2>1, <3>1, <3>2, <3>3, <3>4
  <2>6. ASSUME NEW y \in 1..Len(archive)
        PROVE  \E x \in 1..Len(archive') : origin[x] = y /\ archive'[x] = archive[y]
    <3>1. y \in Int /\ i \in Int /\ p \in Int
      BY <1>1, <2>1
    <3>2. CASE y < p
      <4>1. y \in 1..Len(archive') /\ y <= i
        BY <1>1, <2>2, <3>1, <3>2
      <4>2. origin[y] = y /\ archive'[y] = archive[y]
        BY <1>1, <2>2, <3>2, <4>1
      <4>3. QED
        BY <4>1, <4>2
    <3>3. CASE ~(y < p)
      <4>1. y + 1 \in 1..Len(archive') /\ ~(y + 1 <= i) /\ ~(y + 1 < p) /\ y + 1 # p /\ (y + 1) - 1 = y
        BY <1>1, <2>2, <3>1, <3>3
      <4>2. origin[y + 1] = y /\ archive'[y + 1] = archive[y]
        BY <1>1, <2>2, <4>1
      <4>3. QED
        BY <4>1, <4>2
    <3>4. QED
      BY <3>2, <3>3
  <2> HIDE DEF origin
  <2>7. CameOf(archive', archive, origin) /\ LostOrDoubled(archive', archive, origin)
    BY <2>3, <2>4, <2>5, <2>6 DEF CameOf, LostOrDoubled, AllLeft
  <2>8. QED
    BY <2>2, <2>7
<1>7. CASE archive' = SubSeq(archive, 1, i) /\ UNCHANGED exchanged
  <2> DEFINE origin == [k \in 1..i |-> k]
  <2>1. /\ archive' \in Seq(Line) /\ Len(archive') = i
        /\ \A k \in 1..i : archive'[k] = archive[k]
    BY <1>1, <1>7, SubSeqProperties
  <2>2. /\ origin \in [1..Len(archive') -> 1..Len(archive)]
        /\ \A j, k \in 1..Len(archive') : j <= k => origin[j] <= origin[k]
        /\ \A k \in 1..Len(archive') : archive'[k] = archive[origin[k]]
    BY <1>1, <2>1
  <2>3. \A j, k \in 1..Len(archive') : origin[j] = origin[k] => j = k
    BY <1>1, <2>1
  <2> HIDE DEF origin
  <2>4. CameOf(archive', archive, origin) /\ LostOrDoubled(archive', archive, origin)
    BY <2>2, <2>3 DEF CameOf, LostOrDoubled, NoneTwice
  <2>5. QED
    BY <1>1, <1>7, <2>1, <2>4
<1>8. CASE /\ i + 1 \in 1..Len(archive) /\ exchanged' = TRUE
           /\ archive' = [archive EXCEPT ![i] = archive[i + 1], ![i + 1] = archive[i]]
  <2> DEFINE origin == [k \in 1..Len(archive) |->
                          IF k = i THEN i + 1 ELSE IF k = i + 1 THEN i ELSE k]
  <2>1. archive' \in [1..Len(archive) -> Line]
    BY <1>1, <1>8
  <2>2. archive' \in Seq(Line) /\ Len(archive') = Len(archive)
    BY <1>1, <2>1, SeqDef, LenProperties
  <2>3. origin \in [1..Len(archive') -> 1..Len(archive)]
    BY <1>1, <1>8, <2>2
  <2>4. \A k \in 1..Len(archive') : archive'[k] = archive[origin[k]]
    BY <1>1, <1>8, <2>2
  <2>5. \A j, k \in 1..Len(archive') : origin[j] = origin[k] => j = k
    BY <1>1, <2>2
  <2>6. \A y \in 1..Len(archive) : \E x \in 1..Len(archive') : origin[x] = y /\ archive'[x] = archive[y]
    <3> SUFFICES ASSUME NEW y \in 1..Len(archive)
                 PROVE  \E x \in 1..Len(archive') : origin[x] = y /\ archive'[x] = archive[y]
      OBVIOUS
    <3>1. origin[y] \in 1..Len(archive') /\ origin[origin[y]] = y
      BY <1>1, <1>8, <2>2
    <3>2. QED
      BY <2>4, <3>1
  <2>7. i \in Nat /\ \A j, k \in 1..Len(archive') :
          j < k => (j = i /\ k = i + 1) \/ origin[j] <= origin[k]
    BY <1>1, <2>2
  <2> HIDE DEF origin
  <2>8. CameOf(archive', archive, origin)
    BY <2>3, <2>4 DEF CameOf
  <2>9. Swapped(archive', archive, origin)
    BY <2>5, <2>6, <2>7 DEF Swapped, NoneTwice, AllLeft
  <2>10. QED
    BY <1>8, <2>2, <2>8, <2>9
<1>9. QED
  BY <1>1, <1>3, <1>4, <1>5, <1>6, <1>7, <1>8

------------------------------------------------------------------------------
(* Until decode begins, it has read nothing.                               *)
NotBegun ==
  verdict \in {"recording", "encoding", "stored"} =>
    at = 1 /\ decoded = <<>> /\ open = <<>>

(* The recorder numbers its frames.                                        *)
Numbered ==
  Len(recorded) <= MaxFrames /\ \A i \in DOMAIN recorded : recorded[i].sequence = i

TypeInv == TypeOK /\ NotBegun /\ Numbered

LEMMA ShortSequence ==
  ASSUME NEW S, NEW s \in Seq(S), s # <<>>, Len(s) <= 1
  PROVE  s = <<s[1]>> /\ s[1] \in S
<1>1. s[1] \in S
  OBVIOUS
<1> DEFINE n == Len(s)
<1>2. n \in Nat /\ n # 0 /\ n <= 1
  BY EmptySeq
<1> HIDE DEF n
<1>3. n = 1
  BY <1>2
<1>4. Len(s) = Len(<<s[1]>>) /\ <<s[1]>> \in Seq(S)
  BY <1>1, <1>3 DEF n
<1>5. \A i \in 1..Len(s) : s[i] = <<s[1]>>[i]
  BY <1>3 DEF n
<1>6. QED
  BY <1>1, <1>4, <1>5, SeqEqual

(* What TypeOK says of a frame that is being read.                         *)
LEMMA OpenFrame ==
  ASSUME TypeOK, open # <<>>
  PROVE  /\ open = <<open[1]>>
         /\ open[1].frame \in Frame
         /\ open[1].left \in 1..Cardinality(Channels)
         /\ open[1] = [frame |-> open[1].frame, left |-> open[1].left]
<1> DEFINE Partial == [frame : Frame, left : 1..Cardinality(Channels)]
<1>1. open \in Seq(Partial) /\ Len(open) <= 1
  BY DEF TypeOK
<1> HIDE DEF Partial
<1>2. open = <<open[1]>>
  BY <1>1, ShortSequence
<1>3. open[1] \in Partial
  BY <1>1, ShortSequence
<1>4. QED
  BY <1>2, <1>3 DEF Partial

LEMMA OpenType ==
  ASSUME NEW frame \in Frame, NEW left \in 1..Cardinality(Channels)
  PROVE  LET o == <<[frame |-> frame, left |-> left]>>
         IN  /\ o \in Seq([frame : Frame, left : 1..Cardinality(Channels)])
             /\ Len(o) <= 1 /\ o # <<>>
             /\ o[1].frame = frame /\ o[1].left = left
OBVIOUS

LEMMA SensorMaps ==
  ASSUME NEW names \in SUBSET Channels, NEW sensors \in [names -> Samples]
  PROVE  sensors \in UNION {[c -> Samples] : c \in SUBSET Channels}
<1>1. [names -> Samples] \in {[c -> Samples] : c \in SUBSET Channels}
  OBVIOUS
<1>2. QED
  BY <1>1, Zenon

(* The frame that a FRAME line opens, and one with another sensor.         *)
LEMMA EmptyFrame ==
  ASSUME NEW l \in Line, l.kind = "FRAME"
  PROVE  LET frame == [sequence |-> l.sequence, simTime |-> l.simTime, sensors |-> <<>>]
         IN  frame \in Frame /\ DOMAIN frame.sensors = {}
<1>1. l.sequence \in 1..MaxFrames /\ l.simTime \in 1..MaxFrames
  BY LineKinds
<1>2. DOMAIN <<>> = {} /\ <<>> \in [{} -> Samples]
  OBVIOUS
<1>3. {} \in SUBSET Channels
  OBVIOUS
<1>4. <<>> \in UNION {[names -> Samples] : names \in SUBSET Channels}
  BY <1>2, <1>3, SensorMaps
<1>5. QED
  BY <1>1, <1>2, <1>4 DEF Frame

LEMMA FrameWithSensor ==
  ASSUME NEW frame \in Frame, NEW name \in Channels, NEW sample \in Samples
  PROVE  LET new == WithSensor(frame, name, sample)
         IN  /\ new \in Frame
             /\ new.sequence = frame.sequence /\ new.simTime = frame.simTime
             /\ DOMAIN new.sensors = DOMAIN frame.sensors \cup {name}
             /\ new.sensors[name] = sample
             /\ \A other \in DOMAIN frame.sensors \ {name} :
                  new.sensors[other] = frame.sensors[other]
<1> DEFINE names == DOMAIN frame.sensors \cup {name}
           sensors == [c \in names |-> IF c = name THEN sample ELSE frame.sensors[c]]
           new == WithSensor(frame, name, sample)
<1>1. DOMAIN frame.sensors \subseteq Channels /\ frame.sensors \in [DOMAIN frame.sensors -> Samples]
  BY FrameFields
<1>2. sensors \in [names -> Samples] /\ names \in SUBSET Channels
  BY <1>1
<1>3. new = [ sequence |-> frame.sequence, simTime |-> frame.simTime, sensors |-> sensors ]
  BY DEF WithSensor, Frame
<1> HIDE DEF sensors, names
<1>4. sensors \in UNION {[c -> Samples] : c \in SUBSET Channels}
  BY <1>2
<1>5. new \in Frame
  BY <1>3, <1>4 DEF Frame
<1>6. QED
  BY <1>3, <1>5 DEF sensors, names

LEMMA TypeInit == Init => TypeInv
<1> SUFFICES ASSUME Init PROVE TypeInv
  OBVIOUS
<1>1. TypeOK
  <2>1. /\ <<>> \in Seq(Frame) /\ <<>> \in Seq(Line) /\ Len(<<>>) = 0
        /\ <<>> \in Seq([frame : Frame, left : 1..Cardinality(Channels)])
    BY EmptySeq
  <2>2. 0 \in 0..MaxEdits /\ 0 \in 0..0 /\ 1 \in 1..1 /\ 0 + 1 = 1 /\ 0 <= 1
    OBVIOUS
  <2>3. QED
    BY <2>1, <2>2 DEF Init, TypeOK
<1>2. QED
  BY <1>1, EmptySeq DEF Init, TypeInv, NotBegun, Numbered

LEMMA TypeStep == TypeInv /\ [Next]_vars => TypeInv'
<1> SUFFICES ASSUME TypeInv, [Next]_vars PROVE TypeInv'
  OBVIOUS
<1>1. /\ TypeOK /\ NotBegun /\ Numbered
      /\ recorded \in Seq(Frame) /\ Len(recorded) \in Nat /\ DOMAIN recorded = 1..Len(recorded)
      /\ decoded \in Seq(Frame) /\ archive \in Seq(Line) /\ Len(archive) \in Nat
      /\ at \in 1..Len(archive) + 1
  BY LenProperties DEF TypeInv, TypeOK
<1>2. CASE Record
  <2>1. PICK names \in SensorSets : \E sensors \in [names -> Samples] :
          recorded' = Append(recorded, [ sequence |-> Len(recorded) + 1,
                                         simTime |-> Len(recorded) + 1, sensors |-> sensors ])
    BY <1>2 DEF Record
  <2>2. PICK sensors \in [names -> Samples] :
          recorded' = Append(recorded, [ sequence |-> Len(recorded) + 1,
                                         simTime |-> Len(recorded) + 1, sensors |-> sensors ])
    BY <2>1
  <2> DEFINE frame == [ sequence |-> Len(recorded) + 1,
                        simTime |-> Len(recorded) + 1, sensors |-> sensors ]
  <2>3. frame \in Frame
    BY <1>1, <1>2, <2>2 DEF Record, Frame
  <2>4. frame.sequence = Len(recorded) + 1
    OBVIOUS
  <2> HIDE DEF frame
  <2>5. /\ recorded' \in Seq(Frame) /\ Len(recorded') = Len(recorded) + 1
        /\ \A i \in 1..Len(recorded) : recorded'[i] = recorded[i]
        /\ recorded'[Len(recorded) + 1] = frame
    BY <1>1, <2>2, <2>3, AppendProperties DEF frame
  <2>6. Numbered'
    BY <1>1, <1>2, <2>4, <2>5, LenProperties DEF Record, Numbered
  <2>7. TypeOK'
    BY <1>1, <1>2, <2>5 DEF Record, file, TypeOK
  <2>8. QED
    BY <1>1, <1>2, <2>6, <2>7 DEF Record, file, TypeInv, NotBegun
<1>3. CASE EncodeHeader
  <2>1. <<Header>> \in Seq(Line) /\ Len(<<Header>>) = 1
    BY DEF Line
  <2>2. at' \in 1..Len(archive') + 1
    BY <1>1, <1>3, <2>1 DEF EncodeHeader, NotBegun
  <2>3. TypeOK'
    BY <1>1, <1>3, <2>1, <2>2 DEF EncodeHeader, TypeOK
  <2>4. QED
    BY <1>1, <1>3, <2>3 DEF EncodeHeader, TypeInv, NotBegun, Numbered
<1>4. CASE EncodeFrame
  <2>1. written + 1 \in 1..Len(recorded) /\ recorded[written + 1] \in Frame
    BY <1>1, <1>4, ElementOfSeq DEF EncodeFrame, TypeOK
  <2>2. archive' \in Seq(Line) /\ Len(archive') \in Nat /\ Len(archive') >= Len(archive)
    BY <1>1, <1>4, <2>1, FrameIsEncoded, ConcatProperties, LenProperties DEF EncodeFrame
  <2>3. TypeOK'
    BY <1>1, <1>4, <2>1, <2>2 DEF EncodeFrame, TypeOK
  <2>4. QED
    BY <1>1, <1>4, <2>3 DEF EncodeFrame, TypeInv, NotBegun, Numbered
<1>5. CASE EncodeFooter
  <2>1. Footer(Len(recorded)) \in Line
    BY <1>1 DEF Footer, Line
  <2>2. archive' \in Seq(Line) /\ Len(archive') = Len(archive) + 1
    BY <1>1, <1>5, <2>1, AppendProperties DEF EncodeFooter
  <2>3. TypeOK'
    BY <1>1, <1>5, <2>2 DEF EncodeFooter, TypeOK
  <2>4. QED
    BY <1>1, <1>5, <2>3 DEF EncodeFooter, TypeInv, NotBegun, Numbered
<1>6. CASE Damage
  <2>1. archive' \in Seq(Line) /\ exchanged' \in BOOLEAN /\ Len(archive') \in Nat
    BY <1>1, <1>6, DamagedLines, LenProperties
  <2>2. edits' \in 0..MaxEdits
    BY <1>1, <1>6 DEF Damage, TypeOK
  <2>3. at' \in 1..Len(archive') + 1
    BY <1>1, <1>6, <2>1 DEF Damage, NotBegun
  <2>4. TypeOK'
    BY <1>1, <1>6, <2>1, <2>2, <2>3 DEF Damage, TypeOK
  <2>5. QED
    BY <1>1, <1>6, <2>4 DEF Damage, TypeInv, NotBegun, Numbered
<1>7. CASE DecodeBegin
  <2>1. archive # <<>> => Len(archive) >= 1
    BY <1>1, EmptySeq
  <2>2. at' \in 1..Len(archive) + 1 /\ UNCHANGED <<decoded, open>> /\ verdict' \in {"reading", "malformed"}
    BY <1>1, <1>7, <2>1 DEF DecodeBegin, malformed
  <2>3. QED
    BY <1>1, <1>7, <2>2 DEF DecodeBegin, file, TypeInv, TypeOK, NotBegun, Numbered
<1>8. ASSUME reading, at' = at + 1, UNCHANGED <<recorded, written, file, verdict>>,
             decoded' \in Seq(Frame),
             open' \in Seq([frame : Frame, left : 1..Cardinality(Channels)]), Len(open') <= 1
      PROVE  TypeInv'
  BY <1>1, <1>8 DEF reading, file, TypeInv, TypeOK, NotBegun, Numbered
<1>9. reading => at \in 1..Len(archive) /\ line \in Line
  BY <1>1, ElementOfSeq DEF reading, line
<1>10. CASE DecodeBlank
  BY <1>1, <1>8, <1>10 DEF DecodeBlank, TypeOK
<1>11. CASE DecodeFooter \/ DecodeRefuses
  BY <1>1, <1>11
  DEF DecodeFooter, DecodeRefuses, reading, malformed, file, TypeInv, TypeOK, NotBegun, Numbered
<1>12. CASE DecodeFrame
  <2> DEFINE frame == [sequence |-> line.sequence, simTime |-> line.simTime, sensors |-> <<>>]
  <2>1. frame \in Frame /\ line.count \in 0..Cardinality(Channels)
    BY <1>9, <1>12, EmptyFrame, LineKinds DEF DecodeFrame
  <2>2. \/ line.count = 0 /\ decoded' = Append(decoded, frame) /\ UNCHANGED open
        \/ line.count # 0 /\ open' = <<[frame |-> frame, left |-> line.count]>> /\ UNCHANGED decoded
    BY <1>12 DEF DecodeFrame
  <2>3. Cardinality(Channels) \in Nat
    BY FS_CardinalityType
  <2> HIDE DEF frame
  <2>4. decoded' \in Seq(Frame)
    <3>1. Append(decoded, frame) \in Seq(Frame)
      BY <1>1, <2>1, AppendProperties
    <3>2. QED
      BY <1>1, <2>2, <3>1
  <2>5. open' \in Seq([frame : Frame, left : 1..Cardinality(Channels)]) /\ Len(open') <= 1
    <3>1. line.count # 0 => line.count \in 1..Cardinality(Channels)
      BY <2>1, <2>3
    <3>2. CASE line.count = 0
      BY <1>1, <2>2, <3>2 DEF TypeOK
    <3>3. CASE line.count # 0
      <4>1. open' = <<[frame |-> frame, left |-> line.count]>>
        BY <2>2, <3>3
      <4>2. QED
        BY <2>1, <3>1, <3>3, <4>1, OpenType
    <3>4. QED
      BY <3>2, <3>3
  <2>6. QED
    BY <1>8, <1>12, <2>4, <2>5 DEF DecodeFrame
<1>13. CASE DecodeSensor
  <2> DEFINE frame == WithSensor(open[1].frame, line.name, line.sample)
  <2>1. /\ open[1].frame \in Frame /\ open[1].left \in 1..Cardinality(Channels)
        /\ line.name \in Channels /\ line.sample \in Samples
    BY <1>1, <1>9, <1>13, OpenFrame, LineKinds DEF DecodeSensor, Expected
  <2>2. frame \in Frame
    BY <2>1, FrameWithSensor
  <2>3. \/ decoded' = Append(decoded, frame) /\ open' = <<>>
        \/ /\ open[1].left # 1 /\ UNCHANGED decoded
           /\ open' = <<[frame |-> frame, left |-> open[1].left - 1]>>
    BY <1>13 DEF DecodeSensor
  <2>4. Cardinality(Channels) \in Nat
    BY FS_CardinalityType
  <2> HIDE DEF frame
  <2>5. decoded' \in Seq(Frame)
    <3>1. Append(decoded, frame) \in Seq(Frame)
      BY <1>1, <2>2, AppendProperties
    <3>2. QED
      BY <1>1, <2>3, <3>1
  <2>6. open' \in Seq([frame : Frame, left : 1..Cardinality(Channels)]) /\ Len(open') <= 1
    <3>1. open[1].left # 1 => open[1].left - 1 \in 1..Cardinality(Channels)
      BY <2>1, <2>4
    <3>2. CASE open' = <<>>
      BY <3>2, EmptySeq
    <3>3. CASE open[1].left # 1 /\ open' = <<[frame |-> frame, left |-> open[1].left - 1]>>
      BY <2>2, <3>1, <3>3, OpenType
    <3>4. QED
      BY <2>3, <3>2, <3>3
  <2>7. QED
    BY <1>8, <1>13, <2>5, <2>6 DEF DecodeSensor
<1>14. CASE UNCHANGED vars
  BY <1>1, <1>14 DEF vars, file, TypeInv, TypeOK, NotBegun, Numbered
<1>15. QED
  BY <1>2, <1>3, <1>4, <1>5, <1>6, <1>7, <1>10, <1>11, <1>12, <1>13, <1>14
  DEF Next, Decode, Done

(* The archive, and what is read of it, keep their types.                  *)
THEOREM TypeCorrect == Spec => []TypeOK
<1>1. TypeInv => TypeOK
  BY DEF TypeInv
<1>2. QED
  BY TypeInit, TypeStep, <1>1, PTL DEF Spec

------------------------------------------------------------------------------
(* Whatever the file holds, the lines read so far are those of the frames  *)
(* decoded so far, one after the other, but for blank ones; then come the  *)
(* lines of the frame that is being read.                                  *)
Consumed(lines, frames, start, upto) ==
  /\ \A k \in 1..Len(frames) :
       /\ Stands(lines, start[k], frames[k])
       /\ start[k] + Size(frames[k]) < IF k = Len(frames) THEN upto ELSE start[k + 1]
  /\ \A i \in 2..upto - 1 :
       lines[i] = Blank \/ \E k \in 1..Len(frames) : i \in start[k]..start[k] + Size(frames[k])

(* The frame being read, and the line that opened it, at place p.          *)
Partly(lines, p, o) ==
  /\ lines[p] = [ kind |-> "FRAME", sequence |-> o.frame.sequence, simTime |-> o.frame.simTime,
                  count |-> Size(o.frame) + o.left ]
  /\ SensorsFollow(lines, p, o.frame)

(* Where it stands: at the end of a frame, in a frame, or at the footer.   *)
Position(upto) ==
  \/ verdict = "reading" /\ open = <<>> /\ upto = at
  \/ /\ verdict = "reading" /\ open # <<>>
     /\ at = upto + Size(open[1].frame) + 1
     /\ Partly(archive, upto, open[1])
  \/ /\ verdict = "accepted" /\ upto \in 2..Len(archive)
     /\ archive[upto] = Footer(Len(decoded))
     /\ \A i \in upto + 1..Len(archive) : archive[i] = Blank

ReadInv ==
  verdict \in {"reading", "accepted"} =>
    /\ archive[1] = Header
    /\ \E start \in [1..Len(decoded) -> 2..Len(archive)], upto \in 2..Len(archive) + 1 :
         Consumed(archive, decoded, start, upto) /\ Position(upto)

(* A frame that is complete is one more of those that were read.           *)
LEMMA OneMoreFrame ==
  ASSUME NEW lines \in Seq(Line), NEW frames \in Seq(Frame), NEW frame \in Frame,
         NEW start \in [1..Len(frames) -> 2..Len(lines)], NEW p \in 2..Len(lines),
         Consumed(lines, frames, start, p), Stands(lines, p, frame)
  PROVE  \E new \in [1..Len(Append(frames, frame)) -> 2..Len(lines)] :
           Consumed(lines, Append(frames, frame), new, p + Size(frame) + 1)
<1> DEFINE n == Len(frames)
           more == Append(frames, frame)
           new == [k \in 1..n + 1 |-> IF k = n + 1 THEN p ELSE start[k]]
           upto == p + Size(frame) + 1
<1>1. /\ n \in Nat /\ Len(more) = n + 1 /\ more[n + 1] = frame
      /\ \A k \in 1..n : more[k] = frames[k] /\ frames[k] \in Frame
  <2>1. \A k \in 1..n : frames[k] \in Frame
    BY ElementOfSeq
  <2>2. QED
    BY <2>1, LenProperties, AppendProperties
<1>2. Len(lines) \in Nat /\ Size(frame) \in Nat /\ p \in Nat
  BY LenProperties, FrameFields
<1>3. \A k \in 1..n : Size(frames[k]) \in Nat
  BY <1>1, FrameFields
<1> HIDE DEF n, more
<1>4. new \in [1..n + 1 -> 2..Len(lines)]
  BY <1>1, <1>2 DEF n
<1>5. ASSUME NEW k \in 1..n + 1
      PROVE  /\ Stands(lines, new[k], more[k])
             /\ new[k] + Size(more[k]) < IF k = n + 1 THEN upto ELSE new[k + 1]
  <2>1. CASE k = n + 1
    <3>1. new[k] = p /\ more[k] = frame
      BY <1>1, <2>1
    <3>2. QED
      BY <1>2, <2>1, <3>1
  <2>2. CASE k # n + 1
    <3>1. k \in 1..n /\ new[k] = start[k] /\ more[k] = frames[k]
      BY <1>1, <2>2
    <3>2. new[k + 1] = IF k = n THEN p ELSE start[k + 1]
      BY <1>1, <3>1
    <3>3. QED
      BY <2>2, <3>1, <3>2 DEF Consumed, n
  <2>3. QED
    BY <2>1, <2>2
<1>6. ASSUME NEW i \in 2..upto - 1
      PROVE  \/ lines[i] = Blank
             \/ \E k \in 1..n + 1 : i \in new[k]..new[k] + Size(more[k])
  <2>1. CASE i < p
    <3>1. i \in 2..p - 1
      BY <1>2, <2>1
    <3>2. CASE \E k \in 1..n : i \in start[k]..start[k] + Size(frames[k])
      <4>1. PICK k \in 1..n : i \in start[k]..start[k] + Size(frames[k])
        BY <3>2
      <4>2. k \in 1..n + 1 /\ new[k] = start[k] /\ more[k] = frames[k]
        BY <1>1
      <4>3. QED
        BY <4>1, <4>2
    <3>3. QED
      BY <3>1, <3>2 DEF Consumed, n
  <2>2. CASE ~(i < p)
    <3>1. n + 1 \in 1..n + 1 /\ new[n + 1] = p /\ more[n + 1] = frame
      BY <1>1
    <3>2. i \in p..p + Size(frame)
      BY <1>2, <2>2
    <3>3. QED
      BY <3>1, <3>2
  <2>3. QED
    BY <2>1, <2>2
<1> HIDE DEF new
<1>7. Consumed(lines, more, new, upto)
  BY <1>1, <1>5, <1>6 DEF Consumed
<1>8. QED
  BY <1>1, <1>4, <1>7 DEF more

(* A line more, when it is blank, changes nothing.                         *)
LEMMA OneMoreBlank ==
  ASSUME NEW lines \in Seq(Line), NEW frames \in Seq(Frame), NEW start, NEW p \in 2..Len(lines),
         start \in [1..Len(frames) -> 2..Len(lines)],
         Consumed(lines, frames, start, p), lines[p] = Blank
  PROVE  Consumed(lines, frames, start, p + 1)
<1>1. Len(frames) \in Nat /\ Len(lines) \in Nat
  BY LenProperties
<1>2. \A k \in 1..Len(frames) : Size(frames[k]) \in Nat
  <2>1. \A k \in 1..Len(frames) : frames[k] \in Frame
    BY ElementOfSeq
  <2>2. QED
    BY <2>1, FrameFields
<1>3. ASSUME NEW i \in 2..p + 1 - 1
      PROVE  lines[i] = Blank \/ \E k \in 1..Len(frames) : i \in start[k]..start[k] + Size(frames[k])
  BY <1>1, <1>3 DEF Consumed
<1>4. ASSUME NEW k \in 1..Len(frames)
      PROVE  /\ Stands(lines, start[k], frames[k])
             /\ start[k] + Size(frames[k]) < IF k = Len(frames) THEN p + 1 ELSE start[k + 1]
  BY <1>1, <1>2, <1>4 DEF Consumed
<1>5. QED
  BY <1>3, <1>4 DEF Consumed

(* A sensor more of the frame that is being read.                          *)
LEMMA OneMoreSensor ==
  ASSUME NEW lines \in Seq(Line), NEW frame \in Frame, NEW p \in Nat \ {0}, NEW l \in Line,
         l.kind = "SENSOR", l.name \notin DOMAIN frame.sensors,
         lines[p + Size(frame) + 1] = l, SensorsFollow(lines, p, frame)
  PROVE  /\ Size(WithSensor(frame, l.name, l.sample)) = Size(frame) + 1
         /\ SensorsFollow(lines, p, WithSensor(frame, l.name, l.sample))
<1> DEFINE new == WithSensor(frame, l.name, l.sample)
<1>1. l.name \in Channels /\ l.sample \in Samples
      /\ l = [kind |-> "SENSOR", name |-> l.name, sample |-> l.sample]
  BY LineKinds
<1>2. /\ DOMAIN new.sensors = DOMAIN frame.sensors \cup {l.name}
      /\ new.sensors[l.name] = l.sample
      /\ \A other \in DOMAIN frame.sensors : new.sensors[other] = frame.sensors[other]
  BY <1>1, FrameWithSensor
<1> HIDE DEF new
<1>3. IsFiniteSet(DOMAIN frame.sensors) /\ Size(frame) \in Nat
  BY FrameFields
<1>4. Size(new) = Size(frame) + 1
  BY <1>2, <1>3, FS_AddElement DEF Size
<1>5. \A name \in DOMAIN frame.sensors : SensorLine(new, name) = SensorLine(frame, name)
  BY <1>2 DEF SensorLine
<1>6. SensorLine(new, l.name) = l
  BY <1>1, <1>2 DEF SensorLine
<1>7. {SensorLine(new, name) : name \in DOMAIN new.sensors} =
        {SensorLine(frame, name) : name \in DOMAIN frame.sensors} \cup {l}
  BY <1>2, <1>5, <1>6
<1>8. p + 1..p + Size(new) = (p + 1..p + Size(frame)) \cup {p + Size(frame) + 1}
  <2>1. \A q, n \in Nat : q + 1..q + (n + 1) = (q + 1..q + n) \cup {q + n + 1}
    OBVIOUS
  <2>2. QED
    BY <1>3, <1>4, <2>1
<1>9. {lines[i] : i \in p + 1..p + Size(new)} =
        {lines[i] : i \in p + 1..p + Size(frame)} \cup {l}
  BY <1>8
<1>10. QED
  BY <1>4, <1>7, <1>9 DEF new, SensorsFollow

(* What the line of a frame does, and that of a sensor.                    *)
LEMMA FrameBegins ==
  ASSUME TypeOK, DecodeFrame
  PROVE  /\ verdict = "reading" /\ verdict' = "reading" /\ open = <<>> /\ at' = at + 1
         /\ at \in 1..Len(archive) /\ archive[at].kind = "FRAME" /\ UNCHANGED archive
         /\ \E frame \in Frame :
              /\ Size(frame) = 0
              /\ \/ decoded' = Append(decoded, frame) /\ open' = <<>> /\ Stands(archive, at, frame)
                 \/ /\ decoded' = decoded /\ open' # <<>> /\ open'[1].frame = frame
                    /\ Partly(archive, at, open'[1])
<1> DEFINE frame == [sequence |-> line.sequence, simTime |-> line.simTime, sensors |-> <<>>]
           begun == [frame |-> frame, left |-> line.count]
<1>1. /\ archive \in Seq(Line) /\ Len(archive) \in Nat
      /\ verdict = "reading" /\ verdict' = "reading" /\ open = <<>> /\ at' = at + 1
      /\ at \in 1..Len(archive)
      /\ line = archive[at] /\ line.kind = "FRAME" /\ archive' = archive
      /\ \/ line.count = 0 /\ decoded' = Append(decoded, frame) /\ open' = <<>>
         \/ line.count # 0 /\ decoded' = decoded /\ open' = <<begun>>
  BY LenProperties DEF TypeOK, DecodeFrame, reading, line, file
<1>2. line \in Line
  BY <1>1, ElementOfSeq
<1>3. frame \in Frame /\ DOMAIN frame.sensors = {}
  BY <1>1, <1>2, EmptyFrame
<1>4. /\ line = [ kind |-> "FRAME", sequence |-> frame.sequence, simTime |-> frame.simTime,
                 count |-> line.count ]
      /\ line.count \in 0..Cardinality(Channels)
  BY <1>1, <1>2, LineKinds
<1> HIDE DEF frame
<1>5. Size(frame) = 0
  BY <1>3, FS_EmptySet DEF Size
<1>6. SensorsFollow(archive, at, frame)
  <2>1. /\ {archive[i] : i \in at + 1..at + Size(frame)} = {}
        /\ {SensorLine(frame, name) : name \in DOMAIN frame.sensors} = {}
    BY <1>1, <1>3, <1>5
  <2>2. QED
    BY <2>1 DEF SensorsFollow
<1>7. CASE line.count = 0 /\ decoded' = Append(decoded, frame) /\ open' = <<>>
  <2>1. FrameLine(frame) = line
    BY <1>4, <1>5, <1>7 DEF FrameLine, Size
  <2>2. Stands(archive, at, frame)
    BY <1>1, <1>5, <1>6, <2>1 DEF Stands
  <2>3. QED
    BY <1>1, <1>3, <1>5, <1>7, <2>2
<1>8. CASE line.count # 0 /\ decoded' = decoded /\ open' = <<begun>>
  <2>1. open' # <<>> /\ open'[1] = begun /\ begun.frame = frame /\ begun.left = line.count
    BY <1>8
  <2> HIDE DEF begun
  <2>2. Partly(archive, at, begun)
    BY <1>1, <1>4, <1>5, <1>6, <2>1 DEF Partly
  <2>3. Partly(archive, at, open'[1])
    BY <2>1, <2>2
  <2>4. QED
    BY <1>1, <1>3, <1>5, <1>8, <2>1, <2>3
<1>9. QED
  BY <1>1, <1>7, <1>8

LEMMA SensorRead ==
  ASSUME TypeOK, DecodeSensor, NEW p \in Nat \ {0},
         at = p + Size(open[1].frame) + 1, Partly(archive, p, open[1])
  PROVE  /\ verdict = "reading" /\ verdict' = "reading" /\ at' = at + 1
         /\ at \in 1..Len(archive) /\ UNCHANGED archive
         /\ \E frame \in Frame :
              /\ Size(frame) = Size(open[1].frame) + 1
              /\ \/ decoded' = Append(decoded, frame) /\ open' = <<>> /\ Stands(archive, p, frame)
                 \/ /\ decoded' = decoded /\ open' # <<>> /\ open'[1].frame = frame
                    /\ Partly(archive, p, open'[1])
<1> DEFINE old == open[1].frame
           left == open[1].left
           frame == WithSensor(old, line.name, line.sample)
           begun == [frame |-> frame, left |-> left - 1]
<1>1. /\ archive \in Seq(Line) /\ Len(archive) \in Nat
      /\ verdict = "reading" /\ verdict' = "reading" /\ open # <<>> /\ at' = at + 1
      /\ at \in 1..Len(archive)
      /\ line = archive[at] /\ line.kind = "SENSOR" /\ archive' = archive
      /\ line.name \notin DOMAIN old.sensors
  BY LenProperties DEF TypeOK, DecodeSensor, reading, line, file, Expected
<1>2. old \in Frame /\ left \in 1..Cardinality(Channels) /\ Cardinality(Channels) \in Nat
  BY <1>1, OpenFrame, FS_CardinalityType
<1>3. Size(old) \in Nat
  BY <1>2, FrameFields
<1>4. line \in Line
  BY <1>1, ElementOfSeq
<1>5. line.name \in Channels /\ line.sample \in Samples
  BY <1>1, <1>4, LineKinds
<1>6. /\ archive[p] = [ kind |-> "FRAME", sequence |-> old.sequence, simTime |-> old.simTime,
                        count |-> Size(old) + left ]
      /\ SensorsFollow(archive, p, old)
  BY DEF Partly
<1>7. /\ \/ left = 1 /\ decoded' = Append(decoded, frame) /\ open' = <<>>
         \/ left # 1 /\ decoded' = decoded /\ open' = <<begun>>
  BY DEF DecodeSensor
<1> HIDE DEF left
<1>8. frame \in Frame /\ frame.sequence = old.sequence /\ frame.simTime = old.simTime
  BY <1>2, <1>5, FrameWithSensor
<1>9. Size(frame) = Size(old) + 1 /\ SensorsFollow(archive, p, frame)
  <2>1. archive[p + Size(old) + 1] = line
    BY <1>1
  <2>2. line.kind = "SENSOR" /\ line.name \notin DOMAIN old.sensors
    BY <1>1
  <2> HIDE DEF old
  <2>3. QED
    BY <1>1, <1>2, <1>4, <1>6, <2>1, <2>2, OneMoreSensor
<1> HIDE DEF frame
<1>10. CASE left = 1 /\ decoded' = Append(decoded, frame) /\ open' = <<>>
  <2>1. FrameLine(frame) = archive[p]
    <3>1. Cardinality(DOMAIN frame.sensors) = Size(old) + left
      BY <1>9, <1>10 DEF Size
    <3>2. QED
      BY <1>6, <1>8, <3>1, Zenon DEF FrameLine
  <2>2. Stands(archive, p, frame)
    BY <1>1, <1>3, <1>9, <2>1 DEF Stands
  <2>3. QED
    BY <1>1, <1>8, <1>9, <1>10, <2>2
<1>11. CASE left # 1 /\ decoded' = decoded /\ open' = <<begun>>
  <2>1. open' # <<>> /\ open'[1] = begun /\ begun.frame = frame /\ begun.left = left - 1
    BY <1>11
  <2> HIDE DEF begun, old
  <2>2. archive[p] = [ kind |-> "FRAME", sequence |-> frame.sequence, simTime |-> frame.simTime,
                       count |-> Size(frame) + begun.left ]
    BY <1>2, <1>3, <1>6, <1>8, <1>9, <2>1
  <2>3. Partly(archive, p, begun)
    BY <1>9, <2>1, <2>2 DEF Partly
  <2>4. Partly(archive, p, open'[1])
    BY <2>1, <2>3
  <2>5. QED
    BY <1>1, <1>8, <1>9, <1>11, <2>1, <2>4 DEF old
<1>12. QED
  BY <1>7, <1>10, <1>11

LEMMA ReadBegins ==
  ASSUME TypeInv, DecodeBegin
  PROVE  ReadInv'
<1>1. /\ decoded = <<>> /\ open = <<>> /\ archive \in Seq(Line) /\ Len(archive) \in Nat
      /\ decoded' = <<>> /\ open' = <<>> /\ archive' = archive
      /\ \/ verdict' = "malformed"
         \/ verdict' = "reading" /\ at' = 2 /\ archive # <<>> /\ archive[1] = Header
  BY LenProperties DEF TypeInv, TypeOK, NotBegun, DecodeBegin, malformed, file
<1>2. CASE verdict' = "malformed"
  BY <1>2 DEF ReadInv
<1>3. CASE verdict' = "reading" /\ at' = 2 /\ archive # <<>> /\ archive[1] = Header
  <2>1. Len(archive) >= 1 /\ Len(<<>>) = 0 /\ 1..0 = {}
    BY <1>1, <1>3, EmptySeq
  <2> DEFINE start == [k \in 1..0 |-> 2]
  <2>2. start \in [1..Len(decoded') -> 2..Len(archive')] /\ 2 \in 2..Len(archive') + 1
    BY <1>1, <2>1
  <2>3. Consumed(archive', decoded', start, 2)
    BY <1>1, <2>1 DEF Consumed
  <2> HIDE DEF start
  <2>4. Position(2)'
    BY <1>1, <1>3 DEF Position
  <2>5. QED
    BY <1>1, <1>3, <2>2, <2>3, <2>4 DEF ReadInv
<1>4. QED
  BY <1>1, <1>2, <1>3

LEMMA ReadBlank ==
  ASSUME TypeInv, ReadInv, DecodeBlank
  PROVE  ReadInv'
<1>1. /\ archive \in Seq(Line) /\ Len(archive) \in Nat /\ decoded \in Seq(Frame)
      /\ verdict = "reading" /\ verdict' = "reading" /\ open = <<>> /\ open' = <<>>
      /\ at' = at + 1 /\ at \in Nat /\ at <= Len(archive) /\ archive[at] = Blank
      /\ archive' = archive /\ decoded' = decoded
  BY LenProperties DEF TypeInv, TypeOK, DecodeBlank, reading, line, file
<1>2. archive[1] = Header
  BY <1>1 DEF ReadInv
<1>3. PICK start \in [1..Len(decoded) -> 2..Len(archive)], upto \in 2..Len(archive) + 1 :
        Consumed(archive, decoded, start, upto) /\ Position(upto)
  BY <1>1 DEF ReadInv
<1>4. upto = at /\ at \in 2..Len(archive)
  BY <1>1, <1>3 DEF Position
<1>5. Consumed(archive, decoded, start, at + 1)
  BY <1>1, <1>3, <1>4, OneMoreBlank
<1>6. at' \in 2..Len(archive) + 1
  BY <1>1, <1>4
<1>7. Position(at)'
  BY <1>1 DEF Position
<1>8. QED
  BY <1>1, <1>2, <1>3, <1>5, <1>6, <1>7 DEF ReadInv

LEMMA ReadFooter ==
  ASSUME TypeInv, ReadInv, DecodeFooter
  PROVE  ReadInv'
<1>1. /\ archive \in Seq(Line) /\ Len(archive) \in Nat
      /\ verdict = "reading" /\ open = <<>> /\ at \in Nat /\ at <= Len(archive)
      /\ archive[at].kind = "END" /\ archive' = archive
      /\ \/ verdict' = "malformed"
         \/ /\ verdict' = "accepted" /\ decoded' = decoded
            /\ archive[at].count = Len(decoded)
            /\ \A i \in at + 1..Len(archive) : archive[i] = Blank
  BY LenProperties DEF TypeInv, TypeOK, DecodeFooter, reading, line, file, malformed
<1>2. CASE verdict' = "malformed"
  BY <1>2 DEF ReadInv
<1>3. CASE /\ verdict' = "accepted" /\ decoded' = decoded
           /\ archive[at].count = Len(decoded)
           /\ \A i \in at + 1..Len(archive) : archive[i] = Blank
  <2>1. archive[1] = Header
    BY <1>1 DEF ReadInv
  <2>2. PICK start \in [1..Len(decoded) -> 2..Len(archive)], upto \in 2..Len(archive) + 1 :
          Consumed(archive, decoded, start, upto) /\ Position(upto)
    BY <1>1 DEF ReadInv
  <2>3. upto = at /\ upto \in 2..Len(archive)
    BY <1>1, <2>2 DEF Position
  <2>4. archive[upto] \in Line
    BY <1>1, <2>3, ElementOfSeq
  <2>5. archive[upto] = Footer(Len(decoded))
    BY <1>1, <1>3, <2>3, <2>4, LineKinds
  <2>6. Position(upto)'
    BY <1>1, <1>3, <2>3, <2>5 DEF Position
  <2>7. QED
    BY <1>1, <1>3, <2>1, <2>2, <2>6 DEF ReadInv
<1>4. QED
  BY <1>1, <1>2, <1>3

LEMMA ReadFrame ==
  ASSUME TypeInv, ReadInv, DecodeFrame
  PROVE  ReadInv'
<1>1. TypeOK /\ archive \in Seq(Line) /\ Len(archive) \in Nat /\ decoded \in Seq(Frame)
  BY LenProperties DEF TypeInv, TypeOK
<1>2. /\ verdict = "reading" /\ verdict' = "reading" /\ open = <<>> /\ at' = at + 1
      /\ at \in 1..Len(archive) /\ archive' = archive
  BY <1>1, FrameBegins
<1>3. PICK frame \in Frame :
        /\ Size(frame) = 0
        /\ \/ decoded' = Append(decoded, frame) /\ open' = <<>> /\ Stands(archive, at, frame)
           \/ /\ decoded' = decoded /\ open' # <<>> /\ open'[1].frame = frame
              /\ Partly(archive, at, open'[1])
  BY <1>1, FrameBegins
<1>4. archive[1] = Header
  BY <1>2 DEF ReadInv
<1>5. PICK start \in [1..Len(decoded) -> 2..Len(archive)], upto \in 2..Len(archive) + 1 :
        Consumed(archive, decoded, start, upto) /\ Position(upto)
  BY <1>2 DEF ReadInv
<1>6. upto = at /\ at \in 2..Len(archive)
  BY <1>1, <1>2, <1>5 DEF Position
<1>7. CASE decoded' = Append(decoded, frame) /\ open' = <<>> /\ Stands(archive, at, frame)
  <2>1. PICK new \in [1..Len(decoded') -> 2..Len(archive)] :
          Consumed(archive, decoded', new, at + Size(frame) + 1)
    BY <1>1, <1>5, <1>6, <1>7, OneMoreFrame
  <2>2. Consumed(archive', decoded', new, at')
    BY <1>1, <1>2, <1>3, <2>1
  <2>3. at' \in 2..Len(archive') + 1
    BY <1>1, <1>2
  <2>4. Position(at)'
    BY <1>2, <1>7 DEF Position
  <2>5. QED
    BY <1>2, <1>4, <2>1, <2>2, <2>3, <2>4 DEF ReadInv
<1>8. CASE decoded' = decoded /\ open' # <<>> /\ open'[1].frame = frame /\ Partly(archive, at, open'[1])
  <2>1. Partly(archive', upto, open'[1]) /\ at' = upto + Size(open'[1].frame) + 1
    BY <1>1, <1>2, <1>3, <1>6, <1>8
  <2>2. Position(upto)'
    BY <1>2, <1>8, <2>1 DEF Position, Size
  <2>3. QED
    BY <1>2, <1>4, <1>5, <1>8, <2>2 DEF ReadInv
<1>9. QED
  BY <1>3, <1>7, <1>8

LEMMA ReadSensor ==
  ASSUME TypeInv, ReadInv, DecodeSensor
  PROVE  ReadInv'
<1>1. /\ TypeOK /\ archive \in Seq(Line) /\ Len(archive) \in Nat /\ decoded \in Seq(Frame)
      /\ verdict = "reading" /\ open # <<>> /\ at <= Len(archive)
  BY LenProperties DEF TypeInv, TypeOK, DecodeSensor, reading
<1>2. archive[1] = Header
  BY <1>1 DEF ReadInv
<1>3. PICK start \in [1..Len(decoded) -> 2..Len(archive)], p \in 2..Len(archive) + 1 :
        Consumed(archive, decoded, start, p) /\ Position(p)
  BY <1>1 DEF ReadInv
<1>4. at = p + Size(open[1].frame) + 1 /\ Partly(archive, p, open[1])
  BY <1>1, <1>3 DEF Position
<1>5. Size(open[1].frame) \in Nat
  BY <1>1, OpenFrame, FrameFields
<1>6. p \in Nat \ {0} /\ p \in 2..Len(archive)
  BY <1>1, <1>4, <1>5
<1>7. /\ verdict' = "reading" /\ at' = at + 1 /\ at \in 1..Len(archive) /\ archive' = archive
  BY <1>1, <1>4, <1>6, SensorRead
<1>8. PICK frame \in Frame :
        /\ Size(frame) = Size(open[1].frame) + 1
        /\ \/ decoded' = Append(decoded, frame) /\ open' = <<>> /\ Stands(archive, p, frame)
           \/ /\ decoded' = decoded /\ open' # <<>> /\ open'[1].frame = frame
              /\ Partly(archive, p, open'[1])
  BY <1>1, <1>4, <1>6, SensorRead
<1>9. CASE decoded' = Append(decoded, frame) /\ open' = <<>> /\ Stands(archive, p, frame)
  <2>1. PICK new \in [1..Len(decoded') -> 2..Len(archive)] :
          Consumed(archive, decoded', new, p + Size(frame) + 1)
    BY <1>1, <1>3, <1>6, <1>9, OneMoreFrame
  <2>2. Consumed(archive', decoded', new, at')
    BY <1>4, <1>5, <1>7, <1>8, <2>1
  <2>3. at' \in 2..Len(archive') + 1
    BY <1>1, <1>7
  <2>4. Position(at)'
    BY <1>7, <1>9 DEF Position
  <2>5. QED
    BY <1>2, <1>7, <2>1, <2>2, <2>3, <2>4 DEF ReadInv
<1>10. CASE decoded' = decoded /\ open' # <<>> /\ open'[1].frame = frame /\ Partly(archive, p, open'[1])
  <2>1. Partly(archive', p, open'[1]) /\ at' = p + Size(open'[1].frame) + 1
    BY <1>4, <1>5, <1>7, <1>8, <1>10
  <2>2. Position(p)'
    BY <1>7, <1>10, <2>1 DEF Position, Size
  <2>3. QED
    BY <1>2, <1>3, <1>7, <1>10, <2>2 DEF ReadInv
<1>11. QED
  BY <1>8, <1>9, <1>10

LEMMA ReadStep == TypeInv /\ ReadInv /\ [Next]_vars => ReadInv'
<1> SUFFICES ASSUME TypeInv, ReadInv, [Next]_vars PROVE ReadInv'
  OBVIOUS
<1>1. CASE Record \/ EncodeHeader \/ EncodeFrame \/ EncodeFooter \/ Damage
  BY <1>1 DEF Record, EncodeHeader, EncodeFrame, EncodeFooter, Damage, ReadInv
<1>2. CASE DecodeRefuses
  BY <1>2 DEF DecodeRefuses, malformed, ReadInv
<1>3. CASE UNCHANGED vars
  BY <1>3 DEF vars, file, ReadInv, Position
<1>4. QED
  BY <1>1, <1>2, <1>3, ReadBegins, ReadBlank, ReadFooter, ReadFrame, ReadSensor
  DEF Next, Decode, Done

(* Every line of an archive that was accepted, however often it was        *)
(* damaged, belongs to one decoded frame or is blank, and the footer       *)
(* counts the frames.                                                      *)
THEOREM ReadInOrder == Spec => []NothingIsSkipped
<1>1. Init => ReadInv
  BY DEF Init, ReadInv
<1>2. ASSUME TypeInv, ReadInv PROVE NothingIsSkipped
  <2> SUFFICES ASSUME verdict = "accepted" PROVE NothingIsSkipped
    BY DEF NothingIsSkipped
  <2>1. PICK start \in [1..Len(decoded) -> 2..Len(archive)], end \in 2..Len(archive) + 1 :
          Consumed(archive, decoded, start, end) /\ Position(end)
    BY <1>2 DEF ReadInv
  <2>2. /\ archive[1] = Header /\ end \in 2..Len(archive)
        /\ archive[end] = Footer(Len(decoded))
        /\ \A i \in end + 1..Len(archive) : archive[i] = Blank
    BY <1>2, <2>1 DEF ReadInv, Position
  <2>3. DOMAIN decoded = 1..Len(decoded) /\ Len(archive) \in Nat
    BY <1>2, LenProperties DEF TypeInv, TypeOK
  <2>4. \A i \in 2..Len(archive) : i \in 2..end - 1 \/ i = end \/ i \in end + 1..Len(archive)
    BY <2>2, <2>3
  <2>5. QED
    BY <2>1, <2>2, <2>3, <2>4 DEF Consumed, NothingIsSkipped
<1>3. TypeInv /\ ReadInv => NothingIsSkipped
  BY <1>2
<1>4. QED
  BY TypeInit, TypeStep, ReadStep, <1>1, <1>3, PTL DEF Spec

------------------------------------------------------------------------------
(* A frame is known by its line and its sensors.                           *)
LEMMA SensorKnown ==
  ASSUME NEW f, NEW g, NEW a, NEW b, SensorLine(f, a) = SensorLine(g, b)
  PROVE  a = b /\ f.sensors[a] = g.sensors[b]
<1>1. SensorLine(f, a).name = a /\ SensorLine(f, a).sample = f.sensors[a]
  BY DEF SensorLine
<1>2. SensorLine(g, b).name = b /\ SensorLine(g, b).sample = g.sensors[b]
  BY DEF SensorLine
<1>3. QED
  BY <1>1, <1>2

LEMMA FrameKnown ==
  ASSUME NEW f, NEW g, FrameLine(f) = FrameLine(g)
  PROVE  f.sequence = g.sequence /\ f.simTime = g.simTime /\ Size(f) = Size(g)
<1>1. /\ FrameLine(f).sequence = f.sequence /\ FrameLine(f).simTime = f.simTime
      /\ FrameLine(f).count = Size(f)
  BY DEF FrameLine, Size
<1>2. /\ FrameLine(g).sequence = g.sequence /\ FrameLine(g).simTime = g.simTime
      /\ FrameLine(g).count = Size(g)
  BY DEF FrameLine, Size
<1>3. QED
  BY <1>1, <1>2

LEMMA SameSensors ==
  ASSUME NEW f \in Frame, NEW g \in Frame, FrameLine(f) = FrameLine(g),
         \A name \in DOMAIN f.sensors : \E other \in DOMAIN g.sensors :
           SensorLine(f, name) = SensorLine(g, other)
  PROVE  f = g
<1>1. f.sequence = g.sequence /\ f.simTime = g.simTime /\ Size(f) = Size(g)
  BY FrameKnown
<1>2. ASSUME NEW name \in DOMAIN f.sensors
      PROVE  name \in DOMAIN g.sensors /\ f.sensors[name] = g.sensors[name]
  <2>1. PICK other \in DOMAIN g.sensors : SensorLine(f, name) = SensorLine(g, other)
    OBVIOUS
  <2>2. QED
    BY <2>1, SensorKnown
<1>3. DOMAIN f.sensors = DOMAIN g.sensors
  <2>1. IsFiniteSet(DOMAIN g.sensors) /\ DOMAIN f.sensors \subseteq DOMAIN g.sensors
    BY <1>2, FrameFields
  <2>2. QED
    BY <1>1, <2>1, FS_Subset DEF Size
<1>4. f.sensors = g.sensors
  BY <1>2, <1>3, FrameFields
<1>5. QED
  BY <1>1, <1>4, FrameFields

LEMMA SameFrame ==
  ASSUME NEW lines, NEW p, NEW f \in Frame, NEW g \in Frame,
         Stands(lines, p, f), Stands(lines, p, g)
  PROVE  f = g
<1>1. FrameLine(f) = FrameLine(g)
  BY DEF Stands
<1>2. Size(f) = Size(g)
  BY <1>1, FrameKnown
<1>3. {SensorLine(f, name) : name \in DOMAIN f.sensors} =
        {SensorLine(g, name) : name \in DOMAIN g.sensors}
  BY <1>2 DEF Stands, SensorsFollow
<1>4. \A name \in DOMAIN f.sensors : \E other \in DOMAIN g.sensors :
        SensorLine(f, name) = SensorLine(g, other)
  <2> SUFFICES ASSUME NEW name \in DOMAIN f.sensors
               PROVE  \E other \in DOMAIN g.sensors : SensorLine(f, name) = SensorLine(g, other)
    OBVIOUS
  <2>1. SensorLine(f, name) \in {SensorLine(f, n) : n \in DOMAIN f.sensors}
    OBVIOUS
  <2>2. SensorLine(f, name) \in {SensorLine(g, n) : n \in DOMAIN g.sensors}
    BY <1>3, <2>1
  <2>3. QED
    BY <2>2
<1>5. QED
  BY <1>1, <1>4, SameSensors

(* The first n of the frames, as they are encoded: frame k from place      *)
(* start[k] on, each line once.                                            *)
Encoded(lines, frames, n, start) ==
  /\ lines[1] = Header /\ start[1] = 2
  /\ \A k \in 1..n :
       /\ start[k + 1] = start[k] + Size(frames[k]) + 1
       /\ Stands(lines, start[k], frames[k])
       /\ \A i, j \in start[k] + 1..start[k] + Size(frames[k]) : lines[i] = lines[j] => i = j

(* The lines of a longer file are still where they were.                   *)
LEMMA StandsLonger ==
  ASSUME NEW lines \in Seq(Line), NEW more \in Seq(Line), NEW frame \in Frame, NEW p \in Nat \ {0},
         Len(more) >= Len(lines), \A i \in 1..Len(lines) : more[i] = lines[i],
         Stands(lines, p, frame)
  PROVE  Stands(more, p, frame)
<1>1. /\ Len(lines) \in Nat /\ Len(more) \in Nat /\ Size(frame) \in Nat
      /\ p + Size(frame) <= Len(lines) /\ lines[p] = FrameLine(frame)
  BY LenProperties, FrameFields DEF Stands
<1>2. p \in 1..Len(lines) /\ \A i \in p + 1..p + Size(frame) : i \in 1..Len(lines)
  BY <1>1
<1>3. {more[i] : i \in p + 1..p + Size(frame)} = {lines[i] : i \in p + 1..p + Size(frame)}
  <2>1. \A i \in p + 1..p + Size(frame) : more[i] = lines[i]
    BY <1>2
  <2>2. QED
    BY <2>1
<1>4. more[p] = FrameLine(frame) /\ p + Size(frame) <= Len(more)
  BY <1>1, <1>2
<1>5. SensorsFollow(more, p, frame)
  BY <1>3 DEF Stands, SensorsFollow
<1>6. QED
  BY <1>4, <1>5 DEF Stands

LEMMA EncodedLonger ==
  ASSUME NEW lines \in Seq(Line), NEW more \in Seq(Line), NEW frames \in Seq(Frame),
         NEW n \in 0..Len(frames), NEW start \in [1..n + 1 -> Nat \ {0}], Len(lines) >= 1,
         Len(more) >= Len(lines), \A i \in 1..Len(lines) : more[i] = lines[i],
         Encoded(lines, frames, n, start)
  PROVE  Encoded(more, frames, n, start)
<1>1. Len(lines) \in Nat /\ Len(frames) \in Nat
  BY LenProperties
<1>2. more[1] = Header /\ start[1] = 2
  BY <1>1 DEF Encoded
<1>3. ASSUME NEW k \in 1..n
      PROVE  /\ start[k + 1] = start[k] + Size(frames[k]) + 1
             /\ Stands(more, start[k], frames[k])
             /\ \A i, j \in start[k] + 1..start[k] + Size(frames[k]) : more[i] = more[j] => i = j
  <2>1. frames[k] \in Frame /\ start[k] \in Nat \ {0}
    BY <1>1, ElementOfSeq
  <2>2. /\ start[k + 1] = start[k] + Size(frames[k]) + 1
        /\ Stands(lines, start[k], frames[k])
        /\ \A i, j \in start[k] + 1..start[k] + Size(frames[k]) : lines[i] = lines[j] => i = j
    BY DEF Encoded
  <2>3. Stands(more, start[k], frames[k])
    BY <2>1, <2>2, StandsLonger
  <2>4. start[k] + Size(frames[k]) <= Len(lines) /\ Size(frames[k]) \in Nat
    BY <2>1, <2>2, FrameFields DEF Stands
  <2>5. \A i \in start[k] + 1..start[k] + Size(frames[k]) : i \in 1..Len(lines)
    <3> DEFINE a == start[k]
               size == Size(frames[k])
    <3>1. a \in Nat /\ size \in Nat /\ a + size <= Len(lines)
      BY <2>1, <2>4
    <3> HIDE DEF a, size
    <3>2. \A i \in a + 1..a + size : i \in 1..Len(lines)
      BY <1>1, <3>1
    <3>3. QED
      BY <3>2 DEF a, size
  <2>6. \A i \in start[k] + 1..start[k] + Size(frames[k]) : more[i] = lines[i]
    BY <2>5
  <2>7. QED
    BY <2>2, <2>3, <2>6
<1>4. QED
  BY <1>2, <1>3 DEF Encoded

(* The frame is what the file has more, from place p on.                   *)
Appended(more, lines, p, frame) ==
  /\ more \in Seq(Line) /\ Len(more) = p + Size(frame)
  /\ \A i \in 1..Len(lines) : more[i] = lines[i]
  /\ Stands(more, p, frame)
  /\ \A i, j \in p + 1..p + Size(frame) : more[i] = more[j] => i = j

LEMMA FrameAppended ==
  ASSUME NEW lines \in Seq(Line), NEW frame \in Frame
  PROVE  Appended(lines \o FrameLines(frame), lines, Len(lines) + 1, frame)
<1> DEFINE n == Size(frame)
           added == FrameLines(frame)
           more == lines \o added
           p == Len(lines) + 1
<1>1. Len(lines) \in Nat /\ p \in Nat /\ n \in Nat /\ Len(lines) = p - 1
  BY LenProperties, FrameFields
<1>2. added \in Seq(Line) /\ Len(added) = n + 1 /\ added[1] = FrameLine(frame)
  BY FrameIsEncoded
<1>3. PICK names \in [1..n -> DOMAIN frame.sensors] :
        /\ \A i, j \in 1..n : names[i] = names[j] => i = j
        /\ \A name \in DOMAIN frame.sensors : \E i \in 1..n : names[i] = name
        /\ \A i \in 1..n : added[i + 1] = SensorLine(frame, names[i])
  BY FrameIsEncoded
<1> HIDE DEF n, added, p
<1>4. /\ more \in Seq(Line) /\ Len(more) = Len(lines) + Len(added)
      /\ \A i \in 1..Len(lines) + Len(added) :
           more[i] = IF i <= Len(lines) THEN lines[i] ELSE added[i - Len(lines)]
  BY <1>2, ConcatProperties
<1> HIDE DEF more
<1>5. Len(more) = p + n
  BY <1>1, <1>2, <1>4
<1>6. \A i \in 1..p + n : more[i] = IF i <= p - 1 THEN lines[i] ELSE added[i - (p - 1)]
  <2>1. Len(lines) + Len(added) = p + n
    BY <1>1, <1>2
  <2>2. QED
    BY <1>1, <1>4, <2>1
<1>7. \A i \in 1..Len(lines) : more[i] = lines[i]
  <2> SUFFICES ASSUME NEW i \in 1..Len(lines) PROVE more[i] = lines[i]
    OBVIOUS
  <2>1. i \in 1..p + n /\ i <= p - 1
    BY <1>1
  <2>2. QED
    BY <1>6, <2>1
<1>8. more[p] = FrameLine(frame)
  <2>1. p \in 1..p + n /\ ~(p <= p - 1) /\ p - (p - 1) = 1
    BY <1>1
  <2>2. QED
    BY <1>2, <1>6, <2>1
<1>9. \A i \in p + 1..p + n : i - p \in 1..n /\ more[i] = SensorLine(frame, names[i - p])
  <2> SUFFICES ASSUME NEW i \in p + 1..p + n
               PROVE  i - p \in 1..n /\ more[i] = SensorLine(frame, names[i - p])
    OBVIOUS
  <2>1. i - p \in 1..n /\ i \in 1..p + n /\ ~(i <= p - 1) /\ i - (p - 1) = (i - p) + 1
    BY <1>1
  <2>2. more[i] = added[(i - p) + 1]
    BY <1>6, <2>1
  <2>3. QED
    BY <1>3, <2>1, <2>2
<1>10. SensorsFollow(more, p, frame)
  <2>1. ASSUME NEW i \in p + 1..p + n
        PROVE  \E name \in DOMAIN frame.sensors : more[i] = SensorLine(frame, name)
    BY <1>3, <1>9
  <2>2. ASSUME NEW name \in DOMAIN frame.sensors
        PROVE  \E i \in p + 1..p + n : more[i] = SensorLine(frame, name)
    <3>1. PICK i \in 1..n : names[i] = name
      BY <1>3
    <3>2. p + i \in p + 1..p + n /\ (p + i) - p = i
      BY <1>1
    <3>3. QED
      BY <1>9, <3>1, <3>2
  <2> DEFINE read == {more[i] : i \in p + 1..p + n}
             sensors == {SensorLine(frame, name) : name \in DOMAIN frame.sensors}
  <2>3. \A l : l \in read => l \in sensors
    BY <2>1, Zenon
  <2>4. \A l : l \in sensors => l \in read
    BY <2>2, Zenon
  <2>5. read = sensors
    BY <2>3, <2>4
  <2>6. QED
    BY <2>5 DEF SensorsFollow, n
<1>11. \A i, j \in p + 1..p + n : more[i] = more[j] => i = j
  <2> SUFFICES ASSUME NEW i \in p + 1..p + n, NEW j \in p + 1..p + n, more[i] = more[j]
               PROVE  i = j
    OBVIOUS
  <2>1. SensorLine(frame, names[i - p]) = SensorLine(frame, names[j - p])
    BY <1>9
  <2>2. names[i - p] = names[j - p]
    BY <2>1, SensorKnown
  <2>3. i - p = j - p
    BY <1>3, <1>9, <2>2
  <2>4. QED
    BY <1>1, <2>3
<1>12. Stands(more, p, frame)
  BY <1>5, <1>8, <1>10 DEF Stands, n
<1>13. QED
  BY <1>4, <1>5, <1>7, <1>11, <1>12 DEF n, added, more, p, Appended

(* The file ends where the next frame is to begin.                         *)
SoFar(lines, frames, n, start) ==
  /\ start \in [1..n + 1 -> Nat \ {0}]
  /\ Encoded(lines, frames, n, start)
  /\ Len(lines) = start[n + 1] - 1

LEMMA SoFarBegun ==
  ASSUME NEW lines \in Seq(Line), NEW frames \in Seq(Frame), NEW n \in Nat, n <= Len(frames),
         NEW start, SoFar(lines, frames, n, start)
  PROVE  Len(lines) >= 1
<1>1. Len(lines) \in Nat /\ start[n + 1] \in Nat /\ Len(lines) = start[n + 1] - 1 /\ start[1] = 2
  BY LenProperties DEF SoFar, Encoded
<1>2. CASE n = 0
  BY <1>1, <1>2
<1>3. CASE n # 0
  <2>1. 1 \in 1..n /\ 1 \in 1..Len(frames)
    BY <1>3, LenProperties
  <2>2. frames[1] \in Frame
    BY <2>1, ElementOfSeq
  <2>3. Stands(lines, 2, frames[1])
    BY <1>1, <2>1 DEF SoFar, Encoded
  <2>4. 2 + Size(frames[1]) <= Len(lines) /\ Size(frames[1]) \in Nat
    BY <2>2, <2>3, FrameFields DEF Stands
  <2>5. QED
    BY <1>1, <2>4
<1>4. QED
  BY <1>2, <1>3

LEMMA EncodedMore ==
  ASSUME NEW lines \in Seq(Line), NEW frames \in Seq(Frame), NEW n \in Nat, n < Len(frames),
         NEW start, SoFar(lines, frames, n, start),
         NEW more, Appended(more, lines, start[n + 1], frames[n + 1])
  PROVE  \E new : SoFar(more, frames, n + 1, new)
<1>0. /\ start \in [1..n + 1 -> Nat \ {0}] /\ Len(lines) >= 1 /\ Len(lines) = start[n + 1] - 1
      /\ Encoded(lines, frames, n, start)
  <2>1. n <= Len(frames)
    BY LenProperties
  <2>2. Len(lines) >= 1
    BY <2>1, SoFarBegun
  <2>3. QED
    BY <2>2 DEF SoFar
<1>1. PICK frame \in Frame : frame = frames[n + 1]
  BY LenProperties, ElementOfSeq
<1>2. PICK p \in Nat : p = start[n + 1] /\ p # 0
  BY <1>0
<1>3. Len(lines) \in Nat /\ p = Len(lines) + 1 /\ Size(frame) \in Nat
  <2>1. Size(frame) \in Nat
    BY FrameFields
  <2>2. Len(lines) \in Nat /\ Len(lines) = p - 1
    BY <1>0, <1>2, LenProperties
  <2>3. QED
    BY <2>1, <2>2
<1>4. Appended(more, lines, p, frame)
  BY <1>1, <1>2
<1>5. /\ more \in Seq(Line) /\ Len(more) = p + Size(frame)
      /\ \A i \in 1..Len(lines) : more[i] = lines[i]
      /\ Stands(more, p, frame)
      /\ \A i, j \in p + 1..p + Size(frame) : more[i] = more[j] => i = j
  BY <1>4 DEF Appended
<1>6. Len(more) >= Len(lines) /\ n \in 0..Len(frames)
  BY <1>3, <1>5, LenProperties
<1>7. Encoded(more, frames, n, start)
  BY <1>0, <1>5, <1>6, EncodedLonger
<1> DEFINE new == [k \in 1..n + 2 |-> IF k = n + 2 THEN p + Size(frame) + 1 ELSE start[k]]
<1>8. /\ new \in [1..n + 2 -> Nat \ {0}] /\ new[n + 1] = p /\ new[n + 2] = p + Size(frame) + 1
      /\ new[1] = start[1] /\ \A k \in 1..n + 1 : new[k] = start[k]
  <2>1. p + Size(frame) + 1 \in Nat \ {0} /\ 1 \in 1..n + 1
    BY <1>3
  <2>2. \A k \in 1..n + 1 : k # n + 2 /\ k \in 1..n + 2
    OBVIOUS
  <2>3. new \in [1..n + 2 -> Nat \ {0}]
    BY <1>0, <2>1
  <2>4. \A k \in 1..n + 1 : new[k] = start[k]
    BY <2>2
  <2>5. QED
    BY <1>2, <2>1, <2>3, <2>4
<1> HIDE DEF new
<1>9. ASSUME NEW k \in 1..n + 1
      PROVE  /\ new[k + 1] = new[k] + Size(frames[k]) + 1
             /\ Stands(more, new[k], frames[k])
             /\ \A i, j \in new[k] + 1..new[k] + Size(frames[k]) : more[i] = more[j] => i = j
  <2>1. CASE k = n + 1
    <3>1. new[k] = p /\ frames[k] = frame /\ new[k + 1] = p + Size(frame) + 1
      BY <1>1, <1>8, <2>1
    <3>2. QED
      BY <1>5, <3>1
  <2>2. CASE k # n + 1
    <3>1. k \in 1..n /\ new[k] = start[k] /\ new[k + 1] = start[k + 1]
      BY <1>8, <2>2
    <3>2. QED
      BY <1>7, <3>1 DEF Encoded
  <2>3. QED
    BY <2>1, <2>2
<1>10. Encoded(more, frames, n + 1, new)
  BY <1>7, <1>8, <1>9 DEF Encoded
<1>11. Len(more) = new[n + 2] - 1
  BY <1>3, <1>5, <1>8
<1>12. /\ (n + 1) + 1 = n + 2 /\ start[1] = 2
       /\ \A k \in 1..n + 1 : new[k + 1] = new[k] + Size(frames[k]) + 1
  BY <1>0, <1>9 DEF Encoded
<1>13. QED
  BY <1>8, <1>10, <1>11, <1>12 DEF SoFar

(* What an archive to which nothing happened holds, and how it is read.    *)
ReadSoFar(start) ==
  LET n == Len(decoded)
  IN  /\ n <= written /\ \A k \in 1..n : decoded[k] = recorded[k]
      /\ \/ open = <<>> /\ at = start[n + 1]
         \/ /\ open # <<>> /\ n < written
            /\ at = start[n + 1] + Size(open[1].frame) + 1
            /\ Partly(archive, start[n + 1], open[1])

SomeIllegible ==
  \E i \in DOMAIN recorded : \E c \in DOMAIN recorded[i].sensors :
    ~Legible(recorded[i].sensors[c])

Whole(start) ==
  /\ written = Len(recorded)
  /\ Len(archive) = start[written + 1]
  /\ archive[start[written + 1]] = Footer(written)

IntactInv ==
  /\ verdict = "recording" => written = 0
  /\ verdict = "encoding" =>
       \E start : SoFar(archive, recorded, written, start)
  /\ edits = 0 /\ verdict \notin {"recording", "encoding"} =>
       \E start \in [1..written + 1 -> Nat \ {0}] :
         /\ Encoded(archive, recorded, written, start) /\ Whole(start)
         /\ verdict = "reading" => ReadSoFar(start)
         /\ verdict = "accepted" => decoded = recorded
         /\ verdict = "malformed" => SomeIllegible

LEMMA IntactHeader ==
  ASSUME TypeInv, IntactInv, EncodeHeader
  PROVE  IntactInv'
<1>1. /\ written = 0 /\ written' = 0 /\ recorded' = recorded /\ archive' = <<Header>>
      /\ verdict' = "encoding"
  BY DEF EncodeHeader, IntactInv
<1> DEFINE start == [k \in 1..1 |-> 2]
<1>2. start \in [1..written' + 1 -> Nat \ {0}] /\ start[1] = 2 /\ start[written' + 1] = 2
  BY <1>1
<1>3. Len(archive') = 1 /\ archive'[1] = Header
  BY <1>1
<1> HIDE DEF start
<1>4. Encoded(archive', recorded', written', start)
  BY <1>1, <1>2, <1>3 DEF Encoded
<1>5. Len(archive') = start[written' + 1] - 1
  BY <1>2, <1>3
<1>6. QED
  BY <1>1, <1>2, <1>4, <1>5 DEF IntactInv, SoFar

LEMMA IntactEncode ==
  ASSUME TypeInv, IntactInv, EncodeFrame
  PROVE  IntactInv'
<1>1. /\ verdict = "encoding" /\ verdict' = "encoding" /\ recorded' = recorded
      /\ written \in Nat /\ written < Len(recorded) /\ written' = written + 1
      /\ archive' = archive \o FrameLines(recorded[written + 1])
      /\ archive \in Seq(Line) /\ recorded \in Seq(Frame) /\ Len(archive) \in Nat
      /\ Len(recorded) \in Nat
  BY LenProperties DEF EncodeFrame, TypeInv, TypeOK
<1>2. PICK start : SoFar(archive, recorded, written, start)
  BY <1>1 DEF IntactInv
<1>3. recorded[written + 1] \in Frame
  BY <1>1, ElementOfSeq
<1>4. start[written + 1] = Len(archive) + 1
  BY <1>1, <1>2 DEF SoFar
<1>5. Appended(archive', archive, start[written + 1], recorded[written + 1])
  BY <1>1, <1>3, <1>4, FrameAppended
<1>6. \E new : SoFar(archive', recorded, written + 1, new)
  BY <1>1, <1>2, <1>5, EncodedMore
<1>7. QED
  BY <1>1, <1>6 DEF IntactInv

LEMMA IntactFooter ==
  ASSUME TypeInv, IntactInv, EncodeFooter
  PROVE  IntactInv'
<1>1. /\ verdict = "encoding" /\ verdict' = "stored" /\ recorded' = recorded
      /\ written \in 0..Len(recorded) /\ written = Len(recorded) /\ written' = written
      /\ archive' = Append(archive, Footer(written))
      /\ archive \in Seq(Line) /\ recorded \in Seq(Frame) /\ Len(archive) \in Nat
      /\ Len(recorded) \in Nat
  BY LenProperties DEF EncodeFooter, TypeInv, TypeOK
<1>2. PICK start : SoFar(archive, recorded, written, start)
  BY <1>1 DEF IntactInv
<1>3. Footer(written) \in Line
  BY <1>1 DEF Footer, Line
<1>4. /\ archive' \in Seq(Line) /\ Len(archive') = Len(archive) + 1
      /\ \A i \in 1..Len(archive) : archive'[i] = archive[i]
      /\ archive'[Len(archive) + 1] = Footer(written)
  BY <1>1, <1>3, AppendProperties
<1>5. /\ start \in [1..written + 1 -> Nat \ {0}] /\ start[written + 1] = Len(archive) + 1
      /\ Len(archive) >= 1 /\ Len(archive') >= Len(archive)
      /\ Encoded(archive, recorded, written, start)
  <2>1. written \in Nat /\ written <= Len(recorded)
    BY <1>1
  <2>2. Len(archive) >= 1
    BY <1>1, <1>2, <2>1, SoFarBegun
  <2>3. start \in [1..written + 1 -> Nat \ {0}] /\ start[written + 1] \in Nat
    BY <1>2, <2>1 DEF SoFar
  <2>4. QED
    BY <1>1, <1>2, <1>4, <2>2, <2>3 DEF SoFar
<1>6. Encoded(archive', recorded, written, start)
  BY <1>1, <1>4, <1>5, EncodedLonger
<1>7. Whole(start)'
  BY <1>1, <1>4, <1>5 DEF Whole
<1>8. QED
  BY <1>1, <1>5, <1>6, <1>7 DEF IntactInv

LEMMA IntactBegins ==
  ASSUME TypeInv, IntactInv, DecodeBegin
  PROVE  IntactInv'
<1>1. /\ verdict = "stored" /\ verdict' \in {"reading", "malformed"}
      /\ recorded' = recorded /\ written' = written /\ archive' = archive /\ edits' = edits
      /\ decoded = <<>> /\ open = <<>> /\ decoded' = decoded /\ open' = open
      /\ archive \in Seq(Line) /\ Len(archive) \in Nat /\ written \in Nat
      /\ archive # <<>> /\ archive[1] = Header => verdict' = "reading" /\ at' = 2
  BY LenProperties DEF TypeInv, TypeOK, NotBegun, DecodeBegin, malformed, file
<1>2. CASE edits # 0
  BY <1>1, <1>2 DEF IntactInv
<1>3. CASE edits = 0
  <2>1. PICK start \in [1..written + 1 -> Nat \ {0}] :
          Encoded(archive, recorded, written, start) /\ Whole(start)
    BY <1>1, <1>3 DEF IntactInv
  <2>2. Len(archive) # 0
    <3>1. start[written + 1] \in Nat \ {0}
      BY <1>1
    <3>2. QED
      BY <2>1, <3>1 DEF Whole
  <2>3. verdict' = "reading" /\ at' = 2 /\ start[1] = 2
    BY <1>1, <2>1, <2>2, EmptySeq DEF Encoded
  <2>4. Len(decoded') = 0
    BY <1>1, EmptySeq
  <2>5. ReadSoFar(start)'
    BY <1>1, <2>3, <2>4 DEF ReadSoFar
  <2>6. Encoded(archive', recorded', written', start) /\ Whole(start)'
    BY <1>1, <2>1 DEF Whole
  <2>7. QED
    BY <1>1, <2>1, <2>3, <2>5, <2>6 DEF IntactInv
<1>4. QED
  BY <1>2, <1>3

(* What stands where a frame was put, or after the last of them.           *)
LEMMA WholeLines ==
  ASSUME TypeInv, NEW start \in [1..written + 1 -> Nat \ {0}],
         Encoded(archive, recorded, written, start), Whole(start),
         NEW k \in 1..written + 1
  PROVE  /\ start[k] \in 1..Len(archive)
         /\ k <= written => archive[start[k]].kind = "FRAME"
         /\ k = written + 1 => start[k] = Len(archive) /\ archive[start[k]] = Footer(written)
<1>1. written \in Nat /\ Len(archive) \in Nat /\ start[k] \in Nat \ {0} /\ recorded \in Seq(Frame)
  BY LenProperties DEF TypeInv, TypeOK
<1>2. CASE k <= written
  <2>1. recorded[k] \in Frame /\ Stands(archive, start[k], recorded[k])
    <3>1. k \in 1..written /\ k \in 1..Len(recorded)
      BY <1>1, <1>2 DEF Whole
    <3>2. QED
      BY <1>1, <3>1, ElementOfSeq DEF Encoded
  <2>2. /\ start[k] + Size(recorded[k]) <= Len(archive) /\ Size(recorded[k]) \in Nat
        /\ archive[start[k]] = FrameLine(recorded[k])
    BY <2>1, FrameFields DEF Stands
  <2>3. start[k] \in 1..Len(archive)
    BY <1>1, <2>2
  <2>4. archive[start[k]].kind = "FRAME"
    BY <2>2 DEF FrameLine
  <2>5. QED
    BY <1>1, <1>2, <2>3, <2>4
<1>3. CASE k = written + 1
  BY <1>1, <1>3 DEF Whole
<1>4. QED
  BY <1>1, <1>2, <1>3

(* In a frame, the next line is a sensor that was not read yet.            *)
LEMMA NextSensor ==
  ASSUME TypeInv, NEW start \in [1..written + 1 -> Nat \ {0}],
         Encoded(archive, recorded, written, start), NEW k \in 1..written, open # <<>>,
         at = start[k] + Size(open[1].frame) + 1, Partly(archive, start[k], open[1])
  PROVE  /\ at <= Len(archive)
         /\ \E name \in DOMAIN recorded[k].sensors :
              archive[at] = SensorLine(recorded[k], name) /\ name \notin DOMAIN open[1].frame.sensors
<1>1. /\ recorded[k] \in Frame /\ Len(archive) \in Nat /\ k \in 1..Len(recorded)
  <2>1. written \in 0..Len(recorded) /\ recorded \in Seq(Frame) /\ Len(archive) \in Nat /\ Len(recorded) \in Nat
    BY LenProperties DEF TypeInv, TypeOK
  <2>2. k \in 1..Len(recorded)
    BY <2>1
  <2>3. QED
    BY <2>1, <2>2, ElementOfSeq
<1>2. PICK rec \in Frame : rec = recorded[k]
  BY <1>1
<1>3. PICK p \in Nat : p = start[k] /\ p # 0
  <2>1. written \in Nat
    BY LenProperties DEF TypeInv, TypeOK
  <2>2. start[k] \in Nat \ {0}
    BY <2>1
  <2>3. QED
    BY <2>2
<1>4. PICK f \in Frame, left \in Nat \ {0} : f = open[1].frame /\ left = open[1].left
  BY OpenFrame, FS_CardinalityType DEF TypeInv
<1>5. Size(f) \in Nat /\ Size(rec) \in Nat
  BY FrameFields
<1>6. /\ Stands(archive, p, rec)
      /\ \A i, j \in p + 1..p + Size(rec) : archive[i] = archive[j] => i = j
  BY <1>2, <1>3 DEF Encoded
<1>7. /\ archive[p] = [ kind |-> "FRAME", sequence |-> f.sequence, simTime |-> f.simTime,
                        count |-> Size(f) + left ]
      /\ SensorsFollow(archive, p, f)
  BY <1>3, <1>4 DEF Partly
<1>8. Size(rec) = Size(f) + left
  <2>1. archive[p].count = Size(rec)
    BY <1>6 DEF Stands, FrameLine, Size
  <2>2. archive[p].count = Size(f) + left
    BY <1>7
  <2>3. QED
    BY <2>1, <2>2
<1>9. at = p + Size(f) + 1 /\ at \in p + 1..p + Size(rec)
  BY <1>3, <1>4, <1>5, <1>8
<1>10. at <= Len(archive) /\ SensorsFollow(archive, p, rec)
  BY <1>1, <1>3, <1>5, <1>6, <1>9 DEF Stands
<1>11. \A i \in p + 1..p + Size(rec) : \E name \in DOMAIN rec.sensors :
         archive[i] = SensorLine(rec, name)
  <2> SUFFICES ASSUME NEW i \in p + 1..p + Size(rec)
               PROVE  archive[i] \in {SensorLine(rec, name) : name \in DOMAIN rec.sensors}
    OBVIOUS
  <2>1. archive[i] \in {archive[j] : j \in p + 1..p + Size(rec)}
    OBVIOUS
  <2>2. QED
    BY <1>10, <2>1 DEF SensorsFollow
<1>12. PICK name \in DOMAIN rec.sensors : archive[at] = SensorLine(rec, name)
  BY <1>9, <1>11
<1>13. ASSUME name \in DOMAIN f.sensors
       PROVE  FALSE
  <2>1. SensorLine(f, name) \in {SensorLine(f, n) : n \in DOMAIN f.sensors}
    BY <1>13
  <2>2. SensorLine(f, name) \in {archive[i] : i \in p + 1..p + Size(f)}
    BY <1>7, <2>1 DEF SensorsFollow
  <2>3. PICK i \in p + 1..p + Size(f) : archive[i] = SensorLine(f, name)
    BY <2>2
  <2>4. i \in p + 1..p + Size(rec) /\ i # at
    <3>1. \A m \in Nat : p + 1..p + m \subseteq p + 1..p + (m + left) /\ p + m + 1 \notin p + 1..p + m
      OBVIOUS
    <3>2. QED
      BY <1>5, <1>8, <1>9, <3>1
  <2>5. PICK other \in DOMAIN rec.sensors : archive[i] = SensorLine(rec, other)
    BY <1>11, <2>4, Zenon
  <2>6. name = other
    <3>1. SensorLine(f, name) = SensorLine(rec, other)
      BY <2>3, <2>5
    <3>2. QED
      BY <3>1, SensorKnown
  <2>7. archive[i] = archive[at]
    BY <1>12, <2>5, <2>6
  <2>8. QED
    BY <1>6, <1>9, <2>4, <2>7
<1>14. QED
  BY <1>2, <1>4, <1>10, <1>12, <1>13

(* A frame that is complete is the recorded one.                           *)
LEMMA FrameIsRead ==
  ASSUME TypeInv, NEW start \in [1..written + 1 -> Nat \ {0}],
         Encoded(archive, recorded, written, start),
         NEW n \in Nat, n = Len(decoded), n < written,
         \A k \in 1..n : decoded[k] = recorded[k],
         NEW frame \in Frame, Stands(archive, start[n + 1], frame),
         decoded' = Append(decoded, frame), open' = <<>>,
         at' = start[n + 1] + Size(frame) + 1, UNCHANGED <<recorded, written>>
  PROVE  ReadSoFar(start)'
<1>1. /\ written \in Nat /\ n + 1 \in 1..written /\ n + 1 \in 1..Len(recorded)
      /\ recorded \in Seq(Frame) /\ decoded \in Seq(Frame)
  BY LenProperties DEF TypeInv, TypeOK
<1>2. recorded[n + 1] \in Frame
  BY <1>1, ElementOfSeq
<1>3. /\ Stands(archive, start[n + 1], recorded[n + 1])
      /\ start[n + 2] = start[n + 1] + Size(recorded[n + 1]) + 1
  <2>1. n + 1 + 1 = n + 2
    OBVIOUS
  <2>2. QED
    BY <1>1, <2>1 DEF Encoded
<1>4. frame = recorded[n + 1]
  BY <1>2, <1>3, SameFrame
<1>5. /\ Len(decoded') = n + 1 /\ decoded'[n + 1] = recorded[n + 1]
      /\ \A k \in 1..n : decoded'[k] = recorded[k]
  BY <1>1, <1>4, AppendProperties
<1>6. \A k \in 1..n + 1 : decoded'[k] = recorded[k]
  BY <1>5
<1>7. at' = start[n + 2] /\ n + 1 <= written /\ (n + 1) + 1 = n + 2
  BY <1>1, <1>3, <1>4
<1>8. QED
  BY <1>5, <1>6, <1>7 DEF ReadSoFar

LEMMA IntactRead ==
  ASSUME TypeInv, IntactInv, edits = 0, verdict = "reading"
  PROVE  \E start \in [1..written + 1 -> Nat \ {0}] :
           /\ Encoded(archive, recorded, written, start) /\ Whole(start) /\ ReadSoFar(start)
BY DEF IntactInv

(* One step of decode leaves the file as it is.                            *)
LEMMA IntactKept ==
  ASSUME TypeInv, NEW start \in [1..written + 1 -> Nat \ {0}],
         Encoded(archive, recorded, written, start), Whole(start), verdict = "reading",
         UNCHANGED <<recorded, written, file>>, verdict' \in {"reading", "accepted", "malformed"},
         verdict' = "reading" => ReadSoFar(start)',
         verdict' = "accepted" => decoded' = recorded,
         verdict' = "malformed" => SomeIllegible
  PROVE  IntactInv'
<1>1. /\ recorded' = recorded /\ written' = written /\ archive' = archive
  BY DEF file
<1>2. /\ start \in [1..written' + 1 -> Nat \ {0}]
      /\ Encoded(archive', recorded', written', start) /\ Whole(start)'
  BY <1>1 DEF Whole
<1>3. /\ verdict' = "malformed" => SomeIllegible'
      /\ verdict' = "accepted" => decoded' = recorded'
  BY <1>1 DEF SomeIllegible, Legible
<1>4. QED
  BY <1>2, <1>3 DEF IntactInv

LEMMA IntactFrameStep ==
  ASSUME TypeInv, IntactInv, edits = 0, DecodeFrame
  PROVE  IntactInv'
<1>1. /\ TypeOK /\ written \in Nat /\ Len(archive) \in Nat /\ Len(decoded) \in Nat
      /\ UNCHANGED <<recorded, written, file>> /\ verdict' = "reading"
      /\ decoded \in Seq(Frame)
  BY LenProperties DEF TypeInv, TypeOK, DecodeFrame, reading
<1>2. /\ verdict = "reading" /\ open = <<>> /\ at' = at + 1 /\ archive' = archive
      /\ archive[at].kind = "FRAME"
  BY <1>1, FrameBegins
<1>3. PICK frame \in Frame :
        /\ Size(frame) = 0
        /\ \/ decoded' = Append(decoded, frame) /\ open' = <<>> /\ Stands(archive, at, frame)
           \/ /\ decoded' = decoded /\ open' # <<>> /\ open'[1].frame = frame
              /\ Partly(archive, at, open'[1])
  BY <1>1, FrameBegins
<1>4. PICK start \in [1..written + 1 -> Nat \ {0}] :
        Encoded(archive, recorded, written, start) /\ Whole(start) /\ ReadSoFar(start)
  BY <1>2, IntactRead
<1>5. PICK n \in Nat : n = Len(decoded)
  BY <1>1
<1>6. /\ n <= written /\ at = start[n + 1] /\ \A k \in 1..n : decoded[k] = recorded[k]
  BY <1>2, <1>4, <1>5 DEF ReadSoFar
<1>7. n < written
  <2>1. n + 1 \in 1..written + 1
    BY <1>1, <1>6
  <2>2. ASSUME n + 1 = written + 1 PROVE FALSE
    <3>1. archive[at] = Footer(written)
      BY <1>4, <1>6, <2>1, <2>2, WholeLines
    <3>2. QED
      BY <1>2, <3>1 DEF Footer
  <2>3. QED
    BY <1>1, <1>6, <2>2
<1>8. start[n + 1] \in Nat
  BY <1>1, <1>7
<1>9. CASE decoded' = Append(decoded, frame) /\ open' = <<>> /\ Stands(archive, at, frame)
  <2>1. at' = start[n + 1] + Size(frame) + 1 /\ Stands(archive, start[n + 1], frame)
    BY <1>2, <1>3, <1>6, <1>8, <1>9
  <2>2. ReadSoFar(start)'
    BY <1>1, <1>4, <1>5, <1>6, <1>7, <1>9, <2>1, FrameIsRead
  <2>3. QED
    BY <1>1, <1>2, <1>4, <2>2, IntactKept
<1>10. CASE decoded' = decoded /\ open' # <<>> /\ open'[1].frame = frame /\ Partly(archive, at, open'[1])
  <2>1. /\ at' = start[n + 1] + Size(open'[1].frame) + 1
        /\ Partly(archive', start[n + 1], open'[1])
    BY <1>2, <1>3, <1>6, <1>8, <1>10
  <2>2. Len(decoded') = n /\ \A k \in 1..n : decoded'[k] = recorded'[k]
    BY <1>1, <1>5, <1>6, <1>10
  <2>3. ReadSoFar(start)'
    BY <1>1, <1>6, <1>7, <1>10, <2>1, <2>2 DEF ReadSoFar, Size
  <2>4. QED
    BY <1>1, <1>2, <1>4, <2>3, IntactKept
<1>11. QED
  BY <1>3, <1>9, <1>10

LEMMA IntactSensorStep ==
  ASSUME TypeInv, IntactInv, edits = 0, DecodeSensor
  PROVE  IntactInv'
<1>1. /\ TypeOK /\ written \in Nat /\ Len(archive) \in Nat /\ Len(decoded) \in Nat
      /\ UNCHANGED <<recorded, written, file>> /\ verdict' = "reading" /\ verdict = "reading"
      /\ decoded \in Seq(Frame) /\ open # <<>>
  BY LenProperties DEF TypeInv, TypeOK, DecodeSensor, reading
<1>2. PICK start \in [1..written + 1 -> Nat \ {0}] :
        Encoded(archive, recorded, written, start) /\ Whole(start) /\ ReadSoFar(start)
  BY <1>1, IntactRead
<1>3. PICK n \in Nat : n = Len(decoded)
  BY <1>1
<1>4. /\ n < written /\ \A k \in 1..n : decoded[k] = recorded[k]
      /\ at = start[n + 1] + Size(open[1].frame) + 1
      /\ Partly(archive, start[n + 1], open[1])
  BY <1>1, <1>2, <1>3 DEF ReadSoFar
<1>5. PICK p \in Nat \ {0} : p = start[n + 1]
  BY <1>1, <1>4
<1>6. at = p + Size(open[1].frame) + 1 /\ Partly(archive, p, open[1])
  BY <1>4, <1>5
<1>7. at' = at + 1 /\ archive' = archive
  BY <1>1, <1>6, SensorRead
<1>8. PICK frame \in Frame :
        /\ Size(frame) = Size(open[1].frame) + 1
        /\ \/ decoded' = Append(decoded, frame) /\ open' = <<>> /\ Stands(archive, p, frame)
           \/ /\ decoded' = decoded /\ open' # <<>> /\ open'[1].frame = frame
              /\ Partly(archive, p, open'[1])
  BY <1>1, <1>6, SensorRead
<1>9. at' = p + Size(frame) + 1
  <2>1. Size(open[1].frame) \in Nat
    BY <1>1, OpenFrame, FrameFields
  <2>2. QED
    BY <1>6, <1>7, <1>8, <2>1
<1>10. CASE decoded' = Append(decoded, frame) /\ open' = <<>> /\ Stands(archive, p, frame)
  <2>1. at' = start[n + 1] + Size(frame) + 1 /\ Stands(archive, start[n + 1], frame)
    BY <1>5, <1>9, <1>10
  <2>2. ReadSoFar(start)'
    BY <1>1, <1>2, <1>3, <1>4, <1>10, <2>1, FrameIsRead
  <2>3. QED
    BY <1>1, <1>2, <2>2, IntactKept
<1>11. CASE decoded' = decoded /\ open' # <<>> /\ open'[1].frame = frame /\ Partly(archive, p, open'[1])
  <2>1. /\ at' = start[n + 1] + Size(open'[1].frame) + 1
        /\ Partly(archive', start[n + 1], open'[1])
    BY <1>5, <1>7, <1>9, <1>11
  <2>2. Len(decoded') = n /\ \A k \in 1..n : decoded'[k] = recorded'[k]
    BY <1>1, <1>3, <1>4, <1>11
  <2>3. ReadSoFar(start)'
    BY <1>1, <1>4, <1>11, <2>1, <2>2 DEF ReadSoFar, Size
  <2>4. QED
    BY <1>1, <1>2, <2>3, IntactKept
<1>12. QED
  BY <1>8, <1>10, <1>11

(* Between frames: the next line is a frame or the footer, and the footer  *)
(* comes after the last of them.                                           *)
LEMMA BetweenFrames ==
  ASSUME TypeInv, edits = 0, verdict = "reading", open = <<>>,
         NEW start \in [1..written + 1 -> Nat \ {0}],
         Encoded(archive, recorded, written, start), Whole(start), ReadSoFar(start)
  PROVE  /\ at \in 1..Len(archive)
         /\ \/ archive[at].kind = "FRAME"
            \/ archive[at] = Footer(Len(decoded)) /\ at = Len(archive) /\ decoded = recorded
<1>1. /\ written \in Nat /\ Len(decoded) \in Nat
      /\ recorded \in Seq(Frame) /\ decoded \in Seq(Frame)
  BY LenProperties DEF TypeInv, TypeOK
<1>2. /\ Len(decoded) <= written /\ \A k \in 1..Len(decoded) : decoded[k] = recorded[k]
      /\ at = start[Len(decoded) + 1]
  BY DEF ReadSoFar
<1>3. Len(decoded) + 1 \in 1..written + 1
  BY <1>1, <1>2
<1>4. /\ at \in 1..Len(archive)
      /\ Len(decoded) + 1 <= written => archive[at].kind = "FRAME"
      /\ Len(decoded) + 1 = written + 1 => at = Len(archive) /\ archive[at] = Footer(written)
  BY <1>2, <1>3, WholeLines
<1>5. CASE Len(decoded) + 1 <= written
  BY <1>4, <1>5
<1>6. CASE Len(decoded) = written
  <2>1. Len(decoded) = Len(recorded)
    BY <1>6 DEF Whole
  <2>2. decoded = recorded
    BY <1>1, <1>2, <2>1, SeqEqual
  <2>3. QED
    BY <1>4, <1>6, <2>2
<1>7. QED
  BY <1>1, <1>2, <1>5, <1>6

LEMMA IntactEnds ==
  ASSUME TypeInv, IntactInv, edits = 0, DecodeBlank \/ DecodeFooter \/ DecodeRefuses
  PROVE  IntactInv'
<1>1. verdict = "reading" /\ UNCHANGED <<recorded, written, file>>
  BY DEF DecodeBlank, DecodeFooter, DecodeRefuses, reading
<1>2. PICK start \in [1..written + 1 -> Nat \ {0}] :
        Encoded(archive, recorded, written, start) /\ Whole(start) /\ ReadSoFar(start)
  BY <1>1, IntactRead
<1>3. written \in Nat /\ Len(archive) \in Nat /\ Len(decoded) \in Nat
  BY LenProperties DEF TypeInv, TypeOK
<1>4. CASE DecodeBlank
  <2>1. archive[at] = Blank /\ open = <<>>
    BY <1>4 DEF DecodeBlank, line
  <2>2. archive[at].kind = "FRAME" \/ archive[at] = Footer(Len(decoded))
    BY <1>1, <1>2, <2>1, BetweenFrames
  <2>3. QED
    BY <2>1, <2>2 DEF Blank, Footer
<1>5. CASE DecodeFooter
  <2>1. open = <<>> /\ archive[at].kind = "END"
    BY <1>5 DEF DecodeFooter, line
  <2>2. archive[at] = Footer(Len(decoded)) /\ at = Len(archive) /\ decoded = recorded
    BY <1>1, <1>2, <2>1, BetweenFrames
  <2>3. line.count = Len(decoded) /\ \A i \in at + 1..Len(archive) : archive[i] = Blank
    BY <1>3, <2>2 DEF line, Footer
  <2>4. verdict' = "accepted" /\ decoded' = decoded
    BY <1>5, <2>3 DEF DecodeFooter
  <2>5. QED
    BY <1>1, <1>2, <2>2, <2>4, IntactKept
<1>6. CASE DecodeRefuses
  <2>1. ~(at <= Len(archive) /\ Expected) /\ verdict' = "malformed"
    BY <1>1, <1>6 DEF DecodeRefuses, reading, malformed
  <2>2. open # <<>>
    <3> SUFFICES ASSUME open = <<>> PROVE FALSE
      OBVIOUS
    <3>1. /\ at \in 1..Len(archive)
          /\ archive[at].kind = "FRAME" \/ archive[at] = Footer(Len(decoded))
      BY <1>1, <1>2, BetweenFrames
    <3>2. archive[at].kind \in {"FRAME", "END"}
      BY <3>1 DEF Footer
    <3>3. QED
      BY <1>3, <2>1, <3>1, <3>2 DEF Expected, line
  <2> DEFINE k == Len(decoded) + 1
  <2>3. /\ k \in 1..written /\ at = start[k] + Size(open[1].frame) + 1
        /\ Partly(archive, start[k], open[1])
    BY <1>2, <1>3, <2>2 DEF ReadSoFar
  <2>4. k \in DOMAIN recorded
    BY <1>2, <2>3 DEF TypeInv, TypeOK, Whole
  <2> HIDE DEF k
  <2>5. PICK name \in DOMAIN recorded[k].sensors :
          /\ at <= Len(archive) /\ archive[at] = SensorLine(recorded[k], name)
          /\ name \notin DOMAIN open[1].frame.sensors
    BY <1>2, <2>2, <2>3, NextSensor
  <2>6. line.kind = "SENSOR" /\ line.name = name /\ line.sample = recorded[k].sensors[name]
    BY <2>5 DEF line, SensorLine
  <2>7. ~Legible(recorded[k].sensors[name])
    BY <2>1, <2>2, <2>5, <2>6 DEF Expected
  <2>8. SomeIllegible
    BY <2>4, <2>5, <2>7 DEF SomeIllegible
  <2>9. QED
    BY <1>1, <1>2, <2>1, <2>8, IntactKept
<1>7. QED
  BY <1>4, <1>5, <1>6

LEMMA IntactStep == TypeInv /\ IntactInv /\ [Next]_vars => IntactInv'
<1> SUFFICES ASSUME TypeInv, IntactInv, [Next]_vars PROVE IntactInv'
  OBVIOUS
<1>1. CASE Record
  BY <1>1 DEF Record, IntactInv
<1>2. CASE Damage
  <2>1. edits' # 0 /\ verdict' = "stored"
    BY <1>2 DEF Damage, TypeInv, TypeOK
  <2>2. QED
    BY <2>1 DEF IntactInv
<1>3. ASSUME edits # 0, Decode PROVE IntactInv'
  <2>1. edits' = edits /\ verdict' \notin {"recording", "encoding"}
    BY <1>3 DEF Decode, DecodeBlank, DecodeFooter, DecodeFrame, DecodeSensor, DecodeRefuses,
                reading, malformed, file
  <2>2. QED
    BY <1>3, <2>1 DEF IntactInv
<1>4. CASE UNCHANGED vars
  <2>1. /\ recorded' = recorded /\ written' = written /\ archive' = archive /\ edits' = edits
        /\ verdict' = verdict /\ decoded' = decoded /\ open' = open /\ at' = at
    BY <1>4 DEF vars, file
  <2>2. \A start : /\ ReadSoFar(start)' <=> ReadSoFar(start)
                   /\ Whole(start)' <=> Whole(start)
    BY <2>1 DEF ReadSoFar, Whole
  <2>3. SomeIllegible' <=> SomeIllegible
    BY <2>1 DEF SomeIllegible, Legible
  <2>4. QED
    BY <2>1, <2>2, <2>3 DEF IntactInv
<1>5. QED
  BY <1>1, <1>2, <1>3, <1>4, IntactHeader, IntactEncode, IntactFooter, IntactBegins,
     IntactFrameStep, IntactSensorStep, IntactEnds
  DEF Next, Decode, Done

(* An archive to which nothing happened is read back frame for frame, and  *)
(* refused only for a value that was not finite.                           *)
THEOREM IntactIsRead == Spec => []IntactArchiveIsRead
<1>1. Init => IntactInv
  BY DEF Init, IntactInv
<1>2. TypeInv /\ IntactInv => IntactArchiveIsRead
  BY DEF IntactInv, IntactArchiveIsRead, SomeIllegible
<1>3. QED
  BY TypeInit, TypeStep, IntactStep, <1>1, <1>2, PTL DEF Spec

------------------------------------------------------------------------------
(* The order of the lines: 0 for the header, 2k for the line of frame k,   *)
(* 2k + 1 for its sensors and 2n + 2 for the footer of n frames.           *)
IsSensorOf(frame, l) == \E name \in DOMAIN frame.sensors : l = SensorLine(frame, name)

CameFrom(l, r, frames, n) ==
  \/ l \in {Blank, Torn}
  \/ r = 0 /\ l = Header
  \/ \E k \in 1..n : r = 2 * k /\ l = FrameLine(frames[k])
  \/ \E k \in 1..n : r = 2 * k + 1 /\ IsSensorOf(frames[k], l)
  \/ r = 2 * n + 2 /\ l = Footer(n)

Ranked(lines, frames, n, rank) ==
  /\ rank \in [1..Len(lines) -> Nat]
  /\ \A i \in 1..Len(lines) : CameFrom(lines[i], rank[i], frames, n)

Ordered(lines, rank) ==
  \A i, j \in 1..Len(lines) : i <= j => rank[i] <= rank[j]

(* What is left are lines of the session, and as long as none of them were *)
(* exchanged they are in order.                                            *)
OrderInv ==
  /\ verdict = "recording" => written = 0
  /\ verdict \notin {"recording", "encoding"} => written = Len(recorded)
  /\ verdict = "encoding" =>
       \E rank : /\ Ranked(archive, recorded, written, rank) /\ Ordered(archive, rank)
                 /\ \A i \in 1..Len(archive) : rank[i] <= 2 * written + 1
  /\ verdict \notin {"recording", "encoding"} =>
       \E rank : /\ Ranked(archive, recorded, written, rank)
                 /\ ~exchanged => Ordered(archive, rank)

LEMMA RankOfFrame ==
  ASSUME NEW f, NEW r, NEW frames, NEW n, CameFrom(FrameLine(f), r, frames, n)
  PROVE  \E k \in 1..n : r = 2 * k /\ FrameLine(f) = FrameLine(frames[k])
<1>1. FrameLine(f).kind = "FRAME" /\ \A g, name : SensorLine(g, name).kind = "SENSOR"
  BY DEF FrameLine, SensorLine
<1>2. FrameLine(f) \notin {Blank, Torn} /\ FrameLine(f) # Header /\ FrameLine(f) # Footer(n)
  BY DEF FrameLine, Blank, Torn, Header, Footer
<1>3. \A g, name : FrameLine(f) # SensorLine(g, name)
  BY <1>1
<1>4. QED
  BY <1>2, <1>3 DEF CameFrom, IsSensorOf

LEMMA RankOfSensor ==
  ASSUME NEW f, NEW a, NEW r, NEW frames, NEW n, CameFrom(SensorLine(f, a), r, frames, n)
  PROVE  \E k \in 1..n : r = 2 * k + 1 /\ IsSensorOf(frames[k], SensorLine(f, a))
<1>1. SensorLine(f, a).kind = "SENSOR" /\ \A g : FrameLine(g).kind = "FRAME"
  BY DEF FrameLine, SensorLine
<1>2. SensorLine(f, a) \notin {Blank, Torn} /\ SensorLine(f, a) # Header /\ SensorLine(f, a) # Footer(n)
  BY DEF SensorLine, Blank, Torn, Header, Footer
<1>3. \A g : SensorLine(f, a) # FrameLine(g)
  BY <1>1
<1>4. QED
  BY <1>2, <1>3 DEF CameFrom

LEMMA RankOfFooter ==
  ASSUME NEW m, NEW r, NEW frames, NEW n, CameFrom(Footer(m), r, frames, n)
  PROVE  r = 2 * n + 2 /\ m = n
<1>1. /\ Footer(m).kind = "END" /\ Footer(m).count = m /\ Footer(n).count = n
      /\ \A g : FrameLine(g).kind = "FRAME" /\ \A name : SensorLine(g, name).kind = "SENSOR"
  BY DEF Footer, FrameLine, SensorLine
<1>2. Footer(m) \notin {Blank, Torn} /\ Footer(m) # Header
  BY DEF Footer, Blank, Torn, Header
<1>3. \A g : Footer(m) # FrameLine(g) /\ \A name : Footer(m) # SensorLine(g, name)
  BY <1>1
<1>4. QED
  BY <1>1, <1>2, <1>3 DEF CameFrom, IsSensorOf

LEMMA LeastPlace ==
  ASSUME NEW P \in SUBSET Nat, P # {}
  PROVE  \E i \in P : \A j \in P : i <= j
<1>1. PICK i \in P : \A j \in P : ~(<<j, i>> \in OpToRel(<, Nat))
  BY NatLessThanWellFounded, WFMin
<1>2. \A j \in P : ~(j < i)
  BY <1>1 DEF OpToRel
<1>3. QED
  BY <1>2

(* n numbers from 1 to n that grow are 1, 2, ..., n.                       *)
LEMMA GrowingIsCounting ==
  ASSUME NEW n \in Nat, NEW f \in [1..n -> 1..n], \A i \in 2..n : f[i] > f[i - 1]
  PROVE  \A i \in 1..n : f[i] = i
<1>1. \A i \in 1..n : f[i] >= i
  <2> DEFINE P == {i \in 1..n : ~(f[i] >= i)}
  <2> SUFFICES ASSUME P # {} PROVE FALSE
    OBVIOUS
  <2>1. P \in SUBSET Nat
    OBVIOUS
  <2>2. PICK i \in P : \A j \in P : i <= j
    BY <2>1, LeastPlace
  <2>3. i \in 1..n /\ f[i] \in 1..n /\ f[i] < i
    BY <2>2
  <2>4. i \in 2..n /\ i - 1 \in 1..n /\ f[i - 1] \in 1..n
    BY <2>3
  <2>5. i - 1 \notin P
    BY <2>2, <2>3
  <2>6. f[i - 1] >= i - 1 /\ f[i] > f[i - 1]
    BY <2>4, <2>5
  <2>7. QED
    BY <2>3, <2>4, <2>6
<1>2. \A i \in 1..n : f[i] <= i
  <2> DEFINE P == {j \in 0..n - 1 : ~(f[n - j] <= n - j)}
  <2> SUFFICES ASSUME NEW i \in 1..n, ~(f[i] <= i) PROVE FALSE
    OBVIOUS
  <2>1. P \in SUBSET Nat
    OBVIOUS
  <2>2. P # {}
    <3>1. n - i \in 0..n - 1 /\ n - (n - i) = i
      OBVIOUS
    <3>2. QED
      BY <3>1
  <2>3. PICK j \in P : \A k \in P : j <= k
    BY <2>1, <2>2, LeastPlace
  <2>4. j \in 0..n - 1 /\ n - j \in 1..n /\ f[n - j] \in 1..n /\ f[n - j] > n - j
    BY <2>3
  <2>5. j # 0
    BY <2>4
  <2> HIDE DEF P
  <2>6. /\ j - 1 \in 0..n - 1 /\ n - (j - 1) = (n - j) + 1 /\ (n - j) + 1 \in 2..n
        /\ ((n - j) + 1) - 1 = n - j
    BY <2>4, <2>5
  <2>7. f[(n - j) + 1] \in 1..n
    BY <2>6
  <2>8. j - 1 \notin P
    <3>1. ~(j <= j - 1)
      BY <2>4
    <3>2. QED
      BY <2>3, <3>1
  <2>9. f[(n - j) + 1] <= (n - j) + 1
    BY <2>6, <2>8 DEF P
  <2>10. f[(n - j) + 1] > f[n - j]
    BY <2>6
  <2>11. QED
    BY <2>4, <2>6, <2>7, <2>9, <2>10
<1>3. QED
  BY <1>1, <1>2

LEMMA OrderHeader ==
  ASSUME TypeInv, OrderInv, EncodeHeader
  PROVE  OrderInv'
<1>1. /\ written = 0 /\ written' = 0 /\ recorded' = recorded /\ archive' = <<Header>>
      /\ verdict' = "encoding"
  BY DEF EncodeHeader, OrderInv
<1> DEFINE rank == [i \in 1..1 |-> 0]
<1>2. Len(archive') = 1 /\ archive'[1] = Header /\ rank \in [1..1 -> Nat] /\ rank[1] = 0
  BY <1>1
<1> HIDE DEF rank
<1>3. Ranked(archive', recorded', written', rank) /\ Ordered(archive', rank)
  <2>1. \A i \in 1..1 : CameFrom(archive'[i], rank[i], recorded', written')
    BY <1>2 DEF CameFrom
  <2>2. QED
    BY <1>2, <2>1 DEF Ranked, Ordered
<1>4. \A i \in 1..Len(archive') : rank[i] <= 2 * written' + 1
  BY <1>1, <1>2
<1>5. QED
  BY <1>1, <1>3, <1>4 DEF OrderInv

LEMMA OrderEncode ==
  ASSUME TypeInv, OrderInv, EncodeFrame
  PROVE  OrderInv'
<1>1. /\ verdict = "encoding" /\ verdict' = "encoding" /\ recorded' = recorded
      /\ written \in Nat /\ written < Len(recorded) /\ written' = written + 1
      /\ archive' = archive \o FrameLines(recorded[written + 1])
      /\ archive \in Seq(Line) /\ recorded \in Seq(Frame) /\ Len(archive) \in Nat
      /\ Len(recorded) \in Nat
  BY LenProperties DEF EncodeFrame, TypeInv, TypeOK
<1>2. PICK rank : /\ Ranked(archive, recorded, written, rank) /\ Ordered(archive, rank)
                  /\ \A i \in 1..Len(archive) : rank[i] <= 2 * written + 1
  BY <1>1 DEF OrderInv
<1>3. PICK n \in Nat : n = written + 1
  BY <1>1
<1>4. PICK p \in Nat : p = Len(archive) + 1
  BY <1>1
<1>5. PICK frame \in Frame : frame = recorded[n]
  BY <1>1, <1>3, ElementOfSeq
<1>6. Size(frame) \in Nat
  BY FrameFields
<1>7. Appended(archive', archive, p, frame)
  <2>1. Appended(archive \o FrameLines(frame), archive, Len(archive) + 1, frame)
    BY <1>1, FrameAppended
  <2>2. QED
    BY <1>1, <1>3, <1>4, <1>5, <2>1
<1>8. /\ Len(archive') = p + Size(frame) /\ archive'[p] = FrameLine(frame)
      /\ \A i \in 1..p - 1 : archive'[i] = archive[i]
  BY <1>4, <1>7 DEF Appended, Stands
<1>9. \A i \in p + 1..p + Size(frame) : \E name \in DOMAIN frame.sensors :
        archive'[i] = SensorLine(frame, name)
  <2> SUFFICES ASSUME NEW i \in p + 1..p + Size(frame)
               PROVE  archive'[i] \in {SensorLine(frame, name) : name \in DOMAIN frame.sensors}
    OBVIOUS
  <2>1. archive'[i] \in {archive'[j] : j \in p + 1..p + Size(frame)}
    OBVIOUS
  <2>2. QED
    BY <1>7, <2>1 DEF Appended, Stands, SensorsFollow
<1> DEFINE new == [i \in 1..p + Size(frame) |->
                     IF i < p THEN rank[i] ELSE IF i = p THEN 2 * n ELSE 2 * n + 1]
<1>10. /\ rank \in [1..p - 1 -> Nat]
       /\ \A i, j \in 1..p - 1 : i <= j => rank[i] <= rank[j]
       /\ \A i \in 1..p - 1 : CameFrom(archive[i], rank[i], recorded, written)
       /\ \A i \in 1..p - 1 : rank[i] <= 2 * n - 1
  <2>1. Len(archive) = p - 1 /\ 2 * n - 1 = 2 * written + 1
    BY <1>1, <1>3, <1>4
  <2>2. QED
    BY <1>2, <2>1 DEF Ranked, Ordered
<1>11. new \in [1..p + Size(frame) -> Nat]
  BY <1>6, <1>10
<1>12. \A i, j \in 1..p + Size(frame) : i <= j => new[i] <= new[j]
  BY <1>6, <1>10
<1>13. \A i \in 1..p + Size(frame) : new[i] <= 2 * n + 1
  BY <1>6, <1>10
<1>14. ASSUME NEW i \in 1..p + Size(frame)
       PROVE  CameFrom(archive'[i], new[i], recorded, n)
  <2>1. n \in 1..n
    BY <1>1, <1>3
  <2>2. CASE i < p
    <3>1. i \in 1..p - 1 /\ new[i] = rank[i]
      BY <1>6, <2>2
    <3>2. CameFrom(archive[i], rank[i], recorded, written) /\ rank[i] <= 2 * n - 1 /\ rank[i] \in Nat
      BY <1>10, <3>1
    <3>3. rank[i] # 2 * written + 2 /\ \A k \in 1..written : k \in 1..n
      BY <1>1, <1>3, <3>2
    <3>4. CameFrom(archive[i], rank[i], recorded, n)
      BY <3>2, <3>3 DEF CameFrom
    <3>5. QED
      BY <1>8, <3>1, <3>4
  <2>3. CASE i = p
    BY <1>5, <1>8, <2>1, <2>3 DEF CameFrom
  <2>4. CASE i > p
    <3>1. i \in p + 1..p + Size(frame) /\ new[i] = 2 * n + 1
      BY <1>6, <2>4
    <3>2. PICK name \in DOMAIN frame.sensors : archive'[i] = SensorLine(frame, name)
      BY <1>9, <3>1
    <3>3. QED
      BY <1>5, <2>1, <3>1, <3>2 DEF CameFrom, IsSensorOf
  <2>5. QED
    BY <1>6, <2>2, <2>3, <2>4
<1> HIDE DEF new
<1>15. Ranked(archive', recorded', written', new) /\ Ordered(archive', new)
  BY <1>1, <1>3, <1>8, <1>11, <1>12, <1>14 DEF Ranked, Ordered
<1>16. \A i \in 1..Len(archive') : new[i] <= 2 * written' + 1
  BY <1>1, <1>3, <1>8, <1>13
<1>17. QED
  BY <1>1, <1>15, <1>16 DEF OrderInv

LEMMA OrderFooter ==
  ASSUME TypeInv, OrderInv, EncodeFooter
  PROVE  OrderInv'
<1>1. /\ verdict = "encoding" /\ verdict' = "stored" /\ recorded' = recorded
      /\ written = Len(recorded) /\ written' = written /\ written \in Nat
      /\ archive' = Append(archive, Footer(written))
      /\ archive \in Seq(Line) /\ Len(archive) \in Nat
  BY LenProperties DEF EncodeFooter, TypeInv, TypeOK
<1>2. PICK rank : /\ Ranked(archive, recorded, written, rank) /\ Ordered(archive, rank)
                  /\ \A i \in 1..Len(archive) : rank[i] <= 2 * written + 1
  BY <1>1 DEF OrderInv
<1>3. Footer(written) \in Line
  BY <1>1 DEF Footer, Line
<1>4. /\ archive' \in Seq(Line) /\ Len(archive') = Len(archive) + 1
      /\ \A i \in 1..Len(archive) : archive'[i] = archive[i]
      /\ archive'[Len(archive) + 1] = Footer(written)
  BY <1>1, <1>3, AppendProperties
<1> DEFINE new == [i \in 1..Len(archive) + 1 |->
                     IF i <= Len(archive) THEN rank[i] ELSE 2 * written + 2]
<1>5. /\ rank \in [1..Len(archive) -> Nat]
      /\ \A i, j \in 1..Len(archive) : i <= j => rank[i] <= rank[j]
      /\ \A i \in 1..Len(archive) : CameFrom(archive[i], rank[i], recorded, written)
  BY <1>2 DEF Ranked, Ordered
<1>6. new \in [1..Len(archive) + 1 -> Nat]
  BY <1>1, <1>5
<1>7. \A i, j \in 1..Len(archive) + 1 : i <= j => new[i] <= new[j]
  BY <1>1, <1>2, <1>5
<1>8. ASSUME NEW i \in 1..Len(archive) + 1
      PROVE  CameFrom(archive'[i], new[i], recorded, written)
  <2>1. CASE i <= Len(archive)
    BY <1>1, <1>4, <1>5, <2>1
  <2>2. CASE i = Len(archive) + 1
    BY <1>1, <1>4, <2>2 DEF CameFrom
  <2>3. QED
    BY <1>1, <2>1, <2>2
<1> HIDE DEF new
<1>9. Ranked(archive', recorded', written', new) /\ Ordered(archive', new)
  BY <1>1, <1>4, <1>6, <1>7, <1>8 DEF Ranked, Ordered
<1>10. QED
  BY <1>1, <1>9 DEF OrderInv

LEMMA OrderDamage ==
  ASSUME TypeInv, OrderInv, Damage
  PROVE  OrderInv'
<1>1. /\ verdict = "stored" /\ verdict' = "stored" /\ recorded' = recorded /\ written' = written
      /\ written = Len(recorded)
  BY DEF Damage, OrderInv
<1>2. PICK origin \in [1..Len(archive') -> 1..Len(archive)] :
        /\ \A i \in 1..Len(archive') : archive'[i] \in {archive[origin[i]], Blank, Torn}
        /\ ~exchanged' => /\ ~exchanged
                          /\ \A i, j \in 1..Len(archive') : i <= j => origin[i] <= origin[j]
  <2>1. PICK origin :
          /\ CameOf(archive', archive, origin)
          /\ \/ exchanged' = exchanged /\ LostOrDoubled(archive', archive, origin)
             \/ exchanged' = TRUE
    BY DamagedLines DEF TypeInv
  <2>2. ~exchanged' => /\ ~exchanged
                       /\ \A i, j \in 1..Len(archive') : i <= j => origin[i] <= origin[j]
    BY <2>1, Zenon DEF LostOrDoubled
  <2>3. QED
    BY <2>1, <2>2 DEF CameOf
<1>3. PICK rank : /\ Ranked(archive, recorded, written, rank)
                  /\ ~exchanged => Ordered(archive, rank)
  BY <1>1 DEF OrderInv
<1> DEFINE new == [i \in 1..Len(archive') |-> rank[origin[i]]]
<1>4. new \in [1..Len(archive') -> Nat]
  BY <1>2, <1>3 DEF Ranked
<1>5. ASSUME NEW i \in 1..Len(archive')
      PROVE  CameFrom(archive'[i], new[i], recorded, written)
  <2>1. CameFrom(archive[origin[i]], rank[origin[i]], recorded, written)
    BY <1>2, <1>3 DEF Ranked
  <2>2. archive'[i] \in {Blank, Torn} \/ archive'[i] = archive[origin[i]]
    BY <1>2
  <2>3. CASE archive'[i] \in {Blank, Torn}
    BY <2>3 DEF CameFrom
  <2>4. QED
    BY <2>1, <2>2, <2>3
<1>6. ~exchanged' => Ordered(archive', new)
  BY <1>2, <1>3 DEF Ranked, Ordered
<1> HIDE DEF new
<1>7. Ranked(archive', recorded', written', new)
  BY <1>1, <1>4, <1>5 DEF Ranked
<1>8. QED
  BY <1>1, <1>6, <1>7 DEF OrderInv

LEMMA OrderStep == TypeInv /\ OrderInv /\ [Next]_vars => OrderInv'
<1> SUFFICES ASSUME TypeInv, OrderInv, [Next]_vars PROVE OrderInv'
  OBVIOUS
<1>1. CASE Record
  BY <1>1 DEF Record, OrderInv
<1>2. CASE DecodeBegin \/ Decode
  <2>1. /\ verdict \notin {"recording", "encoding"} /\ verdict' \notin {"recording", "encoding"}
        /\ UNCHANGED <<recorded, written, file>>
    BY <1>2 DEF DecodeBegin, Decode, DecodeBlank, DecodeFooter, DecodeFrame, DecodeSensor,
                DecodeRefuses, reading, malformed
  <2>2. QED
    BY <2>1 DEF file, OrderInv
<1>3. CASE UNCHANGED vars
  BY <1>3 DEF vars, file, OrderInv
<1>4. QED
  BY <1>1, <1>2, <1>3, OrderHeader, OrderEncode, OrderFooter, OrderDamage DEF Next, Done

(* An accepted archive that no inspection finds out of sequence: the       *)
(* frames stand in it as recorded, between the header and the footer, and  *)
(* nothing else does.                                                      *)
FramesStand(n, start, end, rank) ==
  /\ n = Len(decoded) /\ n = Len(recorded) /\ n = written
  /\ start \in [1..n -> 2..Len(archive)] /\ end \in 2..Len(archive)
  /\ rank[end] = 2 * n + 2
  /\ \A k \in 1..n :
       /\ decoded[k] \in Frame /\ recorded[k] \in Frame /\ Size(decoded[k]) \in Nat
       /\ Stands(archive, start[k], decoded[k])
       /\ start[k] + Size(decoded[k]) < IF k = n THEN end ELSE start[k + 1]
       /\ FrameLine(decoded[k]) = FrameLine(recorded[k]) /\ rank[start[k]] = 2 * k
  /\ archive[1] = Header /\ archive[end] = Footer(n)
  /\ \A i \in 2..Len(archive) :
       archive[i] = Blank \/ i = end \/ \E k \in 1..n : i \in start[k]..start[k] + Size(decoded[k])

LEMMA InSequence ==
  ASSUME TypeInv, ReadInv, OrderInv, verdict = "accepted",
         NEW rank, Ranked(archive, recorded, written, rank)
  PROVE  \/ ~Inspect(decoded).sequenceMonotonic /\ ~Passed(decoded)
         \/ \E n \in Nat : \E start, end : FramesStand(n, start, end, rank)
<1>1. PICK start \in [1..Len(decoded) -> 2..Len(archive)], end \in 2..Len(archive) + 1 :
        Consumed(archive, decoded, start, end) /\ Position(end)
  BY DEF ReadInv
<1>2. /\ end \in 2..Len(archive) /\ archive[end] = Footer(Len(decoded))
      /\ \A i \in end + 1..Len(archive) : archive[i] = Blank
  BY <1>1 DEF Position
<1>3. /\ decoded \in Seq(Frame) /\ recorded \in Seq(Frame) /\ Len(archive) \in Nat
      /\ Len(decoded) \in Nat /\ written = Len(recorded)
      /\ \A k \in 1..Len(recorded) : recorded[k].sequence = k
  BY LenProperties DEF TypeInv, TypeOK, Numbered, OrderInv
<1>4. PICK n \in Nat : n = Len(decoded)
  BY <1>3
<1>5. /\ rank \in [1..Len(archive) -> Nat]
      /\ \A i \in 1..Len(archive) : CameFrom(archive[i], rank[i], recorded, written)
  BY DEF Ranked
<1>6. n = written /\ n = Len(recorded) /\ rank[end] = 2 * n + 2
  <2>1. end \in 1..Len(archive)
    BY <1>2, <1>3
  <2>2. CameFrom(Footer(n), rank[end], recorded, written)
    BY <1>2, <1>4, <1>5, <2>1
  <2>3. QED
    BY <1>3, <2>2, RankOfFooter
<1>7. \A k \in 1..n : /\ decoded[k] \in Frame /\ recorded[k] \in Frame
                      /\ Size(decoded[k]) \in Nat /\ decoded[k].sequence \in Nat
  <2>1. \A k \in 1..n : decoded[k] \in Frame /\ recorded[k] \in Frame
    BY <1>3, <1>4, <1>6, ElementOfSeq
  <2>2. QED
    BY <2>1, FrameFields
<1>8. \A k \in 1..n : /\ Stands(archive, start[k], decoded[k])
                      /\ start[k] + Size(decoded[k]) < IF k = n THEN end ELSE start[k + 1]
  BY <1>1, <1>4 DEF Consumed
<1>9. \A k \in 1..n : start[k] \in 2..Len(archive)
  BY <1>4
<1>10. ASSUME NEW d \in 1..n
       PROVE  /\ decoded[d].sequence \in 1..n /\ rank[start[d]] = 2 * decoded[d].sequence
              /\ FrameLine(decoded[d]) = FrameLine(recorded[decoded[d].sequence])
  <2>1. start[d] \in 1..Len(archive) /\ archive[start[d]] = FrameLine(decoded[d])
    BY <1>3, <1>8, <1>9 DEF Stands
  <2>2. CameFrom(FrameLine(decoded[d]), rank[start[d]], recorded, written)
    BY <1>5, <2>1
  <2>3. PICK k \in 1..written : rank[start[d]] = 2 * k /\ FrameLine(decoded[d]) = FrameLine(recorded[k])
    BY <2>2, RankOfFrame
  <2>4. decoded[d].sequence = recorded[k].sequence
    BY <2>3, FrameKnown
  <2>5. decoded[d].sequence = k
    BY <1>3, <1>6, <2>4
  <2>6. QED
    BY <1>6, <2>3, <2>5
<1>11. CASE \A i \in 2..n : decoded[i].sequence > decoded[i - 1].sequence
  <2> DEFINE f == [i \in 1..n |-> decoded[i].sequence]
  <2>1. f \in [1..n -> 1..n] /\ \A i \in 2..n : f[i] > f[i - 1]
    <3>1. \A i \in 2..n : i \in 1..n /\ i - 1 \in 1..n
      OBVIOUS
    <3>2. QED
      BY <1>10, <1>11, <3>1
  <2>2. \A i \in 1..n : f[i] = i
    <3> HIDE DEF f
    <3>1. QED
      BY <2>1, GrowingIsCounting
  <2>3. \A d \in 1..n : decoded[d].sequence = d
    BY <2>2
  <2>4. FramesStand(n, start, end, rank)
    <3>1. \A k \in 1..n : /\ FrameLine(decoded[k]) = FrameLine(recorded[k])
                           /\ rank[start[k]] = 2 * k
      BY <1>10, <2>3
    <3>2. start \in [1..n -> 2..Len(archive)] /\ n = Len(decoded)
      BY <1>1, <1>4
    <3>3. /\ archive[1] = Header /\ archive[end] = Footer(n)
          /\ \A i \in 2..Len(archive) :
               \/ archive[i] = Blank \/ i = end
               \/ \E k \in 1..n : i \in start[k]..start[k] + Size(decoded[k])
      <4>1. \A i \in 2..Len(archive) : i \in 2..end - 1 \/ i = end \/ i \in end + 1..Len(archive)
        BY <1>2, <1>3
      <4>2. \A i \in 2..end - 1 :
              archive[i] = Blank \/ \E k \in 1..n : i \in start[k]..start[k] + Size(decoded[k])
        BY <1>1, <1>4 DEF Consumed
      <4>3. archive[1] = Header
        BY DEF ReadInv
      <4>4. QED
        BY <1>2, <1>4, <4>1, <4>2, <4>3
    <3>4. QED
      BY <1>2, <1>6, <1>7, <1>8, <3>1, <3>2, <3>3 DEF FramesStand
  <2>5. QED
    BY <2>4
<1>12. CASE ~(\A i \in 2..n : decoded[i].sequence > decoded[i - 1].sequence)
  <2>1. PICK i \in 2..n : ~(decoded[i].sequence > decoded[i - 1].sequence)
    BY <1>12
  <2>2. i \in 1..n /\ i - 1 \in 1..n
    OBVIOUS
  <2>3. decoded[i].sequence <= decoded[i - 1].sequence
    BY <1>7, <2>1, <2>2
  <2>4. decoded # <<>>
    BY <1>4, <2>1, EmptySeq
  <2>5. <<"SEQUENCE_ORDER", i>> \in Errors(decoded)
    BY <1>4, <2>3, <2>4 DEF Errors
  <2>6. ~Inspect(decoded).sequenceMonotonic
    BY <1>4, <2>1 DEF Inspect
  <2>7. QED
    BY <2>5, <2>6 DEF Passed
<1>13. QED
  BY <1>11, <1>12

(* A sensor that was decoded stands between the line of its frame and the  *)
(* next frame's, and is the sensor of some frame of the session.           *)
LEMMA SensorPlace ==
  ASSUME TypeInv, NEW n \in Nat, NEW start, NEW end, NEW rank,
         Ranked(archive, recorded, written, rank), FramesStand(n, start, end, rank),
         NEW d \in 1..n, NEW name \in DOMAIN decoded[d].sensors
  PROVE  \E i, next \in 1..Len(archive), k \in 1..n :
           /\ start[d] <= i /\ i <= next /\ rank[next] = 2 * d + 2
           /\ rank[i] = 2 * k + 1 /\ IsSensorOf(recorded[k], SensorLine(decoded[d], name))
<1>1. /\ n = Len(decoded) /\ n = Len(recorded) /\ n = written
      /\ start \in [1..n -> 2..Len(archive)] /\ end \in 2..Len(archive)
      /\ rank[end] = 2 * n + 2
      /\ \A k \in 1..n :
           /\ decoded[k] \in Frame /\ recorded[k] \in Frame /\ Size(decoded[k]) \in Nat
           /\ Stands(archive, start[k], decoded[k])
           /\ start[k] + Size(decoded[k]) < IF k = n THEN end ELSE start[k + 1]
           /\ FrameLine(decoded[k]) = FrameLine(recorded[k]) /\ rank[start[k]] = 2 * k
  BY DEF FramesStand
<1>2. Len(archive) \in Nat
  BY LenProperties DEF TypeInv, TypeOK
<1>3. PICK p \in 2..Len(archive) : p = start[d]
  BY <1>1
<1>4. PICK s \in Nat : s = Size(decoded[d])
  BY <1>1
<1>5. PICK next \in 1..Len(archive) : rank[next] = 2 * d + 2 /\ p + s < next
  <2>1. CASE d = n
    <3>1. end \in 1..Len(archive) /\ rank[end] = 2 * d + 2
      BY <1>1, <1>2, <2>1
    <3>2. p + s < end
      BY <1>1, <1>3, <1>4, <2>1
    <3>3. QED
      BY <3>1, <3>2
  <2>2. CASE d # n
    <3>1. d + 1 \in 1..n /\ 2 * (d + 1) = 2 * d + 2
      BY <2>2
    <3>2. rank[start[d + 1]] = 2 * (d + 1) /\ start[d + 1] \in 2..Len(archive)
      BY <1>1, <3>1
    <3>3. start[d + 1] \in 1..Len(archive)
      BY <1>2, <3>2
    <3>4. p + s < start[d + 1]
      BY <1>1, <1>3, <1>4, <2>2
    <3>5. QED
      BY <3>1, <3>2, <3>3, <3>4
  <2>3. QED
    BY <2>1, <2>2
<1>6. PICK i \in p + 1..p + s : archive[i] = SensorLine(decoded[d], name)
  <2>1. SensorsFollow(archive, p, decoded[d])
    BY <1>1, <1>3 DEF Stands
  <2>2. SensorLine(decoded[d], name) \in {SensorLine(decoded[d], c) : c \in DOMAIN decoded[d].sensors}
    OBVIOUS
  <2>3. SensorLine(decoded[d], name) \in {archive[i] : i \in p + 1..p + s}
    BY <1>4, <2>1, <2>2 DEF SensorsFollow
  <2>4. QED
    BY <2>3
<1>7. i \in 1..Len(archive) /\ start[d] <= i /\ i <= next
  BY <1>2, <1>3, <1>4, <1>5, <1>6
<1>8. CameFrom(SensorLine(decoded[d], name), rank[i], recorded, written)
  BY <1>6, <1>7 DEF Ranked
<1>9. PICK k \in 1..written :
        rank[i] = 2 * k + 1 /\ IsSensorOf(recorded[k], SensorLine(decoded[d], name))
  BY <1>8, RankOfSensor
<1>10. QED
  BY <1>1, <1>5, <1>7, <1>9

LEMMA OrderIsNoticed ==
  ASSUME TypeInv, ReadInv, OrderInv, ~exchanged, verdict = "accepted"
  PROVE  decoded = recorded \/ (~Inspect(decoded).sequenceMonotonic /\ ~Passed(decoded))
<1>1. PICK rank : Ranked(archive, recorded, written, rank) /\ Ordered(archive, rank)
  BY DEF OrderInv
<1>2. /\ rank \in [1..Len(archive) -> Nat] /\ Len(archive) \in Nat
      /\ \A i, j \in 1..Len(archive) : i <= j => rank[i] <= rank[j]
      /\ \A i \in 1..Len(archive) : CameFrom(archive[i], rank[i], recorded, written)
      /\ decoded \in Seq(Frame) /\ recorded \in Seq(Frame)
  BY <1>1, LenProperties DEF Ranked, Ordered, TypeInv, TypeOK
<1>3. CASE ~Inspect(decoded).sequenceMonotonic /\ ~Passed(decoded)
  BY <1>3
<1>4. CASE \E n \in Nat : \E start, end : FramesStand(n, start, end, rank)
  <2>1. PICK n \in Nat : \E start, end : FramesStand(n, start, end, rank)
    BY <1>4
  <2>2. PICK start, end : FramesStand(n, start, end, rank)
    BY <2>1
  <2>3. /\ n = Len(decoded) /\ n = Len(recorded)
        /\ start \in [1..n -> 2..Len(archive)]
        /\ \A k \in 1..n :
             /\ decoded[k] \in Frame /\ recorded[k] \in Frame
             /\ FrameLine(decoded[k]) = FrameLine(recorded[k]) /\ rank[start[k]] = 2 * k
    BY <2>2 DEF FramesStand
  <2>4. ASSUME NEW d \in 1..n
        PROVE  decoded[d] = recorded[d]
    <3>1. ASSUME NEW name \in DOMAIN decoded[d].sensors
          PROVE  \E other \in DOMAIN recorded[d].sensors :
                   SensorLine(decoded[d], name) = SensorLine(recorded[d], other)
      <4>1. PICK i \in 1..Len(archive), next \in 1..Len(archive), k \in 1..n :
              /\ start[d] <= i /\ i <= next /\ rank[next] = 2 * d + 2
              /\ rank[i] = 2 * k + 1 /\ IsSensorOf(recorded[k], SensorLine(decoded[d], name))
        BY <1>1, <2>2, SensorPlace
      <4>2. start[d] \in 1..Len(archive)
        <5>1. start[d] \in 2..Len(archive)
          BY <2>3
        <5>2. QED
          BY <1>2, <5>1
      <4>3. 2 * d <= rank[i] /\ rank[i] <= 2 * d + 2
        BY <1>2, <2>3, <4>1, <4>2
      <4>4. k = d
        BY <4>1, <4>3
      <4>5. QED
        BY <4>1, <4>4 DEF IsSensorOf
    <3>2. /\ decoded[d] \in Frame /\ recorded[d] \in Frame
          /\ FrameLine(decoded[d]) = FrameLine(recorded[d])
      BY <2>3
    <3>3. QED
      BY <3>1, <3>2, SameSensors
  <2>5. QED
    BY <1>2, <2>3, <2>4, SeqEqual
<1>5. QED
  BY <1>1, <1>3, <1>4, InSequence

(* However often lines were lost, torn, doubled or added, as long as none  *)
(* were exchanged: what is accepted is the recorded session, or both       *)
(* inspections find its frames out of sequence.                            *)
THEOREM LossNoticed == Spec => []LossIsNoticed
<1>1. Init => OrderInv /\ ReadInv
  BY DEF Init, OrderInv, ReadInv
<1>2. TypeInv /\ ReadInv /\ OrderInv => LossIsNoticed
  BY OrderIsNoticed DEF LossIsNoticed, AcceptedIsSound
<1>3. QED
  BY TypeInit, TypeStep, ReadStep, OrderStep, <1>1, <1>2, PTL DEF Spec

LEMMA ReadingsMove ==
  ASSUME TypeInv, ReadInv, OrderInv
  PROVE  ReadingsAtMostMove
<1> SUFFICES ASSUME verdict = "accepted",
                    Inspect(decoded).sequenceMonotonic \/ Passed(decoded)
             PROVE  /\ Len(decoded) = Len(recorded)
                    /\ \A k \in DOMAIN decoded :
                         /\ FrameLine(decoded[k]) = FrameLine(recorded[k])
                         /\ \A name \in DOMAIN decoded[k].sensors : \E i \in DOMAIN recorded :
                              /\ name \in DOMAIN recorded[i].sensors
                              /\ decoded[k].sensors[name] = recorded[i].sensors[name]
  BY DEF ReadingsAtMostMove
<1>1. PICK rank : Ranked(archive, recorded, written, rank)
  BY DEF OrderInv
<1>2. PICK n \in Nat : \E start, end : FramesStand(n, start, end, rank)
  BY <1>1, InSequence
<1>3. PICK start, end : FramesStand(n, start, end, rank)
  BY <1>2
<1>4. /\ n = Len(decoded) /\ n = Len(recorded)
      /\ \A k \in 1..n : FrameLine(decoded[k]) = FrameLine(recorded[k])
  BY <1>3 DEF FramesStand
<1>5. DOMAIN decoded = 1..n /\ DOMAIN recorded = 1..n
  BY <1>4, LenProperties DEF TypeInv, TypeOK
<1>6. ASSUME NEW d \in 1..n, NEW name \in DOMAIN decoded[d].sensors
      PROVE  \E i \in 1..n : /\ name \in DOMAIN recorded[i].sensors
                            /\ decoded[d].sensors[name] = recorded[i].sensors[name]
  <2>1. PICK k \in 1..n : IsSensorOf(recorded[k], SensorLine(decoded[d], name))
    BY <1>1, <1>3, SensorPlace
  <2>2. PICK other \in DOMAIN recorded[k].sensors :
          SensorLine(decoded[d], name) = SensorLine(recorded[k], other)
    BY <2>1 DEF IsSensorOf
  <2>3. name = other /\ decoded[d].sensors[name] = recorded[k].sensors[other]
    BY <2>2, SensorKnown
  <2>4. QED
    BY <2>2, <2>3
<1>7. QED
  BY <1>4, <1>5, <1>6

(* However often lines were exchanged as well: if an inspection finds the  *)
(* frames in sequence, they are those of the session, and at most readings *)
(* of it have changed frames.                                              *)
THEOREM ReadingsStay == Spec => []ReadingsAtMostMove
<1>1. Init => OrderInv /\ ReadInv
  BY DEF Init, OrderInv, ReadInv
<1>2. QED
  BY TypeInit, TypeStep, ReadStep, OrderStep, ReadingsMove, <1>1, PTL DEF Spec

------------------------------------------------------------------------------
(* Blocks of places, one after the other: block k of n + 2 begins at p[k]  *)
(* and has s[k] places more.                                               *)
Block(p, s, k) == p[k]..p[k] + s[k]

Apart(p, s, n) ==
  /\ p \in [0..n + 1 -> Nat] /\ s \in [0..n + 1 -> Nat]
  /\ \A k \in 0..n : p[k] + s[k] < p[k + 1]

Tiled(p, s, n) ==
  /\ p \in [0..n + 1 -> Nat] /\ s \in [0..n + 1 -> Nat]
  /\ p[0] = 1 /\ s[n + 1] = 0
  /\ \A k \in 0..n : p[k + 1] = p[k] + s[k] + 1

LEMMA BlocksGrow ==
  ASSUME NEW n \in Nat, NEW p, NEW s, Apart(p, s, n),
         NEW k \in 0..n + 1, NEW m \in 0..n + 1, k < m
  PROVE  p[k] + s[k] < p[m]
<1> DEFINE P == {j \in k + 1..n + 1 : ~(p[k] + s[k] < p[j])}
<1> SUFFICES ASSUME P # {} PROVE FALSE
  OBVIOUS
<1>1. PICK j \in P : \A i \in P : j <= i
  <2>1. P \in SUBSET Nat
    OBVIOUS
  <2>2. QED
    BY <2>1, LeastPlace
<1>2. j \in k + 1..n + 1 /\ ~(p[k] + s[k] < p[j]) /\ j - 1 \in 0..n /\ (j - 1) + 1 = j
  OBVIOUS
<1>3. /\ p[j] \in Nat /\ p[j - 1] \in Nat /\ s[j - 1] \in Nat /\ p[k] \in Nat /\ s[k] \in Nat
      /\ p[j - 1] + s[j - 1] < p[j]
  <2>1. j - 1 \in 0..n + 1 /\ j \in 0..n + 1
    BY <1>2
  <2>2. QED
    BY <1>2, <2>1 DEF Apart
<1>4. CASE j - 1 = k
  BY <1>2, <1>3, <1>4
<1>5. CASE j - 1 # k
  <2>1. j - 1 \in k + 1..n + 1 /\ ~(j <= j - 1)
    BY <1>2, <1>5
  <2>2. p[k] + s[k] < p[j - 1]
    BY <1>1, <2>1
  <2>3. QED
    BY <1>2, <1>3, <2>2
<1>6. QED
  BY <1>4, <1>5

LEMMA TilesApart ==
  ASSUME NEW n \in Nat, NEW p, NEW s, Tiled(p, s, n)
  PROVE  Apart(p, s, n)
<1> SUFFICES ASSUME NEW k \in 0..n PROVE p[k] + s[k] < p[k + 1]
  BY DEF Tiled, Apart
<1>1. k \in 0..n + 1 /\ p[k + 1] = p[k] + s[k] + 1
  BY DEF Tiled
<1>2. p[k] \in Nat /\ s[k] \in Nat
  BY <1>1 DEF Tiled
<1>3. QED
  BY <1>1, <1>2

(* Blocks do not overlap, and tiles leave no place out.                    *)
LEMMA OneBlock ==
  ASSUME NEW n \in Nat, NEW p, NEW s, Apart(p, s, n),
         NEW k \in 0..n + 1, NEW m \in 0..n + 1, NEW y \in Nat,
         y \in Block(p, s, k), y \in Block(p, s, m)
  PROVE  k = m
<1>1. p[k] \in Nat /\ s[k] \in Nat /\ p[m] \in Nat /\ s[m] \in Nat
  BY DEF Apart
<1>2. k < m => p[k] + s[k] < p[m]
  BY BlocksGrow
<1>3. m < k => p[m] + s[m] < p[k]
  BY BlocksGrow
<1>4. QED
  BY <1>1, <1>2, <1>3 DEF Block

LEMMA SomeTile ==
  ASSUME NEW n \in Nat, NEW p, NEW s, Tiled(p, s, n), NEW y \in 1..p[n + 1]
  PROVE  \E k \in 0..n + 1 : y \in Block(p, s, k)
<1>1. p[n + 1] \in Nat /\ y \in Nat
  BY DEF Tiled
<1>2. CASE y = p[n + 1]
  <2>1. s[n + 1] = 0 /\ n + 1 \in 0..n + 1
    BY DEF Tiled
  <2>2. y \in p[n + 1]..p[n + 1] + s[n + 1]
    BY <1>1, <1>2, <2>1
  <2>3. QED
    BY <2>1, <2>2 DEF Block
<1>3. CASE y # p[n + 1]
  <2> DEFINE P == {k \in 0..n + 1 : y < p[k]}
  <2>1. P \in SUBSET Nat /\ P # {}
    <3>1. n + 1 \in P
      BY <1>1, <1>3
    <3>2. QED
      BY <3>1
  <2>2. PICK k \in P : \A j \in P : k <= j
    BY <2>1, LeastPlace
  <2>3. k # 0
    BY <1>1, <2>2 DEF Tiled
  <2>4. k - 1 \in 0..n /\ (k - 1) + 1 = k /\ k - 1 \in 0..n + 1 /\ ~(k <= k - 1) /\ y < p[k]
    BY <2>2, <2>3
  <2>5. ~(y < p[k - 1])
    BY <2>2, <2>4
  <2>6. p[k] = p[k - 1] + s[k - 1] + 1 /\ p[k - 1] \in Nat /\ s[k - 1] \in Nat
    BY <2>4 DEF Tiled
  <2>7. y \in p[k - 1]..p[k - 1] + s[k - 1]
    BY <1>1, <2>4, <2>5, <2>6
  <2>8. QED
    BY <2>4, <2>7 DEF Block
<1>4. QED
  BY <1>2, <1>3

(* The places of all blocks.                                               *)
Blocks(p, s, n) == UNION {Block(p, s, k) : k \in 0..n + 1}

(* Wherever the blocks are, together they have as many places as tiles.    *)
LEMMA TilesWithin ==
  ASSUME NEW n \in Nat, NEW p, NEW s, Tiled(p, s, n), NEW k \in 0..n + 1
  PROVE  Block(p, s, k) \subseteq 1..p[n + 1]
<1>1. Apart(p, s, n) /\ 0 \in 0..n + 1 /\ n + 1 \in 0..n + 1
  BY TilesApart
<1>2. p \in [0..n + 1 -> Nat] /\ s \in [0..n + 1 -> Nat] /\ p[0] = 1 /\ s[n + 1] = 0
  BY DEF Tiled
<1>3. PICK first \in Nat, more \in Nat, last \in Nat, none \in Nat :
        first = p[k] /\ more = s[k] /\ last = p[n + 1] /\ none = s[0]
  BY <1>1, <1>2
<1>4. 1 <= first
  <2>1. k # 0 => 0 < k
    OBVIOUS
  <2>2. k # 0 => 1 + none < first
    BY <1>1, <1>2, <1>3, <2>1, BlocksGrow
  <2>3. QED
    BY <1>2, <1>3, <2>2
<1>5. first + more <= last
  <2>1. k # n + 1 => k < n + 1
    OBVIOUS
  <2>2. k # n + 1 => first + more < last
    BY <1>1, <1>3, <2>1, BlocksGrow
  <2>3. k = n + 1 => first = last /\ more = 0
    BY <1>2, <1>3
  <2>4. QED
    BY <1>3, <2>2, <2>3
<1>6. first..first + more \subseteq 1..last
  BY <1>3, <1>4, <1>5
<1>7. QED
  BY <1>3, <1>6 DEF Block

LEMMA SameBlocks ==
  ASSUME NEW n \in Nat, NEW p, NEW q, NEW s, Tiled(p, s, n), Apart(q, s, n)
  PROVE  IsFiniteSet(Blocks(q, s, n)) /\ Cardinality(Blocks(q, s, n)) = p[n + 1]
<1> DEFINE places == 1..p[n + 1]
           all == Blocks(q, s, n)
<1>1. /\ p \in [0..n + 1 -> Nat] /\ q \in [0..n + 1 -> Nat] /\ s \in [0..n + 1 -> Nat]
      /\ p[n + 1] \in Nat /\ Apart(p, s, n)
  <2>1. p \in [0..n + 1 -> Nat] /\ q \in [0..n + 1 -> Nat] /\ s \in [0..n + 1 -> Nat]
    BY DEF Tiled, Apart
  <2>2. p[n + 1] \in Nat
    BY <2>1
  <2>3. QED
    BY <2>1, <2>2, TilesApart
<1>2. \A y \in places : y \in Nat /\ \E k \in 0..n + 1 : y \in Block(p, s, k)
  <2>1. \A y \in places : \E k \in 0..n + 1 : y \in Block(p, s, k)
    BY SomeTile
  <2>2. QED
    BY <1>1, <2>1
<1> HIDE DEF places, all
<1>3. PICK b \in [places -> 0..n + 1] : \A y \in places : y \in Block(p, s, b[y])
  <2> DEFINE b == [y \in places |-> CHOOSE k \in 0..n + 1 : y \in Block(p, s, k)]
  <2>1. b \in [places -> 0..n + 1] /\ \A y \in places : y \in Block(p, s, b[y])
    BY <1>2
  <2>2. QED
    BY <2>1
<1> DEFINE f == [y \in places |-> q[b[y]] + (y - p[b[y]])]
<1>4. ASSUME NEW y \in places, NEW k \in 0..n + 1, k = b[y]
      PROVE  /\ p[k] \in Nat /\ q[k] \in Nat /\ s[k] \in Nat /\ y \in Nat
             /\ f[y] = q[k] + (y - p[k]) /\ f[y] \in Block(q, s, k) /\ f[y] \in Nat
  <2>1. PICK a \in Nat, c \in Nat, m \in Nat : a = p[k] /\ c = q[k] /\ m = s[k]
    BY <1>1
  <2>2. y \in a..a + m /\ y \in Nat
    BY <1>2, <1>3, <1>4, <2>1 DEF Block
  <2>3. f[y] = c + (y - a)
    BY <1>4, <2>1
  <2>4. c + (y - a) \in c..c + m /\ c + (y - a) \in Nat
    BY <2>1, <2>2
  <2> HIDE DEF f
  <2>5. QED
    BY <2>1, <2>2, <2>3, <2>4 DEF Block
<1>5. f \in [places -> all]
  <2>1. \A y \in places : f[y] \in all
    BY <1>3, <1>4 DEF Blocks, all
  <2>2. QED
    BY <2>1
<1>6. ASSUME NEW x \in places, NEW y \in places, f[x] = f[y]
      PROVE  x = y
  <2> HIDE DEF f
  <2>1. PICK k \in 0..n + 1, m \in 0..n + 1 : k = b[x] /\ m = b[y]
    BY <1>3
  <2>2. f[x] \in Nat /\ f[x] \in Block(q, s, k) /\ f[y] \in Block(q, s, m)
    BY <1>4, <2>1
  <2>3. k = m
    BY <1>6, <2>2, OneBlock
  <2>4. PICK a \in Nat, c \in Nat : a = p[k] /\ c = q[k]
    BY <1>1
  <2>5. x \in Nat /\ y \in Nat /\ f[x] = c + (x - a) /\ f[y] = c + (y - a)
    BY <1>4, <2>1, <2>3, <2>4
  <2>6. c + (x - a) = c + (y - a)
    BY <1>6, <2>5
  <2>7. QED
    BY <2>4, <2>5, <2>6
<1>7. ASSUME NEW z \in all
      PROVE  \E y \in places : f[y] = z
  <2>1. PICK k \in 0..n + 1 : z \in Block(q, s, k)
    BY DEF Blocks, all
  <2>2. PICK a \in Nat, c \in Nat, m \in Nat : a = p[k] /\ c = q[k] /\ m = s[k]
    BY <1>1
  <2>3. z \in c..c + m
    BY <2>1, <2>2 DEF Block
  <2>4. PICK y \in Nat : y = a + (z - c) /\ y \in a..a + m /\ c + (y - a) = z
    BY <2>2, <2>3
  <2>5. y \in Block(p, s, k)
    BY <2>2, <2>4 DEF Block
  <2>6. y \in places
    BY <2>5, TilesWithin DEF places
  <2>7. b[y] = k
    BY <1>1, <1>3, <2>5, <2>6, OneBlock
  <2>8. f[y] = c + (y - a)
    BY <2>2, <2>6, <2>7
  <2> HIDE DEF f
  <2>9. QED
    BY <2>4, <2>6, <2>8
<1> HIDE DEF f
<1>8. f \in Bijection(places, all)
  BY <1>5, <1>6, <1>7, Fun_IsBij
<1>9. IsFiniteSet(places) /\ Cardinality(places) = p[n + 1]
  <2>1. PICK last \in Nat : last = p[n + 1]
    BY <1>1
  <2>2. IsFiniteSet(1..last) /\ Cardinality(1..last) = last
    <3>1. 1 > last => last = 0
      OBVIOUS
    <3>2. /\ IsFiniteSet(1..last)
          /\ Cardinality(1..last) = IF 1 > last THEN 0 ELSE last - 1 + 1
      BY FS_Interval
    <3>3. QED
      BY <3>1, <3>2
  <2>3. QED
    BY <2>1, <2>2 DEF places
<1>10. QED
  BY <1>8, <1>9, FS_Bijection DEF ExistsBijection, all

(* What is mapped into as many, each to another, covers them.              *)
LEMMA PigeonHole ==
  ASSUME NEW S, NEW T, IsFiniteSet(S), IsFiniteSet(T), Cardinality(S) = Cardinality(T),
         NEW f \in [S -> T], \A x, y \in S : f[x] = f[y] => x = y
  PROVE  \A z \in T : \E x \in S : f[x] = z
<1>1. f \in Injection(S, T)
  BY DEF Injection, IsInjective
<1>2. f \in Surjection(S, T)
  BY <1>1, FS_Injection
<1>3. QED
  BY <1>2 DEF Surjection

LEMMA BlockSize ==
  ASSUME NEW n \in Nat, NEW p, NEW s, Apart(p, s, n), NEW k \in 0..n + 1
  PROVE  IsFiniteSet(Block(p, s, k)) /\ Cardinality(Block(p, s, k)) = s[k] + 1
<1>1. PICK a \in Nat, m \in Nat : a = p[k] /\ m = s[k]
  BY DEF Apart
<1>2. a + m \in Int /\ ~(a > a + m) /\ a + m - a + 1 = m + 1
  OBVIOUS
<1>3. IsFiniteSet(a..a + m) /\ Cardinality(a..a + m) = m + 1
  BY <1>2, FS_Interval
<1>4. QED
  BY <1>1, <1>3 DEF Block

(* Three places that come from places in the opposite order.               *)
Reversed(live, from) ==
  \E a, b, c \in live : a < b /\ b < c /\ from[a] > from[b] /\ from[b] > from[c]

(* The blocks, moved apart, hold what the tiles hold, each the same, if    *)
(* they begin as the tiles do and no three places are reversed.            *)
LEMMA BlocksInPlace ==
  ASSUME NEW n \in Nat, NEW p, NEW q, NEW s, Tiled(p, s, n), Apart(q, s, n),
         NEW from \in [Blocks(q, s, n) -> 1..p[n + 1]],
         \A x, y \in Blocks(q, s, n) : from[x] = from[y] => x = y,
         \A z \in 1..p[n + 1] : \E x \in Blocks(q, s, n) : from[x] = z,
         \A k \in 0..n + 1 : from[q[k]] = p[k],
         ~Reversed(Blocks(q, s, n), from)
  PROVE  \A k \in 0..n + 1 : \A x \in Block(q, s, k) : from[x] \in Block(p, s, k)
<1> DEFINE live == Blocks(q, s, n)
           Misplaced == {k \in 0..n + 1 : \E x \in Block(q, s, k) : from[x] \notin Block(p, s, k)}
<1> SUFFICES ASSUME Misplaced # {} PROVE FALSE
  OBVIOUS
<1>1. /\ p \in [0..n + 1 -> Nat] /\ q \in [0..n + 1 -> Nat] /\ s \in [0..n + 1 -> Nat]
      /\ Apart(p, s, n) /\ s[n + 1] = 0
  BY TilesApart DEF Tiled, Apart
<1>2. \A k \in 0..n + 1 : Block(q, s, k) \subseteq live
  BY DEF Blocks
<1>3. live \subseteq Nat
  <2>1. \A k \in 0..n + 1 : Block(q, s, k) \subseteq Nat
    <3> SUFFICES ASSUME NEW k \in 0..n + 1 PROVE Block(q, s, k) \subseteq Nat
      OBVIOUS
    <3>1. PICK c \in Nat, m \in Nat : c = q[k] /\ m = s[k]
      BY <1>1
    <3>2. c..c + m \subseteq Nat
      BY <3>1
    <3>3. QED
      BY <3>1, <3>2 DEF Block
  <2>2. QED
    BY <2>1 DEF Blocks
<1>4. \A x \in live : from[x] \in Nat
  <2>1. p[n + 1] \in Nat
    BY <1>1
  <2>2. QED
    BY <2>1
<1>5. PICK d \in Misplaced : \A k \in Misplaced : d <= k
  <2>1. Misplaced \in SUBSET Nat
    OBVIOUS
  <2>2. QED
    BY <2>1, LeastPlace
<1>6. d \in 0..n + 1 /\ \A k \in 0..n + 1 : k < d => k \notin Misplaced
  BY <1>5
<1>7. PICK a \in Block(q, s, d) : from[a] \notin Block(p, s, d)
  BY <1>5
<1>8. \A k \in 0..n + 1 : k < d => \A x \in Block(q, s, k) : from[x] \in Block(p, s, k)
  BY <1>6
<1> HIDE DEF Misplaced, live
<1>9. d # n + 1
  <2> SUFFICES ASSUME d = n + 1 PROVE FALSE
    OBVIOUS
  <2>1. PICK c \in Nat, r \in Nat : c = q[d] /\ r = p[d] /\ s[d] = 0 /\ from[c] = r
    <3>1. q[d] \in Nat /\ p[d] \in Nat /\ s[d] = 0 /\ from[q[d]] = p[d]
      BY <1>1, <1>6
    <3>2. QED
      BY <3>1
  <2>2. a \in c..c + 0 /\ from[a] \notin r..r + 0
    BY <1>7, <2>1 DEF Block
  <2>3. QED
    BY <2>1, <2>2
<1>10. PICK next \in 0..n + 1 : next = d + 1
  BY <1>6, <1>9
<1>11. PICK mid \in live : mid = q[next] /\ from[mid] = p[next]
  <2>1. PICK c \in Nat, m \in Nat : c = q[next] /\ m = s[next]
    BY <1>1
  <2>2. c \in c..c + m
    BY <2>1
  <2>3. c \in live
    BY <1>2, <2>1, <2>2 DEF Block
  <2>4. QED
    BY <2>1, <2>3
<1>12. mid \in Nat /\ from[mid] \in Nat
  BY <1>3, <1>4
<1>13. \A k \in 0..n + 1 : /\ IsFiniteSet(Block(q, s, k)) /\ IsFiniteSet(Block(p, s, k))
                           /\ Cardinality(Block(q, s, k)) = Cardinality(Block(p, s, k))
  <2> SUFFICES ASSUME NEW k \in 0..n + 1
               PROVE  /\ IsFiniteSet(Block(q, s, k)) /\ IsFiniteSet(Block(p, s, k))
                      /\ Cardinality(Block(q, s, k)) = Cardinality(Block(p, s, k))
    OBVIOUS
  <2>1. IsFiniteSet(Block(q, s, k)) /\ Cardinality(Block(q, s, k)) = s[k] + 1
    BY BlockSize
  <2>2. Apart(p, s, n)
    BY <1>1
  <2>3. IsFiniteSet(Block(p, s, k)) /\ Cardinality(Block(p, s, k)) = s[k] + 1
    BY <2>2, BlockSize
  <2>4. QED
    BY <2>1, <2>3
(* What stands in block d and is not of it is of a later one.              *)
<1>14. a \in live /\ a \in Nat /\ from[a] \in Nat /\ a < mid /\ from[a] > from[mid]
  <2>1. a \in live /\ a \in Nat /\ from[a] \in Nat /\ from[a] \in 1..p[n + 1]
    BY <1>2, <1>3, <1>4, <1>6, <1>7 DEF live
  <2>2. a < mid
    <3>1. PICK c \in Nat, m \in Nat : c = q[d] /\ m = s[d]
      BY <1>1, <1>6
    <3>2. c + m < mid
      <4>1. d < next
        BY <1>6, <1>10
      <4>2. QED
        BY <1>1, <1>6, <1>11, <3>1, <4>1, BlocksGrow
    <3>3. a \in c..c + m
      BY <1>7, <3>1 DEF Block
    <3>4. QED
      BY <1>12, <3>1, <3>2, <3>3
  <2>3. PICK k \in 0..n + 1 : from[a] \in Block(p, s, k)
    BY <2>1, SomeTile
  <2>4. k # d
    BY <1>7, <2>3
  <2>5. ~(k < d)
    <3> SUFFICES ASSUME k < d PROVE FALSE
      OBVIOUS
    <3> DEFINE f == [x \in Block(q, s, k) |-> from[x]]
    <3>1. f \in [Block(q, s, k) -> Block(p, s, k)]
      BY <1>8
    <3>2. \A x, y \in Block(q, s, k) : f[x] = f[y] => x = y
      BY <1>2 DEF live
    <3>3. \A w \in Block(p, s, k) : \E x \in Block(q, s, k) : f[x] = w
      <4> DEFINE S == Block(q, s, k)
                 T == Block(p, s, k)
      <4>1. IsFiniteSet(S) /\ IsFiniteSet(T) /\ Cardinality(S) = Cardinality(T)
        BY <1>13
      <4>2. f \in [S -> T] /\ \A x, y \in S : f[x] = f[y] => x = y
        BY <3>1, <3>2
      <4> HIDE DEF f, S, T
      <4>3. \A z \in T : \E x \in S : f[x] = z
        BY <4>1, <4>2, PigeonHole
      <4>4. QED
        BY <4>3 DEF S, T
    <3>4. PICK x \in Block(q, s, k) : f[x] = from[a]
      BY <2>3, <3>3
    <3>6. from[x] = from[a] /\ x \in live
      BY <1>2, <3>4
    <3>7. x = a
      BY <2>1, <3>6 DEF live
    <3>8. a \in Block(q, s, k)
      BY <3>7
    <3>9. k = d
      <4>1. d \in 0..n + 1 /\ a \in Nat /\ a \in Block(q, s, d)
        BY <1>6, <1>7, <2>1
      <4>2. QED
        BY <3>8, <4>1, OneBlock
    <3>10. QED
      BY <2>4, <3>9
  <2>6. k = next \/ next < k
    BY <1>6, <1>10, <2>4, <2>5
  <2>7. PICK r \in Nat, m \in Nat : r = p[k] /\ m = s[k]
    BY <1>1
  <2>8. PICK t \in Nat, u \in Nat : t = p[next] /\ u = s[next]
    BY <1>1
  <2>13. next < k => t + u < r
    BY <1>1, <2>7, <2>8, BlocksGrow
  <2>9. from[a] \in r..r + m
    BY <2>3, <2>7 DEF Block
  <2>10. from[a] >= t
    BY <2>1, <2>6, <2>7, <2>8, <2>9, <2>13
  <2>11. from[a] # t
    <3>1. a # mid
      BY <1>12, <2>1, <2>2
    <3>2. QED
      BY <1>11, <2>1, <2>8, <3>1 DEF live
  <2>12. QED
    BY <1>11, <2>1, <2>2, <2>8, <2>10, <2>11
(* So something of block d is missing in it, and stands in a later one.    *)
<1>15. PICK z \in Block(p, s, d) : \A x \in Block(q, s, d) : from[x] # z
  <2> SUFFICES ASSUME \A z \in Block(p, s, d) : \E x \in Block(q, s, d) : from[x] = z
               PROVE  FALSE
    OBVIOUS
  <2> DEFINE g == [z \in Block(p, s, d) |-> CHOOSE x \in Block(q, s, d) : from[x] = z]
  <2>1. g \in [Block(p, s, d) -> Block(q, s, d)] /\ \A z \in Block(p, s, d) : from[g[z]] = z
    OBVIOUS
  <2> HIDE DEF g
  <2>2. \A x, y \in Block(p, s, d) : g[x] = g[y] => x = y
    BY <2>1
  <2>3. \A x \in Block(q, s, d) : \E z \in Block(p, s, d) : g[z] = x
    <3> DEFINE S == Block(p, s, d)
               T == Block(q, s, d)
    <3>1. IsFiniteSet(S) /\ IsFiniteSet(T) /\ Cardinality(S) = Cardinality(T)
      BY <1>6, <1>13
    <3>2. g \in [S -> T] /\ \A x, y \in S : g[x] = g[y] => x = y
      BY <2>1, <2>2
    <3> HIDE DEF S, T
    <3>3. \A z \in T : \E x \in S : g[x] = z
      BY <3>1, <3>2, PigeonHole
    <3>4. QED
      BY <3>3 DEF S, T
  <2>4. PICK z \in Block(p, s, d) : g[z] = a
    BY <1>7, <2>3
  <2>5. QED
    BY <1>7, <2>1, <2>4
<1>16. PICK c \in live : from[c] = z
  <2>1. z \in 1..p[n + 1]
    BY <1>6, <1>15, TilesWithin
  <2>2. QED
    BY <2>1 DEF live
<1>17. c \in Nat /\ z \in Nat
  BY <1>3, <1>4, <1>16
<1>18. PICK e \in 0..n + 1 : c \in Block(q, s, e)
  BY DEF live, Blocks
<1>19. e # d
  BY <1>15, <1>16, <1>18
<1>20. ~(e < d)
  <2> SUFFICES ASSUME e < d PROVE FALSE
    OBVIOUS
  <2>1. z \in Block(p, s, e)
    BY <1>8, <1>16, <1>18
  <2>2. d \in 0..n + 1 /\ z \in Nat /\ z \in Block(p, s, d) /\ Apart(p, s, n)
    BY <1>1, <1>6, <1>15, <1>17
  <2>3. e = d
    BY <2>1, <2>2, OneBlock
  <2>4. QED
    BY <1>19, <2>3
<1>21. e = next \/ next < e
  BY <1>6, <1>10, <1>19, <1>20
<1>22. from[mid] > z
  <2>1. PICK r \in Nat, m \in Nat : r = p[d] /\ m = s[d]
    BY <1>1, <1>6
  <2>2. r + m < from[mid]
    <3>1. d < next
      BY <1>6, <1>10
    <3>2. p[d] + s[d] < p[next]
      BY <1>1, <1>6, <3>1, BlocksGrow
    <3>3. QED
      BY <1>11, <2>1, <3>2
  <2>3. z \in r..r + m
    BY <1>15, <2>1 DEF Block
  <2>4. QED
    BY <1>12, <2>1, <2>2, <2>3
<1>23. mid < c
  <2>1. PICK t \in Nat, m \in Nat : t = q[e] /\ m = s[e]
    BY <1>1
  <2>7. PICK u \in Nat : u = s[next]
    BY <1>1
  <2>2. next < e => mid + u < t
    BY <1>11, <2>1, <2>7, BlocksGrow
  <2>3. c \in t..t + m
    BY <1>18, <2>1 DEF Block
  <2>4. mid <= c
    BY <1>11, <1>12, <1>17, <1>21, <2>1, <2>2, <2>3, <2>7
  <2>5. mid # c
    BY <1>12, <1>16, <1>17, <1>22
  <2>6. QED
    BY <1>12, <1>17, <2>4, <2>5
<1>24. Reversed(live, from)
  BY <1>14, <1>16, <1>22, <1>23 DEF Reversed
<1>25. QED
  BY <1>24 DEF live

(* The lines that are neither blank nor torn.                              *)
Live(lines) == {i \in 1..Len(lines) : lines[i] \notin {Blank, Torn}}

LEMMA LiveLines ==
  ASSUME NEW lines \in Seq(Line)
  PROVE  /\ Live(lines) \subseteq 1..Len(lines) /\ IsFiniteSet(Live(lines))
         /\ Cardinality(Live(lines)) \in Nat
<1>1. IsFiniteSet(1..Len(lines)) /\ Live(lines) \subseteq 1..Len(lines)
  BY LenProperties, FS_Interval DEF Live
<1>2. QED
  BY <1>1, FS_Subset, FS_CardinalityType

(* As many live lines are left by accident only if each of them is, and    *)
(* none twice; and exchanging lines leaves as many.                        *)
LEMMA LiveCounted ==
  ASSUME NEW new \in Seq(Line), NEW old \in Seq(Line), NEW origin, CameOf(new, old, origin),
         NoneTwice(new, origin) \/ AllLeft(new, old, origin)
  PROVE  /\ \A i \in Live(new) : origin[i] \in Live(old) /\ new[i] = old[origin[i]]
         /\ NoneTwice(new, origin) /\ AllLeft(new, old, origin) =>
              Cardinality(Live(new)) = Cardinality(Live(old))
         /\ Cardinality(Live(new)) = Cardinality(Live(old)) =>
              /\ \A i, j \in Live(new) : origin[i] = origin[j] => i = j
              /\ \A y \in Live(old) : \E i \in Live(new) : origin[i] = y
<1> DEFINE S == Live(new)
           T == Live(old)
           f == [i \in S |-> origin[i]]
<1>1. \A i \in S : origin[i] \in T /\ new[i] = old[origin[i]]
  BY DEF Live, CameOf
<1>2. IsFiniteSet(S) /\ IsFiniteSet(T) /\ S \subseteq 1..Len(new) /\ T \subseteq 1..Len(old)
  BY LiveLines
<1>3. f \in [S -> T] /\ \A i \in S : f[i] = origin[i]
  BY <1>1
<1>4. NoneTwice(new, origin) => \A i, j \in S : f[i] = f[j] => i = j
  BY <1>2, <1>3 DEF NoneTwice
<1>5. AllLeft(new, old, origin) => \A y \in T : \E i \in S : f[i] = y
  <2> SUFFICES ASSUME AllLeft(new, old, origin), NEW y \in T PROVE \E i \in S : f[i] = y
    OBVIOUS
  <2>1. PICK i \in 1..Len(new) : origin[i] = y /\ new[i] = old[y]
    BY <1>2 DEF AllLeft
  <2>2. i \in S
    BY <2>1 DEF Live
  <2>3. QED
    BY <1>3, <2>1, <2>2
<1> HIDE DEF S, T, f
<1>6. NoneTwice(new, origin) => f \in Injection(S, T)
  BY <1>3, <1>4 DEF Injection, IsInjective
<1>7. AllLeft(new, old, origin) => f \in Surjection(S, T)
  BY <1>3, <1>5 DEF Surjection
<1>8. NoneTwice(new, origin) /\ AllLeft(new, old, origin) => Cardinality(S) = Cardinality(T)
  BY <1>2, <1>6, <1>7, FS_Injection
<1>9. Cardinality(S) = Cardinality(T) => f \in Injection(S, T) /\ f \in Surjection(S, T)
  <2>1. NoneTwice(new, origin) /\ Cardinality(S) = Cardinality(T) => f \in Surjection(S, T)
    BY <1>2, <1>6, FS_Injection
  <2>2. AllLeft(new, old, origin) /\ Cardinality(S) = Cardinality(T) => f \in Injection(S, T)
    BY <1>2, <1>7, FS_Surjection
  <2>3. QED
    BY <1>6, <1>7, <2>1, <2>2
<1>10. Cardinality(S) = Cardinality(T) =>
         /\ \A i, j \in S : origin[i] = origin[j] => i = j
         /\ \A y \in T : \E i \in S : origin[i] = y
  <2> SUFFICES ASSUME Cardinality(S) = Cardinality(T)
               PROVE  /\ \A i, j \in S : origin[i] = origin[j] => i = j
                      /\ \A y \in T : \E i \in S : origin[i] = y
    OBVIOUS
  <2>1. \A i, j \in S : f[i] = f[j] => i = j
    BY <1>9 DEF Injection, IsInjective
  <2>2. \A y \in T : \E i \in S : f[i] = y
    BY <1>9 DEF Surjection
  <2>3. QED
    BY <1>3, <2>1, <2>2
<1>11. QED
  BY <1>1, <1>8, <1>10 DEF S, T

(* After e accidents the live lines of the file are those of the original, *)
(* each once, and in order but for what e exchanges can do: one moves two  *)
(* lines past each other, and two do not reverse three.                    *)
Crossed(from, i, j) == i < j /\ from[i] > from[j]

Rearranged(lines, orig, from, e) ==
  /\ CameOf(lines, orig, from)
  /\ \A i, j \in Live(lines) : from[i] = from[j] => i = j
  /\ \A y \in 1..Len(orig) : \E i \in Live(lines) : from[i] = y
  /\ e = 0 => \A i, j \in Live(lines) : ~Crossed(from, i, j)
  /\ e = 1 => \A a, b, c, d \in Live(lines) :
                Crossed(from, a, b) /\ Crossed(from, c, d) => a = c /\ b = d
  /\ ~Reversed(Live(lines), from)

LEMMA RearrangedCount ==
  ASSUME NEW lines \in Seq(Line), NEW orig \in Seq(Line), NEW from, NEW e,
         Rearranged(lines, orig, from, e)
  PROVE  Cardinality(Live(lines)) = Len(orig)
<1> DEFINE S == Live(lines)
           T == 1..Len(orig)
           f == [i \in S |-> from[i]]
<1>1. f \in [S -> T]
  BY LiveLines DEF Rearranged, CameOf
<1>2. f \in Bijection(S, T)
  <2>1. \A a, b \in S : f[a] = f[b] => a = b
    BY DEF Rearranged
  <2>2. \A t \in T : \E a \in S : f[a] = t
    BY DEF Rearranged
  <2> HIDE DEF S, T, f
  <2>3. QED
    BY <1>1, <2>1, <2>2, Fun_IsBij
<1>3. IsFiniteSet(S)
  BY LiveLines
<1> HIDE DEF S, T, f
<1>4. Cardinality(T) = Cardinality(S)
  BY <1>2, <1>3, FS_Bijection DEF ExistsBijection
<1>5. Cardinality(T) = Len(orig)
  <2>1. PICK m \in Nat : m = Len(orig)
    BY LenProperties
  <2>2. 1 > m => m = 0
    OBVIOUS
  <2>3. Cardinality(1..m) = IF 1 > m THEN 0 ELSE m - 1 + 1
    BY FS_Interval
  <2>4. QED
    BY <2>1, <2>2, <2>3 DEF T
<1>6. QED
  BY <1>4, <1>5 DEF S

(* One accident more.                                                      *)
LEMMA RearrangedMore ==
  ASSUME NEW old \in Seq(Line), NEW new \in Seq(Line), NEW orig \in Seq(Line),
         NEW from, NEW e \in {0, 1}, Rearranged(old, orig, from, e),
         NEW origin, CameOf(new, old, origin),
         NoneTwice(new, origin) \/ AllLeft(new, old, origin),
         NEW x \in Nat,
         \A i, j \in 1..Len(new) : i < j => (i = x /\ j = x + 1) \/ origin[i] <= origin[j],
         Cardinality(Live(new)) = Cardinality(Live(old))
  PROVE  \E more : Rearranged(new, orig, more, e + 1)
<1> DEFINE live == Live(new)
           more == [i \in 1..Len(new) |-> from[origin[i]]]
<1>1. /\ origin \in [1..Len(new) -> 1..Len(old)] /\ from \in [1..Len(old) -> 1..Len(orig)]
      /\ \A i \in 1..Len(new) : new[i] \in {old[origin[i]], Blank, Torn}
      /\ \A i \in 1..Len(old) : old[i] \in {orig[from[i]], Blank, Torn}
      /\ Len(new) \in Nat /\ Len(old) \in Nat /\ Len(orig) \in Nat
  BY LenProperties DEF Rearranged, CameOf
<1>2. live \subseteq 1..Len(new) /\ Live(old) \subseteq 1..Len(old)
  BY LiveLines
<1>3. /\ \A i \in live : origin[i] \in Live(old)
      /\ \A i, j \in live : origin[i] = origin[j] => i = j
      /\ \A y \in Live(old) : \E i \in live : origin[i] = y
  BY LiveCounted
<1>4. CameOf(new, orig, more)
  BY <1>1 DEF CameOf
<1>5. \A i \in live : /\ more[i] = from[origin[i]] /\ more[i] \in Nat
                      /\ i \in Nat /\ origin[i] \in Nat
  BY <1>1, <1>2
<1> HIDE DEF more, live
<1>6. \A i, j \in live : more[i] = more[j] => i = j
  <2> SUFFICES ASSUME NEW i \in live, NEW j \in live, more[i] = more[j] PROVE i = j
    OBVIOUS
  <2>1. \A a, b \in Live(old) : from[a] = from[b] => a = b
    BY DEF Rearranged
  <2>2. origin[i] \in Live(old) /\ origin[j] \in Live(old)
    BY <1>3
  <2>3. from[origin[i]] = from[origin[j]]
    <3>1. more[i] = from[origin[i]]
      BY <1>5
    <3>2. more[j] = from[origin[j]]
      BY <1>5
    <3>3. QED
      BY <3>1, <3>2
  <2>4. origin[i] = origin[j]
    BY <2>1, <2>2, <2>3
  <2>5. QED
    BY <1>3, <2>4
<1>7. \A y \in 1..Len(orig) : \E i \in live : more[i] = y
  <2> SUFFICES ASSUME NEW y \in 1..Len(orig) PROVE \E i \in live : more[i] = y
    OBVIOUS
  <2>1. PICK k \in Live(old) : from[k] = y
    BY DEF Rearranged
  <2>2. PICK i \in live : origin[i] = k
    BY <1>3
  <2>3. QED
    BY <1>5, <2>1, <2>2
(* But for the pair that was exchanged, what is crossed was crossed.       *)
<1>8. ASSUME NEW i \in live, NEW j \in live, Crossed(more, i, j), ~(i = x /\ j = x + 1)
      PROVE  Crossed(from, origin[i], origin[j])
  <2>1. i < j /\ from[origin[i]] > from[origin[j]] /\ origin[i] <= origin[j]
    BY <1>2, <1>5, <1>8 DEF Crossed, live
  <2>2. origin[i] # origin[j]
    <3>1. i # j
      BY <1>5, <2>1
    <3>2. QED
      BY <1>3, <3>1
  <2>3. QED
    BY <1>5, <2>1, <2>2 DEF Crossed
<1>9. e + 1 = 1 => \A a, b, c, d \in live :
        Crossed(more, a, b) /\ Crossed(more, c, d) => a = c /\ b = d
  <2>1. ASSUME e = 0, NEW a \in live, NEW b \in live, Crossed(more, a, b)
        PROVE  a = x /\ b = x + 1
    <3>1. ~Crossed(from, origin[a], origin[b])
      BY <1>3, <2>1 DEF Rearranged
    <3>2. QED
      BY <1>8, <2>1, <3>1
  <2>2. e + 1 = 1 => e = 0
    OBVIOUS
  <2>3. QED
    BY <2>1, <2>2
<1>10. ~Reversed(live, more)
  <2> SUFFICES ASSUME NEW a \in live, NEW b \in live, NEW c \in live,
                      a < b, b < c, more[a] > more[b], more[b] > more[c]
               PROVE  FALSE
    BY DEF Reversed
  <2>1. Crossed(more, a, b) /\ Crossed(more, b, c) /\ Crossed(more, a, c)
    BY <1>5 DEF Crossed
  <2>2. /\ ~(a = x /\ c = x + 1) /\ a # b /\ b # c
        /\ ~(a = x /\ b = x + 1) \/ ~(b = x /\ c = x + 1)
    BY <1>5
  <2>3. Crossed(from, origin[a], origin[c])
    BY <1>8, <2>1, <2>2
  <2>4. \A i, j \in Live(old) : ~(e = 0 /\ Crossed(from, i, j))
    BY DEF Rearranged
  <2>5. e = 1
    BY <1>3, <2>3, <2>4
  <2>6. CASE ~(a = x /\ b = x + 1)
    <3>1. Crossed(from, origin[a], origin[b])
      BY <1>8, <2>1, <2>6
    <3>2. origin[b] = origin[c]
      BY <1>3, <2>3, <2>5, <3>1 DEF Rearranged
    <3>3. QED
      BY <1>3, <2>2, <3>2
  <2>7. CASE ~(b = x /\ c = x + 1)
    <3>1. Crossed(from, origin[b], origin[c])
      BY <1>8, <2>1, <2>7
    <3>2. origin[a] = origin[b]
      BY <1>3, <2>3, <2>5, <3>1 DEF Rearranged
    <3>3. QED
      BY <1>3, <2>2, <3>2
  <2>8. QED
    BY <2>2, <2>6, <2>7
<1>11. e + 1 # 0
  OBVIOUS
<1>12. Rearranged(new, orig, more, e + 1)
  BY <1>4, <1>6, <1>7, <1>9, <1>10, <1>11 DEF Rearranged, live
<1>13. QED
  BY <1>12

(* The archive as it was encoded: block 0 is the header, block k the lines *)
(* of frame k and the last one the footer.                                 *)
Original(orig, frames, n, p, s) ==
  /\ orig \in Seq(Line) /\ n \in Nat /\ Len(frames) = n
  /\ Tiled(p, s, n) /\ s[0] = 0
  /\ Len(orig) = p[n + 1]
  /\ orig[1] = Header /\ orig[p[n + 1]] = Footer(n)
  /\ \A k \in 1..n : s[k] = Size(frames[k]) /\ Stands(orig, p[k], frames[k])

LEMMA OriginalWritten ==
  ASSUME NEW lines \in Seq(Line), NEW frames \in Seq(Frame), NEW n \in Nat, n = Len(frames),
         NEW start \in [1..n + 1 -> Nat \ {0}], Encoded(lines, frames, n, start),
         Len(lines) = start[n + 1], lines[start[n + 1]] = Footer(n)
  PROVE  \E p, s : Original(lines, frames, n, p, s)
<1>1. \A k \in 1..n : Size(frames[k]) \in Nat
  BY ElementOfSeq, FrameFields
<1> DEFINE p == [k \in 0..n + 1 |-> IF k = 0 THEN 1 ELSE start[k]]
           s == [k \in 0..n + 1 |-> IF k \in 1..n THEN Size(frames[k]) ELSE 0]
<1>2. /\ \A k \in 1..n + 1 : k \in 0..n + 1 /\ k # 0 /\ p[k] = start[k]
      /\ \A k \in 1..n : k \in 0..n + 1 /\ s[k] = Size(frames[k])
      /\ p[0] = 1 /\ s[0] = 0 /\ s[n + 1] = 0
  OBVIOUS
<1>3. p \in [0..n + 1 -> Nat] /\ s \in [0..n + 1 -> Nat]
  <2>1. \A k \in 0..n + 1 : p[k] \in Nat /\ s[k] \in Nat
    BY <1>1
  <2>2. QED
    BY <2>1
<1>4. start[1] = 2 /\ lines[1] = Header
      /\ \A k \in 1..n : /\ start[k + 1] = start[k] + Size(frames[k]) + 1
                         /\ Stands(lines, start[k], frames[k])
  BY DEF Encoded
<1> HIDE DEF p, s
<1>5. ASSUME NEW k \in 0..n
      PROVE  p[k + 1] = p[k] + s[k] + 1
  <2>1. CASE k = 0
    <3>1. k + 1 = 1 /\ 1 \in 1..n + 1
      BY <2>1
    <3>2. p[k + 1] = 2
      BY <1>2, <1>4, <3>1
    <3>3. QED
      BY <1>2, <2>1, <3>2
  <2>2. CASE k # 0
    <3>1. k \in 1..n /\ k \in 1..n + 1 /\ k + 1 \in 1..n + 1
      BY <2>2
    <3>2. QED
      BY <1>2, <1>4, <3>1
  <2>3. QED
    BY <2>1, <2>2
<1>6. Tiled(p, s, n)
  BY <1>2, <1>3, <1>5 DEF Tiled
<1>7. p[n + 1] = start[n + 1]
  BY <1>2
<1>8. \A k \in 1..n : s[k] = Size(frames[k]) /\ Stands(lines, p[k], frames[k])
  <2>1. \A k \in 1..n : k \in 1..n + 1
    OBVIOUS
  <2>2. QED
    BY <1>2, <1>4, <2>1
<1>9. Original(lines, frames, n, p, s)
  BY <1>2, <1>4, <1>6, <1>7, <1>8 DEF Original
<1>10. QED
  BY <1>9

LEMMA KindOfLine ==
  ASSUME NEW f, NEW m
  PROVE  /\ FrameLine(f).kind = "FRAME" /\ Footer(m).kind = "END" /\ Header.kind = "header"
         /\ \A l : IsSensorOf(f, l) => l.kind = "SENSOR"
         /\ Blank.kind = "blank" /\ Torn.kind = "torn"
BY DEF FrameLine, Footer, Header, IsSensorOf, SensorLine, Blank, Torn

(* Frames that stand in a file one after the other between its first line  *)
(* and the footer, and what stands where in it.                            *)
Laid(lines, frames, n, p, s) ==
  /\ n \in Nat /\ Apart(p, s, n) /\ p[0] = 1 /\ s[0] = 0 /\ s[n + 1] = 0
  /\ Len(lines) \in Nat /\ 1 <= Len(lines) /\ lines[1] = Header
  /\ p[n + 1] \in 1..Len(lines) /\ lines[p[n + 1]] = Footer(n)
  /\ \A k \in 1..n : s[k] = Size(frames[k]) /\ Stands(lines, p[k], frames[k])

LEMMA LaidLine ==
  ASSUME NEW lines, NEW frames, NEW n \in Nat, NEW p, NEW s, Laid(lines, frames, n, p, s),
         NEW k \in 0..n + 1, NEW y \in Block(p, s, k)
  PROVE  /\ y \in 1..Len(lines)
         /\ \/ k = 0 /\ y = p[k] /\ lines[y] = Header
            \/ k = n + 1 /\ y = p[k] /\ lines[y] = Footer(n)
            \/ k \in 1..n /\ y = p[k] /\ lines[y] = FrameLine(frames[k])
            \/ k \in 1..n /\ y # p[k] /\ IsSensorOf(frames[k], lines[y])
<1>1. Apart(p, s, n)
  BY DEF Laid
<1>2. PICK a \in Nat, m \in Nat : a = p[k] /\ m = s[k]
  BY <1>1 DEF Apart
<1>3. y \in a..a + m
  BY <1>2 DEF Block
<1>4. CASE k = 0
  <2>1. m = 0 /\ a = 1
    BY <1>2, <1>4 DEF Laid
  <2>2. y = 1
    BY <1>3, <2>1
  <2>3. QED
    BY <1>2, <1>4, <2>1, <2>2 DEF Laid
<1>5. CASE k = n + 1
  <2>1. m = 0 /\ a \in 1..Len(lines) /\ lines[a] = Footer(n)
    BY <1>2, <1>5 DEF Laid
  <2>2. y = a
    BY <1>2, <1>3, <2>1
  <2>3. QED
    BY <1>2, <1>5, <2>1, <2>2
<1>6. CASE k \in 1..n
  <2>1. Stands(lines, a, frames[k]) /\ m = Size(frames[k]) /\ Len(lines) \in Nat
    BY <1>2, <1>6 DEF Laid
  <2>2. 1 <= a
    <3>1. 0 \in 0..n + 1 /\ 0 < k
      BY <1>6
    <3>2. p[0] + s[0] < p[k]
      BY <1>1, <3>1, BlocksGrow
    <3>3. p[0] = 1 /\ s[0] = 0
      BY DEF Laid
    <3>4. QED
      BY <1>2, <3>2, <3>3
  <2>3. y \in 1..Len(lines)
    BY <1>2, <1>3, <2>1, <2>2 DEF Stands
  <2>4. CASE y = a
    BY <1>2, <1>6, <2>1, <2>3, <2>4 DEF Stands
  <2>5. CASE y # a
    <3>1. y \in a + 1..a + m
      BY <1>2, <1>3, <2>5
    <3>2. lines[y] \in {lines[i] : i \in a + 1..a + Size(frames[k])}
      BY <2>1, <3>1
    <3>3. lines[y] \in {SensorLine(frames[k], name) : name \in DOMAIN frames[k].sensors}
      BY <2>1, <3>2 DEF Stands, SensorsFollow
    <3>4. IsSensorOf(frames[k], lines[y])
      BY <3>3 DEF IsSensorOf
    <3>5. QED
      BY <1>2, <1>6, <2>3, <2>5, <3>4
  <2>6. QED
    BY <2>4, <2>5
<1>7. k = 0 \/ k = n + 1 \/ k \in 1..n
  OBVIOUS
<1>8. QED
  BY <1>4, <1>5, <1>6, <1>7

LEMMA OriginalLaid ==
  ASSUME NEW orig, NEW frames, NEW n \in Nat, NEW p, NEW s, Original(orig, frames, n, p, s)
  PROVE  Laid(orig, frames, n, p, s)
<1>1. Tiled(p, s, n)
  BY DEF Original
<1>2. Apart(p, s, n)
  BY <1>1, TilesApart
<1>3. Len(orig) \in Nat
  BY LenProperties DEF Original
<1>4. 1 <= Len(orig)
  <2>1. 0 \in 0..n + 1 /\ n + 1 \in 0..n + 1 /\ 0 < n + 1
    OBVIOUS
  <2>2. p[0] + s[0] < p[n + 1]
    BY <1>2, <2>1, BlocksGrow
  <2>3. p[0] = 1 /\ s[0] = 0 /\ Len(orig) = p[n + 1]
    BY <1>1 DEF Tiled, Original
  <2>4. QED
    BY <1>3, <2>2, <2>3
<1>5. p[0] = 1 /\ s[n + 1] = 0
  BY <1>1 DEF Tiled
<1>6. QED
  BY <1>2, <1>3, <1>4, <1>5 DEF Laid, Original

LEMMA OriginalPlaces ==
  ASSUME NEW orig, NEW frames, NEW n \in Nat, NEW p, NEW s, Original(orig, frames, n, p, s),
         NEW y \in 1..Len(orig)
  PROVE  \E k \in 0..n + 1 : y \in Block(p, s, k)
<1>1. Tiled(p, s, n) /\ Len(orig) = p[n + 1]
  BY DEF Original
<1>2. y \in 1..p[n + 1]
  BY <1>1
<1>3. QED
  BY <1>1, <1>2, SomeTile

(* Every line of it is a live one.                                         *)
LEMMA OriginalLives ==
  ASSUME NEW orig, NEW frames, NEW n \in Nat, NEW p, NEW s, Original(orig, frames, n, p, s)
  PROVE  Live(orig) = 1..Len(orig)
<1> SUFFICES ASSUME NEW y \in 1..Len(orig) PROVE orig[y] \notin {Blank, Torn}
  BY DEF Live
<1>1. PICK k \in 0..n + 1 : y \in Block(p, s, k)
  BY OriginalPlaces
<1>2. \/ orig[y] = Header
      \/ orig[y] = Footer(n)
      \/ orig[y] = FrameLine(frames[k])
      \/ IsSensorOf(frames[k], orig[y])
  BY <1>1, OriginalLaid, LaidLine
<1>3. orig[y].kind \in {"header", "END", "FRAME", "SENSOR"}
  BY <1>2, KindOfLine
<1>4. QED
  BY <1>3, KindOfLine

(* An archive to which nothing happened is its own original.               *)
LEMMA NotRearranged ==
  ASSUME NEW orig \in Seq(Line), Live(orig) = 1..Len(orig)
  PROVE  \E from : Rearranged(orig, orig, from, 0)
<1> DEFINE from == [i \in 1..Len(orig) |-> i]
<1>1. Len(orig) \in Nat
  BY LenProperties
<1>2. from \in [1..Len(orig) -> 1..Len(orig)] /\ \A i \in 1..Len(orig) : from[i] = i /\ i \in Nat
  BY <1>1
<1> HIDE DEF from
<1>3. CameOf(orig, orig, from)
  BY <1>2 DEF CameOf
<1>4. \A i, j \in Live(orig) : ~Crossed(from, i, j)
  BY <1>2 DEF Crossed
<1>5. ~Reversed(Live(orig), from)
  BY <1>2 DEF Reversed
<1>6. /\ \A i, j \in Live(orig) : from[i] = from[j] => i = j
      /\ \A y \in 1..Len(orig) : \E i \in Live(orig) : from[i] = y
  BY <1>2
<1>7. Rearranged(orig, orig, from, 0)
  BY <1>3, <1>4, <1>5, <1>6 DEF Rearranged
<1>8. QED
  BY <1>7

(* Two accidents leave the lines of the original, rearranged, or they do   *)
(* not leave as many, unless both lost or doubled lines.                   *)
AfterDamage(orig, lines, e, swaps) ==
  \/ \E from : Rearranged(lines, orig, from, e)
  \/ /\ e # 0 /\ (e = 1 => ~swaps)
     /\ Cardinality(Live(lines)) # Len(orig)
  \/ e = 2 /\ ~swaps

DamageInv ==
  /\ edits = 0 => ~exchanged
  /\ verdict \in {"recording", "encoding"} => edits = 0
  /\ edits <= 2 /\ verdict \notin {"recording", "encoding"} =>
       \E orig, p, s :
         /\ Original(orig, recorded, written, p, s)
         /\ AfterDamage(orig, archive, edits, exchanged)

LEMMA DamageFooter ==
  ASSUME TypeInv, IntactInv, DamageInv, EncodeFooter
  PROVE  DamageInv'
<1>1. /\ edits = 0 /\ edits' = 0 /\ ~exchanged /\ exchanged' = exchanged /\ verdict' = "stored"
  BY DEF EncodeFooter, DamageInv
<1>2. TypeInv' /\ IntactInv'
  <2>1. [Next]_vars
    BY DEF Next
  <2>2. QED
    BY <2>1, TypeStep, IntactStep
<1>3. /\ archive' \in Seq(Line) /\ recorded' \in Seq(Frame) /\ written' \in Nat
      /\ written' \in 0..Len(recorded')
  BY <1>2, LenProperties DEF TypeInv, TypeOK
<1>4. PICK start \in [1..written' + 1 -> Nat \ {0}] :
        Encoded(archive', recorded', written', start) /\ Whole(start)'
  BY <1>1, <1>2 DEF IntactInv
<1>5. PICK p, s : Original(archive', recorded', written', p, s)
  <2>1. /\ written' = Len(recorded') /\ Len(archive') = start[written' + 1]
        /\ archive'[start[written' + 1]] = Footer(written')
    BY <1>4 DEF Whole
  <2>2. QED
    BY <1>3, <1>4, <2>1, OriginalWritten
<1>6. \E from : Rearranged(archive', archive', from, 0)
  <2>1. Live(archive') = 1..Len(archive')
    BY <1>3, <1>5, OriginalLives
  <2>2. QED
    BY <1>3, <2>1, NotRearranged
<1>7. AfterDamage(archive', archive', edits', exchanged')
  BY <1>1, <1>6 DEF AfterDamage
<1>8. QED
  BY <1>1, <1>5, <1>7 DEF DamageInv

LEMMA OneMoreAccident ==
  ASSUME NEW orig \in Seq(Line), NEW old \in Seq(Line), NEW new \in Seq(Line),
         NEW e \in {0, 1}, NEW swaps \in BOOLEAN, NEW more \in BOOLEAN, e = 0 => ~swaps,
         AfterDamage(orig, old, e, swaps), NEW origin, CameOf(new, old, origin),
         \/ more = swaps /\ LostOrDoubled(new, old, origin)
         \/ more = TRUE /\ Swapped(new, old, origin)
  PROVE  AfterDamage(orig, new, e + 1, more)
<1>1. NoneTwice(new, origin) \/ AllLeft(new, old, origin)
  BY DEF LostOrDoubled, Swapped
<1>2. PICK x \in Nat : \A i, j \in 1..Len(new) : i < j =>
        (i = x /\ j = x + 1) \/ origin[i] <= origin[j]
  <2>1. CASE LostOrDoubled(new, old, origin)
    <3>1. \A i, j \in 1..Len(new) : i < j => origin[i] <= origin[j]
      <4>1. \A i, j \in 1..Len(new) : i < j => i <= j
        BY LenProperties
      <4>2. QED
        BY <2>1, <4>1 DEF LostOrDoubled
    <3>2. 0 \in Nat
      OBVIOUS
    <3>3. QED
      BY <3>1, <3>2
  <2>2. CASE Swapped(new, old, origin)
    BY <2>2 DEF Swapped
  <2>3. QED
    BY <2>1, <2>2
<1>3. Swapped(new, old, origin) => Cardinality(Live(new)) = Cardinality(Live(old))
  BY <1>1, LiveCounted DEF Swapped
<1>4. CASE \E from : Rearranged(old, orig, from, e)
  <2>1. PICK from : Rearranged(old, orig, from, e)
    BY <1>4
  <2>2. Cardinality(Live(old)) = Len(orig)
    BY <2>1, RearrangedCount
  <2>3. CASE Cardinality(Live(new)) = Cardinality(Live(old))
    <3>1. \E further : Rearranged(new, orig, further, e + 1)
      BY <1>1, <1>2, <2>1, <2>3, RearrangedMore
    <3>2. QED
      BY <3>1 DEF AfterDamage
  <2>4. CASE Cardinality(Live(new)) # Cardinality(Live(old))
    <3>1. more = swaps
      BY <1>3, <2>4
    <3>2. e + 1 # 0 /\ (e + 1 = 1 => e = 0)
      OBVIOUS
    <3>3. QED
      BY <2>2, <2>4, <3>1, <3>2 DEF AfterDamage
  <2>5. QED
    BY <2>3, <2>4
<1>5. CASE ~(\E from : Rearranged(old, orig, from, e))
  <2>1. e = 1 /\ ~swaps /\ Cardinality(Live(old)) # Len(orig)
    BY <1>5 DEF AfterDamage
  <2>2. e + 1 = 2 /\ e + 1 # 0 /\ e + 1 # 1
    BY <2>1
  <2>3. CASE Swapped(new, old, origin)
    BY <1>3, <2>1, <2>2, <2>3 DEF AfterDamage
  <2>4. CASE more = swaps
    BY <2>1, <2>2, <2>4 DEF AfterDamage
  <2>5. QED
    BY <2>3, <2>4
<1>6. QED
  BY <1>4, <1>5

LEMMA DamageMore ==
  ASSUME TypeInv, DamageInv, Damage
  PROVE  DamageInv'
<1>1. /\ edits \in Nat /\ edits' = edits + 1 /\ verdict = "stored" /\ verdict' = "stored"
      /\ recorded' = recorded /\ written' = written
      /\ archive \in Seq(Line) /\ exchanged \in BOOLEAN
  BY DEF Damage, TypeInv, TypeOK
<1>2. edits' # 0
  BY <1>1
<1> SUFFICES ASSUME edits' <= 2
             PROVE  \E orig, p, s :
                      /\ Original(orig, recorded, written, p, s)
                      /\ AfterDamage(orig, archive', edits', exchanged')
  BY <1>1, <1>2 DEF DamageInv
<1>3. edits \in {0, 1} /\ edits <= 2
  BY <1>1
<1>4. PICK orig, p, s : /\ Original(orig, recorded, written, p, s)
                        /\ AfterDamage(orig, archive, edits, exchanged)
  BY <1>1, <1>3 DEF DamageInv
<1>5. /\ archive' \in Seq(Line) /\ exchanged' \in BOOLEAN
      /\ \E origin : /\ CameOf(archive', archive, origin)
                     /\ \/ exchanged' = exchanged /\ LostOrDoubled(archive', archive, origin)
                        \/ exchanged' = TRUE /\ Swapped(archive', archive, origin)
  BY DamagedLines DEF TypeInv
<1>6. PICK origin : /\ CameOf(archive', archive, origin)
                    /\ \/ exchanged' = exchanged /\ LostOrDoubled(archive', archive, origin)
                       \/ exchanged' = TRUE /\ Swapped(archive', archive, origin)
  BY <1>5
<1>7. orig \in Seq(Line) /\ (edits = 0 => ~exchanged)
  BY <1>4 DEF Original, DamageInv
<1>8. AfterDamage(orig, archive', edits + 1, exchanged')
  BY <1>1, <1>3, <1>4, <1>5, <1>6, <1>7, OneMoreAccident
<1>9. QED
  BY <1>1, <1>4, <1>8

LEMMA DamageStep == TypeInv /\ IntactInv /\ DamageInv /\ [Next]_vars => DamageInv'
<1> SUFFICES ASSUME TypeInv, IntactInv, DamageInv, [Next]_vars PROVE DamageInv'
  OBVIOUS
<1>1. CASE Record \/ EncodeHeader \/ EncodeFrame
  <2>1. edits' = edits /\ exchanged' = exchanged /\ verdict \in {"recording", "encoding"}
        /\ verdict' \in {"recording", "encoding"}
    BY <1>1 DEF Record, EncodeHeader, EncodeFrame, file
  <2>2. QED
    BY <2>1 DEF DamageInv
<1>2. CASE EncodeFooter
  BY <1>2, DamageFooter
<1>3. CASE Damage
  BY <1>3, DamageMore
<1>4. CASE DecodeBegin \/ Decode
  <2>1. /\ recorded' = recorded /\ written' = written /\ archive' = archive
        /\ edits' = edits /\ exchanged' = exchanged
        /\ verdict \notin {"recording", "encoding"} /\ verdict' \notin {"recording", "encoding"}
    BY <1>4 DEF DecodeBegin, Decode, DecodeBlank, DecodeFooter, DecodeFrame, DecodeSensor,
                DecodeRefuses, malformed, reading, file
  <2>2. QED
    BY <2>1 DEF DamageInv
<1>5. CASE Done \/ UNCHANGED vars
  <2>1. UNCHANGED vars
    BY <1>5 DEF Done
  <2>2. QED
    BY <2>1 DEF vars, file, DamageInv
<1>6. QED
  BY <1>1, <1>2, <1>3, <1>4, <1>5 DEF Next

(* An archive that was accepted, its frames in sequence, holds them laid   *)
(* out as large as in the original, and nothing else that is live.         *)
LEMMA FramesLaid ==
  ASSUME TypeInv, NEW n \in Nat, NEW start, NEW end, NEW rank, FramesStand(n, start, end, rank),
         NEW orig, NEW p, NEW s, Original(orig, recorded, n, p, s)
  PROVE  \E q : Laid(archive, decoded, n, q, s) /\ Live(archive) = Blocks(q, s, n)
<1>1. /\ n = Len(decoded) /\ start \in [1..n -> 2..Len(archive)] /\ end \in 2..Len(archive)
      /\ archive[1] = Header /\ archive[end] = Footer(n)
      /\ \A k \in 1..n :
           /\ Size(decoded[k]) \in Nat /\ FrameLine(decoded[k]) = FrameLine(recorded[k])
           /\ Stands(archive, start[k], decoded[k])
           /\ start[k] + Size(decoded[k]) < IF k = n THEN end ELSE start[k + 1]
      /\ \A i \in 2..Len(archive) :
           archive[i] = Blank \/ i = end \/ \E k \in 1..n : i \in start[k]..start[k] + Size(decoded[k])
  BY DEF FramesStand
<1>2. Len(archive) \in Nat
  BY LenProperties DEF TypeInv, TypeOK
<1>3. Laid(orig, recorded, n, p, s)
  BY OriginalLaid
<1>4. s[0] = 0 /\ s[n + 1] = 0 /\ s \in [0..n + 1 -> Nat] /\ \A k \in 1..n : s[k] = Size(recorded[k])
  BY <1>3 DEF Laid, Apart
<1>5. \A k \in 1..n : s[k] = Size(decoded[k])
  BY <1>1, <1>4, FrameKnown
<1> DEFINE q == [k \in 0..n + 1 |-> IF k = 0 THEN 1 ELSE IF k = n + 1 THEN end ELSE start[k]]
<1>6. /\ q[0] = 1 /\ q[n + 1] = end
      /\ \A k \in 1..n : q[k] = start[k] /\ q[k] \in 2..Len(archive)
  <2>1. 0 \in 0..n + 1 /\ n + 1 \in 0..n + 1 /\ n + 1 # 0
    OBVIOUS
  <2>2. \A k \in 1..n : k \in 0..n + 1 /\ k # 0 /\ k # n + 1
    OBVIOUS
  <2>3. QED
    BY <1>1, <2>1, <2>2
<1>7. q \in [0..n + 1 -> Nat]
  <2>1. \A k \in 0..n + 1 : q[k] \in Nat
    <3>1. \A k \in 0..n + 1 : k = 0 \/ k = n + 1 \/ k \in 1..n
      OBVIOUS
    <3>2. 2..Len(archive) \subseteq Nat
      BY <1>2
    <3> HIDE DEF q
    <3>3. QED
      BY <1>1, <1>6, <3>1, <3>2
  <2>2. QED
    BY <2>1
<1> HIDE DEF q
<1>8. ASSUME NEW k \in 0..n
      PROVE  q[k] + s[k] < q[k + 1]
  <2>1. CASE k = 0
    <3>1. q[1] \in 2..Len(archive)
      <4>1. CASE n = 0
        BY <1>1, <1>6, <4>1
      <4>2. CASE n # 0
        <5>1. 1 \in 1..n
          BY <4>2
        <5>2. QED
          BY <1>6, <5>1
      <4>3. QED
        BY <4>1, <4>2
    <3>2. QED
      BY <1>2, <1>4, <1>6, <2>1, <3>1
  <2>2. CASE k # 0
    <3>1. k \in 1..n
      BY <2>2
    <3>2. q[k] + s[k] < IF k = n THEN end ELSE start[k + 1]
      BY <1>1, <1>5, <1>6, <3>1
    <3>3. q[k + 1] = IF k = n THEN end ELSE start[k + 1]
      <4>1. k # n => k + 1 \in 1..n
        BY <3>1
      <4>2. QED
        BY <1>6, <4>1
    <3>4. QED
      BY <3>2, <3>3
  <2>3. QED
    BY <2>1, <2>2
<1>9. Apart(q, s, n)
  BY <1>4, <1>7, <1>8 DEF Apart
<1>10. Laid(archive, decoded, n, q, s)
  <2>1. \A k \in 1..n : s[k] = Size(decoded[k]) /\ Stands(archive, q[k], decoded[k])
    BY <1>1, <1>5, <1>6
  <2>2. 1 <= Len(archive) /\ q[n + 1] \in 1..Len(archive)
    BY <1>1, <1>2, <1>6
  <2>3. QED
    BY <1>1, <1>2, <1>4, <1>6, <1>9, <2>1, <2>2 DEF Laid
<1>11. Live(archive) \subseteq Blocks(q, s, n)
  <2> SUFFICES ASSUME NEW i \in 1..Len(archive), archive[i] # Blank
               PROVE  \E k \in 0..n + 1 : i \in Block(q, s, k)
    BY DEF Live, Blocks
  <2>1. CASE i = 1 \/ i = end
    <3>1. PICK k \in 0..n + 1 : q[k] = i /\ s[k] = 0
      <4>1. 0 \in 0..n + 1 /\ n + 1 \in 0..n + 1
        OBVIOUS
      <4>2. QED
        BY <1>4, <1>6, <2>1, <4>1
    <3>2. i \in i..i + 0
      BY <1>2
    <3>3. QED
      BY <3>1, <3>2 DEF Block
  <2>2. CASE i # 1 /\ i # end
    <3>1. i \in 2..Len(archive)
      BY <1>2, <2>2
    <3>2. PICK k \in 1..n : i \in start[k]..start[k] + Size(decoded[k])
      BY <1>1, <2>2, <3>1
    <3>3. k \in 0..n + 1 /\ i \in q[k]..q[k] + s[k]
      BY <1>5, <1>6, <3>2
    <3>4. QED
      BY <3>3 DEF Block
  <2>3. QED
    BY <2>1, <2>2
<1>12. Blocks(q, s, n) \subseteq Live(archive)
  <2> SUFFICES ASSUME NEW k \in 0..n + 1, NEW i \in Block(q, s, k) PROVE i \in Live(archive)
    BY DEF Blocks
  <2>1. /\ i \in 1..Len(archive)
        /\ \/ archive[i] = Header
           \/ archive[i] = Footer(n)
           \/ archive[i] = FrameLine(decoded[k])
           \/ IsSensorOf(decoded[k], archive[i])
    BY <1>10, LaidLine
  <2>2. archive[i].kind \in {"header", "END", "FRAME", "SENSOR"}
    BY <2>1, KindOfLine
  <2>3. archive[i] \notin {Blank, Torn}
    BY <2>2, KindOfLine
  <2>4. QED
    BY <2>1, <2>3 DEF Live
<1>13. Live(archive) = Blocks(q, s, n)
  <2>1. \A S, T : S \subseteq T /\ T \subseteq S => S = T
    OBVIOUS
  <2>2. QED
    BY <1>11, <1>12, <2>1
<1>14. QED
  BY <1>10, <1>13

(* The header, the footer and the line of a frame tell where they come     *)
(* from.                                                                   *)
LEMMA FirstLines ==
  ASSUME NEW n \in Nat, NEW frames, NEW others, NEW orig, NEW lines, NEW p, NEW q, NEW s,
         Laid(orig, frames, n, p, s), Laid(lines, others, n, q, s),
         \A k \in 1..n : /\ FrameLine(others[k]) = FrameLine(frames[k])
                         /\ frames[k].sequence = k,
         NEW k \in 0..n + 1, NEW m \in 0..n + 1, NEW y \in Block(p, s, m),
         lines[q[k]] = orig[y]
  PROVE  y = p[k]
<1>1. \/ m = 0 /\ y = p[m] /\ orig[y] = Header
      \/ m = n + 1 /\ y = p[m] /\ orig[y] = Footer(n)
      \/ m \in 1..n /\ y = p[m] /\ orig[y] = FrameLine(frames[m])
      \/ m \in 1..n /\ y # p[m] /\ IsSensorOf(frames[m], orig[y])
  BY LaidLine
<1>2. \/ k = 0 /\ lines[q[k]] = Header
      \/ k = n + 1 /\ lines[q[k]] = Footer(n)
      \/ k \in 1..n /\ lines[q[k]] = FrameLine(others[k])
  <2>1. k = 0 \/ k = n + 1 \/ k \in 1..n
    OBVIOUS
  <2>2. q[0] = 1 /\ lines[1] = Header /\ lines[q[n + 1]] = Footer(n)
        /\ \A j \in 1..n : Stands(lines, q[j], others[j])
    BY DEF Laid
  <2>3. QED
    BY <2>1, <2>2 DEF Stands
<1>3. CASE k = 0 /\ lines[q[k]] = Header
  <2>1. orig[y].kind = "header"
    BY <1>3, KindOfLine
  <2>2. m = 0 /\ y = p[m]
    BY <1>1, <2>1, KindOfLine
  <2>3. QED
    BY <1>3, <2>2
<1>4. CASE k = n + 1 /\ lines[q[k]] = Footer(n)
  <2>1. orig[y].kind = "END"
    BY <1>4, KindOfLine
  <2>2. m = n + 1 /\ y = p[m]
    BY <1>1, <2>1, KindOfLine
  <2>3. QED
    BY <1>4, <2>2
<1>5. CASE k \in 1..n /\ lines[q[k]] = FrameLine(others[k])
  <2>1. orig[y].kind = "FRAME"
    BY <1>5, KindOfLine
  <2>2. m \in 1..n /\ y = p[m] /\ orig[y] = FrameLine(frames[m])
    BY <1>1, <2>1, KindOfLine
  <2>3. FrameLine(frames[k]) = FrameLine(frames[m])
    BY <1>5, <2>2
  <2>4. k = m
    BY <1>5, <2>2, <2>3, FrameKnown
  <2>5. QED
    BY <2>2, <2>4
<1>6. QED
  BY <1>2, <1>3, <1>4, <1>5

LEMMA DamageNoticedWhen ==
  ASSUME TypeInv, ReadInv, OrderInv, DamageInv, edits <= 2, verdict = "accepted"
  PROVE  decoded = recorded \/ (~Inspect(decoded).sequenceMonotonic /\ ~Passed(decoded))
<1> SUFFICES ASSUME exchanged PROVE decoded = recorded \/ (~Inspect(decoded).sequenceMonotonic /\ ~Passed(decoded))
  BY OrderIsNoticed
<1>1. PICK rank : Ranked(archive, recorded, written, rank)
  BY DEF OrderInv
<1>2. CASE ~Inspect(decoded).sequenceMonotonic /\ ~Passed(decoded)
  BY <1>2
<1>3. CASE \E n \in Nat : \E start, end : FramesStand(n, start, end, rank)
  <2>1. PICK n \in Nat : \E start, end : FramesStand(n, start, end, rank)
    BY <1>3
  <2>2. PICK start, end : FramesStand(n, start, end, rank)
    BY <2>1
  <2>3. /\ n = Len(decoded) /\ n = Len(recorded) /\ n = written
        /\ \A k \in 1..n : /\ decoded[k] \in Frame /\ recorded[k] \in Frame
                           /\ FrameLine(decoded[k]) = FrameLine(recorded[k])
    BY <2>2 DEF FramesStand
  <2>4. PICK orig, p, s : /\ Original(orig, recorded, n, p, s)
                          /\ AfterDamage(orig, archive, edits, exchanged)
    BY <2>3 DEF DamageInv
  <2>5. PICK q : Laid(archive, decoded, n, q, s) /\ Live(archive) = Blocks(q, s, n)
    BY <2>2, <2>4, FramesLaid
  <2>6. /\ Tiled(p, s, n) /\ Len(orig) = p[n + 1] /\ Apart(q, s, n) /\ orig \in Seq(Line)
        /\ archive \in Seq(Line) /\ Laid(orig, recorded, n, p, s)
    <3>1. Tiled(p, s, n) /\ Len(orig) = p[n + 1] /\ orig \in Seq(Line)
      BY <2>4 DEF Original
    <3>2. Laid(orig, recorded, n, p, s)
      BY <2>4, OriginalLaid
    <3>3. Apart(q, s, n)
      BY <2>5 DEF Laid
    <3>4. archive \in Seq(Line)
      BY DEF TypeInv, TypeOK
    <3>5. QED
      BY <3>1, <3>2, <3>3, <3>4
  <2>7. Cardinality(Live(archive)) = Len(orig)
    BY <2>5, <2>6, SameBlocks
  <2>8. PICK from : Rearranged(archive, orig, from, edits)
    BY <2>4, <2>7 DEF AfterDamage
  <2> DEFINE live == Blocks(q, s, n)
             f == [x \in live |-> from[x]]
  <2>9. \A x \in live : /\ x \in 1..Len(archive) /\ from[x] \in 1..Len(orig)
                        /\ archive[x] = orig[from[x]]
    BY <2>5, <2>8 DEF Rearranged, CameOf, Live
  <2>10. \A k \in 1..n : recorded[k].sequence = k
    <3>1. DOMAIN recorded = 1..n
      BY <2>3, LenProperties DEF TypeInv, TypeOK
    <3>2. QED
      BY <3>1 DEF TypeInv, Numbered
  <2>11. \A k \in 0..n + 1 : \A x \in Block(q, s, k) : x \in live
    BY DEF Blocks
  <2>12. \A k \in 0..n + 1 : q[k] \in live /\ f[q[k]] = p[k]
    <3> SUFFICES ASSUME NEW k \in 0..n + 1 PROVE q[k] \in live /\ from[q[k]] = p[k]
      OBVIOUS
    <3>1. q[k] \in Block(q, s, k)
      <4>1. PICK a \in Nat, m \in Nat : a = q[k] /\ m = s[k]
        BY <2>6 DEF Apart
      <4>2. a \in a..a + m
        BY <4>1
      <4>3. QED
        BY <4>1, <4>2 DEF Block
    <3>2. q[k] \in live
      BY <2>11, <3>1
    <3> HIDE DEF live, f
    <3>3. from[q[k]] \in 1..Len(orig) /\ archive[q[k]] = orig[from[q[k]]]
      BY <2>9, <3>2
    <3>4. PICK m \in 0..n + 1 : from[q[k]] \in Block(p, s, m)
      BY <2>4, <3>3, OriginalPlaces
    <3>5. \A j \in 1..n : /\ FrameLine(decoded[j]) = FrameLine(recorded[j])
                          /\ recorded[j].sequence = j
      BY <2>3, <2>10
    <3>6. Laid(orig, recorded, n, p, s) /\ Laid(archive, decoded, n, q, s)
      BY <2>5, <2>6
    <3>7. archive[q[k]] = orig[from[q[k]]]
      BY <3>3
    <3>8. from[q[k]] = p[k]
      BY <3>4, <3>5, <3>6, <3>7, FirstLines
    <3>9. QED
      BY <3>2, <3>8
  <2>13. \A k \in 0..n + 1 : \A x \in Block(q, s, k) : f[x] \in Block(p, s, k)
    <3>1. f \in [live -> 1..p[n + 1]]
      BY <2>6, <2>9
    <3>2. \A x, y \in live : f[x] = f[y] => x = y
      BY <2>5, <2>8 DEF Rearranged
    <3>3. \A z \in 1..p[n + 1] : \E x \in live : f[x] = z
      BY <2>5, <2>6, <2>8 DEF Rearranged
    <3>4. ~Reversed(live, f)
      BY <2>5, <2>8 DEF Rearranged, Reversed
    <3>5. \A k \in 0..n + 1 : f[q[k]] = p[k]
      BY <2>12
    <3> HIDE DEF f
    <3>6. QED
      BY <2>6, <3>1, <3>2, <3>3, <3>4, <3>5, BlocksInPlace
  <2>14. ASSUME NEW d \in 1..n, NEW name \in DOMAIN decoded[d].sensors
         PROVE  IsSensorOf(recorded[d], SensorLine(decoded[d], name))
    <3>1. PICK a \in Nat : a = q[d] /\ s[d] = Size(decoded[d]) /\ s[d] \in Nat
                           /\ SensorsFollow(archive, a, decoded[d])
      <4>1. s[d] = Size(decoded[d]) /\ SensorsFollow(archive, q[d], decoded[d])
        BY <2>5 DEF Laid, Stands
      <4>2. q \in [0..n + 1 -> Nat] /\ s \in [0..n + 1 -> Nat]
        BY <2>6 DEF Apart
      <4>3. d \in 0..n + 1
        OBVIOUS
      <4>4. q[d] \in Nat /\ s[d] \in Nat
        BY <4>2, <4>3
      <4>5. QED
        BY <4>1, <4>4
    <3>2. SensorLine(decoded[d], name) \in {SensorLine(decoded[d], c) : c \in DOMAIN decoded[d].sensors}
      OBVIOUS
    <3>3. SensorLine(decoded[d], name) \in {archive[i] : i \in a + 1..a + s[d]}
      BY <3>1, <3>2 DEF SensorsFollow
    <3>4. PICK x \in a + 1..a + s[d] : archive[x] = SensorLine(decoded[d], name)
      BY <3>3
    <3>5. x \in Block(q, s, d) /\ d \in 0..n + 1
      <4>1. x \in a..a + s[d]
        BY <3>1, <3>4
      <4>2. QED
        BY <3>1, <4>1 DEF Block
    <3>6. f[x] \in Block(p, s, d) /\ f[x] = from[x] /\ archive[x] = orig[from[x]]
      BY <2>9, <2>11, <2>13, <3>5
    <3> HIDE DEF f, live
    <3>7. \/ orig[f[x]] = Header
          \/ orig[f[x]] = Footer(n)
          \/ orig[f[x]] = FrameLine(recorded[d])
          \/ IsSensorOf(recorded[d], orig[f[x]])
      BY <2>6, <3>5, <3>6, LaidLine
    <3>8. orig[f[x]] = SensorLine(decoded[d], name)
      BY <3>4, <3>6
    <3>9. SensorLine(decoded[d], name).kind = "SENSOR"
      BY DEF SensorLine
    <3>10. QED
      BY <3>7, <3>8, <3>9, KindOfLine
  <2>15. \A d \in 1..n : decoded[d] = recorded[d]
    <3> SUFFICES ASSUME NEW d \in 1..n PROVE decoded[d] = recorded[d]
      OBVIOUS
    <3>1. \A name \in DOMAIN decoded[d].sensors : \E other \in DOMAIN recorded[d].sensors :
            SensorLine(decoded[d], name) = SensorLine(recorded[d], other)
      BY <2>14 DEF IsSensorOf
    <3>2. QED
      BY <2>3, <3>1, SameSensors
  <2>16. decoded \in Seq(Frame) /\ recorded \in Seq(Frame)
    BY DEF TypeInv, TypeOK
  <2>17. QED
    BY <2>3, <2>15, <2>16, SeqEqual
<1>4. QED
  BY <1>1, <1>2, <1>3, InSequence

(* Whatever two accidents do to a stored archive: what is accepted is the  *)
(* recorded session, or both inspections find its frames out of sequence.  *)
THEOREM DamageNoticed == Spec => []DamageIsNoticed
<1>1. Init => IntactInv /\ OrderInv /\ ReadInv /\ DamageInv
  BY DEF Init, IntactInv, OrderInv, ReadInv, DamageInv
<1>2. TypeInv /\ ReadInv /\ OrderInv /\ DamageInv => DamageIsNoticed
  BY DamageNoticedWhen DEF DamageIsNoticed, AcceptedIsSound
<1>3. QED
  BY TypeInit, TypeStep, IntactStep, ReadStep, OrderStep, DamageStep, <1>1, <1>2, PTL DEF Spec
==============================================================================
