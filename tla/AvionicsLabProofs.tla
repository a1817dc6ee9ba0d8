--------------------------- MODULE AvionicsLabProofs ---------------------------
(***************************************************************************)
(* What every operation of AvionicsLab preserves, for every set of         *)
(* channels, waveform phase, step length and scenario window, whoever      *)
(* calls it: the session of LabSession, or the handlers of CockpitBridge.  *)
(***************************************************************************)
EXTENDS AvionicsLab, FiniteSetTheorems, TLAPS

------------------------------------------------------------------------------
(* The faults an injector can hold.                                        *)

AreFaults(S) == \A f \in S : f.rank \in 0..12 /\ f.value \in Int

LEMMA TrainingFaultsType == AreFaults(TrainingFaults)
  BY DEF TrainingFaults, AreFaults, FaultSpec

LEMMA ScenarioFaultsType ==
  ASSUME NEW s, NEW t \in Nat
  PROVE  AreFaults(ScenarioFaults(s, t))
  BY TimingAssumption DEF ScenarioFaults, AreFaults, FaultSpec

(* Of several faults on a channel, one has the highest rank.               *)
LEMMA LastOfIsMember ==
  ASSUME NEW S, AreFaults(S), S # {}
  PROVE  LastOf(S) \in S
<1> DEFINE R == {f.rank : f \in S}
<1>1. R \subseteq 0..12 /\ R # {}
  BY DEF AreFaults
<1>2. PICK m \in R : \A n \in R : n <= m
  <2> SUFFICES ASSUME \A m \in R : \E n \in R : ~(n <= m)
               PROVE  FALSE
    OBVIOUS
  <2> HIDE DEF R
  <2>1. 12 \notin R
    BY <1>1
  <2>2. 11 \notin R
    BY <1>1, <2>1
  <2>3. 10 \notin R /\ 9 \notin R
    BY <1>1, <2>1, <2>2
  <2>4. R \subseteq 0..8
    BY <1>1, <2>1, <2>2, <2>3
  <2>5. 8 \notin R /\ 7 \notin R
    BY <2>4
  <2>6. 6 \notin R /\ 5 \notin R
    BY <2>4, <2>5
  <2>7. R \subseteq 0..4
    BY <2>4, <2>5, <2>6
  <2>8. 4 \notin R /\ 3 \notin R
    BY <2>7
  <2>9. R \subseteq 0..2
    BY <2>7, <2>8
  <2>10. 2 \notin R /\ 1 \notin R
    BY <2>9
  <2>11. \A n \in R : n = 0
    BY <2>9, <2>10
  <2>12. 0 \in R
    BY <1>1, <2>11
  <2>13. PICK n \in R : ~(n <= 0)
    BY <2>12
  <2>14. QED
    BY <2>11, <2>13
<1>3. PICK f \in S : f.rank = m
  OBVIOUS
<1>4. \A g \in S : g.rank <= f.rank
  BY <1>2, <1>3
<1>5. QED
  BY <1>3, <1>4 DEF LastOf

LEMMA ApplyFaultsType ==
  ASSUME NEW C, NEW bus \in [C -> Sample], NEW F, AreFaults(F)
  PROVE  ApplyFaults(bus, F) \in [C -> Sample]
<1>1. ASSUME NEW c \in C
      PROVE  [ value |-> IF Overrides(F, c) # {} THEN LastOf(Overrides(F, c)).value
                         ELSE IF Offsets(F, c) # {}
                              THEN bus[c].value + LastOf(Offsets(F, c)).value
                              ELSE bus[c].value,
               valid |-> bus[c].valid /\ Invalidates(F, c) = {} ] \in Sample
  <2>1. AreFaults(Overrides(F, c)) /\ AreFaults(Offsets(F, c))
    BY DEF AreFaults, Overrides, Offsets
  <2>2. Overrides(F, c) # {} => LastOf(Overrides(F, c)).value \in Int
    BY <2>1, LastOfIsMember DEF AreFaults
  <2>3. Offsets(F, c) # {} => LastOf(Offsets(F, c)).value \in Int
    BY <2>1, LastOfIsMember DEF AreFaults
  <2>4. bus[c] \in Sample
    BY <1>1
  <2>5. bus[c].value \in Int /\ bus[c].valid \in BOOLEAN
    BY <2>4 DEF Sample
  <2>6. QED
    BY <2>2, <2>3, <2>5 DEF Sample
<1>2. QED
  BY <1>1 DEF ApplyFaults

LEMMA LevelType ==
  ASSUME NEW c \in Channels, NEW w \in Waves, NEW e \in Nat
  PROVE  Level(c, w, e) \in Int
<1>1. Centre[c] \in Int /\ w \in Int
  BY ChannelsAssumption, TimingAssumption DEF Centre, AllChannels
<1>2. ASSUME NEW full \in Int, NEW rate \in Nat
      PROVE  Drained(full, rate, e) \in Int
  <2> DEFINE x == rate * e
  <2>1. x \in Int
    OBVIOUS
  <2> HIDE DEF x
  <2>2. full + (-x) \div 1000 \in Int
    BY <2>1
  <2>3. QED
    BY <2>2 DEF Drained, x
<1>3. Drained(Centre[c], FuelRate, e) \in Int /\ Drained(Centre[c], BatteryRate, e) \in Int
  BY <1>1, <1>2, TimingAssumption
<1>4. QED
  BY <1>1, <1>3 DEF Level

LEMMA PublishType ==
  ASSUME NEW bus \in Bus, NEW w \in Waves, NEW e \in Nat
  PROVE  Publish(bus, w, e) \in [Channels -> Sample]
<1>1. DOMAIN bus \cup Channels = Channels
  BY DEF Bus
<1>2. ASSUME NEW c \in Channels
      PROVE  [value |-> Level(c, w, e), valid |-> TRUE] \in Sample
  BY <1>2, LevelType DEF Sample
<1>3. QED
  BY <1>1, <1>2 DEF Publish

LEMMA SteppedBusType ==
  ASSUME NEW l, LabType(l), NEW d \in Deltas, NEW w \in Waves
  PROVE  SteppedBus(l, d, w) \in [Channels -> Sample]
<1>0. l.elapsed + d \in Nat
  BY TimingAssumption DEF LabType
<1>1. Publish(l.bus, w, l.elapsed + d) \in [Channels -> Sample]
  BY <1>0, PublishType DEF LabType
<1>2. AreFaults(ScenarioFaults(l.scenario, l.tick + 1))
  BY ScenarioFaultsType DEF LabType
<1>3. GeneratedBus(l, d, w) \in [Channels -> Sample]
  BY <1>1, <1>2, ApplyFaultsType DEF GeneratedBus
<1>4. AreFaults(l.training)
  BY TrainingFaultsType DEF LabType, AreFaults
<1>5. QED
  BY <1>3, <1>4, ApplyFaultsType DEF SteppedBus

LEMMA PresetsAreTrainingFaults ==
  ASSUME NEW platform, NEW preset, Offered(platform, preset)
  PROVE  Presets[preset] \in TrainingFaults
<1>1. \E f \in TrainingFaults : f.id = preset
  BY DEF Offered, PlatformIds, PlatformPresets, CommonPresets, TrainingFaults, FaultSpec
<1>2. QED
  BY <1>1 DEF Presets

------------------------------------------------------------------------------
(* Issues and alerts.                                                      *)

LEMMA IssuesAreSubsystems ==
  ASSUME NEW bus, DOMAIN bus \subseteq Channels
  PROVE  Issues(bus) \subseteq Subsystems
  BY DEF Issues, Subsystems

LEMMA SubsystemsAreFinite == IsFiniteSet(Subsystems)
<1>1. IsFiniteSet(Channels \cup {"compute"})
  BY ChannelsAssumption, FS_AddElement
<1>2. IsFiniteSet((Channels \cup {"compute"}) \cup {"power"})
  BY <1>1, FS_AddElement
<1>3. Subsystems = (Channels \cup {"compute"}) \cup {"power"}
  BY DEF Subsystems
<1>4. QED
  BY <1>2, <1>3

(* Every channel is published valid, at its level.                         *)
LEMMA PublishedSample ==
  ASSUME NEW b, NEW w, NEW e, NEW c \in Channels
  PROVE  Publish(b, w, e)[c].valid = TRUE /\ Publish(b, w, e)[c].value = Level(c, w, e)
<1>1. c \in DOMAIN b \cup Channels
  OBVIOUS
<1>2. Publish(b, w, e)[c] = [value |-> Level(c, w, e), valid |-> TRUE]
  BY <1>1 DEF Publish
<1>3. QED
  BY <1>2

(* A bus without faults is the published one: at its levels, and valid.    *)
LEMMA NoFaultsNoIssues ==
  ASSUME NEW b \in Bus, NEW w \in Waves, NEW e \in Nat
  PROVE  /\ ApplyFaults(Publish(b, w, e), {}) = Publish(b, w, e)
         /\ Publish(b, w, e)["bus_voltage_v"].value = 272
         /\ Issues(Publish(b, w, e)) = {}
<1> DEFINE P == Publish(b, w, e)
<1>1. P \in [Channels -> Sample]
  BY PublishType
<1>2. \A c \in Channels : P[c] \in Sample
  BY <1>1
<1>3. ASSUME NEW c \in Channels
      PROVE  P[c].valid = TRUE /\ P[c].value = Level(c, w, e)
  BY <1>3, PublishedSample
<1>4. w \in Int /\ w <= 25
  BY TimingAssumption
<1>5. Centre["cpu_temp_c"] = 580 /\ Centre["bus_voltage_v"] = 272
  BY DEF Centre, AllChannels
<1>6. DOMAIN P = Channels /\ {"cpu_temp_c", "bus_voltage_v"} \subseteq Channels
  BY <1>1, ChannelsAssumption
<1> HIDE DEF P
<1>7. P["cpu_temp_c"].value = 580 + w /\ P["bus_voltage_v"].value = 272
  <2>1. P["cpu_temp_c"].value = Centre["cpu_temp_c"] + w
    BY <1>3, <1>6 DEF Level
  <2>2. P["bus_voltage_v"].value = Centre["bus_voltage_v"]
    BY <1>3, <1>6 DEF Level
  <2>3. QED
    BY <1>5, <2>1, <2>2
<1>8. ASSUME NEW c \in Channels
      PROVE  [ value |-> IF Overrides({}, c) # {} THEN LastOf(Overrides({}, c)).value
                         ELSE IF Offsets({}, c) # {}
                              THEN P[c].value + LastOf(Offsets({}, c)).value
                              ELSE P[c].value,
               valid |-> P[c].valid /\ Invalidates({}, c) = {} ] = P[c]
  <2>1. Overrides({}, c) = {} /\ Offsets({}, c) = {} /\ Invalidates({}, c) = {}
    BY DEF Overrides, Offsets, Invalidates
  <2>2. P[c] = [value |-> P[c].value, valid |-> TRUE] /\ P[c].valid = TRUE
    BY <1>2, <1>3 DEF Sample
  <2>3. QED
    BY <2>1, <2>2
<1>9. ApplyFaults(P, {}) = P
  <2>1. ApplyFaults(P, {}) =
          [ c \in Channels |->
            [ value |-> IF Overrides({}, c) # {} THEN LastOf(Overrides({}, c)).value
                        ELSE IF Offsets({}, c) # {}
                             THEN P[c].value + LastOf(Offsets({}, c)).value
                             ELSE P[c].value,
              valid |-> P[c].valid /\ Invalidates({}, c) = {} ] ]
    BY <1>6 DEF ApplyFaults
  <2>2. ApplyFaults(P, {}) = [c \in Channels |-> P[c]]
    BY <1>8, <2>1, Zenon
  <2>3. QED
    BY <1>1, <2>2
<1>10. Issues(P) = {}
  <2>1. {c \in DOMAIN P : ~P[c].valid} = {}
    BY <1>3, <1>6
  <2>2. ~(P["cpu_temp_c"].value > 850)
    BY <1>4, <1>7
  <2>3. ~(P["bus_voltage_v"].value < 220) /\ ~(P["bus_voltage_v"].value > 300)
    BY <1>7
  <2>4. QED
    BY <2>1, <2>2, <2>3 DEF Issues
<1>11. QED
  BY <1>7, <1>9, <1>10 DEF P

LEMMA UpdateAlertsType ==
  ASSUME NEW A, IsAlertTable(A), NEW I, I \subseteq Subsystems, NEW t \in Nat
  PROVE  IsAlertTable(UpdateAlerts(A, I, t))
  BY DEF IsAlertTable, UpdateAlerts, Alert

LEMMA ActiveCountType ==
  ASSUME NEW A, IsAlertTable(A)
  PROVE  Cardinality(ActiveKeys(A)) \in Nat
<1>1. ActiveKeys(A) \subseteq Subsystems
  BY DEF ActiveKeys, IsAlertTable
<1>2. QED
  BY <1>1, SubsystemsAreFinite, FS_Subset, FS_CardinalityType

LEMMA UpdatedActiveKeys ==
  ASSUME NEW A, NEW I, NEW t
  PROVE  ActiveKeys(UpdateAlerts(A, I, t)) = I
  BY DEF ActiveKeys, UpdateAlerts

------------------------------------------------------------------------------
(* The log and the recorder.  An entry appended is one more of its kind,   *)
(* and a reset hides all before it.                                        *)

AlertKinds == {"alerts-up", "alerts-down"}

LEMMA AppendedEntries ==
  ASSUME NEW log \in Seq(EventKinds), NEW e \in EventKinds, NEW k \in AlertKinds
  PROVE  Entries(Append(log, e), k) =
           IF e = "reset" THEN {}
           ELSE IF e = k THEN Entries(log, k) \cup {Len(log) + 1} ELSE Entries(log, k)
<1> DEFINE n == Len(log) + 1
           new == Append(log, e)
<1>1. /\ Len(log) \in Nat /\ Len(new) = n /\ new[n] = e
      /\ \A i \in 1..Len(log) : new[i] = log[i]
  OBVIOUS
<1>2. k # "reset"
  BY DEF AlertKinds
<1> HIDE DEF new
<1>3. CASE e = "reset"
  <2>1. \A i \in 1..n : n \in i..n
    BY <1>1
  <2>2. QED
    BY <2>1, <1>1, <1>3 DEF Entries, new
<1>4. ASSUME e # "reset", NEW i \in 1..Len(log)
      PROVE  i \in Entries(new, k) <=> i \in Entries(log, k)
  <2>1. i \in 1..n /\ \A j \in i..Len(log) : j \in 1..Len(log)
    BY <1>1
  <2>2. \A j : j \in i..n <=> j \in i..Len(log) \/ j = n
    BY <1>1
  <2>3. (\A j \in i..n : new[j] # "reset") <=> (\A j \in i..Len(log) : log[j] # "reset")
    BY <2>1, <2>2, <1>1, <1>4
  <2>4. QED
    BY <2>1, <2>3, <1>1 DEF Entries
<1>5. ASSUME e # "reset"
      PROVE  n \in Entries(new, k) <=> e = k
  <2>1. n \in 1..n /\ \A j \in n..n : j = n
    BY <1>1
  <2>2. QED
    BY <2>1, <1>1, <1>5 DEF Entries
<1>6. /\ \A i \in Entries(new, k) : i \in 1..Len(log) \/ i = n
      /\ \A i \in Entries(log, k) : i \in 1..Len(log)
  BY <1>1 DEF Entries
<1>7. CASE e # "reset"
  <2>1. \A i \in 1..Len(log) : i \in Entries(new, k) <=> i \in Entries(log, k)
    BY <1>4, <1>7
  <2>2. n \in Entries(new, k) <=> e = k
    BY <1>5, <1>7
  <2>3. n \notin Entries(log, k)
    BY <1>1, <1>6
  <2> HIDE DEF n
  <2>4. Entries(new, k) = IF e = k THEN Entries(log, k) \cup {n} ELSE Entries(log, k)
    BY <2>1, <2>2, <2>3, <1>6
  <2>5. QED
    BY <2>4, <1>7 DEF new, n
<1>8. QED
  BY <1>3, <1>7

LEMMA EntriesCount ==
  ASSUME NEW log \in Seq(EventKinds), NEW k
  PROVE  /\ IsFiniteSet(Entries(log, k)) /\ Cardinality(Entries(log, k)) \in Nat
         /\ Len(log) + 1 \notin Entries(log, k)
<1>1. Len(log) \in Nat
  OBVIOUS
<1>2. Entries(log, k) \subseteq 1..Len(log)
  BY DEF Entries
<1>3. IsFiniteSet(1..Len(log))
  BY <1>1, FS_Interval
<1>4. Len(log) + 1 \notin 1..Len(log)
  BY <1>1
<1>5. QED
  BY <1>2, <1>3, <1>4, FS_Subset, FS_CardinalityType

LEMMA OneMoreEntry ==
  ASSUME NEW log \in Seq(EventKinds), NEW k \in AlertKinds
  PROVE  Cardinality(Entries(Append(log, k), k)) = Cardinality(Entries(log, k)) + 1
<1>1. Entries(Append(log, k), k) = Entries(log, k) \cup {Len(log) + 1}
  BY AppendedEntries DEF AlertKinds, EventKinds
<1>2. QED
  BY <1>1, EntriesCount, FS_AddElement

(* A frame appended counts if its issues differ in number from the newest. *)
LEMMA AppendedFrames ==
  ASSUME NEW F, NEW frames \in Seq(F), NEW f
  PROVE  LET n == Len(frames) + 1
             x == IssueCount(frames, Len(frames))
             y == Cardinality(Issues(f.sensors))
         IN  /\ Rises(Append(frames, f)) = Rises(frames) \cup {i \in {n} : y > x}
             /\ Falls(Append(frames, f)) = Falls(frames) \cup {i \in {n} : y < x}
<1> DEFINE n == Len(frames) + 1
           x == IssueCount(frames, Len(frames))
           y == Cardinality(Issues(f.sensors))
           new == Append(frames, f)
<1>1. /\ Len(frames) \in Nat /\ Len(new) = n /\ new[n] = f
      /\ \A i \in 1..Len(frames) : new[i] = frames[i]
  <2>1. frames \in Seq(F \cup {f}) /\ f \in F \cup {f}
    OBVIOUS
  <2>2. QED
    BY <2>1
<1> HIDE DEF new
<1>2. \A i \in 0..Len(frames) : IssueCount(new, i) = IssueCount(frames, i)
  BY <1>1 DEF IssueCount
<1>3. IssueCount(new, n) = y /\ n - 1 = Len(frames) /\ IssueCount(new, n - 1) = x
  BY <1>1, <1>2 DEF IssueCount
<1>4. \A i \in 1..Len(frames) : i \in 0..Len(frames) /\ i - 1 \in 0..Len(frames)
  BY <1>1
<1>5. \A i : i \in 1..n <=> i \in 1..Len(frames) \/ i = n
  BY <1>1
<1>6. n \notin 1..Len(frames)
  BY <1>1
<1> HIDE DEF n, x, y
<1>7. Rises(new) = Rises(frames) \cup {i \in {n} : y > x}
  BY <1>1, <1>2, <1>3, <1>4, <1>5, <1>6 DEF Rises
<1>8. Falls(new) = Falls(frames) \cup {i \in {n} : y < x}
  BY <1>1, <1>2, <1>3, <1>4, <1>5, <1>6 DEF Falls
<1>9. QED
  BY <1>7, <1>8 DEF n, x, y, new

LEMMA RisesAndFallsCount ==
  ASSUME NEW F, NEW frames \in Seq(F), NEW S, S \in {Rises(frames), Falls(frames)}
  PROVE  /\ IsFiniteSet(S) /\ Cardinality(S) \in Nat
         /\ Cardinality(S \cup {Len(frames) + 1}) = Cardinality(S) + 1
<1>1. Len(frames) \in Nat
  OBVIOUS
<1>2. S \subseteq 1..Len(frames)
  BY DEF Rises, Falls
<1>3. IsFiniteSet(1..Len(frames))
  BY <1>1, FS_Interval
<1>4. Len(frames) + 1 \notin S
  BY <1>1, <1>2
<1>5. QED
  BY <1>2, <1>3, <1>4, FS_Subset, FS_CardinalityType, FS_AddElement

------------------------------------------------------------------------------
(* What each operation leaves behind, field by field.                      *)

LabInv(l) ==
  /\ LabType(l)
  /\ FramesFollowClock(l)
  /\ BusIsRecorded(l)
  /\ AlertsFollowFrames(l)
  /\ AlertsAreCurrent(l)
  /\ LogFollowsFrames(l)

IsStepOf(l, d, w, m) ==
  /\ IsLabRecord(m)
  /\ m.tick = l.tick + 1 /\ m.elapsed = l.elapsed + d
  /\ m.bus = SteppedBus(l, d, w) /\ m.alerts = SteppedAlerts(l, d, w)
  /\ m.scenario = l.scenario /\ m.training = l.training
  /\ m.frames = Append(l.frames, [ sequence |-> l.tick + 1, simTime |-> l.elapsed + d,
                                   sensors |-> SteppedBus(l, d, w) ])
  /\ m.lastActive = Cardinality(ActiveKeys(m.alerts))
  /\ m.log = l.log \o AlertEvent(l.lastActive, m.lastActive)

LEMMA SteppedFields ==
  ASSUME NEW l, IsLabRecord(l), NEW d, NEW w, NEW m, m = Stepped(l, d, w)
  PROVE  IsStepOf(l, d, w, m)
  BY DEF Stepped, IsLabRecord, IsStepOf

LEMMA AlertEventType ==
  ASSUME NEW x, NEW y
  PROVE  AlertEvent(x, y) \in Seq(EventKinds)
<1>1. <<"alerts-up">> \in Seq(EventKinds) /\ <<"alerts-down">> \in Seq(EventKinds)
  BY DEF EventKinds
<1>2. << >> \in Seq(EventKinds)
  OBVIOUS
<1>3. AlertEvent(x, y) \in {<<"alerts-up">>, <<"alerts-down">>, << >>}
  BY DEF AlertEvent
<1>4. QED
  BY <1>1, <1>2, <1>3

LEMMA SteppedType ==
  ASSUME NEW l, LabType(l), NEW d \in Deltas, NEW w \in Waves,
         NEW m, m = Stepped(l, d, w)
  PROVE  LabType(m)
<1> DEFINE B == SteppedBus(l, d, w)
           f == [sequence |-> l.tick + 1, simTime |-> l.elapsed + d, sensors |-> B]
<1>0. IsStepOf(l, d, w, m)
  BY SteppedFields DEF LabType
<1>1. B \in [Channels -> Sample]
  BY SteppedBusType
<1>2. l.tick + 1 \in Nat /\ l.elapsed + d \in Nat
  BY TimingAssumption DEF LabType
<1>3. f \in Frame
  BY <1>1, <1>2 DEF Frame
<1>4. Append(l.frames, f) \in Seq(Frame)
  BY <1>3 DEF LabType
<1>5. IsAlertTable(SteppedAlerts(l, d, w))
  <2>1. Issues(B) \subseteq Subsystems
    BY <1>1, IssuesAreSubsystems
  <2>2. QED
    BY <2>1, <1>2, UpdateAlertsType DEF SteppedAlerts, LabType
<1>6. Cardinality(ActiveKeys(SteppedAlerts(l, d, w))) \in Nat
  BY <1>5, ActiveCountType
<1>7. l.log \o AlertEvent(l.lastActive, m.lastActive) \in Seq(EventKinds)
  BY AlertEventType DEF LabType
<1>8. B \in Bus
  BY <1>1 DEF Bus
<1> HIDE DEF B
<1>9. QED
  <2>1. IsLabRecord(m)
    BY <1>0 DEF IsStepOf
  <2>2. m.tick \in Nat /\ m.elapsed \in Nat
    BY <1>2, <1>0 DEF IsStepOf
  <2>3. m.bus \in Bus
    BY <1>8, <1>0 DEF IsStepOf, B
  <2>4. m.scenario \in ScenarioNames /\ m.training \subseteq TrainingFaults
    BY <1>0 DEF IsStepOf, LabType
  <2>5. IsAlertTable(m.alerts) /\ m.lastActive \in Nat
    BY <1>5, <1>6, <1>0 DEF IsStepOf
  <2>6. m.frames \in Seq(Frame)
    BY <1>4, <1>0 DEF IsStepOf, B
  <2>7. m.log \in Seq(EventKinds)
    BY <1>7, <1>0 DEF IsStepOf
  <2>8. QED
    BY <2>1, <2>2, <2>3, <2>4, <2>5, <2>6, <2>7 DEF LabType

(* A step preserves the invariant.                                         *)
LEMMA SteppedInv ==
  ASSUME NEW l, LabInv(l), NEW d \in Deltas, NEW w \in Waves,
         NEW m, m = Stepped(l, d, w)
  PROVE  LabInv(m)
<1> DEFINE B == SteppedBus(l, d, w)
           n == l.tick + 1
<1>0. IsStepOf(l, d, w, m)
  BY SteppedFields DEF LabInv, LabType
<1>1. LabType(l) /\ LabType(m)
  BY SteppedType DEF LabInv
<1>2. /\ l.tick \in Nat /\ l.elapsed \in Nat /\ d \in Nat \ {0}
      /\ l.frames \in Seq(Frame) /\ Len(l.frames) = l.tick
  BY <1>1, TimingAssumption DEF LabInv, LabType, FramesFollowClock
<1>3. /\ m.tick = n /\ m.elapsed = l.elapsed + d /\ m.bus = B
      /\ m.alerts = UpdateAlerts(l.alerts, Issues(B), n)
      /\ m.lastActive = Cardinality(ActiveKeys(m.alerts))
      /\ m.log = l.log \o AlertEvent(l.lastActive, m.lastActive)
      /\ m.frames = Append(l.frames, [ sequence |-> n, simTime |-> l.elapsed + d,
                                       sensors |-> B ])
  <2>1. /\ m.tick = n /\ m.elapsed = l.elapsed + d /\ m.bus = SteppedBus(l, d, w)
        /\ m.frames = Append(l.frames, [ sequence |-> n, simTime |-> l.elapsed + d,
                                         sensors |-> SteppedBus(l, d, w) ])
    BY <1>1, <1>0 DEF IsStepOf
  <2>2. m.alerts = SteppedAlerts(l, d, w)
    BY <1>1, <1>0 DEF IsStepOf
  <2>3. /\ m.lastActive = Cardinality(ActiveKeys(m.alerts))
        /\ m.log = l.log \o AlertEvent(l.lastActive, m.lastActive)
    BY <1>1, <2>2, <1>0 DEF IsStepOf
  <2>4. QED
    BY <2>1, <2>2, <2>3 DEF SteppedAlerts
<1> HIDE DEF B
<1>4. /\ Len(m.frames) = n
      /\ \A i \in 1..l.tick : m.frames[i] = l.frames[i]
      /\ m.frames[n] = [sequence |-> n, simTime |-> l.elapsed + d, sensors |-> B]
  BY <1>2, <1>3
<1>5. FramesFollowClock(m)
  <2>1. ASSUME NEW i \in 1..n
        PROVE  /\ m.frames[i].sequence = i
               /\ m.frames[i].simTime <= m.elapsed
               /\ \A j \in 1..(i - 1) : m.frames[j].simTime < m.frames[i].simTime
    <3>1. \A j \in 1..l.tick : /\ l.frames[j].simTime <= l.elapsed
                               /\ l.frames[j].simTime \in Nat
      <4>1. \A j \in 1..l.tick : l.frames[j] \in Frame
        BY <1>2
      <4>2. QED
        BY <4>1, <1>2 DEF LabInv, FramesFollowClock, Frame
    <3>2. CASE i = n
      <4>1. m.frames[i].sequence = i /\ m.frames[i].simTime = l.elapsed + d
        BY <3>2, <1>4
      <4>2. \A j \in 1..(i - 1) : m.frames[j] = l.frames[j] /\ j \in 1..l.tick
        <5>1. \A j \in 1..(i - 1) : j \in 1..l.tick
          BY <3>2, <1>2
        <5>2. \A j \in 1..l.tick : m.frames[j] = l.frames[j]
          BY <1>4
        <5>3. QED
          BY <5>1, <5>2
      <4>3. l.elapsed + d = m.elapsed /\ l.elapsed < l.elapsed + d
        BY <1>2, <1>3
      <4>4. \A j \in 1..(i - 1) : m.frames[j].simTime < m.frames[i].simTime
        <5>1. TAKE j \in 1..(i - 1)
        <5>2. m.frames[j].simTime \in Nat /\ m.frames[j].simTime <= l.elapsed
          BY <4>2, <3>1
        <5>3. QED
          BY <5>2, <4>1, <1>2
      <4>5. QED
        BY <4>1, <4>3, <4>4, <1>2
    <3>3. CASE i \in 1..l.tick
      <4>1. /\ l.frames[i].sequence = i
            /\ \A j \in 1..(i - 1) : l.frames[j].simTime < l.frames[i].simTime
        BY <3>3, <1>2 DEF LabInv, FramesFollowClock
      <4>2. m.frames[i] = l.frames[i] /\ \A j \in 1..(i - 1) : m.frames[j] = l.frames[j]
        <5>1. \A j \in 1..(i - 1) : j \in 1..l.tick
          BY <3>3, <1>2
        <5>2. \A j \in 1..l.tick : m.frames[j] = l.frames[j]
          BY <1>4
        <5>3. QED
          BY <5>1, <5>2, <3>3
      <4>3. l.frames[i].simTime <= m.elapsed
        BY <3>1, <3>3, <1>2, <1>3
      <4>4. m.frames[i].sequence = i /\ m.frames[i].simTime <= m.elapsed
        BY <4>1, <4>2, <4>3
      <4>5. \A j \in 1..(i - 1) : m.frames[j].simTime < m.frames[i].simTime
        BY <4>1, <4>2
      <4>6. QED
        BY <4>4, <4>5
    <3>4. QED
      BY <3>2, <3>3, <1>2
  <2>2. QED
    BY <2>1, <1>3, <1>4 DEF FramesFollowClock
<1>6. BusIsRecorded(m)
  BY <1>2, <1>3, <1>4 DEF BusIsRecorded
<1>7. AlertsFollowFrames(m)
  <2>1. ASSUME NEW k, k \in DOMAIN m.alerts
        PROVE  /\ m.alerts[k].first = IF k \in DOMAIN l.alerts THEN l.alerts[k].first ELSE n
               /\ m.alerts[k].last = IF k \in Issues(B) THEN n ELSE l.alerts[k].last
               /\ m.alerts[k].active <=> k \in Issues(B)
               /\ k \in DOMAIN l.alerts \/ k \in Issues(B)
    <3>1. /\ k \in DOMAIN l.alerts \cup Issues(B)
          /\ m.alerts[k] = [ first  |-> IF k \in DOMAIN l.alerts THEN l.alerts[k].first ELSE n,
                             last   |-> IF k \in Issues(B) THEN n ELSE l.alerts[k].last,
                             active |-> k \in Issues(B) ]
      BY <2>1, <1>3 DEF UpdateAlerts
    <3>2. /\ m.alerts[k].first = IF k \in DOMAIN l.alerts THEN l.alerts[k].first ELSE n
          /\ m.alerts[k].last = IF k \in Issues(B) THEN n ELSE l.alerts[k].last
      BY <3>1
    <3>3. m.alerts[k].active <=> k \in Issues(B)
      <4>1. ActiveKeys(m.alerts) = Issues(B)
        BY <1>3, UpdatedActiveKeys
      <4>2. QED
        BY <4>1, <2>1 DEF ActiveKeys
    <3>4. QED
      BY <3>1, <3>2, <3>3
  <2>2. DOMAIN m.alerts = DOMAIN l.alerts \cup Issues(B)
    BY <1>3 DEF UpdateAlerts
  <2>3. Issues(m.frames[n].sensors) = Issues(B)
    BY <1>4
  <2>4. ASSUME NEW k, k \in DOMAIN l.alerts
        PROVE  /\ l.alerts[k].first \in 1..l.tick /\ l.alerts[k].last \in 1..l.tick
               /\ k \in Issues(l.frames[l.alerts[k].first].sensors)
               /\ k \in Issues(l.frames[l.alerts[k].last].sensors)
    BY <2>4 DEF LabInv, AlertsFollowFrames
  <2>5. ASSUME NEW i \in 1..n, NEW k \in Issues(m.frames[i].sensors)
        PROVE  k \in DOMAIN m.alerts /\ m.alerts[k].first <= i /\ i <= m.alerts[k].last
    <3>1. CASE i = n
      <4>1. k \in Issues(B) /\ k \in DOMAIN m.alerts
        BY <3>1, <2>2, <2>3
      <4>2. QED
        BY <4>1, <3>1, <2>1, <2>4, <1>2
    <3>2. CASE i \in 1..l.tick
      <4>1. k \in Issues(l.frames[i].sensors)
        BY <3>2, <1>4
      <4>2. k \in DOMAIN l.alerts /\ l.alerts[k].first <= i /\ i <= l.alerts[k].last
        BY <4>1, <3>2, <1>2 DEF LabInv, AlertsFollowFrames
      <4>3. QED
        BY <4>2, <3>2, <2>1, <2>2, <1>2
    <3>3. QED
      BY <3>1, <3>2, <1>2
  <2>6. ASSUME NEW k \in DOMAIN m.alerts
        PROVE  /\ m.alerts[k].first \in 1..n /\ m.alerts[k].last \in 1..n
               /\ k \in Issues(m.frames[m.alerts[k].first].sensors)
               /\ k \in Issues(m.frames[m.alerts[k].last].sensors)
               /\ m.alerts[k].active <=> m.alerts[k].last = n
    <3>1. CASE k \in DOMAIN l.alerts
      <4>1. /\ l.alerts[k].first \in 1..l.tick /\ l.alerts[k].last \in 1..l.tick
            /\ k \in Issues(m.frames[l.alerts[k].first].sensors)
            /\ k \in Issues(m.frames[l.alerts[k].last].sensors)
        BY <3>1, <2>4, <1>4
      <4>2. CASE k \in Issues(B)
        <5>1. m.alerts[k].first = l.alerts[k].first /\ m.alerts[k].last = n
          BY <3>1, <4>2, <2>1
        <5>2. m.alerts[k].active
          BY <4>2, <2>1
        <5>3. QED
          BY <5>1, <5>2, <4>1, <4>2, <2>3, <1>2
      <4>3. CASE k \notin Issues(B)
        <5>1. /\ m.alerts[k].first = l.alerts[k].first
              /\ m.alerts[k].last = l.alerts[k].last
          BY <3>1, <4>3, <2>1
        <5>2. ~m.alerts[k].active
          BY <4>3, <2>1
        <5>3. QED
          BY <5>1, <5>2, <4>1, <1>2
      <4>4. QED
        BY <4>2, <4>3
    <3>2. CASE k \notin DOMAIN l.alerts
      <4>1. k \in Issues(B) /\ m.alerts[k].first = n /\ m.alerts[k].last = n
        BY <3>2, <2>1
      <4>2. m.alerts[k].active
        BY <4>1, <2>1
      <4>3. QED
        BY <4>1, <4>2, <2>3, <1>2
    <3>3. QED
      BY <3>1, <3>2
  <2>7. QED
    BY <2>5, <2>6, <1>3, <1>4 DEF AlertsFollowFrames
<1>8. AlertsAreCurrent(m)
  BY <1>3, UpdatedActiveKeys DEF AlertsAreCurrent
<1>9. LogFollowsFrames(m)
  <2> DEFINE x == l.lastActive
             y == m.lastActive
             f == [sequence |-> n, simTime |-> l.elapsed + d, sensors |-> B]
  <2>1. l.log \in Seq(EventKinds) /\ x \in Nat /\ y \in Nat
    BY <1>1 DEF LabType
  <2>2. IssueCount(l.frames, Len(l.frames)) = x
    <3>1. x = Cardinality(Issues(l.bus)) /\ BusIsRecorded(l)
      BY DEF LabInv, AlertsAreCurrent
    <3>2. Issues(EmptyBus) = {} /\ Cardinality({}) = 0
      BY FS_EmptySet DEF Issues, EmptyBus
    <3>3. QED
      BY <3>1, <3>2, <1>2 DEF BusIsRecorded, IssueCount
  <2>3. Cardinality(Issues(f.sensors)) = y
    BY <1>8, <1>3 DEF AlertsAreCurrent
  <2>4. /\ Rises(m.frames) = Rises(l.frames) \cup {i \in {n} : y > x}
        /\ Falls(m.frames) = Falls(l.frames) \cup {i \in {n} : y < x}
    <3>1. m.frames = Append(l.frames, f) /\ Len(l.frames) + 1 = n
      BY <1>2, <1>3
    <3> HIDE DEF f, n, x, y
    <3>2. QED
      BY <3>1, <2>2, <2>3, <1>2, AppendedFrames
  <2>5. /\ Cardinality(Rises(l.frames) \cup {n}) = Cardinality(Rises(l.frames)) + 1
        /\ Cardinality(Falls(l.frames) \cup {n}) = Cardinality(Falls(l.frames)) + 1
    BY <1>2, RisesAndFallsCount
  <2>6. /\ Cardinality(Entries(l.log, "alerts-up")) = Cardinality(Rises(l.frames))
        /\ Cardinality(Entries(l.log, "alerts-down")) = Cardinality(Falls(l.frames))
    BY DEF LabInv, LogFollowsFrames
  <2>7. "alerts-up" \in AlertKinds /\ "alerts-down" \in AlertKinds
    BY DEF AlertKinds
  <2>8. AlertKinds \subseteq EventKinds
    BY DEF AlertKinds, EventKinds
  <2> HIDE DEF n, x, y, f
  <2>9. CASE y > x
    <3>1. m.log = Append(l.log, "alerts-up")
      BY <2>1, <2>9, <1>3 DEF AlertEvent, x, y
    <3>2. Rises(m.frames) = Rises(l.frames) \cup {n} /\ Falls(m.frames) = Falls(l.frames)
      BY <2>1, <2>4, <2>9
    <3>3. Cardinality(Entries(m.log, "alerts-up")) = Cardinality(Entries(l.log, "alerts-up")) + 1
      BY <3>1, <2>1, <2>7, OneMoreEntry
    <3>4. Entries(m.log, "alerts-down") = Entries(l.log, "alerts-down")
      BY <3>1, <2>1, <2>7, <2>8, AppendedEntries
    <3>5. QED
      BY <3>2, <3>3, <3>4, <2>5, <2>6 DEF LogFollowsFrames
  <2>10. CASE y < x
    <3>1. m.log = Append(l.log, "alerts-down")
      <4>1. ~(y > x)
        BY <2>1, <2>10
      <4>2. QED
        BY <4>1, <2>1, <2>10, <1>3 DEF AlertEvent, x, y
    <3>2. Rises(m.frames) = Rises(l.frames) /\ Falls(m.frames) = Falls(l.frames) \cup {n}
      BY <2>1, <2>4, <2>10
    <3>3. Cardinality(Entries(m.log, "alerts-down"))
            = Cardinality(Entries(l.log, "alerts-down")) + 1
      BY <3>1, <2>1, <2>7, OneMoreEntry
    <3>4. Entries(m.log, "alerts-up") = Entries(l.log, "alerts-up")
      BY <3>1, <2>1, <2>7, <2>8, AppendedEntries
    <3>5. QED
      BY <3>2, <3>3, <3>4, <2>5, <2>6 DEF LogFollowsFrames
  <2>11. CASE x = y
    <3>1. ~(y > x) /\ ~(y < x)
      BY <2>1, <2>11
    <3>2. m.log = l.log
      <4>1. m.log = l.log \o << >>
        BY <3>1, <1>3 DEF AlertEvent, x, y
      <4>2. QED
        BY <4>1, <2>1
    <3>3. Rises(m.frames) = Rises(l.frames) /\ Falls(m.frames) = Falls(l.frames)
      BY <2>4, <3>1
    <3>4. QED
      BY <3>2, <3>3, <2>6 DEF LogFollowsFrames
  <2>12. QED
    BY <2>1, <2>9, <2>10, <2>11
<1>10. QED
  BY <1>1, <1>5, <1>6, <1>7, <1>8, <1>9 DEF LabInv

(* A reset empties everything the invariant relates.                       *)
LEMMA EmptyLabInv ==
  ASSUME NEW l, IsLabRecord(l), l.tick = 0, l.elapsed = 0, l.bus = EmptyBus,
         l.scenario \in ScenarioNames, l.training = {}, l.alerts = NoAlerts,
         l.frames = << >>, l.lastActive = 0, l.log \in Seq(EventKinds),
         \A k \in AlertKinds : Entries(l.log, k) = {}
  PROVE  LabInv(l)
<1>1. EmptyBus \in Bus
  BY DEF EmptyBus, Bus, Sample
<1>2. IsAlertTable(NoAlerts) /\ DOMAIN NoAlerts = {}
  BY DEF NoAlerts, IsAlertTable, Alert
<1>3. l.frames \in Seq(Frame) /\ Len(l.frames) = 0
  OBVIOUS
<1>4. LabType(l)
  BY <1>1, <1>2, <1>3 DEF LabType
<1>5. FramesFollowClock(l) /\ BusIsRecorded(l)
  BY <1>3 DEF FramesFollowClock, BusIsRecorded
<1>6. AlertsFollowFrames(l)
  BY <1>2, <1>3 DEF AlertsFollowFrames
<1>7. ActiveKeys(l.alerts) = {}
  BY <1>2 DEF ActiveKeys
<1>8. Issues(l.bus) = {}
  BY DEF Issues, EmptyBus
<1>9. AlertsAreCurrent(l)
  BY <1>7, <1>8, FS_EmptySet DEF AlertsAreCurrent
<1>10. LogFollowsFrames(l)
  <2>1. Rises(l.frames) = {} /\ Falls(l.frames) = {}
    BY <1>3 DEF Rises, Falls
  <2>2. QED
    BY <2>1 DEF LogFollowsFrames, AlertKinds
<1>11. QED
  BY <1>4, <1>5, <1>6, <1>9, <1>10 DEF LabInv

(* The operator's other calls leave alone all that the invariant relates,  *)
(* and log something that is neither a reset nor a change of the alerts.   *)
CallKinds == EventKinds \ (AlertKinds \cup {"reset"})

LEMMA LoggedCallInv ==
  ASSUME NEW l, LabInv(l), NEW m, IsLabRecord(m), NEW e \in CallKinds,
         m.tick = l.tick, m.elapsed = l.elapsed, m.bus = l.bus,
         m.scenario \in ScenarioNames, m.training \subseteq TrainingFaults,
         m.alerts = l.alerts, m.frames = l.frames, m.lastActive = l.lastActive,
         m.log = Append(l.log, e)
  PROVE  LabInv(m)
<1>1. l.log \in Seq(EventKinds)
  BY DEF LabInv, LabType
<1>2. m.log \in Seq(EventKinds)
  BY <1>1 DEF CallKinds
<1>3. LabType(m)
  BY <1>2 DEF LabInv, LabType
<1>4. /\ FramesFollowClock(m) /\ BusIsRecorded(m)
      /\ AlertsFollowFrames(m) /\ AlertsAreCurrent(m)
  BY DEF LabInv, FramesFollowClock, BusIsRecorded, AlertsFollowFrames, AlertsAreCurrent
<1>5. LogFollowsFrames(m)
  <2>1. \A k \in AlertKinds : Entries(m.log, k) = Entries(l.log, k)
    BY <1>1, AppendedEntries DEF CallKinds
  <2>2. QED
    BY <2>1 DEF LabInv, LogFollowsFrames, AlertKinds
<1>6. QED
  BY <1>3, <1>4, <1>5 DEF LabInv

LEMMA NewLabInv ==
  ASSUME NEW s \in ScenarioNames
  PROVE  LabInv(NewLab(s))
<1>1. <<"initialized">> \in Seq(EventKinds)
  BY DEF EventKinds
<1>2. \A k \in AlertKinds : Entries(<<"initialized">>, k) = {}
  BY DEF Entries, AlertKinds
<1>3. QED
  BY <1>1, <1>2, EmptyLabInv DEF NewLab, IsLabRecord

LEMMA ResetInv ==
  ASSUME NEW l, LabInv(l), NEW m, m = WasReset(l)
  PROVE  LabInv(m)
<1>1. Append(l.log, "reset") \in Seq(EventKinds) /\ l.scenario \in ScenarioNames
  BY DEF LabInv, LabType, EventKinds
<1>2. IsLabRecord(m)
  BY DEF WasReset, NewLab, IsLabRecord
<1>3. /\ m.tick = 0 /\ m.elapsed = 0 /\ m.bus = EmptyBus
      /\ m.scenario = l.scenario /\ m.training = {} /\ m.alerts = NoAlerts
      /\ m.frames = << >> /\ m.lastActive = 0 /\ m.log = Append(l.log, "reset")
  BY DEF WasReset, NewLab
<1>4. \A k \in AlertKinds : Entries(m.log, k) = {}
  BY <1>3, AppendedEntries DEF LabInv, LabType, EventKinds
<1>5. QED
  BY <1>1, <1>2, <1>3, <1>4, EmptyLabInv

LEMMA ScenarioInv ==
  ASSUME NEW l, LabInv(l), NEW s \in ScenarioNames, NEW m, m = WithScenario(l, s)
  PROVE  LabInv(m)
<1>1. IsLabRecord(l) /\ l.training \subseteq TrainingFaults
  BY DEF LabInv, LabType
<1>2. IsLabRecord(m)
  BY <1>1 DEF WithScenario, IsLabRecord
<1>3. /\ m.tick = l.tick /\ m.elapsed = l.elapsed /\ m.bus = l.bus
      /\ m.scenario = s /\ m.training = l.training /\ m.alerts = l.alerts
      /\ m.frames = l.frames /\ m.lastActive = l.lastActive
      /\ m.log = Append(l.log, "scenario")
  BY <1>1 DEF WithScenario, IsLabRecord
<1>4. "scenario" \in CallKinds
  BY DEF CallKinds, AlertKinds, EventKinds
<1>5. QED
  BY <1>1, <1>2, <1>3, <1>4, LoggedCallInv

LEMMA TrainingInv ==
  ASSUME NEW l, LabInv(l), NEW p, NEW q, NEW m,
         m = WithTrainingFault(l, p, q) \/ m = WithoutTrainingFaults(l)
  PROVE  LabInv(m)
<1>1. IsLabRecord(l) /\ l.training \subseteq TrainingFaults /\ l.scenario \in ScenarioNames
  BY DEF LabInv, LabType
<1>2. ASSUME NEW T, T \subseteq TrainingFaults, NEW e \in CallKinds,
             m = [l EXCEPT !.training = T, !.log = Append(@, e)]
      PROVE  LabInv(m)
  <2>1. IsLabRecord(m)
    BY <1>1, <1>2 DEF IsLabRecord
  <2>2. /\ m.tick = l.tick /\ m.elapsed = l.elapsed /\ m.bus = l.bus
        /\ m.scenario = l.scenario /\ m.training = T /\ m.alerts = l.alerts
        /\ m.frames = l.frames /\ m.lastActive = l.lastActive
        /\ m.log = Append(l.log, e)
    BY <1>1, <1>2 DEF IsLabRecord
  <2>3. QED
    BY <1>1, <1>2, <2>1, <2>2, LoggedCallInv
<1>3. CASE m = WithTrainingFault(l, p, q) /\ Offered(p, q)
  <2>1. SetFault(l.training, Presets[q]) \subseteq TrainingFaults
    BY <1>1, <1>3, PresetsAreTrainingFaults DEF SetFault
  <2>2. "fault-applied" \in CallKinds
    BY DEF CallKinds, AlertKinds, EventKinds
  <2>3. m = [l EXCEPT !.training = SetFault(l.training, Presets[q]),
                      !.log = Append(@, "fault-applied")]
    BY <1>3 DEF WithTrainingFault
  <2>4. QED
    BY <1>2, <2>1, <2>2, <2>3
<1>4. CASE m = WithTrainingFault(l, p, q) /\ ~Offered(p, q)
  <2>1. "fault-rejected" \in CallKinds
    BY DEF CallKinds, AlertKinds, EventKinds
  <2>2. m = [l EXCEPT !.training = l.training, !.log = Append(@, "fault-rejected")]
    BY <1>1, <1>4 DEF WithTrainingFault, IsLabRecord
  <2>3. QED
    BY <1>1, <1>2, <2>1, <2>2
<1>5. CASE m = WithoutTrainingFaults(l) /\ l.training # {}
  <2>1. "faults-cleared" \in CallKinds
    BY DEF CallKinds, AlertKinds, EventKinds
  <2>2. m = [l EXCEPT !.training = {}, !.log = Append(@, "faults-cleared")]
    BY <1>5 DEF WithoutTrainingFaults
  <2>3. QED
    BY <1>2, <2>1, <2>2
<1>6. CASE m = WithoutTrainingFaults(l) /\ l.training = {}
  BY <1>6 DEF WithoutTrainingFaults
<1>7. QED
  BY <1>3, <1>4, <1>5, <1>6
==============================================================================
