---------------------------- MODULE CockpitBridge ----------------------------
(***************************************************************************)
(* The training half of the Qt bridge: the timer step, replay, scenario,   *)
(* platform, training faults, trends and the diagnostic center, as QML     *)
(* calls them, one handler at a time on the GUI thread.                    *)
(*                                                                         *)
(* snap is snapshot_, the snapshot on screen; shown is the rest of what    *)
(* the last redraw built: the replay banner among the annunciators and the *)
(* recorder frames the trend rows cover.  Tiles, sensor rows and twin rows *)
(* are functions of snap and platform and have no state of their own.      *)
(***************************************************************************)
EXTENDS DiagnosticEngine, DigitalTwin

CONSTANTS
  PresetInputs,   \* preset ids tried on applyTrainingFault
  Scenarios,      \* names tried on setScenario, unknown ones included
  Platforms,      \* ids tried on setActivePlatform, unknown ones included
  Seeks,          \* indexes tried on seekReplay
  Windows,        \* frames tried on setTrendWindow
  MaxTicks,       \* bound: the lab steps to at most this tick
  MaxEvents,      \* bound: logging calls only while the log is shorter
  MaxScans,       \* bound: no scan once a code was found this often
  LastCall        \* bound: the operator calls only up to this tick

ASSUME SeeksAssumption == Seeks \subseteq Int /\ Windows \subseteq Int

(* The bus has the channels of the presets; in the program it has all.     *)
ASSUME PresetsAssumption ==
  \A preset \in PresetInputs \cap DOMAIN Presets : Presets[preset].sensor \in Channels

VARIABLES
  lab,            \* lab_
  snap,           \* snapshot_
  replay,         \* replayMode_, replayPaused_, replayIndex_
  platform,       \* activePlatformId_
  trendWindow,    \* trendWindow_
  shown,          \* what the last redraw built besides snap
  diag            \* diagnosticSummary_, diagnosticHistory_ and the shown rows

screen == <<snap, shown>>
vars == <<lab, snap, replay, platform, trendWindow, shown, diag>>

------------------------------------------------------------------------------
Clamp(i, low, high) == IF i < low THEN low ELSE IF i > high THEN high ELSE i

ReplayMaximum(l) == IF l.frames = << >> THEN 0 ELSE Len(l.frames) - 1

Live == [mode |-> FALSE, paused |-> FALSE, index |-> 0]
Left(r) == [r EXCEPT !.mode = FALSE, !.paused = FALSE]

(* The recorder indexes TelemetryTrendAnalyzer::analyze covers: the last   *)
(* `window` frames, all of them when window is 0.                          *)
TrendSpan(frames, window) ==
  [ from |-> IF window = 0 \/ Len(frames) <= window THEN 1 ELSE Len(frames) - window + 1,
    to   |-> Len(frames) ]

(* refresh(s), called when the lab is l and the replay state r.            *)
RefreshWithoutTrends(l, s, r) ==
  /\ snap' = s
  /\ shown' = [shown EXCEPT !.banner = r.mode]

Refresh(l, s, r) ==
  /\ snap' = s
  /\ shown' = [banner |-> r.mode, trend |-> TrendSpan(l.frames, trendWindow)]

FrameSnapshotKeepsIssues(l, s, i) ==
  [ s EXCEPT !.tick = l.frames[i + 1].sequence, !.simTime = l.frames[i + 1].simTime,
             !.sensors = l.frames[i + 1].sensors, !.alerts = {} ]

(* The frame at an index as showReplayFrame presents it: no issues, no     *)
(* alerts, everything else as on screen.                                   *)
FrameSnapshot(l, s, i) ==
  [ s EXCEPT !.tick = l.frames[i + 1].sequence, !.simTime = l.frames[i + 1].simTime,
             !.sensors = l.frames[i + 1].sensors, !.issues = {}, !.alerts = {} ]

ShowReplayFrame(l, r) ==
  IF r.index < Len(l.frames) THEN Refresh(l, FrameSnapshot(l, snap, r.index), r)
  ELSE UNCHANGED screen

(* A handler that steps the lab and shows the result.                      *)
StepAndShow(l, r) ==
  \E delta \in Deltas, w \in Waves :
    /\ lab' = Stepped(l, delta, w)
    /\ replay' = r
    /\ Refresh(lab', SnapshotOf(lab'), r)

------------------------------------------------------------------------------
NoDiag ==
  [ scenario |-> "none", tick |-> 0, reports |-> {}, history |-> [c \in {} |-> 0],
    shownReports |-> {}, shownHistory |-> [c \in {} |-> 0] ]

Init ==
  /\ platform = "generic-jet" /\ trendWindow = 60 /\ replay = Live /\ diag = NoDiag
  /\ \E delta \in Deltas, w \in Waves : lab = Stepped(NewLab("nominal"), delta, w)
  /\ snap = SnapshotOf(lab)
  /\ shown = [banner |-> FALSE, trend |-> TrendSpan(lab.frames, 60)]

MayStep == lab.tick < MaxTicks
MayLog == Len(lab.log) < MaxEvents /\ lab.tick <= LastCall

ReplayStep ==
  /\ replay.mode
  /\ replay' = [replay EXCEPT !.index =
                  IF ~replay.paused /\ @ < ReplayMaximum(lab) THEN @ + 1 ELSE @]
  /\ ShowReplayFrame(lab, replay')
  /\ UNCHANGED <<lab, platform, trendWindow, diag>>

LiveStepInReplay ==
  /\ MayStep
  /\ StepAndShow(lab, replay)
  /\ UNCHANGED <<platform, trendWindow, diag>>

LiveStepWithoutRedraw ==
  /\ ~replay.mode /\ MayStep
  /\ \E delta \in Deltas, w \in Waves : lab' = Stepped(lab, delta, w)
  /\ UNCHANGED <<screen, replay, platform, trendWindow, diag>>

LiveStep ==
  /\ ~replay.mode /\ MayStep
  /\ StepAndShow(lab, replay)
  /\ UNCHANGED <<platform, trendWindow, diag>>

(* CockpitBridge::step, which the QML timer calls every 250 ms.            *)
TimerStep == ReplayStep \/ LiveStep

ResetLabWithoutRedraw ==
  /\ MayLog
  /\ \E delta \in Deltas, w \in Waves : lab' = Stepped(WasReset(lab), delta, w)
  /\ replay' = Live
  /\ UNCHANGED <<screen, platform, trendWindow, diag>>

ResetLab ==
  /\ MayLog
  /\ StepAndShow(WasReset(lab), Live)
  /\ UNCHANGED <<platform, trendWindow, diag>>

(* An unknown name throws after the replay flags are cleared: nothing is   *)
(* redrawn.                                                                *)
SetScenario ==
  /\ MayLog
  /\ \E s \in Scenarios :
       IF s \in ScenarioNames
       THEN StepAndShow(WasReset(WithScenario(lab, s)), Live)
       ELSE replay' = Live /\ UNCHANGED <<lab, screen>>
  /\ UNCHANGED <<platform, trendWindow, diag>>

SetLanguage ==
  /\ Refresh(lab, snap, replay)
  /\ UNCHANGED <<lab, replay, platform, trendWindow, diag>>

EnterReplay ==
  /\ lab.frames # << >>
  /\ replay' = [mode |-> TRUE, paused |-> TRUE, index |-> 0]
  /\ ShowReplayFrame(lab, replay')
  /\ UNCHANGED <<lab, platform, trendWindow, diag>>

LeaveReplay ==
  /\ replay' = Left(replay)
  /\ Refresh(lab, SnapshotOf(lab), replay')
  /\ UNCHANGED <<lab, platform, trendWindow, diag>>

SetReplayMode == EnterReplay \/ LeaveReplay

SetReplayPaused ==
  /\ replay.mode
  /\ replay' = [replay EXCEPT !.paused = ~@]
  /\ UNCHANGED <<lab, screen, platform, trendWindow, diag>>

SeekReplayWithoutRedraw ==
  /\ replay.mode
  /\ \E i \in Seeks :
       replay' = [replay EXCEPT !.index = Clamp(i, 0, ReplayMaximum(lab))]
  /\ UNCHANGED <<lab, screen, platform, trendWindow, diag>>

SeekReplay ==
  /\ replay.mode
  /\ \E i \in Seeks :
       replay' = [replay EXCEPT !.index = Clamp(i, 0, ReplayMaximum(lab))]
  /\ ShowReplayFrame(lab, replay')
  /\ UNCHANGED <<lab, platform, trendWindow, diag>>

SetTrendWindow ==
  \E n \in {Clamp(f, 0, 5000) : f \in Windows} :
    /\ n # trendWindow
    /\ trendWindow' = n
    /\ shown' = [shown EXCEPT !.trend = TrendSpan(lab.frames, n)]
    /\ UNCHANGED <<lab, snap, replay, platform, diag>>

(* A rejected preset leaves replay, logs, and redraws nothing.             *)
ApplyTrainingFault ==
  /\ MayLog /\ MayStep
  /\ \E preset \in PresetInputs :
       IF Offered(platform, preset)
       THEN StepAndShow(WithTrainingFault(lab, platform, preset), Left(replay))
       ELSE /\ lab' = WithTrainingFault(lab, platform, preset)
            /\ replay' = Left(replay)
            /\ UNCHANGED screen
  /\ UNCHANGED <<platform, trendWindow, diag>>

ClearTrainingFaults ==
  /\ MayStep /\ lab.tick <= LastCall
  /\ StepAndShow(WithoutTrainingFaults(lab), Left(replay))
  /\ UNCHANGED <<platform, trendWindow, diag>>

(* The shown diagnostic rows are left as they were.                        *)
SetActivePlatform ==
  /\ MayLog
  /\ \E id \in (Platforms \cap PlatformIds) \ {platform} : platform' = id
  /\ StepAndShow(WasReset(lab), Live)
  /\ diag' = [diag EXCEPT !.scenario = "none", !.tick = 0, !.reports = {},
                          !.history = NoDiag.history]
  /\ UNCHANGED trendWindow

------------------------------------------------------------------------------
IngestKeepsStale(history, codes, tick) ==
  [ c \in DOMAIN history \cup codes |->
      IF c \in codes
      THEN [first |-> tick, last |-> tick, scans |-> 1, active |-> TRUE]
      ELSE history[c] ]

(* DiagnosticHistory::ingest: one row per code ever found.                 *)
Ingest(history, codes, tick) ==
  [ c \in DOMAIN history \cup codes |->
      [ first  |-> IF c \in DOMAIN history THEN history[c].first ELSE tick,
        last   |-> IF c \in codes THEN tick ELSE history[c].last,
        scans  |-> (IF c \in DOMAIN history THEN history[c].scans ELSE 0)
                   + (IF c \in codes THEN 1 ELSE 0),
        active |-> c \in codes ] ]

RunDiagnosticScan ==
  /\ MaxScans > 0 /\ \A c \in DOMAIN diag.history : diag.history[c].scans < MaxScans
  /\ LET found == Augment(platform, snap.sensors,
                    Analyze(snap.scenario, snap.tick, snap.sensors, snap.issues, lab.frames))
         history == Ingest(diag.history, Codes(found), snap.tick)
     IN  diag' = [ scenario |-> snap.scenario, tick |-> snap.tick, reports |-> found,
                   history |-> history, shownReports |-> found, shownHistory |-> history ]
  /\ UNCHANGED <<lab, screen, replay, platform, trendWindow>>

ClearDiagnosticHistory ==
  /\ diag' = [diag EXCEPT !.history = NoDiag.history, !.shownHistory = NoDiag.history]
  /\ UNCHANGED <<lab, screen, replay, platform, trendWindow>>

Next ==
  \/ TimerStep \/ ResetLab \/ SetScenario \/ SetLanguage \/ SetReplayMode
  \/ SetReplayPaused \/ SeekReplay \/ SetTrendWindow \/ ApplyTrainingFault
  \/ ClearTrainingFaults \/ SetActivePlatform \/ RunDiagnosticScan
  \/ ClearDiagnosticHistory

Spec == Init /\ [][Next]_vars

(* The 250 ms timer (qml/Main.qml:242) never stops.  Outside replay it     *)
(* makes live steps: WF_vars(LiveStep), its ENABLED written out, for a     *)
(* live step is possible whenever its guard holds and changes the lab.     *)
FairSpec == Spec /\ ([]<>(replay.mode \/ ~MayStep) \/ []<><<LiveStep>>_vars)

------------------------------------------------------------------------------
Snapshot ==
  [ tick: Nat, simTime: Nat, scenario: ScenarioNames, sensors: Bus,
    issues: SUBSET Subsystems, alerts: SUBSET Subsystems ]

TypeOK ==
  /\ LabType(lab) /\ snap \in Snapshot
  /\ replay \in [mode: BOOLEAN, paused: BOOLEAN, index: Nat]
  /\ platform \in PlatformIds /\ trendWindow \in 0..5000
  /\ shown \in [banner: BOOLEAN, trend: [from: Nat, to: Nat]]

(* In replay the screen shows exactly the recorder frame at the replay     *)
(* index, which is within the recorder, whatever was called before.        *)
ReplayShowsRecordedFrame ==
  replay.mode =>
    /\ replay.index < Len(lab.frames)
    /\ snap = FrameSnapshot(lab, snap, replay.index)

(* Whatever the screen shows is the lab's state now or a frame the         *)
(* recorder still holds, under the scenario the lab runs: no handler       *)
(* leaves a snapshot of before a reset, scenario or platform change.       *)
DisplayIsOfThisSession ==
  \/ snap = SnapshotOf(lab)
  \/ /\ snap.scenario = lab.scenario
     /\ \E i \in 0..(Len(lab.frames) - 1) : snap = FrameSnapshot(lab, snap, i)

(* Replay is read-only: while it lasts nothing happens to the simulation.  *)
ReplayLeavesLabAlone == [][replay.mode /\ replay'.mode => lab' = lab]_vars

(* The trend rows cover the newest frames of the recorder, as many as the  *)
(* window asks for, after every handler.                                   *)
TrendsAreCurrent == shown.trend = TrendSpan(lab.frames, trendWindow)

(* docs/STAGES_451_525.md:6 promises "exit-to-live behavior": when replay  *)
(* mode ends, the screen shows the lab's current state.                    *)
LeavingReplayShowsLive ==
  [][replay.mode /\ ~replay'.mode => snap' = SnapshotOf(lab')]_vars

(* A screen that is not in replay and not current is put right by the      *)
(* timer (or leaves that state in another way).                            *)
StaleDisplayHeals ==
  (~replay.mode /\ snap # SnapshotOf(lab)) ~> (replay.mode \/ snap = SnapshotOf(lab))

(* A recurrence history marks active exactly the findings of the latest    *)
(* scan, unless it has been cleared since: the one in memory agrees with   *)
(* the summary, and the two tables on the page with each other, although a *)
(* platform change empties the first pair only.                            *)
Agree(history, reports) ==
  \/ history = NoDiag.history
  \/ {c \in DOMAIN history : history[c].active} = Codes(reports)

HistoryAgreesWithSummary ==
  Agree(diag.history, diag.reports) /\ Agree(diag.shownHistory, diag.shownReports)

(* No sequence of calls makes a scan doubt the recorder: the bridge resets *)
(* recorder and clock together, so integrity findings cannot be false      *)
(* alarms about the program itself.                                        *)
RecorderIsNeverDoubted ==
  Codes(diag.reports) \cap {"NXD-REC-801", "NXD-DAT-601", "NXD-DAT-602"} = {}

(* A scan of the live screen reports, as a warning or a fault, the channel *)
(* of every training fault in force, whichever platform offered it.        *)
ScanFindsInjectedFaults ==
  [][ RunDiagnosticScan /\ snap = SnapshotOf(lab) =>
        \A f \in lab.training :
          \E r \in diag'.reports : r.key = f.sensor /\ r.severity >= Warning ]_vars

(* What a long session has drained: more than 58 of the 78 percent of fuel *)
(* (29 000 s in the source), more than 69 of the 94 of the battery         *)
(* (23 000 s).                                                             *)
FuelIsLow == "fuel_level_pct" \in Channels /\ FuelRate * lab.elapsed > 580 * 1000
BatteryIsLow == "battery_soc_pct" \in Channels /\ BatteryRate * lab.elapsed > 690 * 1000

(* A scan of the live screen in the nominal scenario with no training      *)
(* fault reports what the time since the last reset has drained, the       *)
(* battery only on the UAV, and nothing else, whatever faults came before; *)
(* the score is full but for 10 points for each of the two.                *)
NominalScanFindsDrainsOnly ==
  [][ /\ RunDiagnosticScan /\ snap = SnapshotOf(lab)
      /\ lab.scenario = "nominal" /\ lab.training = {}
      => LET low == (IF FuelIsLow THEN {"NXD-FUL-501"} ELSE {})
                    \cup (IF BatteryIsLow /\ platform = "generic-uav"
                          THEN {"NXP-UAV-701"} ELSE {})
         IN  Codes(diag'.reports) = low
             /\ Score(diag'.reports) = 100 - 10 * Cardinality(low) ]_vars

(* Twin and scan agree on what is on screen, live or recorded, although    *)
(* each has limits of its own: of a subsystem whose channels are all there *)
(* and that the twin page calls DEGRADED or FAULT, a scan has a finding at *)
(* least as bad, with evidence from one of those channels.                 *)
ScanExplainsTwin ==
  [][ RunDiagnosticScan =>
        \A node \in TwinTopology[platform] :
          node.channels \subseteq DOMAIN snap.sensors =>
            LET state == TwinState(node, snap.sensors, snap.issues)
                found(severity) ==
                  \E r \in diag'.reports : r.key \in node.channels /\ r.severity >= severity
            IN  /\ state = "DEGRADED" => found(Warning)
                /\ state = "FAULT" => found(Fault) ]_vars

(* docs/STAGES_1701_1720.md:20: "first/last tick, scans seen and active    *)
(* state are tracked by code": no code is first seen after it was last.    *)
HistoryTicksAreOrdered ==
  \A c \in DOMAIN diag.history : diag.history[c].first <= diag.history[c].last
==============================================================================
