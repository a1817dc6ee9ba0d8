------------------------- MODULE CockpitBridgeProofs --------------------------
(***************************************************************************)
(* Theorems about CockpitBridge, for every set of channels, of inputs and  *)
(* of bounds: what is on screen belongs to the running session, and the    *)
(* diagnostic page contradicts neither itself nor the recorder.            *)
(***************************************************************************)
EXTENDS CockpitBridge, AvionicsLabProofs

------------------------------------------------------------------------------
(* What a redraw shows.                                                    *)

LEMMA SnapshotType ==
  ASSUME NEW l, LabInv(l)
  PROVE  SnapshotOf(l) \in Snapshot
<1>1. /\ l.tick \in Nat /\ l.elapsed \in Nat /\ l.scenario \in ScenarioNames
      /\ l.bus \in Bus /\ IsAlertTable(l.alerts)
  BY DEF LabInv, LabType
<1>2. Issues(l.bus) \subseteq Subsystems
  BY <1>1, IssuesAreSubsystems DEF Bus
<1>3. ActiveKeys(l.alerts) \subseteq Subsystems
  BY <1>1 DEF ActiveKeys, IsAlertTable
<1>4. QED
  BY <1>1, <1>2, <1>3 DEF SnapshotOf, Snapshot

(* A frame on screen is a snapshot under the scenario it replaced, and     *)
(* showing the same frame again changes nothing.                           *)
LEMMA FrameSnapshotType ==
  ASSUME NEW l, LabInv(l), NEW s \in Snapshot, NEW i \in Nat, i < Len(l.frames)
  PROVE  /\ FrameSnapshot(l, s, i) \in Snapshot
         /\ FrameSnapshot(l, s, i).scenario = s.scenario
         /\ FrameSnapshot(l, FrameSnapshot(l, s, i), i) = FrameSnapshot(l, s, i)
<1> DEFINE f == l.frames[i + 1]
<1>1. f \in Frame
  <2>1. l.frames \in Seq(Frame) /\ i + 1 \in 1..Len(l.frames)
    BY DEF LabInv, LabType
  <2>2. QED
    BY <2>1
<1>2. f.sequence \in Nat /\ f.simTime \in Nat /\ f.sensors \in Bus
  BY <1>1 DEF Frame, Bus
<1> HIDE DEF f
<1> DEFINE Shown(t) == [ tick |-> f.sequence, simTime |-> f.simTime,
                         scenario |-> t.scenario, sensors |-> f.sensors,
                         issues |-> {}, alerts |-> {} ]
<1>3. ASSUME NEW t \in Snapshot
      PROVE  FrameSnapshot(l, t, i) = Shown(t)
  <2>1. t = [ tick |-> t.tick, simTime |-> t.simTime, scenario |-> t.scenario,
              sensors |-> t.sensors, issues |-> t.issues, alerts |-> t.alerts ]
    BY DEF Snapshot
  <2>2. FrameSnapshot(l, t, i) =
          [ t EXCEPT !.tick = f.sequence, !.simTime = f.simTime,
                     !.sensors = f.sensors, !.issues = {}, !.alerts = {} ]
    BY DEF FrameSnapshot, f
  <2>3. QED
    BY <2>1, <2>2
<1>4. Shown(s) \in Snapshot /\ Shown(s).scenario = s.scenario
  BY <1>2 DEF Snapshot
<1>5. Shown(Shown(s)) = Shown(s)
  OBVIOUS
<1> HIDE DEF Shown
<1>6. QED
  BY <1>3, <1>4, <1>5

------------------------------------------------------------------------------
(* The invariant of the screen, of the lab l, the snapshot s, the replay   *)
(* state r, the platform p, the trend window n and the rest h.             *)

Replays == [mode: BOOLEAN, paused: BOOLEAN, index: Nat]
OutOfReplay == {r \in Replays : r.mode = FALSE}
InReplay(l) == {r \in Replays : r.mode = TRUE /\ r.index < Len(l.frames)}

TrendWindows == 0..5000

(* What a redraw leaves in shown.                                          *)
Redrawn(l, r, n) == [banner |-> r.mode, trend |-> TrendSpan(l.frames, n)]

ShowsSession(l, s) ==
  \/ s = SnapshotOf(l)
  \/ /\ s.scenario = l.scenario
     /\ \E i \in 0..(Len(l.frames) - 1) : s = FrameSnapshot(l, s, i)

ScreenInv(l, s, r, p, n, h) ==
  /\ LabInv(l) /\ l.tick > 0
  /\ s \in Snapshot /\ r \in Replays
  /\ p \in PlatformIds /\ n \in TrendWindows
  /\ h.banner \in BOOLEAN
  /\ h = [banner |-> h.banner, trend |-> TrendSpan(l.frames, n)]
  /\ r.mode => r.index < Len(l.frames) /\ s = FrameSnapshot(l, s, r.index)
  /\ ShowsSession(l, s)

(* The findings that doubt the recorder, and those of platform rules.      *)
Doubts == {"NXD-REC-801", "NXD-DAT-601", "NXD-DAT-602"}
RuleCodes == { "NXP-JET-701", "NXP-JET-702", "NXP-TPR-701", "NXP-TPR-702", "NXP-HEL-701",
               "NXP-HEL-702", "NXP-UAV-701", "NXP-UAV-702", "NXP-UAV-703" }
Special == Doubts \cup RuleCodes

DiagInv(d) ==
  /\ d = [ scenario |-> d.scenario, tick |-> d.tick, reports |-> d.reports,
           history |-> d.history, shownReports |-> d.shownReports,
           shownHistory |-> d.shownHistory ]
  /\ Agree(d.history, d.reports) /\ Agree(d.shownHistory, d.shownReports)
  /\ Codes(d.reports) \cap Doubts = {}

Inv == ScreenInv(lab, snap, replay, platform, trendWindow, shown) /\ DiagInv(diag)

LEMMA TrendSpanType ==
  ASSUME NEW l, LabInv(l), NEW n \in TrendWindows
  PROVE  TrendSpan(l.frames, n) \in [from: Nat, to: Nat]
<1>1. Len(l.frames) \in Nat /\ n \in Nat
  BY DEF LabInv, LabType, TrendWindows
<1>2. QED
  BY <1>1 DEF TrendSpan

(* Live, Left and a redraw of the lab's own snapshot establish it.         *)
LEMMA RepliesOutOfReplay ==
  Live \in OutOfReplay /\ \A r \in Replays : Left(r) \in OutOfReplay
BY DEF Live, Left, Replays, OutOfReplay

LEMMA LiveScreen ==
  ASSUME NEW l, LabInv(l), l.tick > 0, NEW r \in OutOfReplay,
         NEW p \in PlatformIds, NEW n \in TrendWindows
  PROVE  ScreenInv(l, SnapshotOf(l), r, p, n, Redrawn(l, r, n))
<1>1. SnapshotOf(l) \in Snapshot
  BY SnapshotType
<1>2. r \in Replays /\ r.mode = FALSE
  BY DEF OutOfReplay
<1>3. Redrawn(l, r, n).banner = r.mode /\ r.mode \in BOOLEAN
  BY <1>2 DEF Redrawn
<1>4. Redrawn(l, r, n) = [ banner |-> Redrawn(l, r, n).banner,
                           trend |-> TrendSpan(l.frames, n) ]
  BY DEF Redrawn
<1>5. QED
  BY <1>1, <1>2, <1>3, <1>4 DEF ScreenInv, ShowsSession

LEMMA StepKeepsLab ==
  ASSUME NEW l, LabInv(l), NEW d \in Deltas, NEW w \in Waves
  PROVE  LabInv(Stepped(l, d, w)) /\ Stepped(l, d, w).tick > 0
<1>1. LabInv(Stepped(l, d, w))
  BY SteppedInv
<1>2. l.tick \in Nat /\ IsLabRecord(l)
  BY DEF LabInv, LabType
<1>3. Stepped(l, d, w).tick = l.tick + 1
  <2>1. IsStepOf(l, d, w, Stepped(l, d, w))
    BY <1>2, SteppedFields
  <2>2. QED
    BY <2>1 DEF IsStepOf
<1>4. QED
  BY <1>1, <1>2, <1>3

(* Every handler that steps the lab, out of replay, keeps it.              *)
LEMMA StepAndShowKeepsScreen ==
  ASSUME NEW l, LabInv(l), NEW r \in OutOfReplay, StepAndShow(l, r),
         platform' \in PlatformIds, trendWindow \in TrendWindows, trendWindow' = trendWindow
  PROVE  ScreenInv(lab', snap', replay', platform', trendWindow', shown')
<1>1. PICK d \in Deltas, w \in Waves :
        /\ lab' = Stepped(l, d, w) /\ replay' = r
        /\ snap' = SnapshotOf(lab')
        /\ shown' = Redrawn(lab', r, trendWindow)
  BY DEF StepAndShow, Refresh, Redrawn
<1>2. LabInv(lab') /\ lab'.tick > 0
  BY <1>1, StepKeepsLab
<1>3. ScreenInv(lab', SnapshotOf(lab'), r, platform', trendWindow, Redrawn(lab', r, trendWindow))
  BY <1>2, LiveScreen
<1>4. QED
  BY <1>1, <1>3

------------------------------------------------------------------------------
(* What a scan can find.                                                   *)

LEMMA RecorderHolds ==
  ASSUME NEW l, LabInv(l), l.tick > 0, NEW t
  PROVE  Recorder(l.frames, t) = {}
<1>1. /\ l.frames \in Seq(Frame) /\ Len(l.frames) = l.tick /\ l.tick \in Nat
      /\ \A i \in 1..Len(l.frames) :
           /\ l.frames[i].sequence = i
           /\ \A j \in 1..(i - 1) : l.frames[j].simTime < l.frames[i].simTime
  BY DEF LabInv, LabType, FramesFollowClock
<1>2. l.frames # << >>
  BY <1>1
<1>3. ASSUME NEW i \in 2..Len(l.frames)
      PROVE  /\ ~(l.frames[i].sequence <= l.frames[i - 1].sequence)
             /\ ~(l.frames[i].simTime <= l.frames[i - 1].simTime)
  <2>1. i \in 1..Len(l.frames) /\ i - 1 \in 1..Len(l.frames) /\ i - 1 \in 1..(i - 1)
    BY <1>1
  <2>2. l.frames[i].simTime \in Nat /\ l.frames[i - 1].simTime \in Nat
    <3>1. l.frames[i] \in Frame /\ l.frames[i - 1] \in Frame
      BY <2>1, <1>1
    <3>2. QED
      BY <3>1 DEF Frame
  <2>3. QED
    BY <1>1, <2>1, <2>2
<1>4. QED
  BY <1>2, <1>3 DEF Recorder

LEMMA CodesOfUnion ==
  ASSUME NEW S, NEW T
  PROVE  Codes(S \cup T) = Codes(S) \cup Codes(T)
BY DEF Codes

LEMMA ChannelCodes ==
  ASSUME NEW b, NEW I
  PROVE  /\ Codes(InvalidChannels(b)) \cap Special = {}
         /\ Codes(HealthIssues(I)) \cap Special = {}
         /\ Codes(Thresholds(b)) \cap Special = {}
<1>1. \A c : CodeForInvalidSensor(c) \notin Special /\ CodeForIssue(c) \notin Special
  BY DEF CodeForInvalidSensor, CodeForIssue, Special, Doubts, RuleCodes
<1>2. Codes(InvalidChannels(b)) \cap Special = {}
  BY <1>1 DEF Codes, InvalidChannels, Report
<1>3. Codes(HealthIssues(I)) \cap Special = {}
  BY <1>1 DEF Codes, HealthIssues, Report
<1>4. \A r \in Thresholds(b) :
        r.code \in {"NXD-PWR-101", "NXD-PWR-102", "NXD-CMP-201", "NXD-HYD-401", "NXD-FUL-501"}
  BY DEF Thresholds, ReportIf, Report
<1>5. Codes(Thresholds(b)) \cap Special = {}
  BY <1>4 DEF Codes, Special, Doubts, RuleCodes
<1>6. QED
  BY <1>2, <1>3, <1>5

LEMMA ScenarioCodes ==
  ASSUME NEW s, NEW F
  PROVE  Codes(ScenarioContext(s, F)) \cap Special = {}
<1>1. \A r \in ScenarioContext(s, F) : r.code \in {"NXD-PWR-103", "NXD-CMP-201", "NXD-DAT-606"}
  BY DEF ScenarioContext, Report
<1>2. QED
  BY <1>1 DEF Codes, Special, Doubts, RuleCodes

LEMMA PlatformCodes ==
  ASSUME NEW p \in PlatformIds, NEW b, NEW F, Codes(F) \cap Doubts = {}
  PROVE  Codes(Augment(p, b, F)) \cap Doubts = {}
<1>1. \A q \in PlatformRules[p] : q.code \notin Doubts
  BY DEF PlatformRules, PlatformIds, Rule, Doubts
<1>2. \A r \in Augment(p, b, F) : r \in F \/ \E q \in PlatformRules[p] : r.code = q.code
  BY DEF Augment, ReportIf, Report
<1>3. QED
  BY <1>1, <1>2 DEF Codes

(* What analyze finds for a lab that has been stepped.                     *)
LEMMA AnalyzeCodes ==
  ASSUME NEW l, LabInv(l), l.tick > 0, NEW s
  PROVE  Codes(Analyze(s.scenario, s.tick, s.sensors, s.issues, l.frames)) \cap Special = {}
<1> DEFINE F == InvalidChannels(s.sensors) \cup Thresholds(s.sensors)
                \cup HealthIssues(s.issues) \cup Recorder(l.frames, s.tick)
<1>1. Codes(F) \cap Special = {}
  <2>1. F = InvalidChannels(s.sensors) \cup Thresholds(s.sensors) \cup HealthIssues(s.issues)
    BY RecorderHolds
  <2>2. QED
    <3> DEFINE A == InvalidChannels(s.sensors)
               B == Thresholds(s.sensors)
               C == HealthIssues(s.issues)
    <3>1. Codes(A) \cap Special = {} /\ Codes(B) \cap Special = {} /\ Codes(C) \cap Special = {}
      BY ChannelCodes
    <3>2. F = (A \cup B) \cup C
      BY <2>1
    <3> HIDE DEF A, B, C, F
    <3>3. Codes(F) = (Codes(A) \cup Codes(B)) \cup Codes(C)
      BY <3>2 DEF Codes
    <3>4. QED
      BY <3>1, <3>3
<1>2. Codes(F \cup ScenarioContext(s.scenario, F)) \cap Special = {}
  BY <1>1, ScenarioCodes, CodesOfUnion
<1>3. Analyze(s.scenario, s.tick, s.sensors, s.issues, l.frames)
        = F \cup ScenarioContext(s.scenario, F)
  BY DEF Analyze
<1>4. QED
  BY <1>2, <1>3

(* A scan never doubts the recorder.                                       *)
LEMMA ScanTrustsRecorder ==
  ASSUME NEW l, LabInv(l), l.tick > 0, NEW p \in PlatformIds, NEW s
  PROVE  Codes(Augment(p, s.sensors, Analyze(s.scenario, s.tick, s.sensors, s.issues, l.frames)))
           \cap Doubts = {}
<1> DEFINE F == Analyze(s.scenario, s.tick, s.sensors, s.issues, l.frames)
<1>1. Codes(F) \cap Doubts = {}
  BY AnalyzeCodes DEF Special
<1> HIDE DEF F
<1>2. Codes(Augment(p, s.sensors, F)) \cap Doubts = {}
  BY <1>1, PlatformCodes
<1>3. QED
  BY <1>2 DEF F

(* What ingest marks active is what the scan found.                        *)
LEMMA IngestAgrees ==
  ASSUME NEW H, NEW F, NEW t
  PROVE  Agree(Ingest(H, Codes(F), t), F)
<1> DEFINE G == Ingest(H, Codes(F), t)
<1>1. DOMAIN G = DOMAIN H \cup Codes(F)
  BY DEF Ingest
<1>2. ASSUME NEW c \in DOMAIN G
      PROVE  G[c].active <=> c \in Codes(F)
  BY <1>1 DEF Ingest
<1>3. {c \in DOMAIN G : G[c].active} = Codes(F)
  BY <1>1, <1>2
<1>4. QED
  BY <1>3 DEF Agree
------------------------------------------------------------------------------
(* Preservation.                                                           *)

LEMMA InitInv == Init => Inv
<1> SUFFICES ASSUME Init PROVE Inv
  OBVIOUS
<1>1. PICK d \in Deltas, w \in Waves : lab = Stepped(NewLab("nominal"), d, w)
  BY DEF Init
<1>2. LabInv(NewLab("nominal"))
  BY NewLabInv DEF ScenarioNames
<1>3. LabInv(lab) /\ lab.tick > 0
  BY <1>1, <1>2, StepKeepsLab
<1>4. /\ replay = Live /\ platform = "generic-jet" /\ trendWindow = 60 /\ diag = NoDiag
      /\ snap = SnapshotOf(lab)
      /\ shown = Redrawn(lab, Live, trendWindow)
  BY DEF Init, Redrawn, Live
<1>6. platform \in PlatformIds /\ trendWindow \in TrendWindows
  BY <1>4 DEF PlatformIds, TrendWindows
<1>7. ScreenInv(lab, SnapshotOf(lab), Live, platform, trendWindow, Redrawn(lab, Live, trendWindow))
  BY <1>3, <1>6, LiveScreen, RepliesOutOfReplay
<1>8. DiagInv(diag)
  BY <1>4 DEF DiagInv, NoDiag, Agree, Codes
<1>9. QED
  BY <1>4, <1>7, <1>8 DEF Inv

(* A frame within the recorder, shown in replay.                           *)
LEMMA FrameScreen ==
  ASSUME NEW l, NEW s, NEW r, NEW p, NEW n, NEW h, ScreenInv(l, s, r, p, n, h),
         NEW q \in InReplay(l)
  PROVE  ScreenInv(l, FrameSnapshot(l, s, q.index), q, p, n, Redrawn(l, q, n))
<1> DEFINE t == FrameSnapshot(l, s, q.index)
           g == Redrawn(l, q, n)
<1>1. /\ LabInv(l) /\ l.tick > 0 /\ s \in Snapshot /\ p \in PlatformIds /\ n \in TrendWindows
      /\ q \in Replays /\ q.mode = TRUE /\ q.index < Len(l.frames)
      /\ q.index \in Nat /\ Len(l.frames) \in Nat
  BY DEF ScreenInv, Replays, LabInv, LabType, InReplay
<1>2. t \in Snapshot /\ t.scenario = s.scenario /\ t = FrameSnapshot(l, t, q.index)
  BY <1>1, FrameSnapshotType
<1>3. s.scenario = l.scenario
  BY DEF ScreenInv, ShowsSession, SnapshotOf
<1>4. q.index \in 0..(Len(l.frames) - 1)
  BY <1>1
<1>5. /\ g.banner = q.mode /\ q.mode \in BOOLEAN
      /\ g = [banner |-> g.banner, trend |-> TrendSpan(l.frames, n)]
  BY <1>1 DEF Redrawn
<1> HIDE DEF t, g
<1>6. ShowsSession(l, t)
  BY <1>2, <1>3, <1>4 DEF ShowsSession
<1>7. ScreenInv(l, t, q, p, n, g)
  BY <1>1, <1>2, <1>5, <1>6 DEF ScreenInv
<1>8. QED
  BY <1>7 DEF t, g

(* A handler that leaves replay without a redraw.                          *)
LEMMA OtherReplay ==
  ASSUME NEW l, NEW s, NEW r, NEW p, NEW n, NEW h, ScreenInv(l, s, r, p, n, h),
         NEW q \in OutOfReplay
  PROVE  ScreenInv(l, s, q, p, n, h)
BY DEF ScreenInv, OutOfReplay

LEMMA ReplayScreen ==
  ASSUME ScreenInv(lab, snap, replay, platform, trendWindow, shown),
         NEW q \in InReplay(lab), ShowReplayFrame(lab, q)
  PROVE  ScreenInv(lab, snap', q, platform, trendWindow, shown')
<1>1. /\ snap' = FrameSnapshot(lab, snap, q.index)
      /\ shown' = Redrawn(lab, q, trendWindow)
  BY DEF ShowReplayFrame, Refresh, InReplay, Redrawn
<1>2. QED
  BY <1>1, FrameScreen

(* Logging a rejected preset changes nothing that is shown.                *)
LEMMA RejectedPreset ==
  ASSUME NEW l, NEW s, NEW r, NEW p, NEW n, NEW h, ScreenInv(l, s, r, p, n, h),
         NEW q, ~Offered(p, q)
  PROVE  ScreenInv(WithTrainingFault(l, p, q), s, r, p, n, h)
<1> DEFINE m == WithTrainingFault(l, p, q)
<1>1. LabInv(l) /\ IsLabRecord(l)
  BY DEF ScreenInv, LabInv, LabType
<1>2. LabInv(m)
  BY <1>1, TrainingInv
<1>3. m = [l EXCEPT !.log = Append(@, "fault-rejected")]
  BY DEF WithTrainingFault
<1>4. /\ m.tick = l.tick /\ m.elapsed = l.elapsed /\ m.bus = l.bus
      /\ m.scenario = l.scenario /\ m.alerts = l.alerts /\ m.frames = l.frames
  BY <1>1, <1>3 DEF IsLabRecord
<1> HIDE DEF m
<1>5. SnapshotOf(m) = SnapshotOf(l)
  BY <1>4 DEF SnapshotOf
<1>6. \A i : FrameSnapshot(m, s, i) = FrameSnapshot(l, s, i)
  BY <1>4 DEF FrameSnapshot
<1>7. ShowsSession(m, s)
  BY <1>4, <1>5, <1>6 DEF ScreenInv, ShowsSession
<1>8. ScreenInv(m, s, r, p, n, h)
  BY <1>2, <1>4, <1>6, <1>7 DEF ScreenInv
<1>9. QED
  BY <1>8 DEF m

Screen == ScreenInv(lab, snap, replay, platform, trendWindow, shown)

LEMMA ScreenNext == Screen /\ Next => Screen'
<1> SUFFICES ASSUME ScreenInv(lab, snap, replay, platform, trendWindow, shown), Next
             PROVE  ScreenInv(lab', snap', replay', platform', trendWindow', shown')
  BY DEF Screen
<1>1. /\ LabInv(lab) /\ lab.tick > 0 /\ replay \in Replays
      /\ platform \in PlatformIds /\ trendWindow \in TrendWindows
      /\ Live \in OutOfReplay /\ Left(replay) \in OutOfReplay
  BY RepliesOutOfReplay DEF ScreenInv
<1>2. /\ replay.mode \in BOOLEAN /\ replay.paused \in BOOLEAN /\ replay.index \in Nat
      /\ Len(lab.frames) \in Nat /\ 0 < Len(lab.frames)
      /\ lab.frames # << >>
  BY <1>1 DEF Replays, LabInv, LabType, FramesFollowClock
<1>3. CASE ReplayStep
  <2>1. replay' \in InReplay(lab)
    BY <1>1, <1>2, <1>3 DEF ScreenInv, ReplayStep, Replays, ReplayMaximum, InReplay
  <2>2. /\ ShowReplayFrame(lab, replay')
        /\ lab' = lab /\ platform' = platform /\ trendWindow' = trendWindow
    BY <1>3 DEF ReplayStep
  <2>3. QED
    BY <2>1, <2>2, ReplayScreen
<1>4. CASE LiveStep
  <2>1. replay \in OutOfReplay
    BY <1>1, <1>2, <1>4 DEF LiveStep, OutOfReplay
  <2>2. StepAndShow(lab, replay) /\ platform' = platform /\ trendWindow' = trendWindow
    BY <1>4 DEF LiveStep
  <2>3. QED
    BY <1>1, <2>1, <2>2, StepAndShowKeepsScreen
<1>5. CASE ResetLab
  <2>1. /\ StepAndShow(WasReset(lab), Live)
        /\ platform' = platform /\ trendWindow' = trendWindow
    BY <1>5 DEF ResetLab
  <2>2. LabInv(WasReset(lab))
    BY <1>1, ResetInv
  <2>3. QED
    BY <1>1, <2>1, <2>2, StepAndShowKeepsScreen
<1>6. CASE SetScenario
  <2>1. PICK s \in Scenarios :
          IF s \in ScenarioNames
          THEN StepAndShow(WasReset(WithScenario(lab, s)), Live)
          ELSE replay' = Live /\ UNCHANGED <<lab, screen>>
    BY <1>6 DEF SetScenario
  <2>2. platform' = platform /\ trendWindow' = trendWindow
    BY <1>6 DEF SetScenario
  <2>3. CASE s \in ScenarioNames
    <3>1. LabInv(WasReset(WithScenario(lab, s)))
      BY <1>1, <2>3, ScenarioInv, ResetInv
    <3>2. QED
      BY <1>1, <2>1, <2>2, <2>3, <3>1, StepAndShowKeepsScreen
  <2>4. CASE s \notin ScenarioNames
    <3>1. replay' = Live /\ lab' = lab /\ snap' = snap /\ shown' = shown
      BY <2>1, <2>4 DEF screen
    <3>2. QED
      BY <1>1, <2>2, <3>1, OtherReplay
  <2>5. QED
    BY <2>3, <2>4
<1>7. CASE SetLanguage
  <2>1. /\ snap' = snap /\ lab' = lab /\ replay' = replay
        /\ platform' = platform /\ trendWindow' = trendWindow
        /\ shown' = Redrawn(lab, replay, trendWindow)
    BY <1>7 DEF SetLanguage, Refresh, Redrawn
  <2>2. /\ Redrawn(lab, replay, trendWindow).banner \in BOOLEAN
        /\ Redrawn(lab, replay, trendWindow)
              = [ banner |-> Redrawn(lab, replay, trendWindow).banner,
                  trend |-> TrendSpan(lab.frames, trendWindow) ]
    BY <1>2 DEF Redrawn
  <2>3. ScreenInv(lab, snap, replay, platform, trendWindow, Redrawn(lab, replay, trendWindow))
    BY <2>2 DEF ScreenInv
  <2>4. QED
    BY <2>1, <2>3
<1>8. CASE EnterReplay
  <2>1. replay' \in InReplay(lab)
    BY <1>2, <1>8 DEF EnterReplay, Replays, InReplay
  <2>2. /\ ShowReplayFrame(lab, replay')
        /\ lab' = lab /\ platform' = platform /\ trendWindow' = trendWindow
    BY <1>8 DEF EnterReplay
  <2>3. QED
    BY <2>1, <2>2, ReplayScreen
<1>9. CASE LeaveReplay
  <2>1. /\ snap' = SnapshotOf(lab) /\ lab' = lab
        /\ platform' = platform /\ trendWindow' = trendWindow
        /\ replay' = Left(replay) /\ shown' = Redrawn(lab, replay', trendWindow)
    BY <1>9 DEF LeaveReplay, Refresh, Redrawn
  <2>2. QED
    BY <1>1, <2>1, LiveScreen
<1>10. CASE SetReplayPaused
  <2>1. replay' \in Replays /\ replay'.mode = replay.mode /\ replay'.index = replay.index
    <3> DEFINE b == ~replay.paused
    <3>1. replay' = [replay EXCEPT !.paused = b] /\ b \in BOOLEAN
      BY <1>10 DEF SetReplayPaused
    <3> HIDE DEF b
    <3>2. QED
      BY <1>1, <3>1 DEF Replays
  <2>2. UNCHANGED <<lab, snap, shown, platform, trendWindow>>
    BY <1>10 DEF SetReplayPaused, screen
  <2>3. ScreenInv(lab, snap, replay', platform, trendWindow, shown)
    BY <2>1 DEF ScreenInv
  <2>4. QED
    BY <2>2, <2>3
<1>11. CASE SeekReplay
  <2>1. PICK i \in Seeks :
          replay' = [replay EXCEPT !.index = Clamp(i, 0, ReplayMaximum(lab))]
    BY <1>11 DEF SeekReplay
  <2>2. Clamp(i, 0, ReplayMaximum(lab)) \in 0..(Len(lab.frames) - 1)
    BY <1>2, SeeksAssumption DEF Clamp, ReplayMaximum
  <2>3. replay' \in Replays
    BY <1>1, <1>2, <2>1, <2>2 DEF Replays
  <2>4. replay'.mode = TRUE
    BY <1>1, <1>2, <1>11, <2>1 DEF Replays, SeekReplay
  <2>5. replay'.index < Len(lab.frames)
    BY <1>1, <1>2, <2>1, <2>2 DEF Replays
  <2>6. replay' \in InReplay(lab)
    BY <2>3, <2>4, <2>5 DEF InReplay
  <2>7. /\ ShowReplayFrame(lab, replay')
        /\ lab' = lab /\ platform' = platform /\ trendWindow' = trendWindow
    BY <1>11 DEF SeekReplay
  <2>8. QED
    BY <2>6, <2>7, ReplayScreen
<1>12. CASE SetTrendWindow
  <2>1. PICK f \in Windows : /\ trendWindow' = Clamp(f, 0, 5000)
          /\ shown' = [shown EXCEPT !.trend = TrendSpan(lab.frames, Clamp(f, 0, 5000))]
          /\ UNCHANGED <<lab, snap, replay, platform>>
    BY <1>12 DEF SetTrendWindow
  <2>2. trendWindow' \in TrendWindows
    <3>1. f \in Int
      BY SeeksAssumption
    <3>2. Clamp(f, 0, 5000) \in TrendWindows
      BY <3>1 DEF Clamp, TrendWindows
    <3>3. QED
      BY <2>1, <3>2
  <2>3. shown = [banner |-> shown.banner, trend |-> shown.trend] /\ shown.banner \in BOOLEAN
    BY DEF ScreenInv
  <2>4. /\ shown' = [banner |-> shown.banner, trend |-> TrendSpan(lab.frames, trendWindow')]
        /\ shown'.banner = shown.banner
    BY <2>1, <2>3
  <2>5. ScreenInv(lab, snap, replay, platform, trendWindow', shown')
    BY <2>2, <2>3, <2>4 DEF ScreenInv
  <2>6. QED
    BY <2>1, <2>5
<1>13. CASE ApplyTrainingFault
  <2>1. PICK q \in PresetInputs :
          IF Offered(platform, q)
          THEN StepAndShow(WithTrainingFault(lab, platform, q), Left(replay))
          ELSE /\ lab' = WithTrainingFault(lab, platform, q)
               /\ replay' = Left(replay)
               /\ UNCHANGED screen
    BY <1>13 DEF ApplyTrainingFault
  <2>2. platform' = platform /\ trendWindow' = trendWindow
    BY <1>13 DEF ApplyTrainingFault
  <2>3. CASE Offered(platform, q)
    <3>1. LabInv(WithTrainingFault(lab, platform, q))
      BY <1>1, TrainingInv
    <3>2. QED
      BY <1>1, <2>1, <2>2, <2>3, <3>1, StepAndShowKeepsScreen
  <2>4. CASE ~Offered(platform, q)
    <3>1. ScreenInv(WithTrainingFault(lab, platform, q), snap, replay, platform, trendWindow, shown)
      BY <2>4, RejectedPreset
    <3>2. /\ lab' = WithTrainingFault(lab, platform, q) /\ replay' = Left(replay)
          /\ snap' = snap /\ shown' = shown
      BY <2>1, <2>4 DEF screen
    <3>3. ScreenInv(lab', snap, Left(replay), platform, trendWindow, shown)
      BY <1>1, <3>1, <3>2, OtherReplay
    <3>4. QED
      BY <2>2, <3>2, <3>3
  <2>5. QED
    BY <2>3, <2>4
<1>14. CASE ClearTrainingFaults
  <2>1. /\ StepAndShow(WithoutTrainingFaults(lab), Left(replay))
        /\ platform' = platform /\ trendWindow' = trendWindow
    BY <1>14 DEF ClearTrainingFaults
  <2>2. LabInv(WithoutTrainingFaults(lab))
    BY <1>1, TrainingInv
  <2>3. QED
    BY <1>1, <2>1, <2>2, StepAndShowKeepsScreen
<1>15. CASE SetActivePlatform
  <2>1. /\ StepAndShow(WasReset(lab), Live)
        /\ platform' \in PlatformIds /\ trendWindow' = trendWindow
    BY <1>15 DEF SetActivePlatform
  <2>2. LabInv(WasReset(lab))
    BY <1>1, ResetInv
  <2>3. QED
    BY <1>1, <2>1, <2>2, StepAndShowKeepsScreen
<1>16. CASE RunDiagnosticScan \/ ClearDiagnosticHistory
  BY <1>16 DEF RunDiagnosticScan, ClearDiagnosticHistory, screen
<1>17. QED
  BY <1>3, <1>4, <1>5, <1>6, <1>7, <1>8, <1>9, <1>10, <1>11, <1>12, <1>13, <1>14, <1>15, <1>16
     DEF Next, TimerStep, SetReplayMode

LEMMA DiagNext == Screen /\ DiagInv(diag) /\ Next => DiagInv(diag')
<1> SUFFICES ASSUME Screen, DiagInv(diag), Next
             PROVE  DiagInv(diag')
  OBVIOUS
<1>1. CASE RunDiagnosticScan
  <2> DEFINE found == Augment(platform, snap.sensors,
                        Analyze(snap.scenario, snap.tick, snap.sensors, snap.issues, lab.frames))
             history == Ingest(diag.history, Codes(found), snap.tick)
  <2>1. diag' = [ scenario |-> snap.scenario, tick |-> snap.tick, reports |-> found,
                  history |-> history, shownReports |-> found, shownHistory |-> history ]
    BY <1>1 DEF RunDiagnosticScan
  <2>2. Codes(found) \cap Doubts = {}
    BY ScanTrustsRecorder DEF Screen, ScreenInv
  <2>3. Agree(history, found)
    BY IngestAgrees
  <2> HIDE DEF found, history
  <2>4. QED
    BY <2>1, <2>2, <2>3 DEF DiagInv
<1>2. CASE ClearDiagnosticHistory
  <2>1. diag' = [diag EXCEPT !.history = NoDiag.history, !.shownHistory = NoDiag.history]
    BY <1>2 DEF ClearDiagnosticHistory
  <2> DEFINE empty == NoDiag.history
  <2>2. Agree(empty, diag.reports) /\ Agree(empty, diag.shownReports)
    BY DEF Agree
  <2> HIDE DEF empty
  <2>3. diag' = [ scenario |-> diag.scenario, tick |-> diag.tick, reports |-> diag.reports,
                  history |-> empty, shownReports |-> diag.shownReports,
                  shownHistory |-> empty ]
    BY <2>1 DEF DiagInv, empty
  <2>4. QED
    BY <2>2, <2>3 DEF DiagInv
<1>3. CASE SetActivePlatform
  <2>1. diag' = [diag EXCEPT !.scenario = "none", !.tick = 0, !.reports = {},
                             !.history = NoDiag.history]
    BY <1>3 DEF SetActivePlatform
  <2> DEFINE empty == NoDiag.history
  <2>2. Agree(empty, {}) /\ Codes({}) \cap Doubts = {}
    BY DEF Agree, Codes
  <2> HIDE DEF empty
  <2>3. diag' = [ scenario |-> "none", tick |-> 0, reports |-> {}, history |-> empty,
                  shownReports |-> diag.shownReports, shownHistory |-> diag.shownHistory ]
    BY <2>1 DEF DiagInv, empty
  <2>4. QED
    BY <2>2, <2>3 DEF DiagInv
<1>4. ASSUME UNCHANGED diag
      PROVE  DiagInv(diag')
  BY <1>4
<1>5. QED
  BY <1>1, <1>2, <1>3, <1>4
     DEF Next, TimerStep, ReplayStep, LiveStep, ResetLab, SetScenario, SetLanguage,
         SetReplayMode, EnterReplay, LeaveReplay, SetReplayPaused, SeekReplay,
         SetTrendWindow, ApplyTrainingFault, ClearTrainingFaults

LEMMA NextInv == Inv /\ [Next]_vars => Inv'
<1> SUFFICES ASSUME Inv, [Next]_vars
             PROVE  Inv'
  OBVIOUS
<1>1. CASE Next
  <2>1. Screen /\ DiagInv(diag)
    BY DEF Inv, Screen
  <2>2. Screen' /\ DiagInv(diag')
    BY <1>1, <2>1, ScreenNext, DiagNext
  <2>3. QED
    BY <2>2 DEF Inv, Screen
<1>2. CASE UNCHANGED vars
  BY <1>2 DEF Inv, vars
<1>3. QED
  BY <1>1, <1>2

(* Whatever is called in whatever order, the screen belongs to the running *)
(* session and the diagnostic page agrees with itself.                     *)
THEOREM Invariance == Spec => []Inv
<1>1. Init => Inv
  BY InitInv
<1>2. Inv /\ [Next]_vars => Inv'
  BY NextInv
<1>3. QED
  BY <1>1, <1>2, PTL DEF Spec

------------------------------------------------------------------------------
(* The properties of CockpitBridge.                                        *)

(* Every variable of the bridge keeps its type.                            *)
THEOREM TypeCorrect == Spec => []TypeOK
<1>1. Inv => TypeOK
  <2> SUFFICES ASSUME Inv PROVE TypeOK
    OBVIOUS
  <2>1. ScreenInv(lab, snap, replay, platform, trendWindow, shown)
    BY DEF Inv
  <2>2. TrendSpan(lab.frames, trendWindow) \in [from: Nat, to: Nat]
    BY <2>1, TrendSpanType DEF ScreenInv
  <2>3. shown \in [banner: BOOLEAN, trend: [from: Nat, to: Nat]]
    BY <2>1, <2>2 DEF ScreenInv
  <2>4. QED
    BY <2>1, <2>3 DEF TypeOK, ScreenInv, LabInv, Replays, TrendWindows
<1>2. QED
  BY <1>1, Invariance, PTL

(* In replay the screen shows the recorder frame at the replay index.      *)
THEOREM ReplayTheorem == Spec => []ReplayShowsRecordedFrame
<1>1. Inv => ReplayShowsRecordedFrame
  BY DEF Inv, ScreenInv, ReplayShowsRecordedFrame
<1>2. QED
  BY <1>1, Invariance, PTL

(* No handler leaves a snapshot of an earlier session on screen.           *)
THEOREM DisplayTheorem == Spec => []DisplayIsOfThisSession
<1>1. Inv => DisplayIsOfThisSession
  BY DEF Inv, ScreenInv, ShowsSession, DisplayIsOfThisSession
<1>2. QED
  BY <1>1, Invariance, PTL

(* The trend rows cover the frames the window asks for.                    *)
THEOREM TrendsTheorem == Spec => []TrendsAreCurrent
<1>1. Inv => TrendsAreCurrent
  <2> SUFFICES ASSUME Inv PROVE TrendsAreCurrent
    OBVIOUS
  <2>1. shown = [banner |-> shown.banner, trend |-> TrendSpan(lab.frames, trendWindow)]
    BY DEF Inv, ScreenInv
  <2>2. QED
    BY <2>1 DEF TrendsAreCurrent
<1>2. QED
  BY <1>1, Invariance, PTL

(* The recurrence history marks active what the latest scan found.         *)
THEOREM HistoryTheorem == Spec => []HistoryAgreesWithSummary
<1>1. Inv => HistoryAgreesWithSummary
  BY DEF Inv, DiagInv, HistoryAgreesWithSummary
<1>2. QED
  BY <1>1, Invariance, PTL

(* No scan ever reports the recorder missing or out of order.              *)
THEOREM RecorderTheorem == Spec => []RecorderIsNeverDoubted
<1>1. Inv => RecorderIsNeverDoubted
  BY DEF Inv, DiagInv, Doubts, RecorderIsNeverDoubted
<1>2. QED
  BY <1>1, Invariance, PTL

(* While replay lasts, no call and no timer tick touches the simulation.   *)
THEOREM ReplayIsReadOnly == Spec => ReplayLeavesLabAlone
<1>1. Inv /\ [Next]_vars => [replay.mode /\ replay'.mode => lab' = lab]_vars
  <2> SUFFICES ASSUME Inv, Next, replay.mode, replay'.mode
               PROVE  lab' = lab
    BY DEF vars
  <2>1. Live.mode = FALSE /\ Left(replay).mode = FALSE
    BY RepliesOutOfReplay DEF OutOfReplay, Inv, ScreenInv
  <2>2. CASE LiveStep
    BY <2>2 DEF LiveStep
  <2>3. CASE ResetLab
    BY <2>1, <2>3 DEF ResetLab, StepAndShow
  <2>4. CASE SetScenario
    BY <2>1, <2>4 DEF SetScenario, StepAndShow
  <2>5. CASE ApplyTrainingFault
    BY <2>1, <2>5 DEF ApplyTrainingFault, StepAndShow
  <2>6. CASE ClearTrainingFaults
    BY <2>1, <2>6 DEF ClearTrainingFaults, StepAndShow
  <2>7. CASE SetActivePlatform
    BY <2>1, <2>7 DEF SetActivePlatform, StepAndShow
  <2>8. QED
    BY <2>2, <2>3, <2>4, <2>5, <2>6, <2>7
       DEF Next, TimerStep, ReplayStep, SetLanguage, SetReplayMode, EnterReplay, LeaveReplay,
           SetReplayPaused, SeekReplay, SetTrendWindow, RunDiagnosticScan,
           ClearDiagnosticHistory
<1>2. QED
  BY <1>1, Invariance, PTL DEF Spec, ReplayLeavesLabAlone

------------------------------------------------------------------------------
(* What the bus of a lab on screen shows of the faults in force.           *)

(* A lab that has been stepped: its bus is generated, and then the         *)
(* training faults are applied, which the platform p offers.               *)
Generated(l, g) == g \in [Channels -> Sample] /\ l.bus = ApplyFaults(g, l.training)

OfferedBy(l, p) ==
  \A f \in l.training : f = Presets[f.id] /\ f.id \in PresetInputs /\ Offered(p, f.id)

PublishedUnlessFaulty(l) ==
  l.scenario = "nominal" /\ l.training = {} =>
    \E b \in Bus, w \in Waves : l.bus = Publish(b, w, l.elapsed)

FaultsInForce(l, p) ==
  (\E g : Generated(l, g)) /\ OfferedBy(l, p) /\ PublishedUnlessFaulty(l)

Faults == FaultsInForce(lab, platform)

LEMMA SteppedFaults ==
  ASSUME NEW l, LabInv(l), NEW p, OfferedBy(l, p), NEW d \in Deltas, NEW w \in Waves,
         NEW m, m = Stepped(l, d, w)
  PROVE  FaultsInForce(m, p)
<1>1. IsStepOf(l, d, w, m)
  BY SteppedFields DEF LabInv, LabType
<1> DEFINE e == l.elapsed + d
<1>2. /\ m.training = l.training /\ m.scenario = l.scenario /\ m.elapsed = e
      /\ m.bus = ApplyFaults(GeneratedBus(l, d, w), l.training)
  BY <1>1 DEF IsStepOf, SteppedBus
<1>3. /\ l.tick \in Nat /\ l.bus \in Bus /\ e \in Nat
      /\ Publish(l.bus, w, e) \in [Channels -> Sample]
      /\ AreFaults(ScenarioFaults(l.scenario, l.tick + 1))
  <2>1. l.tick \in Nat /\ l.bus \in Bus /\ e \in Nat
    BY TimingAssumption DEF LabInv, LabType
  <2> HIDE DEF e
  <2>2. QED
    BY <2>1, PublishType, ScenarioFaultsType
<1>4. Generated(m, GeneratedBus(l, d, w))
  BY <1>2, <1>3, ApplyFaultsType DEF Generated, GeneratedBus
<1>5. OfferedBy(m, p)
  BY <1>2 DEF OfferedBy
<1>6. PublishedUnlessFaulty(m)
  <2> SUFFICES ASSUME m.scenario = "nominal", m.training = {}
               PROVE  \E b \in Bus, v \in Waves : m.bus = Publish(b, v, m.elapsed)
    BY DEF PublishedUnlessFaulty
  <2>1. ScenarioFaults(l.scenario, l.tick + 1) = {}
    BY <1>2 DEF ScenarioFaults
  <2>2. m.bus = Publish(l.bus, w, e)
    <3>1. m.bus = ApplyFaults(ApplyFaults(Publish(l.bus, w, e), {}), {})
      BY <1>2, <2>1 DEF GeneratedBus
    <3> HIDE DEF e
    <3>2. ApplyFaults(Publish(l.bus, w, e), {}) = Publish(l.bus, w, e)
      BY <1>3, NoFaultsNoIssues
    <3>3. QED
      BY <3>1, <3>2
  <2>3. QED
    BY <1>2, <1>3, <2>2
<1>7. QED
  BY <1>4, <1>5, <1>6 DEF FaultsInForce

LEMMA StepAndShowFaults ==
  ASSUME NEW l, LabInv(l), NEW r, NEW p, OfferedBy(l, p), StepAndShow(l, r)
  PROVE  FaultsInForce(lab', p)
BY SteppedFaults DEF StepAndShow

LEMMA PresetsHaveIds ==
  ASSUME NEW p, NEW q, Offered(p, q)
  PROVE  Presets[q] \in TrainingFaults /\ Presets[q].id = q
<1>1. \E f \in TrainingFaults : f.id = q
  BY DEF Offered, PlatformIds, PlatformPresets, CommonPresets, TrainingFaults, FaultSpec
<1>2. QED
  BY <1>1 DEF Presets

LEMMA AppliedFaults ==
  ASSUME NEW l, LabInv(l), NEW p, OfferedBy(l, p), NEW q \in PresetInputs, Offered(p, q)
  PROVE  OfferedBy(WithTrainingFault(l, p, q), p)
<1>1. WithTrainingFault(l, p, q).training = SetFault(l.training, Presets[q])
  <2>1. IsLabRecord(l)
    BY DEF LabInv, LabType
  <2>2. QED
    BY <2>1 DEF WithTrainingFault, IsLabRecord
<1>2. QED
  BY <1>1, PresetsHaveIds DEF OfferedBy, SetFault

LEMMA FaultsNext == Inv /\ Faults /\ Next => Faults'
<1> SUFFICES ASSUME Inv, FaultsInForce(lab, platform), Next
             PROVE  FaultsInForce(lab', platform')
  BY DEF Faults
<1>1. /\ LabInv(lab) /\ IsLabRecord(lab) /\ OfferedBy(lab, platform)
  BY DEF Inv, ScreenInv, LabInv, LabType, FaultsInForce
<1>2. ASSUME NEW l, LabInv(l), l.training = {}
      PROVE  \A p : OfferedBy(l, p)
  BY <1>2 DEF OfferedBy
<1>3. WasReset(lab).training = {} /\ LabInv(WasReset(lab))
  BY <1>1, ResetInv DEF WasReset, NewLab
<1>4. CASE LiveStep
  BY <1>1, <1>4, StepAndShowFaults DEF LiveStep
<1>5. CASE ResetLab
  BY <1>2, <1>3, <1>5, StepAndShowFaults DEF ResetLab
<1>6. CASE SetScenario
  <2>1. PICK s \in Scenarios :
          IF s \in ScenarioNames
          THEN StepAndShow(WasReset(WithScenario(lab, s)), Live)
          ELSE replay' = Live /\ UNCHANGED <<lab, screen>>
    BY <1>6 DEF SetScenario
  <2>2. platform' = platform
    BY <1>6 DEF SetScenario
  <2>3. CASE s \in ScenarioNames
    <3>1. LabInv(WasReset(WithScenario(lab, s)))
      BY <1>1, <2>3, ScenarioInv, ResetInv
    <3>2. WasReset(WithScenario(lab, s)).training = {}
      BY DEF WasReset, NewLab
    <3>3. QED
      BY <1>2, <2>1, <2>3, <3>1, <3>2, StepAndShowFaults
  <2>4. CASE s \notin ScenarioNames
    BY <2>1, <2>2, <2>4
  <2>5. QED
    BY <2>3, <2>4
<1>7. CASE ApplyTrainingFault
  <2>1. PICK q \in PresetInputs :
          IF Offered(platform, q)
          THEN StepAndShow(WithTrainingFault(lab, platform, q), Left(replay))
          ELSE /\ lab' = WithTrainingFault(lab, platform, q)
               /\ replay' = Left(replay)
               /\ UNCHANGED screen
    BY <1>7 DEF ApplyTrainingFault
  <2>2. platform' = platform
    BY <1>7 DEF ApplyTrainingFault
  <2>3. CASE Offered(platform, q)
    <3>1. LabInv(WithTrainingFault(lab, platform, q))
      BY <1>1, TrainingInv
    <3>2. OfferedBy(WithTrainingFault(lab, platform, q), platform)
      BY <1>1, <2>3, AppliedFaults
    <3>3. QED
      BY <2>1, <2>2, <2>3, <3>1, <3>2, StepAndShowFaults
  <2>4. CASE ~Offered(platform, q)
    <3>1. lab' = [lab EXCEPT !.log = Append(@, "fault-rejected")]
      BY <2>1, <2>4 DEF WithTrainingFault
    <3>2. /\ lab'.bus = lab.bus /\ lab'.training = lab.training
          /\ lab'.scenario = lab.scenario /\ lab'.elapsed = lab.elapsed
      BY <1>1, <3>1 DEF IsLabRecord
    <3>3. QED
      BY <2>2, <3>2 DEF FaultsInForce, Generated, OfferedBy, PublishedUnlessFaulty
  <2>5. QED
    BY <2>3, <2>4
<1>8. CASE ClearTrainingFaults
  <2>1. LabInv(WithoutTrainingFaults(lab))
    BY <1>1, TrainingInv
  <2>2. WithoutTrainingFaults(lab).training = {}
    BY <1>1 DEF WithoutTrainingFaults, IsLabRecord
  <2>3. QED
    BY <1>2, <1>8, <2>1, <2>2, StepAndShowFaults DEF ClearTrainingFaults
<1>9. CASE SetActivePlatform
  BY <1>2, <1>3, <1>9, StepAndShowFaults DEF SetActivePlatform
<1>10. ASSUME lab' = lab, platform' = platform
       PROVE  FaultsInForce(lab', platform')
  BY <1>10
<1>11. QED
  BY <1>4, <1>5, <1>6, <1>7, <1>8, <1>9, <1>10
     DEF Next, TimerStep, ReplayStep, SetLanguage, SetReplayMode, EnterReplay, LeaveReplay,
         SetReplayPaused, SeekReplay, SetTrendWindow, RunDiagnosticScan, ClearDiagnosticHistory

LEMMA FaultsInvariant == Spec => []Faults
<1>1. Init => Faults
  <2> SUFFICES ASSUME Init PROVE FaultsInForce(lab, platform)
    BY DEF Faults
  <2>1. PICK d \in Deltas, w \in Waves : lab = Stepped(NewLab("nominal"), d, w)
    BY DEF Init
  <2>2. LabInv(NewLab("nominal")) /\ NewLab("nominal").training = {}
    BY NewLabInv DEF ScenarioNames, NewLab
  <2>3. OfferedBy(NewLab("nominal"), platform)
    BY <2>2 DEF OfferedBy
  <2>4. QED
    BY <2>1, <2>2, <2>3, SteppedFaults
<1>2. Inv /\ Faults /\ [Next]_vars => Faults'
  <2>1. CASE UNCHANGED vars
    BY <2>1 DEF Faults, vars
  <2>2. QED
    BY <2>1, FaultsNext
<1>3. QED
  BY <1>1, <1>2, Invariance, PTL DEF Spec

------------------------------------------------------------------------------
(* What a scan of such a bus reports.                                      *)

(* A platform has one preset for a channel.                                *)
LEMMA OnePresetPerChannel ==
  ASSUME NEW p, NEW f \in TrainingFaults, NEW h \in TrainingFaults,
         Offered(p, f.id), Offered(p, h.id), f.sensor = h.sensor
  PROVE  f = h
BY DEF Offered, PlatformIds, PlatformPresets, CommonPresets, TrainingFaults, FaultSpec

(* So the channel of a fault in force is invalid or has the fault's value. *)
LEMMA FaultIsOnBus ==
  ASSUME NEW l, LabInv(l), NEW p, FaultsInForce(l, p), NEW f \in l.training
  PROVE  /\ f \in TrainingFaults /\ Offered(p, f.id)
         /\ f.sensor \in DOMAIN l.bus
         /\ f.mode = "override" => l.bus[f.sensor].value = f.value
         /\ f.mode = "invalidate" => ~l.bus[f.sensor].valid
<1>1. PICK g : Generated(l, g)
  BY DEF FaultsInForce
<1>2. /\ l.training \subseteq TrainingFaults /\ \A h \in l.training : Offered(p, h.id)
  BY DEF LabInv, LabType, FaultsInForce, OfferedBy
<1>3. /\ f = Presets[f.id] /\ f.id \in PresetInputs /\ f.id \in DOMAIN Presets
  BY <1>2 DEF FaultsInForce, OfferedBy, Presets
<1>4. f.sensor \in Channels
  BY <1>3, PresetsAssumption
<1> DEFINE c == f.sensor
<1>5. /\ DOMAIN l.bus = Channels
      /\ l.bus[c] = [ value |-> IF Overrides(l.training, c) # {}
                                THEN LastOf(Overrides(l.training, c)).value
                                ELSE IF Offsets(l.training, c) # {}
                                     THEN g[c].value + LastOf(Offsets(l.training, c)).value
                                     ELSE g[c].value,
                      valid |-> g[c].valid /\ Invalidates(l.training, c) = {} ]
  BY <1>1, <1>4 DEF Generated, ApplyFaults
<1>6. ASSUME f.mode = "override"
      PROVE  l.bus[c].value = f.value
  <2>1. Overrides(l.training, c) = {f}
    BY <1>2, <1>6, OnePresetPerChannel DEF Overrides
  <2>2. LastOf({f}) = f
    <3>1. AreFaults({f})
      BY <1>2, TrainingFaultsType DEF AreFaults
    <3>2. QED
      BY <3>1, LastOfIsMember
  <2>3. QED
    BY <1>5, <2>1, <2>2
<1>7. ASSUME f.mode = "invalidate"
      PROVE  ~l.bus[c].valid
  <2>1. f \in Invalidates(l.training, c)
    BY <1>7 DEF Invalidates
  <2>2. l.bus[c].valid = (g[c].valid /\ Invalidates(l.training, c) = {})
    BY <1>5
  <2>3. QED
    BY <2>1, <2>2
<1>8. QED
  BY <1>2, <1>4, <1>5, <1>6, <1>7

(* A rule whose channel is valid and below its limit is reported.          *)
LEMMA RuleIsReported ==
  ASSUME NEW p \in PlatformIds, NEW b, NEW F, Codes(F) \cap RuleCodes = {},
         NEW q \in PlatformRules[p], q.code \in RuleCodes,
         q.channel \in DOMAIN b, b[q.channel].valid, b[q.channel].value < q.limit
  PROVE  \E r \in Augment(p, b, F) : r.key = q.channel /\ r.severity >= Warning
<1> DEFINE r == Report(q.code, RuleSeverity(q), q.channel)
<1>1. q.code \notin Codes(F)
  OBVIOUS
<1>2. r \in ReportIf(b, q.channel, LAMBDA v : v < q.limit, q.code, RuleSeverity(q))
  BY DEF ReportIf
<1>3. r \in Augment(p, b, F)
  BY <1>1, <1>2 DEF Augment
<1>4. r.key = q.channel /\ r.severity >= Warning
  BY DEF Report, RuleSeverity, Warning, Fault
<1>5. QED
  BY <1>3, <1>4

LEMMA FaultIsReported ==
  ASSUME NEW f \in TrainingFaults, NEW p, Offered(p, f.id), NEW b, f.sensor \in DOMAIN b,
         f.mode = "override" => b[f.sensor].value = f.value,
         f.mode = "invalidate" => ~b[f.sensor].valid,
         NEW F, InvalidChannels(b) \subseteq F, Thresholds(b) \subseteq F,
         Codes(F) \cap RuleCodes = {}
  PROVE  \E r \in Augment(p, b, F) : r.key = f.sensor /\ r.severity >= Warning
<1>1. F \subseteq Augment(p, b, F) /\ p \in PlatformIds
  BY DEF Augment, Offered
<1>2. CASE ~b[f.sensor].valid
  <2> DEFINE r == Report(CodeForInvalidSensor(f.sensor), Fault, f.sensor)
  <2>1. r \in Augment(p, b, F)
    BY <1>1, <1>2 DEF InvalidChannels
  <2>2. r.key = f.sensor /\ r.severity >= Warning
    BY DEF Report, Fault, Warning
  <2>3. QED
    BY <2>1, <2>2
<1>3. CASE b[f.sensor].valid /\ f.sensor \in {"bus_voltage_v", "cpu_temp_c", "hydraulic_pressure_pct"}
  <2>1. \/ f.sensor = "bus_voltage_v" /\ b["bus_voltage_v"].value = 205
        \/ f.sensor = "cpu_temp_c" /\ b["cpu_temp_c"].value = 910
        \/ f.sensor = "hydraulic_pressure_pct" /\ b["hydraulic_pressure_pct"].value \in {500, 520}
    BY <1>3 DEF TrainingFaults, FaultSpec
  <2>2. \E code : Report(code, Warning, f.sensor) \in Thresholds(b)
    BY <1>3, <2>1 DEF Thresholds, ReportIf
  <2>3. QED
    BY <1>1, <2>2 DEF Report, Warning
<1>4. CASE b[f.sensor].valid /\ f.sensor \notin {"bus_voltage_v", "cpu_temp_c", "hydraulic_pressure_pct"}
  <2>1. f.mode = "override" /\ b[f.sensor].value = f.value
    BY <1>4 DEF TrainingFaults, FaultSpec
  <2>2. \E q \in PlatformRules[p] :
          q.channel = f.sensor /\ f.value < q.limit /\ q.code \in RuleCodes
    <3>1. CASE p = "generic-jet"
      <4>1. f.sensor = "jet_engine_core_pct" /\ f.value = 480
        BY <1>4, <2>1, <3>1 DEF Offered, PlatformIds, PlatformPresets, CommonPresets,
                          TrainingFaults, FaultSpec
      <4>2. Rule("NXP-JET-701", "jet_engine_core_pct", 550, "warning") \in PlatformRules[p]
        BY <3>1 DEF PlatformRules, PlatformIds
      <4>3. QED
        BY <4>1, <4>2 DEF Rule, RuleCodes
    <3>2. CASE p = "generic-turboprop"
      <4>1. \/ f.sensor = "turboprop_torque_pct" /\ f.value = 420
            \/ f.sensor = "prop_rpm_pct" /\ f.value = 780
        BY <1>4, <2>1, <3>2 DEF Offered, PlatformIds, PlatformPresets, CommonPresets,
                          TrainingFaults, FaultSpec
      <4>2. /\ Rule("NXP-TPR-701", "turboprop_torque_pct", 500, "warning") \in PlatformRules[p]
            /\ Rule("NXP-TPR-702", "prop_rpm_pct", 850, "fault") \in PlatformRules[p]
        BY <3>2 DEF PlatformRules, PlatformIds
      <4>3. QED
        BY <4>1, <4>2 DEF Rule, RuleCodes
    <3>3. CASE p = "generic-helicopter"
      <4>1. f.sensor = "rotor_rpm_pct" /\ f.value = 820
        BY <1>4, <2>1, <3>3 DEF Offered, PlatformIds, PlatformPresets, CommonPresets,
                          TrainingFaults, FaultSpec
      <4>2. Rule("NXP-HEL-701", "rotor_rpm_pct", 900, "fault") \in PlatformRules[p]
        BY <3>3 DEF PlatformRules, PlatformIds
      <4>3. QED
        BY <4>1, <4>2 DEF Rule, RuleCodes
    <3>4. CASE p = "generic-uav"
      <4>1. \/ f.sensor = "battery_soc_pct" /\ f.value = 180
            \/ f.sensor = "link_quality_pct" /\ f.value = 450
            \/ f.sensor = "nav_quality_pct" /\ f.value = 580
        BY <1>4, <2>1, <3>4 DEF Offered, PlatformIds, PlatformPresets, CommonPresets,
                          TrainingFaults, FaultSpec
      <4>2. /\ Rule("NXP-UAV-701", "battery_soc_pct", 250, "warning") \in PlatformRules[p]
            /\ Rule("NXP-UAV-702", "link_quality_pct", 600, "fault") \in PlatformRules[p]
            /\ Rule("NXP-UAV-703", "nav_quality_pct", 700, "warning") \in PlatformRules[p]
        BY <3>4 DEF PlatformRules, PlatformIds
      <4>3. QED
        BY <4>1, <4>2 DEF Rule, RuleCodes
    <3>5. QED
      BY <1>1, <3>1, <3>2, <3>3, <3>4 DEF PlatformIds
  <2>3. QED
    BY <1>1, <1>4, <2>1, <2>2, RuleIsReported
<1>5. QED
  BY <1>2, <1>3, <1>4

(* Every training fault in force is found by a scan of the live screen.    *)
THEOREM ScanTheorem == Spec => ScanFindsInjectedFaults
<1>1. Inv /\ Faults /\ [Next]_vars =>
        [ RunDiagnosticScan /\ snap = SnapshotOf(lab) =>
            \A f \in lab.training :
              \E r \in diag'.reports : r.key = f.sensor /\ r.severity >= Warning ]_vars
  <2> SUFFICES ASSUME Inv, Faults, RunDiagnosticScan, snap = SnapshotOf(lab),
                      NEW f \in lab.training
               PROVE  \E r \in diag'.reports : r.key = f.sensor /\ r.severity >= Warning
    OBVIOUS
  <2> DEFINE b == snap.sensors
             F == Analyze(snap.scenario, snap.tick, snap.sensors, snap.issues, lab.frames)
  <2>1. diag'.reports = Augment(platform, b, F)
    BY DEF RunDiagnosticScan
  <2>2. LabInv(lab) /\ lab.tick > 0 /\ b = lab.bus
    BY DEF Inv, ScreenInv, SnapshotOf
  <2>3. Codes(F) \cap RuleCodes = {}
    BY <2>2, AnalyzeCodes DEF Special
  <2>4. InvalidChannels(b) \subseteq F /\ Thresholds(b) \subseteq F
    BY DEF Analyze
  <2> HIDE DEF b, F
  <2>5. \E r \in Augment(platform, b, F) : r.key = f.sensor /\ r.severity >= Warning
    BY <2>2, <2>3, <2>4, FaultIsOnBus, FaultIsReported DEF Faults
  <2>6. QED
    BY <2>1, <2>5
<1>2. QED
  BY <1>1, Invariance, FaultsInvariant, PTL DEF Spec, ScanFindsInjectedFaults

(* When a store of the nominal session falls below a limit.                *)
LEMMA DrainLimits ==
  ASSUME NEW e \in Nat
  PROVE  /\ Drained(780, FuelRate, e) < 200 <=> FuelRate * e > 580 * 1000
         /\ Drained(940, BatteryRate, e) < 250 <=> BatteryRate * e > 690 * 1000
<1>1. ASSUME NEW x \in Int
      PROVE  /\ 780 + (-x) \div 1000 < 200 <=> x > 580 * 1000
             /\ 940 + (-x) \div 1000 < 250 <=> x > 690 * 1000
  OBVIOUS
<1> DEFINE x == FuelRate * e
           y == BatteryRate * e
<1>2. x \in Int /\ y \in Int
  BY TimingAssumption
<1> HIDE DEF x, y
<1>3. 780 + (-x) \div 1000 < 200 <=> x > 580 * 1000
  BY <1>1, <1>2
<1>4. 940 + (-y) \div 1000 < 250 <=> y > 690 * 1000
  BY <1>1, <1>2
<1>5. QED
  BY <1>3, <1>4 DEF Drained, x, y

LowFuel(e) == "fuel_level_pct" \in Channels /\ FuelRate * e > 580 * 1000
LowBattery(e) == "battery_soc_pct" \in Channels /\ BatteryRate * e > 690 * 1000

FuelReport == Report("NXD-FUL-501", Warning, "fuel_level_pct")
BatteryReport == Report("NXP-UAV-701", Warning, "battery_soc_pct")

(* A published bus gives a scan its drained stores to report, and no more. *)
LEMMA NominalReports ==
  ASSUME NEW b \in Bus, NEW w \in Waves, NEW e \in Nat, NEW P, P = Publish(b, w, e),
         NEW p \in PlatformIds
  PROVE  /\ InvalidChannels(P) = {}
         /\ Thresholds(P) = (IF LowFuel(e) THEN {FuelReport} ELSE {})
         /\ \A F : "NXP-UAV-701" \notin Codes(F) =>
              Augment(p, P, F)
                = F \cup (IF LowBattery(e) /\ p = "generic-uav" THEN {BatteryReport} ELSE {})
<1>1. DOMAIN P = Channels
  BY PublishType
<1>2. ASSUME NEW c \in Channels
      PROVE  P[c].valid = TRUE /\ P[c].value = Level(c, w, e)
  BY <1>2, PublishedSample
<1>3. w \in -25..25
  BY TimingAssumption
<1>4. \A c \in Channels : c \in AllChannels
  BY ChannelsAssumption
<1>5. InvalidChannels(P) = {}
  BY <1>1, <1>2 DEF InvalidChannels
<1>6. ASSUME NEW c \in Channels, c \notin {"cpu_temp_c", "fuel_level_pct", "battery_soc_pct"}
      PROVE  P[c].value = Centre[c]
  BY <1>2, <1>6 DEF Level
<1>7. "cpu_temp_c" \in Channels => P["cpu_temp_c"].value = 580 + w
  <2>1. "cpu_temp_c" \in Channels => P["cpu_temp_c"].value = Centre["cpu_temp_c"] + w
    BY <1>2 DEF Level
  <2>2. Centre["cpu_temp_c"] = 580
    BY DEF Centre, AllChannels
  <2>3. QED
    BY <2>1, <2>2
<1>8. /\ "bus_voltage_v" \in Channels => P["bus_voltage_v"].value = 272
      /\ "hydraulic_pressure_pct" \in Channels => P["hydraulic_pressure_pct"].value = 940
  <2>1. Centre["bus_voltage_v"] = 272 /\ Centre["hydraulic_pressure_pct"] = 940
    BY DEF Centre, AllChannels
  <2>2. QED
    BY <1>6, <2>1
<1>9. "fuel_level_pct" \in Channels => (P["fuel_level_pct"].value < 200 <=> LowFuel(e))
  <2>1. "fuel_level_pct" \in Channels
          => P["fuel_level_pct"].value = Drained(Centre["fuel_level_pct"], FuelRate, e)
    BY <1>2 DEF Level
  <2>2. Centre["fuel_level_pct"] = 780
    BY DEF Centre, AllChannels
  <2>3. QED
    BY <2>1, <2>2, DrainLimits DEF LowFuel
<1>10. "battery_soc_pct" \in Channels => (P["battery_soc_pct"].value < 250 <=> LowBattery(e))
  <2> DEFINE left == Drained(940, BatteryRate, e)
             level == IF left < 0 THEN 0 ELSE left
  <2>1. "battery_soc_pct" \in Channels => P["battery_soc_pct"].value = level
    <3>1. Centre["battery_soc_pct"] = 940
      BY DEF Centre, AllChannels
    <3>2. Level("battery_soc_pct", w, e) = level
      BY <3>1 DEF Level
    <3> HIDE DEF left, level
    <3>3. QED
      BY <1>2, <3>2
  <2>2. left < 250 <=> BatteryRate * e > 690 * 1000
    BY DrainLimits
  <2>3. left \in Int
    <3> DEFINE y == BatteryRate * e
    <3>1. y \in Int
      BY TimingAssumption
    <3> HIDE DEF y
    <3>2. 940 + (-y) \div 1000 \in Int
      BY <3>1
    <3>3. QED
      BY <3>2 DEF Drained, y
  <2> HIDE DEF left
  <2>4. level < 250 <=> left < 250
    BY <2>3
  <2> HIDE DEF level
  <2>5. QED
    BY <2>1, <2>2, <2>4 DEF LowBattery
<1>11. Thresholds(P) = (IF LowFuel(e) THEN {FuelReport} ELSE {})
  <2>1. /\ ReportIf(P, "bus_voltage_v", LAMBDA v : v < 230, "NXD-PWR-101", Warning) = {}
        /\ ReportIf(P, "bus_voltage_v", LAMBDA v : v > 295, "NXD-PWR-102", Fault) = {}
    BY <1>1, <1>8 DEF ReportIf
  <2>2. /\ ReportIf(P, "cpu_temp_c", LAMBDA v : v > 800 /\ v < 950, "NXD-CMP-201", Warning) = {}
        /\ ReportIf(P, "cpu_temp_c", LAMBDA v : v >= 950, "NXD-CMP-201", Fault) = {}
    BY <1>1, <1>3, <1>7 DEF ReportIf
  <2>3. /\ ReportIf(P, "hydraulic_pressure_pct", LAMBDA v : 450 <= v /\ v < 700,
                    "NXD-HYD-401", Warning) = {}
        /\ ReportIf(P, "hydraulic_pressure_pct", LAMBDA v : v < 450, "NXD-HYD-401", Fault) = {}
    BY <1>1, <1>8 DEF ReportIf
  <2>4. ReportIf(P, "fuel_level_pct", LAMBDA v : v < 200, "NXD-FUL-501", Warning)
          = (IF LowFuel(e) THEN {FuelReport} ELSE {})
    <3>1. CASE "fuel_level_pct" \in Channels
      <4>1. "fuel_level_pct" \in DOMAIN P /\ P["fuel_level_pct"].valid = TRUE
        BY <1>1, <1>2, <3>1
      <4>2. QED
        BY <4>1, <1>9, <3>1 DEF ReportIf, FuelReport
    <3>2. CASE "fuel_level_pct" \notin Channels
      BY <1>1, <3>2 DEF ReportIf, LowFuel
    <3>3. QED
      BY <3>1, <3>2
  <2>5. QED
    BY <2>1, <2>2, <2>3, <2>4 DEF Thresholds
<1>12. ASSUME NEW q \in PlatformRules[p], q.channel \in Channels, q.channel # "battery_soc_pct"
       PROVE  ~(P[q.channel].value < q.limit)
  <2>1. /\ q.channel \in { "jet_engine_core_pct", "hydraulic_pressure_pct", "prop_rpm_pct",
                            "turboprop_torque_pct", "rotor_rpm_pct",
                            "link_quality_pct", "nav_quality_pct" }
        /\ q.limit \in Int /\ q.limit <= Centre[q.channel] /\ Centre[q.channel] \in Int
    BY <1>12 DEF PlatformRules, PlatformIds, Rule, Centre, AllChannels
  <2>2. P[q.channel].value = Centre[q.channel]
    BY <1>6, <1>12, <2>1
  <2>3. QED
    BY <2>1, <2>2
<1> DEFINE Found(q) ==
             ReportIf(P, q.channel, LAMBDA v : v < q.limit, q.code, RuleSeverity(q))
           U == Rule("NXP-UAV-701", "battery_soc_pct", 250, "warning")
<1>13. ASSUME NEW q \in PlatformRules[p], q.channel # "battery_soc_pct"
       PROVE  Found(q) = {}
  BY <1>1, <1>12, <1>13 DEF ReportIf
<1>14. ASSUME NEW q \in PlatformRules[p], q.channel = "battery_soc_pct"
       PROVE  q = U /\ p = "generic-uav"
  BY <1>14 DEF PlatformRules, PlatformIds, Rule
<1>15. p = "generic-uav" => U \in PlatformRules[p]
  BY DEF PlatformRules, PlatformIds
<1>16. Found(U) = (IF LowBattery(e) THEN {BatteryReport} ELSE {})
  <2>1. /\ U.channel = "battery_soc_pct" /\ U.limit = 250 /\ U.code = "NXP-UAV-701"
        /\ RuleSeverity(U) = Warning
    BY DEF Rule, RuleSeverity
  <2> HIDE DEF U
  <2>2. CASE "battery_soc_pct" \in Channels
    <3>1. "battery_soc_pct" \in DOMAIN P /\ P["battery_soc_pct"].valid = TRUE
      BY <1>1, <1>2, <2>2
    <3>2. QED
      BY <3>1, <1>10, <2>1, <2>2 DEF ReportIf, BatteryReport
  <2>3. CASE "battery_soc_pct" \notin Channels
    BY <1>1, <2>1, <2>3 DEF ReportIf, LowBattery
  <2>4. QED
    BY <2>2, <2>3
<1>17. U.code = "NXP-UAV-701"
  BY DEF Rule
<1> HIDE DEF U, Found
<1>18. ASSUME NEW F, "NXP-UAV-701" \notin Codes(F)
       PROVE  Augment(p, P, F)
                = F \cup (IF LowBattery(e) /\ p = "generic-uav" THEN {BatteryReport} ELSE {})
  <2> DEFINE Q == {q \in PlatformRules[p] : q.code \notin Codes(F)}
  <2>1. Augment(p, P, F) = F \cup UNION {Found(q) : q \in Q}
    BY DEF Augment, Found
  <2>2. CASE p = "generic-uav"
    <3>1. U \in Q
      BY <1>15, <1>17, <1>18, <2>2
    <3>2. \A q \in Q : q = U \/ Found(q) = {}
      BY <1>13, <1>14
    <3>3. UNION {Found(q) : q \in Q} = Found(U)
      BY <3>1, <3>2
    <3>4. QED
      BY <1>16, <2>1, <2>2, <3>3
  <2>3. CASE p # "generic-uav"
    <3>1. \A q \in Q : Found(q) = {}
      BY <1>13, <1>14, <2>3
    <3>2. UNION {Found(q) : q \in Q} = {}
      BY <3>1
    <3>3. QED
      BY <2>1, <2>3, <3>2
  <2>4. QED
    BY <2>2, <2>3
<1>19. QED
  BY <1>5, <1>11, <1>18

(* The score of findings that are all warnings, at most two of them.       *)
LEMMA WarningsScore ==
  ASSUME NEW R, \A r \in R : r.severity = Warning,
         NEW a, NEW c, Codes(R) \subseteq {a, c}
  PROVE  Score(R) = 100 - 10 * Cardinality(Codes(R))
<1>1. ASSUME NEW k \in Codes(R)
      PROVE  SeverityOf(R, k) = Warning
  <2>1. {r.severity : r \in {q \in R : q.code = k}} = {Warning}
    BY DEF Codes
  <2>2. \A r \in R : r.code = k => r.severity <= Warning
    BY DEF Warning
  <2>3. QED
    BY <2>1, <2>2 DEF SeverityOf
<1>2. Warning # Fault /\ Warning # Advisory
  BY DEF Warning, Fault, Advisory
<1>3. CountOf(R, Fault) = 0 /\ CountOf(R, Advisory) = 0
  <2>1. {k \in Codes(R) : SeverityOf(R, k) = Fault} = {}
    BY <1>1, <1>2
  <2>2. {k \in Codes(R) : SeverityOf(R, k) = Advisory} = {}
    BY <1>1, <1>2
  <2>3. QED
    BY <2>1, <2>2, FS_EmptySet DEF CountOf
<1>4. CountOf(R, Warning) = Cardinality(Codes(R))
  <2>1. {k \in Codes(R) : SeverityOf(R, k) = Warning} = Codes(R)
    BY <1>1
  <2>2. QED
    BY <2>1 DEF CountOf
<1>5. Cardinality(Codes(R)) \in 0..2
  <2>1. IsFiniteSet({a}) /\ Cardinality({a}) = 1
    BY FS_Singleton
  <2>2. IsFiniteSet({a} \cup {c}) /\ Cardinality({a} \cup {c}) \in 1..2
    BY <2>1, FS_AddElement
  <2>3. {a, c} = {a} \cup {c}
    OBVIOUS
  <2> DEFINE x == Cardinality(Codes(R))
             y == Cardinality({a, c})
  <2>4. y \in 1..2
    BY <2>2, <2>3
  <2>5. x \in Nat /\ x <= y
    BY <2>2, <2>3, FS_Subset, FS_CardinalityType
  <2> HIDE DEF x, y
  <2>6. x \in 0..2
    BY <2>4, <2>5
  <2>7. QED
    BY <2>6 DEF x
<1>6. QED
  BY <1>3, <1>4, <1>5 DEF Score

(* A nominal scan reports what has drained, whatever was wrong before.     *)
THEOREM DrainsTheorem == Spec => NominalScanFindsDrainsOnly
<1> DEFINE low == (IF FuelIsLow THEN {"NXD-FUL-501"} ELSE {})
                  \cup (IF BatteryIsLow /\ platform = "generic-uav"
                        THEN {"NXP-UAV-701"} ELSE {})
<1>1. Inv /\ Faults /\ [Next]_vars =>
        [ /\ RunDiagnosticScan /\ snap = SnapshotOf(lab)
          /\ lab.scenario = "nominal" /\ lab.training = {}
          => /\ Codes(diag'.reports) = low
             /\ Score(diag'.reports) = 100 - 10 * Cardinality(low) ]_vars
  <2> SUFFICES ASSUME Inv, Faults, RunDiagnosticScan, snap = SnapshotOf(lab),
                      lab.scenario = "nominal", lab.training = {}
               PROVE  /\ Codes(diag'.reports) = low
                      /\ Score(diag'.reports) = 100 - 10 * Cardinality(low)
    OBVIOUS
  <2> DEFINE F == Analyze(snap.scenario, snap.tick, snap.sensors, snap.issues, lab.frames)
             A == IF FuelIsLow THEN {FuelReport} ELSE {}
             B == IF BatteryIsLow /\ platform = "generic-uav" THEN {BatteryReport} ELSE {}
  <2>1. diag'.reports = Augment(platform, snap.sensors, F)
    BY DEF RunDiagnosticScan
  <2>2. /\ LabInv(lab) /\ lab.tick > 0 /\ platform \in PlatformIds /\ lab.elapsed \in Nat
        /\ snap.sensors = lab.bus /\ snap.issues = Issues(lab.bus) /\ snap.scenario = "nominal"
    BY DEF Inv, ScreenInv, SnapshotOf, LabInv, LabType
  <2>3. PICK b \in Bus, w \in Waves : lab.bus = Publish(b, w, lab.elapsed)
    BY DEF Faults, FaultsInForce, PublishedUnlessFaulty
  <2>4. Issues(lab.bus) = {}
    BY <2>2, <2>3, NoFaultsNoIssues
  <2>5. /\ InvalidChannels(lab.bus) = {} /\ Thresholds(lab.bus) = A
        /\ \A G : "NXP-UAV-701" \notin Codes(G) => Augment(platform, lab.bus, G) = G \cup B
    <3>1. (LowFuel(lab.elapsed) <=> FuelIsLow) /\ (LowBattery(lab.elapsed) <=> BatteryIsLow)
      BY DEF FuelIsLow, BatteryIsLow, LowFuel, LowBattery
    <3> DEFINE P == lab.bus
               e == lab.elapsed
    <3>2. P = Publish(b, w, e) /\ e \in Nat /\ platform \in PlatformIds
      BY <2>2, <2>3
    <3> HIDE DEF P, e
    <3>3. /\ InvalidChannels(P) = {}
          /\ Thresholds(P) = (IF LowFuel(e) THEN {FuelReport} ELSE {})
          /\ \A G : "NXP-UAV-701" \notin Codes(G) =>
               Augment(platform, P, G)
                 = G \cup (IF LowBattery(e) /\ platform = "generic-uav"
                           THEN {BatteryReport} ELSE {})
      BY <3>2, NominalReports
    <3>4. QED
      BY <3>1, <3>3 DEF P, e
  <2>6. HealthIssues({}) = {} /\ Recorder(lab.frames, snap.tick) = {}
    BY <2>2, RecorderHolds DEF HealthIssues
  <2>7. \A G : ScenarioContext("nominal", G) = {}
    BY DEF ScenarioContext
  <2> HIDE DEF A, B
  <2>8. F = A
    BY <2>2, <2>4, <2>5, <2>6, <2>7 DEF Analyze
  <2> HIDE DEF F
  <2>9. /\ Codes(A) = (IF FuelIsLow THEN {"NXD-FUL-501"} ELSE {})
        /\ Codes(B) = (IF BatteryIsLow /\ platform = "generic-uav" THEN {"NXP-UAV-701"} ELSE {})
    <3>1. FuelReport.code = "NXD-FUL-501" /\ BatteryReport.code = "NXP-UAV-701"
      BY DEF FuelReport, BatteryReport, Report
    <3>2. QED
      BY <3>1 DEF A, B, Codes
  <2>10. diag'.reports = A \cup B
    BY <2>1, <2>2, <2>5, <2>8, <2>9
  <2>11. Codes(diag'.reports) = low
    BY <2>9, <2>10, CodesOfUnion
  <2>12. \A r \in A \cup B : r.severity = Warning
    BY DEF A, B, FuelReport, BatteryReport, Report
  <2>13. low \subseteq {"NXD-FUL-501", "NXP-UAV-701"}
    OBVIOUS
  <2> HIDE DEF low
  <2>14. Score(diag'.reports) = 100 - 10 * Cardinality(low)
    BY <2>10, <2>11, <2>12, <2>13, WarningsScore
  <2>15. QED
    BY <2>11, <2>14
<1>2. QED
  BY <1>1, Invariance, FaultsInvariant, PTL DEF Spec, NominalScanFindsDrainsOnly

------------------------------------------------------------------------------
(* The issues on screen are those of the samples beside them, or none.     *)
LEMMA IssuesOnScreen ==
  ASSUME Inv
  PROVE  snap.issues \subseteq Issues(snap.sensors)
<1>1. CASE snap = SnapshotOf(lab)
  BY <1>1 DEF SnapshotOf
<1>2. ASSUME NEW i \in 0..(Len(lab.frames) - 1), snap = FrameSnapshot(lab, snap, i)
      PROVE  snap.issues = {}
  <2>1. snap \in Snapshot
    BY DEF Inv, ScreenInv
  <2>2. FrameSnapshot(lab, snap, i).issues = {}
    BY <2>1 DEF FrameSnapshot, Snapshot
  <2>3. QED
    BY <1>2, <2>2
<1>3. QED
  BY <1>1, <1>2 DEF Inv, ScreenInv, ShowsSession

(* What an issue says of the bus it was found on.                          *)
LEMMA IssueMeans ==
  ASSUME NEW b \in Bus, NEW s \in Issues(b)
  PROVE  \/ s \in DOMAIN b /\ ~b[s].valid
         \/ /\ s = "compute" /\ "cpu_temp_c" \in DOMAIN b
            /\ b["cpu_temp_c"].valid /\ b["cpu_temp_c"].value > 850
         \/ /\ s = "power" /\ "bus_voltage_v" \in DOMAIN b /\ b["bus_voltage_v"].valid
            /\ (b["bus_voltage_v"].value < 220 \/ b["bus_voltage_v"].value > 300)
BY DEF Issues

(* Subsystems that are no channels, and the nodes two of them have.        *)
LEMMA NodesAndChannels ==
  ASSUME NEW p \in PlatformIds, NEW node \in TwinTopology[p]
  PROVE  /\ node.id \notin AllChannels
         /\ "compute" \notin node.channels /\ "power" \notin node.channels
         /\ node.id = "compute" => "cpu_temp_c" \in node.channels
         /\ node.id = "power" => "bus_voltage_v" \in node.channels
<1> DEFINE Nodes ==
      { Node("power", {"bus_voltage_v"}), Node("compute", {"cpu_temp_c"}),
        Node("flight_sensors", {"altitude_m", "airspeed_kph", "imu_pitch_deg", "imu_roll_deg"}),
        Node("hydraulics", {"hydraulic_pressure_pct"}), Node("fuel", {"fuel_level_pct"}),
        Node("propulsion", {"jet_engine_core_pct"}),
        Node("propulsion", {"turboprop_torque_pct", "prop_rpm_pct"}),
        Node("rotor", {"rotor_rpm_pct"}), Node("energy", {"battery_soc_pct"}),
        Node("datalink", {"link_quality_pct"}), Node("navigation", {"nav_quality_pct"}) }
<1>1. node \in Nodes
  BY DEF TwinTopology, PlatformIds, CommonNodes, Hydraulics, Fuel
<1>2. QED
  BY <1>1 DEF Node, AllChannels

(* The engine's limits are inside those of health.                         *)
LEMMA ThresholdsCoverHealth ==
  ASSUME NEW b \in Bus
  PROVE  /\ ("cpu_temp_c" \in DOMAIN b /\ b["cpu_temp_c"].valid /\ b["cpu_temp_c"].value > 850)
              => \E r \in Thresholds(b) : r.key = "cpu_temp_c" /\ r.severity >= Warning
         /\ ( /\ "bus_voltage_v" \in DOMAIN b /\ b["bus_voltage_v"].valid
              /\ (b["bus_voltage_v"].value < 220 \/ b["bus_voltage_v"].value > 300) )
              => \E r \in Thresholds(b) : r.key = "bus_voltage_v" /\ r.severity >= Warning
<1>1. \A c \in DOMAIN b : b[c].value \in Int
  BY DEF Bus, Sample
<1>2. ASSUME "cpu_temp_c" \in DOMAIN b, b["cpu_temp_c"].valid, b["cpu_temp_c"].value > 850
      PROVE  \E r \in Thresholds(b) : r.key = "cpu_temp_c" /\ r.severity >= Warning
  <2> DEFINE r(severity) == Report("NXD-CMP-201", severity, "cpu_temp_c")
  <2>1. r(Warning) \in Thresholds(b) \/ r(Fault) \in Thresholds(b)
    BY <1>1, <1>2 DEF Thresholds, ReportIf
  <2>2. \A severity : r(severity).key = "cpu_temp_c" /\ r(severity).severity = severity
    BY DEF Report
  <2>3. Warning >= Warning /\ Fault >= Warning
    BY DEF Warning, Fault
  <2> HIDE DEF r
  <2>4. QED
    BY <2>1, <2>2, <2>3
<1>3. ASSUME "bus_voltage_v" \in DOMAIN b, b["bus_voltage_v"].valid,
             b["bus_voltage_v"].value < 220 \/ b["bus_voltage_v"].value > 300
      PROVE  \E r \in Thresholds(b) : r.key = "bus_voltage_v" /\ r.severity >= Warning
  <2> DEFINE low == Report("NXD-PWR-101", Warning, "bus_voltage_v")
             high == Report("NXD-PWR-102", Fault, "bus_voltage_v")
  <2>1. low \in Thresholds(b) \/ high \in Thresholds(b)
    BY <1>1, <1>3 DEF Thresholds, ReportIf
  <2>2. /\ low.key = "bus_voltage_v" /\ low.severity >= Warning
        /\ high.key = "bus_voltage_v" /\ high.severity >= Warning
    BY DEF Report, Warning, Fault
  <2> HIDE DEF low, high
  <2>3. QED
    BY <2>1, <2>2
<1>4. QED
  BY <1>2, <1>3

(* Whatever the twin marks, a scan of the same screen has a reason for.    *)
THEOREM TwinTheorem == Spec => ScanExplainsTwin
<1> DEFINE Found(node, severity) ==
             \E r \in diag'.reports : r.key \in node.channels /\ r.severity >= severity
           State(node) == TwinState(node, snap.sensors, snap.issues)
<1>1. Inv /\ [Next]_vars =>
        [ RunDiagnosticScan =>
            \A node \in TwinTopology[platform] :
              node.channels \subseteq DOMAIN snap.sensors =>
                /\ State(node) = "DEGRADED" => Found(node, Warning)
                /\ State(node) = "FAULT" => Found(node, Fault) ]_vars
  <2> SUFFICES ASSUME Inv, RunDiagnosticScan, NEW node \in TwinTopology[platform],
                      node.channels \subseteq DOMAIN snap.sensors
               PROVE  /\ State(node) = "DEGRADED" => Found(node, Warning)
                      /\ State(node) = "FAULT" => Found(node, Fault)
    OBVIOUS
  <2> DEFINE b == snap.sensors
  <2>1. /\ platform \in PlatformIds /\ b \in Bus
        /\ \A s \in snap.issues : s \in Issues(b)
    BY IssuesOnScreen DEF Inv, ScreenInv, Snapshot
  <2>2. InvalidChannels(b) \cup Thresholds(b) \subseteq diag'.reports
    BY DEF RunDiagnosticScan, Augment, Analyze
  <2>3. DOMAIN b \subseteq AllChannels
    BY <2>1, ChannelsAssumption DEF Bus
  <2>4. ASSUME NEW c \in node.channels, ~b[c].valid
        PROVE  Found(node, Fault)
    <3> DEFINE r == Report(CodeForInvalidSensor(c), Fault, c)
    <3>1. r \in diag'.reports
      BY <2>2, <2>4 DEF InvalidChannels
    <3>2. r.key = c /\ r.severity >= Fault
      BY DEF Report, Fault
    <3> HIDE DEF r
    <3>3. QED
      BY <2>4, <3>1, <3>2
  <2>5. ASSUME State(node) = "FAULT"
        PROVE  Found(node, Fault)
    <3>1. CASE \E c \in Observed(node, b) : ~b[c].valid
      BY <2>4, <3>1 DEF Observed
    <3>2. ASSUME NEW s \in node.channels \cap snap.issues
          PROVE  ~b[s].valid
      BY <2>1, <3>2, IssueMeans, NodesAndChannels
    <3>3. QED
      BY <2>4, <2>5, <3>1, <3>2 DEF TwinState
  <2>6. ASSUME State(node) = "DEGRADED"
        PROVE  Found(node, Warning)
    <3>1. Observed(node, b) = node.channels
      BY DEF Observed
    <3>2. node.id \in snap.issues
      BY <2>6, <3>1 DEF TwinState
    <3>3. node.id \notin DOMAIN b
      BY <2>1, <2>3, NodesAndChannels
    <3>4. \E r \in Thresholds(b) : r.key \in node.channels /\ r.severity >= Warning
      BY <2>1, <3>2, <3>3, IssueMeans, NodesAndChannels, ThresholdsCoverHealth
    <3>5. QED
      BY <2>2, <3>4
  <2>7. QED
    BY <2>5, <2>6
<1>2. QED
  BY <1>1, Invariance, PTL DEF Spec, ScanExplainsTwin
==============================================================================
