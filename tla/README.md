# A formal model of NEXVARY Avionics Lab

NEXVARY Avionics Lab is a C++ training simulator: a deterministic avionics
simulation core, and a Qt cockpit that steps it, replays it, diagnoses it, and
shows public-flight and aerodrome data beside it.  This directory holds TLA+
modules for its stateful parts, TLC configurations that check them on small
instances, and TLAPS proofs of nearly all of the safety properties so checked.  `PROJECT.json` is
the index: components, runs, mutants, the lines each definition stands for,
findings, hazards and theorems.

    tlc -workers 2 -config lab_session.cfg MCLabSession     one run
    tlapm LabSessionProofs.tla                              one module's proofs

1. [Inventory](#1-inventory)
2. [Modules and how they correspond to the code](#2-modules-and-how-they-correspond-to-the-code)
3. [What the runs check](#3-what-the-runs-check)
4. [Bounds and fairness](#4-bounds-and-fairness)
5. [What is proved](#5-what-is-proved)
6. [Findings and observed departures](#6-findings-and-observed-departures)
7. [What is not modelled](#7-what-is-not-modelled)
8. [Plan](#8-plan)

Paths below are relative to the repository root (`src/` in `PROJECT.json`).

## 1. Inventory

There are no threads in this program.  Everything that is concurrent is an
order of handlers on the Qt GUI thread: a 250 ms timer (`qml/Main.qml:242`),
calls of the operator, and replies of the network, each run to its end before
the next.  Everything that survives the process is a file.

**Simulation core** (`src/app/AvionicsLab.cpp` and what it drives).
State: clock (tick, elapsed time), scenario, two fault injectors (scenario and
training), the sensor bus, alert table, recorder, event log, and a cached
number of active alerts.  Operations: `step`, `reset`, `setScenario`,
`applyTrainingFault`, `clearTrainingFaults`, `snapshot`.  One step calls nine
parts in a fixed order.
Hard: state of many parts that must stay in step over long sequences of calls
(a reset has seven parts to clear); samples that stay on the bus; a cached count
that decides what is logged.
Correct when: recorder, clock, alert history, cached count and log tell the
same story; faults leave nothing behind; neither injector masks the other; a
rising fault is alerted in the end.

**Cockpit bridge, training half** (`src/qt/CockpitBridge.cpp`,
`CockpitBridgePlatforms.cpp`, `CockpitBridgeDiagnostics.cpp`).
State: the lab, the snapshot on screen, replay mode, pause and index, active
platform, trend window, diagnostic summary and recurrence history, and rows
built from them.  Operations: the slots QML calls.
Hard: the screen is a copy, redrawn by whoever remembers to; the timer steps
between any two calls; operations that leave replay and then refuse their
argument.
Correct when: the screen is always of this session, live or a recorded frame;
replay never moves the lab; rows agree with what they were built from; scans
find what was injected, what a long session has drained, and nothing else.

**Diagnostic engine and history** (`src/diagnostics/DiagnosticEngine.cpp`,
`PlatformDiagnosticRules.cpp`, `DiagnosticHistory.cpp`).  Engine and rules are
functions of a snapshot, the recorder and the platform; the history keeps first and
last tick, scans and activity of every code, longer than the clock that dates it.

**Last-known-good caches** (`src/air_ops/PublicFlightProviderCache.cpp`,
`AerodromeProviderCache.cpp`).  State: the last accepted payload, a fallback
flag, a status line, and a file.  Operations: refresh, refresh failure, persist
(temporary file, remove, rename, or else copy), restore, clear.
Hard: crash between any two file-system calls; any of them may fail.
Correct when: a refused refresh never loses the good payload; PERSISTED is true
of the disk; a restart serves what was saved.

**Public flight feed** (`src/qt/CockpitBridgeFlightFeed.cpp`,
`src/air_ops/PublicFlightEnrichment.cpp`, `PublicFlightFeed.cpp`).  State: the
feed on the map, the enrichment cache, the position history with its file,
unanswered requests, three status lines.  Operations: import, fetch and reply of
feed and of provider, reset, restart.
Hard: replies without sequence numbers overtake imports and resets; feed and
provider arrive in either order; the same position is delivered many times; a
document names an aircraft twice, or a provider has two records of it.
Correct when: the status names the feed on the map; whatever the order, every
track shows what the current provider knows of it; the history has each moment
of an aircraft once, and the tracks of the map are in it.

**Aerodrome weather and runways** (`src/qt/CockpitBridgeAerodrome.cpp`,
`src/air_ops/AerodromeConditions.cpp`).  State: two caches with files, two
feeds on the pages, two status lines, unanswered requests.  Operations: fetch
and reply of each source, import, clear, restart.
Hard: replies after a clear; one status line for two sources; results of
removing files that nobody looks at; a row's age comes from the row, its
provider or the clock.
Correct when: pages show what the caches hold; status lines agree with page
and file; a row called STALE has expired; rows change only by a clear, or all
rows of a source together by a document of it that is accepted.

**Telemetry archive and session verifier** (`src/core/TelemetryArchive.cpp`,
`SessionVerifier.cpp`).  A text format with counts, a decoder, and two
inspections.  The program encodes archives for a checksum; decoding is offered
to the users of the class and exercised by its tests.
Correct when: an archive that lost, doubled, tore or exchanged lines is
refused, or both inspections find fault with what was read.

**Air-operations exchange** (`src/air_ops/AirOperationsIntegration.cpp`,
`src/qt/CockpitBridgeAirOps.cpp`).  A document of another system is
parsed into a snapshot that replaces the one on the page, or refused.
Correct when: a page shows one whole document, with no field of active control.

**Data-source page** (`dataSourceRows` in
`src/qt/CockpitBridgeForceManagement.cpp`, and the aerodrome counts it uses).
It keeps nothing: at any moment it reads what the handlers of the other
components left behind.
Hard: it decides by words in their status lines, and counts stations by a loop
of its own.
Correct when: what it calls live is, and its numbers are those of the tables.

**Command-line program and its documents** (`src/main.cpp`,
`src/config/RunProfile.cpp`, the writers of `src/io`, `src/report` and
`src/diagnostics`).  State: options, the ticks simulated, the files.  One
invocation reads options and perhaps a profile, lists, inspects or simulates,
and after the last tick writes up to six documents.
Hard: each is written in place, one after the other; any may fail; a process
may be killed at any point; documents may go to the same file, or over the
profile they came from.
Correct when: it touches no file before its last tick, writes in the order it
promises, stops at the first failure it sees, and damages no file but the one
it is at.

**Diagnostic casebook and workflow** (`src/diagnostics/DiagnosticCasebook.cpp`,
`DiagnosticWorkflow.cpp`).  State: case records in a file that is read and
written as a whole, and a copy of them in memory.  Operations: read, transition,
write.
Hard: copies get old; the file is rewritten in place, and anybody edits it.
Correct when: a case that is called closed was isolated and verified.

**Digital twin.**  No state: on every redraw each subsystem of the platform is
UNKNOWN, NOMINAL, DEGRADED or FAULT from the samples and issues on screen.
Hard: a replayed frame is shown in a copy of the live snapshot.  Correct when: it
marks nothing that a scan of the same screen has no finding for.

**Other parts**: diagnostic comparator; trend analyser; unified
timeline; campaign runner; plugin registry; watchdog; force-management and
readiness pages; locale and presentation; the release manifest; the Qt entry
point.  Section 7 says why they are left out.

**Interactions.**  The bridge owns the lab and calls it; the lab knows nothing
of the bridge.  A diagnostic scan reads the *screen* for samples and issues but
the *lab* for the recorder, which differ in replay.  Feed, caches, history and
archive meet only in the bridge.  Status lines are read back by the data-source
page, which decides by words in them.  The command-line program drives a lab of
its own; it meets the casebook only through a file.

The hazards of each part, with their lines, are in `PROJECT.json` under
"hazards".

## 2. Modules and how they correspond to the code

| Module | Stands for | Kind |
|---|---|---|
| `PlatformCatalog` | platforms, offered presets, training faults, platform rules | constant tables |
| `AvionicsLab` | `AvionicsLab` and the nine parts it drives | operators from a lab to a lab |
| `LabSession` | any sequence of calls of one lab | state machine |
| `AvionicsLabProofs` | | lemmas about the operations of the lab |
| `LabSessionProofs` | | theorems |
| `DiagnosticEngine` | `analyze`, `augment`, score | operators |
| `DigitalTwin` | the states on the twin page | operators |
| `CockpitBridge` | the training half of the bridge, with its own lab | state machine over the same lab |
| `CockpitBridgeProofs` | | theorems |
| `LastKnownGood` | what a last-known-good cache promises | abstract specification |
| `LastGoodCache` | the in-memory half of both caches | operators |
| `ProviderCache` | a cache and its file, a file-system call at a time | state machine implementing `LastKnownGood` |
| `ProviderCacheProofs` | | theorems, refinement included |
| `PublicFlight` | the flight half of the bridge, its parsers included | state machine over a `LastGoodCache` |
| `PublicFlightProofs` | | theorems |
| `Aerodrome` | the aerodrome half of the bridge, its parsers included | state machine over two `LastGoodCache`s |
| `AirOperations` | import, refusal, reset | state machine |
| `DataSources` | the data-source page | composition of `Aerodrome` and `AirOperations` |
| `DataSourcesProofs` | | theorems about the pages of `Aerodrome` and of `DataSources` |
| `TelemetryArchive` | encoder, damage, decoder, inspections | state machine |
| `TelemetryArchiveProofs` | | theorems |
| `DiagnosticCases` | casebook and workflow | actions on files and records |
| `TrainingRun` | the command-line program, a file operation at a time | state machine, composed with `DiagnosticCases` |
| `TrainingRunProofs` | | theorems |
| `MC...` | the small instances for TLC | |

Operators named for a plausible mistake (`ResetKeepsRecorder`,
`SeekReplayWithoutRedraw`, ...) stand before the definition they are a wrong
version of.  No specification uses them: they are the mutants listed in
`PROJECT.json`, one per checked property, and each makes its property fail.

**`AvionicsLab`.**  The object is a record whose fields are its members; each
public operation is an operator returning the record it leaves: `Stepped`,
`WasReset`, `WithScenario`, `WithTrainingFault`, `WithoutTrainingFaults`.
`Stepped` keeps the order of the code: advance, publish, scenario faults,
training faults, health, alerts, log, frame.  Values are integers in tenths.
Wave forms: a swinging channel sits at its centre, since no swing reaches a
threshold, but for `cpu_temp_c`, to which the thermal fault is added: its phase is any
member of `Waves`.  Fuel and battery drain with the elapsed time (`Level`), as they
do cross limits.  The event log keeps kinds of events, not texts.

**`LabSession`** chooses an operation and its argument at every step.

**`CockpitBridge`** has one action per slot.  A slot that makes several calls
(`setScenario` sets, resets, steps and redraws) is one action composing them.
The early returns that leave half of the slot done (`applyTrainingFault` of a
preset that is not offered, `setScenario` of an unknown name) are branches of
their action.  `snap` is the snapshot on screen; `shown` is the rest of what a
redraw leaves, the replay banner and the span of the trend rows.

**`DiagnosticEngine`** returns sets of reports (code, severity, evidence); those
of one code are one finding of the highest severity.  Texts, confidence,
priority and order are left out.

**`ProviderCache`** splits `persistLastGood` into the calls it makes (open,
write, remove, rename, copy, tidy), with `Crash` between any two and every one
allowed to fail.  A content the parser refuses is `Garbage`, whatever the
reason; a half-written file is `Garbage` too.  Completed writes are not
reordered: power loss is not modelled.  The bridge modules take the possible
outcomes of a save from here in one step, since nothing else runs meanwhile.

**`PublicFlight`** and **`Aerodrome`** have one action per slot and one per
reply; unanswered requests are counted, and a reply answers any of them at any
later time, or the failure of it.  Their inputs are documents: sequences of rows,
good and bad, from which the operators named for the parsers (`Parsed`, `Feed`)
keep some, up to a limit, and compute what is shown.  `feed.tracks`,
`shown[k].weather` and `shown[k].runways` are functions on the *places* of the
rows that were kept: the code's vector without its renumbering, so that no
operator has to fold over rows.

In `PublicFlight` a track is the aircraft and call sign it names, its position and last
contact, and the source of every field; a record of a provider is what it is for
and the fields it fills.  `Apply` finds a record by aircraft, else by call sign,
in each index the first one; provenance is by group, as in the code.  `history`
is the set of points (aircraft, position, epoch), `Window` what a page asks of it.

In `Aerodrome` a row is its station and the times it carries; `CachedAt` and
`ExpiresAt` are the fallbacks from row to provider to clock, `Normalized` the
label that is given once, when the payload is parsed.  A status line is named for
what it says; a refusal also repeats an error text of the network or of the JSON
parser, which may have any words in it.  `errorWords` says whether the text in the
weather line has one of those the data-source page looks for.

**`AirOperations`** parses a document into a snapshot of its own and replaces the
one shown only when all of it is good.  Counts are recomputed from the rows, but
for the observations, which are the document's own number, read as an unsigned
one (`Modulus`).

**`DataSources`** adds to the variables of `Aerodrome` those of an instance of
`AirOperations`; a step is a step of one of them.  The weather row is a state function.

**`TelemetryArchive`** records a session, encodes it a frame at a time, lets a
number of accidents happen to its lines, and decodes the result a line at a time.
`archive` is the file, `at` the line that is read next, `open` the frame whose
sensors are being read.  `written` counts the encoded frames, and `exchanged`
remembers whether an accident exchanged lines, which a property goes by.  A frame
is encoded in one step, header and footer are steps of their own: nothing else
looks at the text while `encode` builds it, and the split lets an invariant speak
of the first `written` frames where a fold over the recording would hide them.

**`DiagnosticCases`** has the state of the casebook files and of the records
somebody has read, and one action for reading, transition, writing and a
mistyping edit.  A file is a document with its kind, or nothing, or `Garbage`:
empty or cut short, which no parser accepts.  The notes of a record are the names of the states it entered, in
order, which is what the properties go by.

**`TrainingRun`** has one action for each way `main` can end or go on: options
out of range, a bad profile, `--list-scenarios`, `--inspect-json`, an unknown scenario,
a simulation; then one per tick, per file opened, per file written, and the
return.  Opening truncates.  A write that fails is noticed, but no writer looks at
its stream again once it has been closed: what the stream still holds, all of a
short document or the end of a long one, can be lost unseen, and `lost` remembers
of which outputs it was.  `Kill` ends the process anywhere.
Between invocations `WorkOnCases` lets somebody read, change, write and mistype
casebooks, with copies read before a run and written back after it.  What a
document says is its kind, scenario, ticks and trend window: the lab that
computes it is deterministic.

## 3. What the runs check

| Run | Distinct states | Properties | Shows |
|---|---|---|---|
| `lab_session` | 95 030 | `RecorderMatchesClock` `AlertHistoryIsRecorded` `SnapshotIsConsistent` `LogFollowsTelemetry` `QuietStepIsNominal` `TrainingFaultsMaskNothing` `ThermalRiseIsAlerted` | the lab's parts agree in any order of calls; faults end with their cause; a thermal rise is alerted |
| `bridge_session` | 94 676 | `ReplayShowsRecordedFrame` `DisplayIsOfThisSession` `TrendsAreCurrent` `HistoryAgreesWithSummary` `RecorderIsNeverDoubted` `ReplayLeavesLabAlone` `ScanFindsInjectedFaults` `NominalScanFindsDrainsOnly` `ScanExplainsTwin` `StaleDisplayHeals` | screen, replay, scans, twin and history against the lab |
| `cache_persist` | 432 | `PersistedIsOnDisk` `RunningProcessServesLastGood` `KeepsLastKnownGood` | cache and file implement the abstract promise, crashes included |
| `flight_session` | 301 260 | `StatusNamesFeed` `EnrichmentIsApplied` `OnePositionPerMoment` `TracksAreInHistory` `RecentHistoryIsKept` | any order of feeds, providers, late replies, failed saves and restarts |
| `sources_session` | 367 216 | `ShownIsLastGood` `StatusLinesMatchFeeds` `StaleRowsHaveExpired` `LiveWeatherIsLive` `RecordsAreRows` `OneWholeDocumentIsShown` `RowsChangeAsAWhole` | two weather sources, two files, late replies, clears, replays of another system, and the page that reports on them |
| `archive_damage` | 846 076 | `LossIsNoticed` `DamageIsNoticed` `IntactArchiveIsRead` `NothingIsSkipped` `DecodingEnds` | up to two accidents to any archive of up to two frames |
| `training_run` | 2 170 835 | `RunWritesInOrder` `ClosedCasesWereVerified` `NothingWrittenBeforeTheEnd` | invocations that fail or die anywhere, and work on the casebook between them |
| `lab_fail_observable` | | `InjectedFaultsAreVisible` | violated, see section 6 |
| `bridge_exit_to_live` | | `LeavingReplayShowsLive` | violated, see section 6 |
| `bridge_history_ticks` | | `HistoryTicksAreOrdered` | violated, see section 6 |
| `cache_crash` | | `LastGoodSurvivesCrash` | violated, see section 6 |
| `aerodrome_freshness` | | `FreshWasObservedRecently` | violated, see section 6 |

Type invariants are theorems (section 5) and take no run.  What each property says stands above its definition.  A few are worth a word:

- `AlertHistoryIsRecorded` recomputes first tick, last tick and activity of
  every alert from the recorded frames and compares: it fails for any drift
  between the alert table, the recorder and the thresholds.
- `LogFollowsTelemetry` reads the event log against the recording: since the last
  reset one rise for each frame with more issues than the frame before, one fall for
  each with fewer, and no other.  The code logs changes of a *number*, so an alert
  raised as another clears has no entry; that it is in the alert table is
  `AlertHistoryIsRecorded`.
- `TrainingFaultsMaskNothing` compares a step with the step the same lab would
  have taken without training faults.
- `DisplayIsOfThisSession` is what every redraw is for: a slot that changes the
  lab and forgets one shows a snapshot of a session that no longer exists.
- `RecorderIsNeverDoubted` relates the bridge's sequences of resets, steps and
  replays to the engine's integrity rules: no false alarm about the recorder.
- `NominalScanFindsDrainsOnly` says exactly what a nominal scan finds: low fuel, and on the
  UAV a low battery, from the moment on at which the elapsed time has drained them.
- `ScanExplainsTwin` compares two readings of one screen.  The twin page follows the
  health issues of the snapshot and its invalid samples, the scan has limits of
  its own and looks at the recorder too; replay redraws the twin from a frame
  and drops the issues.  Nothing the twin marks may be something a scan clears.
- `KeepsLastKnownGood` is a refinement: `active` is the payload in use, `saved`
  is what a restart would accept from the file, `up` whether the process runs.
  While it runs, no refused refresh and no failed save takes the payload away,
  and a restart serves exactly the saved copy.
- `EnrichmentIsApplied` says what each track has to show from the records of the
  provider in use, without the operators that put it there: a feed that came
  after the provider, a restored provider, and a second provider must all end in
  the same picture, and the counts of the status line must be of that picture.
- `TracksAreInHistory` relates the map to the window the page asks of the
  history, across restarts, refused feeds and lost history files.
- `LiveWeatherIsLive` and `RecordsAreRows` compare two pages: what the data-source
  page says of the aerodrome page, in its own words and by its own loops.
  `LiveWeatherIsLive` is about lines without a word of an error text: for METARs it is an
  equivalence, for licensed weather it says no more than that something was accepted since
  the start (section 6).
- `StatusLinesMatchFeeds` says of the weather line what holds of it: one that names the
  licensed source means no METARs and a licensed payload, not licensed weather.
- `RowsChangeAsAWhole` describes every change of the rows while the process runs: a clear, or
  an accepted document in place of all rows of its own kind.
- `RunWritesInOrder` describes the disk by the documents that were asked for: a
  prefix of them written, complete or cut short at the close that nobody checks, the next one
  perhaps damaged, all other files as they were, exit code 0 only when the streams took
  all of them, although two may share a file.
  `todo` holds the places in `Outputs` that are left, so a prefix is a set of places.
- `ClosedCasesWereVerified` holds of every copy of a case, in memory and on any
  file, although copies overwrite each other and state names are mistyped.
- `LossIsNoticed` says that what the decoder accepts is the recorded session, or
  both inspections find fault with it, after any number of lost, torn, doubled and
  added lines.  Where lines are exchanged it is true of two accidents
  (`DamageIsNoticed`) and of three no longer: the line of a frame changes places with
  the sensor before it, the two sensors that now meet change places, the line moves back,
  and the archive is well formed.  `ReadingsAtMostMove` says what holds then:
  an inspection finds the sequence broken, or all frames are there, in order, and at
  most readings have changed frames.
- `NothingIsSkipped` says that no line of an accepted archive was passed over: the
  frames that were decoded stand in it one after the other, and what is between
  them is blank.

## 4. Bounds and fairness

Every bound is a CONSTANT of its module or a set in an MC module.

- **Lab and bridge.** Scenario windows, of 15 to 35 ticks in the code, are
  constants scaled to begin and end within 4 (3) ticks, so that they interleave
  with every call; the thermal rate is scaled with them.  The drain rates
  are such that the limits of fuel and battery are both met exactly at tick 2 and passed
  at tick 3.  `lab_fail_observable`
  uses the real ones.  `MaxTicks` bounds the clock, `MaxEvents` the log and
  with it the operator's logged calls (four after the start, three in the bridge), `LastCall` the tick of the last
  call.  Every property relates at most two adjacent steps, or the recorder with
  the table built from it, and each case of a step (scenario on or off, training
  on or off, alert raised, kept, cleared, raised again) happens within 4 ticks.
  The channels are the two with thresholds, one that goes invalid, and those that
  a platform rule or an offered preset needs; in the bridge also the rest of the
  flight sensors, so that three or four subsystems of each twin are whole.  `MaxScans` is two: a finding is
  seen, and seen again or gone.
- **Caches.** Two payloads: an old and a new one.  The state space is finite
  without further bounds.
- **Flight.** Two aircraft, one in the demo and the feed; a document with a bad
  row, one without a position, an aircraft twice at a moment and a row beyond the
  limit (`MaxTracks` = 2), and a document that is refused for a bad row; two
  providers, one filling more than the other, with two records of one aircraft
  and of one call sign; three clock readings with a retention of one, so that a
  position is inside, on and beyond the boundary; one unanswered request of each
  kind, since handlers do not tell requests apart.
- **Aerodrome and data sources.** A METAR per clock reading with a bad row and a
  station twice; licensed documents with more rows than are kept and times of
  their own, with runways only, without a license, without a usable row;
  `MaxRows` = 2, and `Ttl` of one within three readings, so that a row is fresh, on
  the boundary and stale.  Nine replays of up to two tracks: one good, the others
  each bad in one way; unsigned counts of 4 bits for 64.
- **Archive.** Two frames of no, one or two sensors, three sorts of samples, two
  accidents: one to a line, and one that could hide it.  The theorems
  bound the number of frames nowhere, and of accidents only `DamageIsNoticed` does.
- **Training run.** Two invocations out of eight command lines, which between
  them go every way `main` can; up to three ticks (`ReadableTicks` = 2 for the
  frames that fit in 50 MiB, so that a session may be too long to inspect); one
  casebook file, cases of up to five notes, the length of the whole workflow;
  every tick of a transition is accepted, so one value does.

Fairness is assumed in three places.

- `FairSpec` of `LabSession`: the timer never stops calling `step`
  (`qml/Main.qml:242` is a repeating timer that is always running).  It is weak
  fairness of `Step` with its ENABLED written out, as TLC evaluates ENABLED of a
  step of the whole lab slowly.
- `FairSpec` of `CockpitBridge`: the same timer, of which only the live steps
  are needed; in replay the timer moves the cursor.
- `TelemetryArchive`: `decode` is one loop in one call, so once begun it goes on.

No fairness is assumed of the operator, the network, the disk or the clock.

`CHECK_DEADLOCK` is on everywhere: where a system may rest, a step of it (a
clear, a language change, a finished decoding, a casebook written again) is still
possible.

## 5. What is proved

Every invariant and action property of the lab, the bridge, the caches, the
flight feed, the aerodrome and data-source pages, the archive and the command-line
program is a theorem for every value of the constants.  `PROJECT.json` lists them.  The
bounds of the runs (`MaxTicks`, `MaxNow`, `MaxInFlight`, `MaxNotes`, ...) are
constants, too: no theorem depends on how large they are.

**`AvionicsLabProofs` and `LabSessionProofs`.**  Assumed: `ChannelsAssumption` (the
bus has the two channels health looks at) and `TimingAssumption` (the wave
stays within 2.5 degrees, the amplitude in the source; steps have a positive
length, drain rates are natural numbers).  The inductive invariant is `LabInv`.  That the alert table matches the
recording (`AlertsFollowFrames`) is kept by a step only if the table also
matches the bus, the last frame *is* the bus, and frames and clock have the same
length.  That the log follows the telemetry (`LogFollowsFrames`) needs the cached count to be the
number of issues in the last frame, and to be zero on a fresh bus: then one step adds one frame to
`Rises` or `Falls` exactly when it adds one entry (`AppendedEntries`, `AppendedFrames`).  `LabInv` is the conjunction of
these and the type.  `LastOfIsMember` (of several faults on a channel one has the highest
rank) types fault application; `SteppedInv` carries the invariant over a step,
`LoggedCallInv` over the calls, of which a reset starts from `EmptyLabInv`;
`NextInv` joins them, one step per action.

- `RecorderTheorem`, `AlertHistoryTheorem`, `SnapshotTheorem`, `LogTheorem`: the
  invariants, for every scenario window and rate and all inputs.
- `QuietTheorem`: from `NoFaultsNoIssues`, that a bus on which no fault was applied
  is within the thresholds of health for every wave allowed and any drain.
- `MaskTheorem`: from `TrainingFaultsOnlyAdd`, that the injector which runs last
  cannot take an alert away that the first one raises.

**`CockpitBridgeProofs`.**  Assumed besides: `SeeksAssumption` (indices and
windows are integers) and `PresetsAssumption` (the sensors of the presets are on
the bus).  The invariant has two parts.  `ScreenInv` holds `LabInv` of the lab on
screen and says that the snapshot is the lab's own or one of its frames under
the lab's scenario, in replay the frame of the index, and that trends span the
frames there are.  It has to say so for the lab *as it is*, which is what each
redraw re-establishes.  `DiagInv` ties history and rows to the summaries they came
from (`Agree`), and says that no finding doubts the recorder
(`RecorderHolds`: continuity follows from `LabInv`, whichever frame is scanned).

- `ReplayTheorem`, `DisplayTheorem`, `TrendsTheorem`, `HistoryTheorem`,
  `RecorderTheorem`, `ReplayIsReadOnly`, `TypeCorrect` follow.
- `ScanTheorem` and `DrainsTheorem` need a further invariant (`Faults`): the bus is what the
  engine generated with the training faults applied to it, these faults are
  presets that the active platform offers, and when nothing is wrong the bus was
  just published.  `OnePresetPerChannel` shows that no other fault covers an
  offered one, `FaultIsReported` that a rule, a sample or a channel reports it;
  `DrainLimits` that a level rounded down is below a limit when the elapsed time says so,
  and `NominalReports` that no other rule is met.
- `TwinTheorem` needs no more of the screen than `ScreenInv`: issues are those of
  the samples beside them, or none (`IssuesOnScreen`), and the limits the engine
  scans with lie inside those of health (`ThresholdsCoverHealth`).

**`ProviderCacheProofs`**, for every set of payloads (`None` and `Garbage`
outside it) and for caches that can and cannot be cleared:

- `Invariance`, `TypeCorrect`, `PersistedTheorem`.
- `ServesLastGoodTheorem`: once a payload was reported saved a running process has one, and
  (`OnlyAcceptedReplaces`) it changes only for one that a refresh accepts, or by a clear.
- `Refinement`: `Spec => KeepsLastKnownGood`, with the abstract payload in use
  mapped to `cache.payload` and the abstract saved copy to the file, if a
  restart would accept it, and `up` to the program counter not being "down".

Why a stronger invariant: between two calls of `persistLastGood` the temporary
file holds what the program counter says, and the cache a payload that was just
accepted (`SaveInProgress`); a process that is down holds nothing (`Down`).
Only with these does a rename save the payload in use, and the removal before
it map to `Lose`, which the promise allows only while a payload is at hand.

**`DataSourcesProofs`**, the aerodrome pages first.  Assumed: a document is two
sequences of rows with times, of which one without a station is not used
(`DocumentsAssumption`), the payloads are the documents a parser accepts, `Ttl` and `MaxNow` are positive.
`TypeOK`, `ShownIsLastGood` and `StatusLinesMatchFeeds` are inductive together and
not one by one: the status of a late reply is true only if the page has what the
cache has, and the label of a restored payload only if the file has a payload of
its own kind.  `TypeOK` says that every feed is `Feed(k, payload, t)` for a payload
and an earlier time; `StaleIsExpired` follows from it alone.  `StatusLinesMatch` is the
second of the three, `RowsAreReplaced` the action property.

`SourcesImplementAerodrome` shows that the composition behaves as `Aerodrome` on
its variables, so every theorem of the pages holds in it.

- `LiveIsLive` needs `LineInv`: METARs that are not on fallback and the lines that an answer
  leaves come together, but for a request that is out; NOT LOADED stands beside no licensed weather;
  and LICENSED WEATHER ACTIVE beside no licensed cache that was merely restored.
- `WholeDocuments` needs that the snapshot is the parse of *one* acceptable
  document (`ParsedInv`).
- `PageCountsRows` compares two ways of counting.  The page adds up stations; the
  table lists, of each feed, the first place of every station the other feed did
  not bring.  `FirstOfStation` finds that place by well-foundedness, for rows with a
  name, as every row that was kept has; `RowsAreStations` shows that from a row to
  its station is a bijection.

**`PublicFlightProofs`**, for every set of documents, records and tracks, every limit
and retention period.  The invariant adds to the type: a history has
one position per moment, and so has a history file that would be loaded; the
tracks on the map were recorded (`TracksWereRecorded`, without the upper end of
the window, as the clock only moves forward); `EnrichmentIsApplied` itself.
The last is inductive because enriching twice with one provider is enriching
once (`AppliedTwice`) and because `ApplyShows` proves it for any tracks.

- `StatusTheorem`, `EnrichmentTheorem`, `OnePositionTheorem`, `TracksTheorem`,
  `RecentTheorem`, `TypeCorrect`.  The assumption about the synthetic feed
  (`DemoAssumption`: its tracks have no contact time) is used by `TracksTheorem`,
  as a restart shows the synthetic feed without recording it.

**`TrainingRunProofs`.**  Assumed: there is no casebook that the program did not
write (`FilesAssumption`); a command line says of each output where it goes, or that it
does not (`InvocationsAssumption`); no exit code is the mark of a running process.

- `NothingWrittenTheorem` needs that outputs are opened at the last tick only
  (`OutputsFollowTicks`).
- `WritesTheorem`: `RunWritesInOrder` is not inductive, as it says that *some* prefix was
  written and a step has to go on from the one that was.  `OutputsInv` names it: the
  outputs asked for that are no longer in `todo`.  They stand before all that are left, and each
  file is settled with respect to them, but for the target of the next one, which is
  `Garbage` while it is open.  `OneMore` adds an output that may go to the file of an earlier
  one; `PlaceIsFirst` says that what is written next is the least place left.
- `ClosedTheorem` needs that every record anywhere, in memory, on disk and in the
  copy of the disk at the start of a run, has notes that tell its state
  (`NotesTell`): each active state after an isolation, VERIFYING as the last note of
  a case that is being verified.

**`TelemetryArchiveProofs`**, for every set of channels (finite), samples and frames,
any number of frames and any number of accidents.  Induction over a file is not
available, so each invariant describes the file by the places of its lines, as
functions whose existence a step preserves.

- `TypeCorrect`.  `DamagedLines` says what an accident is: each line left came from
  one that was there, is blank or torn, and unless lines were exchanged their order
  is that of their origins.
- `ReadInOrder` (`NothingIsSkipped`) from `ReadInv`: the decoded frames stand in the
  file one after the other (`Consumed`), and the decoder is between frames, or
  inside one of which the first sensors were read (`Partly`).  It is an invariant of
  the *reading*, whatever the file holds.
- `IntactIsRead` (`IntactArchiveIsRead`) from `IntactInv`: the lines of an archive to
  which nothing happened are those of the recording, in place (`Encoded`), no sensor line twice,
  and what was decoded is a prefix of what was recorded.  A frame's lines hold its
  sensors in an unknown order, and `SameFrame` shows that they still determine it; so a refusal can
  only be for a value that is not read (`SomeIllegible`).
- `LossNoticed` (`LossIsNoticed`) and `ReadingsStay` (`ReadingsAtMostMove`) from
  `OrderInv`: every line has a rank in the session, twice its frame's number and one more for
  sensors, and until lines are exchanged ranks do not fall.  The footer counts the recorded frames, so as
  many were decoded; if their sequence numbers grow they are 1, 2, ... (`GrowingIsCounting`),
  hence all of them; and where ranks do not fall, the sensors between two frames are the first one's.
- `DamageNoticed` (`DamageIsNoticed`) from `DamageInv`, which compares the file with the
  archive as it was encoded (`Original`), whatever the two accidents were.  Either the lines that are
  neither blank nor torn are those of the original, each once, and rearranged
  (`Rearranged`): after one accident at most one pair has changed order, after two no three
  lines are reversed.  Or they are not as many (`LiveCounted`: an exchange keeps their number).
  Or both accidents lost or doubled lines, which is `LossIsNoticed`.
  An accepted archive in sequence has as many, since its frames are laid out as large as in the
  original (`FramesLaid`, `SameBlocks`), so it is rearranged.  The header, the frames' lines and the footer
  tell where they come from (`FirstLines`).  If a sensor stood in another frame, then in the
  first such frame one stands that is from later, and its own stands later; with the next
  frame's line between them, these are three reversed lines (`BlocksInPlace`).
  Three exchanges can reverse three lines, which is why the property stops at two.

**Only model-checked.**

- Liveness (`ThermalRiseIsAlerted`, `StaleDisplayHeals`, `DecodingEnds`), which needs
  fairness and ENABLED, is out of the prover's reach.

## 6. Findings and observed departures

A violation run checks one property that a document or test of the repository
states, and TLC's counterexample shows the code departing from it.

- `lab_fail_observable`: `docs/ARCHITECTURE.md:22` promises that injected faults
  remain visible through health and alerts.  Apply `jet-engine-low`, step: the
  sample is low and valid, health looks at other channels, no alert is raised.
- `bridge_exit_to_live`: in replay, a preset that is not offered (or an unknown
  scenario) ends replay and returns without a redraw; the recorded frame stays
  as if live until the next timer step (`StaleDisplayHeals` shows that it does
  not stay longer).
- `bridge_history_ticks`: a finding is seen at tick 2, the lab is reset, the
  finding is seen at tick 1: its last tick precedes its first, and the list is
  sorted by last tick.
- `cache_crash`: the process ends after the old file is removed and before the
  new one is renamed; the next process finds nothing, although a payload was
  reported persisted and the temporary file holds one.
- `aerodrome_freshness`: a METAR restored from its file is stamped with the
  time of the restart, and shown FRESH however old the observation is.

More departures were met while modelling.  The models contain the behaviour, and
where a property would otherwise claim too much, its comment says what it leaves out.

- `setActivePlatform` empties the diagnostic summary and history but not the
  rows on the page (`src/qt/CockpitBridgePlatforms.cpp:7`): the old findings
  are listed beside the score of none until the next scan.
- Replay drops the health issues with the alerts (`src/qt/CockpitBridge.cpp:22`), so
  that the twin calls a recorded over-temperature NOMINAL; a scan of that frame
  reports it.  `ScanExplainsTwin` is therefore an implication.
- Enrichment names one source for all metadata of a track
  (`src/air_ops/PublicFlightEnrichment.cpp:209`): after a second provider that
  fills fewer fields, fields of the first stand under the second's name.
- The position history is truncated in place and reported persisted before its
  stream is closed (`src/air_ops/PublicFlightEnrichment.cpp:423`): a crash or
  a failed flush loses it.
- A row without a contact time is recorded at the moment of the clock, and can
  replace the position that another row of the document gave for that moment.
- When one alert clears at the tick at which another is raised, the number of active alerts
  does not change and the event log has neither (`src/app/AvionicsLab.cpp:7`).
- After a refused licensed refresh (`src/qt/CockpitBridgeAerodrome.cpp:317`) the
  weather line still says LICENSED WEATHER ACTIVE, and the data-source page calls
  the rows LIVE, while the cache is on fallback.
- After a licensed reply with runways only, which replaces licensed weather
  (`src/qt/CockpitBridgeAerodrome.cpp:331`), the weather line goes on saying LICENSED WEATHER
  ACTIVE, or STARTUP RESTORE, with a number of stations, although no row is left.
- The data-source page looks for the words ACTIVE and LOADED
  (`src/qt/CockpitBridgeForceManagement.cpp:137`), and NOT LOADED contains the
  second one.  `LiveIsLive` shows that the handlers never leave that line beside
  licensed rows.  A refusal repeats the error text of the network or of the JSON parser
  (`src/qt/CockpitBridgeAerodrome.cpp:229`, `src/air_ops/AerodromeProviderCache.cpp:201`):
  when the server's own words contain one of the two, METARs on fallback are LIVE.
- `weatherFor` finds the last of two rows of a station
  (`src/air_ops/AerodromeConditions.cpp:349`), the page lists the first.
- The archive does not contain its checksum (`src/core/TelemetryArchive.cpp:101`): a
  value changed into another well-formed one is accepted.
- A new run with the same casebook path replaces a closed case by a DETECTED one,
  and a case is named for the last tick only, so cases of different runs can have one name.
- A transition to the same state adds a note, to a closed case too, and takes any
  tick (`src/diagnostics/DiagnosticWorkflow.cpp:23`); a state that is not known is
  read as DETECTED, and a JSON document of another kind as an empty casebook
  (`src/diagnostics/DiagnosticCasebook.cpp:17`).
- Writers look at their streams before they close them (`src/report/LabReport.cpp:101`,
  `src/diagnostics/DiagnosticReport.cpp:33`, `src/io/SessionArchive.cpp:15`,
  `src/diagnostics/DiagnosticCasebook.cpp:58`): exit code 0 can come with any document
  cut short on disk, a short one empty.
- Fuel and battery drain for as long as a session lasts (`src/sim/ScenarioEngine.cpp:8`): after
  some 29 000 s of simulated time a nominal scan without training faults reports low fuel, on the
  UAV after some 23 000 s a low battery; the fuel level goes on below zero.
- The command line allows runs of 100 000 ticks, whose session file
  `--inspect-json` can refuse for its size.
- A bad profile makes `--list-scenarios` fail, as it is read first.

## 7. What is not modelled

- Wording, number formatting, layout, colours, translations, logging texts.
- JSON and CSV syntax: a content is a document or is refused.
- Wave forms beyond the one that can meet a threshold.
- The FNV checksum of sessions, and changes that turn a line of an archive into
  another well-formed one.
- The FRESH label of enriched rows and the synthetic RF spectrum, which change no
  state; ceilings and the other measured values of aerodrome rows.
- Power loss that reorders completed writes.
- Of the data-source page: the health column, the constant rows, and those that repeat
  a count and a status of one component (flight feed, lab, runway conditions,
  air-operations exchange), which other modules have properties of.
- Contents of reports and diagnostics: functions of the session.  Comparator and
  unified timeline: functions of finished results, used by tests only.
- Trend analyser: a function of frames by floating-point arithmetic; `CockpitBridge`
  models which frames it was computed from.  Of the digital twin, the counts and
  percentages, which follow from the states.
- Campaign runner: a loop over fresh labs, whose sequences of calls are among those
  of `LabSession`.
- Watchdog: two calls on a clock reading, used by its test only.  Plugin registry: a table
  filled once.  Force management and readiness: percentages of constant data.
- Locale, view model, instruments, release manifest, Qt entry point and QML.

## 8. Plan

The plan was to take the most important behaviour first: the lab, the bridge
around it, the caches, the two network-fed halves of the bridge, the archive,
then the casebook with the program that writes it and the page that reads
everyone's status, and to prove what the runs had checked.  All of that is done.
What could come next, in this order:

1. `Telemetry`: the trend analyser over fixed-point numbers, against reference
   definitions on bounded recordings; the timeline's merge likewise.
2. The health column and the other rows of the registry, which would compose
   `DataSources` with `PublicFlight` and `CockpitBridge`.
