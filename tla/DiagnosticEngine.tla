--------------------------- MODULE DiagnosticEngine ---------------------------
(***************************************************************************)
(* DiagnosticEngine::analyze and PlatformDiagnosticRules::augment: what a  *)
(* scan finds in a snapshot, the recorder and the scenario.                *)
(*                                                                         *)
(* A scan is a set of reports [code, severity, key]: key is the channel,   *)
(* subsystem or source the evidence comes from.  Reports of one code are   *)
(* one finding, of the highest severity reported (addFinding).  Texts,     *)
(* confidence, priority and the display order are left out.  The event     *)
(* log contributes nothing: no event of the program has fault severity, so *)
(* NXD-ASR-1201 has no case to report.                                     *)
(***************************************************************************)
EXTENDS AvionicsLab

Advisory == 0
Warning == 1
Fault == 2

Report(code, severity, key) == [code |-> code, severity |-> severity, key |-> key]

(* What is reported of a channel only while its sample is present, valid   *)
(* and Test holds of the value.                                            *)
ReportIf(sensors, channel, Test(_), code, severity) ==
  IF channel \in DOMAIN sensors /\ sensors[channel].valid /\ Test(sensors[channel].value)
  THEN {Report(code, severity, channel)} ELSE {}

CodeForInvalidSensor(c) ==
  CASE c = "bus_voltage_v" -> "NXD-PWR-109"
    [] c = "cpu_temp_c" -> "NXD-CMP-210"
    [] c = "imu_pitch_deg" -> "NXD-FLT-303"
    [] c = "imu_roll_deg" -> "NXD-FLT-304"
    [] c = "altitude_m" -> "NXD-FLT-305"
    [] c = "airspeed_kph" -> "NXD-FLT-306"
    [] c = "hydraulic_pressure_pct" -> "NXD-HYD-409"
    [] c = "fuel_level_pct" -> "NXD-FUL-502"
    [] OTHER -> "NXD-DAT-610"

InvalidChannels(sensors) ==
  {Report(CodeForInvalidSensor(c), Fault, c) : c \in {d \in DOMAIN sensors : ~sensors[d].valid}}

Thresholds(sensors) ==
  ReportIf(sensors, "bus_voltage_v", LAMBDA v : v < 230, "NXD-PWR-101", Warning)
  \cup ReportIf(sensors, "bus_voltage_v", LAMBDA v : v > 295, "NXD-PWR-102", Fault)
  \cup ReportIf(sensors, "cpu_temp_c", LAMBDA v : v > 800 /\ v < 950, "NXD-CMP-201", Warning)
  \cup ReportIf(sensors, "cpu_temp_c", LAMBDA v : v >= 950, "NXD-CMP-201", Fault)
  \cup ReportIf(sensors, "hydraulic_pressure_pct", LAMBDA v : 450 <= v /\ v < 700,
                "NXD-HYD-401", Warning)
  \cup ReportIf(sensors, "hydraulic_pressure_pct", LAMBDA v : v < 450, "NXD-HYD-401", Fault)
  \cup ReportIf(sensors, "fuel_level_pct", LAMBDA v : v < 200, "NXD-FUL-501", Warning)

(* Health issues, by the words their subsystem contains.  Channels are the *)
(* subsystems of faults; none of their names contains "power", "compute",  *)
(* "flight" or "sensor".                                                   *)
CodeForIssue(s) ==
  CASE s = "power" -> "NXD-PWR-111"
    [] s = "compute" -> "NXD-CMP-208"
    [] s = "hydraulic_pressure_pct" -> "NXD-HYD-410"
    [] s = "fuel_level_pct" -> "NXD-FUL-509"
    [] OTHER -> "NXD-ASR-1209"

HealthIssues(issues) ==
  {Report(CodeForIssue(s), IF s \in {"compute", "power"} THEN Warning ELSE Fault, s) :
     s \in issues}

(* Recorder integrity.                                                     *)
Recorder(frames, tick) ==
  (IF frames = << >> /\ tick > 5 THEN {Report("NXD-REC-801", Fault, "frames")} ELSE {})
  \cup (IF \E i \in 2..Len(frames) : frames[i].sequence <= frames[i - 1].sequence
        THEN {Report("NXD-DAT-601", Fault, "sequence")} ELSE {})
  \cup (IF \E i \in 2..Len(frames) : frames[i].simTime <= frames[i - 1].simTime
        THEN {Report("NXD-DAT-602", Fault, "sim_time_ms")} ELSE {})

Codes(reports) == {r.code : r \in reports}

(* Advice a scenario gives when nothing yet shows its effect.              *)
ScenarioContext(scenario, found) ==
  CASE scenario = "power-transient" /\ "NXD-PWR-101" \notin Codes(found) ->
         {Report("NXD-PWR-103", Advisory, "scenario")}
    [] scenario = "thermal-rise" /\ "NXD-CMP-201" \notin Codes(found) ->
         {Report("NXD-CMP-201", Advisory, "scenario")}
    [] scenario = "sensor-dropout" /\ found = {} ->
         {Report("NXD-DAT-606", Advisory, "scenario")}
    [] OTHER -> {}

Analyze(scenario, tick, sensors, issues, frames) ==
  LET found == InvalidChannels(sensors) \cup Thresholds(sensors)
               \cup HealthIssues(issues) \cup Recorder(frames, tick)
  IN  found \cup ScenarioContext(scenario, found)

(* The rules of the active platform, skipping codes already found.         *)
RuleSeverity(rule) == IF rule.severity = "fault" THEN Fault ELSE Warning

AugmentIgnoringLimits(platform, sensors, reports) == reports

Augment(platform, sensors, reports) ==
  reports \cup
  UNION {ReportIf(sensors, r.channel, LAMBDA v : v < r.limit, r.code, RuleSeverity(r)) :
           r \in {q \in PlatformRules[platform] : q.code \notin Codes(reports)}}

(* The score finish() leaves: 25, 10 and 3 points off per finding.         *)
SeverityOf(reports, code) ==
  CHOOSE s \in {r.severity : r \in {q \in reports : q.code = code}} :
    \A r \in reports : r.code = code => r.severity <= s

CountOf(reports, severity) ==
  Cardinality({c \in Codes(reports) : SeverityOf(reports, c) = severity})

Score(reports) ==
  LET penalty == 25 * CountOf(reports, Fault) + 10 * CountOf(reports, Warning)
                 + 3 * CountOf(reports, Advisory)
  IN  IF penalty > 100 THEN 0 ELSE 100 - penalty
==============================================================================
