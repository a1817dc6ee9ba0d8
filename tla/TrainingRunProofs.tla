-------------------------- MODULE TrainingRunProofs ---------------------------
(***************************************************************************)
(* Theorems about TrainingRun, for every set of command lines, files,      *)
(* scenarios and bounds: when an invocation touches files and what it      *)
(* leaves in each, in the order of its outputs, and what the history of a  *)
(* closed case looks like, whatever files are overwritten, edited, read    *)
(* back or lost.                                                           *)
(***************************************************************************)
EXTENDS TrainingRun, TLAPS

------------------------------------------------------------------------------
(* Documents are written after the last tick.                              *)

OutputsFollowTicks == phase \in {"writing", "open"} => tick = options.ticks

LEMMA OutputsFollowTicksInvariant == Spec => []OutputsFollowTicks
<1>1. Init => OutputsFollowTicks
  BY DEF Init, OutputsFollowTicks
<1>2. OutputsFollowTicks /\ [Next]_vars => OutputsFollowTicks'
  <2> SUFFICES ASSUME OutputsFollowTicks, [Next]_vars
               PROVE  OutputsFollowTicks'
    OBVIOUS
  <2>1. CASE \E o \in Invocations :
               \/ RefuseOptions(o) \/ RefuseProfile(o) \/ ListScenarios(o)
               \/ InspectSession(o) \/ RefuseScenario(o) \/ StartSimulation(o)
    BY <2>1 DEF RefuseOptions, RefuseProfile, ListScenarios, InspectSession, RefuseScenario,
                StartSimulation, EndsAtOnce, Ends, OutputsFollowTicks
  <2>2. CASE Step
    BY <2>2 DEF Step, OutputsFollowTicks
  <2>3. CASE OpenOutput \/ WriteOutput \/ Return \/ Kill
    BY <2>3 DEF OpenOutput, WriteOutput, Written, Return, Kill, Ends, OutputsFollowTicks
  <2>4. CASE WorkOnCases
    BY <2>4 DEF WorkOnCases, EndsAtOnce, Ends, OutputsFollowTicks
  <2>5. CASE UNCHANGED vars
    BY <2>5 DEF vars, runVars, OutputsFollowTicks
  <2>6. QED
    BY <2>1, <2>2, <2>3, <2>4, <2>5 DEF Next
<1>3. QED
  BY <1>1, <1>2, PTL DEF Spec

(* No invocation touches a file before all its ticks are simulated.        *)
THEOREM NothingWrittenTheorem == Spec => NothingWrittenBeforeTheEnd
<1>1. OutputsFollowTicks /\ [Next]_vars =>
        [ disk' # disk => /\ runs' = runs
                          /\ phase # "idle" => tick = options.ticks ]_vars
  <2> SUFFICES ASSUME OutputsFollowTicks, Next, disk' # disk
               PROVE  runs' = runs /\ (phase # "idle" => tick = options.ticks)
    OBVIOUS
  <2>1. \A o \in Invocations : ~Invoked(o)
    BY DEF Invoked
  <2>2. ~ \E o \in Invocations :
            \/ RefuseOptions(o) \/ RefuseProfile(o) \/ ListScenarios(o)
            \/ InspectSession(o) \/ RefuseScenario(o) \/ StartSimulation(o)
    BY <2>1 DEF RefuseOptions, RefuseProfile, ListScenarios, InspectSession, RefuseScenario,
                StartSimulation
  <2>3. CASE OpenOutput \/ WriteOutput \/ Kill
    BY <2>3 DEF OpenOutput, WriteOutput, Kill, OutputsFollowTicks
  <2>4. CASE WorkOnCases
    BY <2>4 DEF WorkOnCases
  <2>5. QED
    BY <2>2, <2>3, <2>4 DEF Next, Step, Return
<1>2. QED
  BY <1>1, OutputsFollowTicksInvariant, PTL DEF Spec, NothingWrittenBeforeTheEnd

------------------------------------------------------------------------------
(* What the notes of a case say of its state.                              *)

IsRecord(r) ==
  /\ r = [ id |-> r.id, state |-> r.state, opened |-> r.opened, updated |-> r.updated,
           findings |-> r.findings, notes |-> r.notes ]
  /\ r.notes \in Seq(WorkflowStates)

WasIsolated(notes) == \E i \in 1..Len(notes) : notes[i] = "ISOLATING"

WasVerified(notes) ==
  \E verified \in DOMAIN notes :
    /\ notes[verified] = "VERIFYING"
    /\ verified < Len(notes)
    /\ \A i \in (verified + 1)..Len(notes) : notes[i] = "CLOSED"
    /\ \E isolated \in 1..(verified - 1) : notes[isolated] = "ISOLATING"

(* Work on a case starts with isolation, and a case that is being verified *)
(* says so in its last note; a mistyped state says nothing.                *)
NotesTell(state, notes) ==
  /\ state \in {"ISOLATING", "RECOVERING", "VERIFYING"} => WasIsolated(notes)
  /\ state = "VERIFYING" => notes # <<>> /\ notes[Len(notes)] = "VERIFYING"
  /\ state = "CLOSED" => WasVerified(notes)

RecordInv(r) == IsRecord(r) /\ NotesTell(r.state, r.notes)

LEMMA NotesAfterTransition ==
  ASSUME NEW from, NEW to \in WorkflowStates, CanTransition(from, to),
         NEW notes \in Seq(WorkflowStates), NotesTell(from, notes)
  PROVE  NotesTell(to, Append(notes, to))
<1> DEFINE longer == Append(notes, to)
           n == Len(notes)
<1>1. /\ n \in Nat /\ DOMAIN notes = 1..n
      /\ Len(longer) = n + 1 /\ longer[n + 1] = to /\ DOMAIN longer = 1..(n + 1)
      /\ \A i \in 1..n : longer[i] = notes[i]
  OBVIOUS
<1>2. ASSUME WasIsolated(notes) PROVE WasIsolated(longer)
  BY <1>1, <1>2 DEF WasIsolated
<1>3. CASE to = "DETECTED"
  BY <1>3 DEF NotesTell
<1>4. CASE to = "ISOLATING"
  <2>1. WasIsolated(longer)
    BY <1>1, <1>4 DEF WasIsolated
  <2>2. QED
    BY <2>1, <1>4 DEF NotesTell
<1>5. CASE to \in {"RECOVERING", "VERIFYING"}
  <2>1. from \in {"ISOLATING", "RECOVERING", "VERIFYING"}
    BY <1>5 DEF CanTransition, Later
  <2>2. WasIsolated(longer)
    BY <1>2, <2>1 DEF NotesTell
  <2>3. longer # <<>> /\ longer[Len(longer)] = to
    BY <1>1
  <2>4. QED
    BY <2>2, <2>3, <1>5 DEF NotesTell
<1>6. CASE to = "CLOSED" /\ from = "CLOSED"
  <2>1. PICK v \in 1..n :
          /\ notes[v] = "VERIFYING" /\ v < n
          /\ \A i \in (v + 1)..n : notes[i] = "CLOSED"
          /\ \E i \in 1..(v - 1) : notes[i] = "ISOLATING"
    BY <1>1, <1>6 DEF NotesTell, WasVerified
  <2>2. v \in DOMAIN longer /\ longer[v] = "VERIFYING" /\ v < Len(longer)
    BY <1>1, <2>1
  <2>3. \A i \in (v + 1)..Len(longer) : longer[i] = "CLOSED"
    BY <1>1, <1>6, <2>1
  <2>4. \E i \in 1..(v - 1) : longer[i] = "ISOLATING"
    BY <1>1, <2>1
  <2>5. WasVerified(longer)
    BY <2>2, <2>3, <2>4 DEF WasVerified
  <2>6. QED
    BY <2>5, <1>6 DEF NotesTell
<1>7. CASE to = "CLOSED" /\ from = "VERIFYING"
  <2>1. notes # <<>> /\ notes[n] = "VERIFYING" /\ n \in 1..n
    BY <1>1, <1>7 DEF NotesTell
  <2>2. PICK k \in 1..n : notes[k] = "ISOLATING"
    BY <1>7 DEF NotesTell, WasIsolated
  <2>3. k \in 1..(n - 1)
    BY <1>1, <2>1, <2>2
  <2>4. n \in DOMAIN longer /\ longer[n] = "VERIFYING" /\ n < Len(longer)
    BY <1>1, <2>1
  <2>5. \A i \in (n + 1)..Len(longer) : longer[i] = "CLOSED"
    BY <1>1, <1>7
  <2>6. longer[k] = "ISOLATING"
    BY <1>1, <2>2
  <2>7. WasVerified(longer)
    BY <2>3, <2>4, <2>5, <2>6 DEF WasVerified
  <2>8. QED
    BY <2>7, <1>7 DEF NotesTell
<1>8. to = "CLOSED" => from \in {"CLOSED", "VERIFYING"}
  BY DEF CanTransition, Later
<1>9. QED
  BY <1>3, <1>4, <1>5, <1>6, <1>7, <1>8 DEF WorkflowStates

LEMMA TransitionedRecord ==
  ASSUME NEW r, RecordInv(r), NEW to \in WorkflowStates, CanTransition(r.state, to), NEW t
  PROVE  RecordInv(Transitioned(r, to, t))
<1>1. IsRecord(r) /\ r.notes \in Seq(WorkflowStates) /\ NotesTell(r.state, r.notes)
  BY DEF RecordInv, IsRecord
<1> DEFINE longer == Append(r.notes, to)
<1>2. longer \in Seq(WorkflowStates) /\ NotesTell(to, longer)
  BY <1>1, NotesAfterTransition
<1>3. Transitioned(r, to, t) = [r EXCEPT !.state = to, !.updated = t, !.notes = longer]
  BY DEF Transitioned
<1> HIDE DEF longer
<1>4. Transitioned(r, to, t) =
        [ id |-> r.id, state |-> to, opened |-> r.opened, updated |-> t,
          findings |-> r.findings, notes |-> longer ]
  BY <1>1, <1>3 DEF IsRecord
<1>5. QED
  BY <1>2, <1>4 DEF RecordInv, IsRecord

------------------------------------------------------------------------------
(* The records in memory and on disk.                                      *)

CasesInv(c) == /\ c = [i \in DOMAIN c |-> c[i]]
               /\ \A i \in DOMAIN c : RecordInv(c[i])

ContentInv(content) ==
  IsDocument(content) /\ content.kind = "casebook" =>
    content = ToJson(content.cases) /\ CasesInv(content.cases)

DiskInv(d) == /\ d = [path \in Paths |-> d[path]]
              /\ \A path \in Paths : ContentInv(d[path])

CasesWereKept == CasesInv(cases) /\ DiskInv(disk)

LEMMA ContentIsKept ==
  ASSUME NEW d, DiskInv(d), NEW path, NEW content, ContentInv(content)
  PROVE  DiskInv([d EXCEPT ![path] = content])
BY DEF DiskInv

LEMMA NoContent == ContentInv(None) /\ ContentInv(Garbage)
BY DEF ContentInv, IsDocument

LEMMA ToJsonContent ==
  ASSUME NEW c, CasesInv(c)
  PROVE  ContentInv(ToJson(c))
BY DEF ContentInv, ToJson

LEMMA DocumentContent ==
  ASSUME NEW o, NEW frames, NEW output
  PROVE  ContentInv(Document(o, frames, output))
<1>1. CASE output = "casebook"
  <2> DEFINE r == Case(o, frames)
  <2>1. RecordInv(r)
    <3>1. <<"DETECTED">> \in Seq(WorkflowStates)
      BY DEF WorkflowStates
    <3>2. r.state = "DETECTED" /\ IsRecord(r)
      BY <3>1 DEF Case, IsRecord
    <3>3. QED
      BY <3>2 DEF RecordInv, NotesTell
  <2> HIDE DEF r
  <2>2. CasesInv(<<r>>)
    BY <2>1 DEF CasesInv
  <2>3. QED
    BY <1>1, <2>2, ToJsonContent DEF Document, r
<1>2. CASE output # "casebook"
  <2>1. Document(o, frames, output).kind = output
    BY <1>2 DEF Document
  <2>2. QED
    BY <1>2, <2>1 DEF ContentInv
<1>3. QED
  BY <1>1, <1>2

(* Reading renames a state that is not known, and nothing else.            *)
LEMMA ReadCases ==
  ASSUME NEW d, ContentInv(d), IsDocument(d)
  PROVE  CasesInv(FromJson(d))
<1>1. CASE d.kind = "casebook"
  <2>1. CasesInv(d.cases)
    BY <1>1 DEF ContentInv
  <2>2. FromJson(d) = [i \in DOMAIN d.cases |->
                         [d.cases[i] EXCEPT !.state = StateFromString(@)]]
    BY <1>1 DEF FromJson
  <2>3. ASSUME NEW r, RecordInv(r)
        PROVE  RecordInv([r EXCEPT !.state = StateFromString(@)])
    <3> DEFINE s == StateFromString(r.state)
    <3>1. s = r.state \/ s = "DETECTED"
      BY DEF StateFromString
    <3> HIDE DEF s
    <3>2. [r EXCEPT !.state = s] =
            [ id |-> r.id, state |-> s, opened |-> r.opened, updated |-> r.updated,
              findings |-> r.findings, notes |-> r.notes ]
      BY <2>3 DEF RecordInv, IsRecord
    <3>3. RecordInv([r EXCEPT !.state = s])
      BY <2>3, <3>1, <3>2 DEF RecordInv, IsRecord, NotesTell
    <3>4. QED
      BY <3>3 DEF s
  <2>4. QED
    BY <2>1, <2>2, <2>3 DEF CasesInv
<1>2. CASE d.kind # "casebook"
  BY <1>2 DEF FromJson, CasesInv
<1>3. QED
  BY <1>1, <1>2

(* A slip of the hand in a file renames a state, and nothing else.         *)
LEMMA MistypedCases ==
  ASSUME NEW d, ContentInv(d), IsDocument(d), d.kind = "casebook", NEW i \in DOMAIN d.cases
  PROVE  ContentInv([d EXCEPT !.cases[i].state = "closed"])
<1>1. d = [kind |-> "casebook", cases |-> d.cases] /\ CasesInv(d.cases)
  BY DEF ContentInv, ToJson
<1> DEFINE r == [d.cases[i] EXCEPT !.state = "closed"]
           c == [d.cases EXCEPT ![i] = r]
<1>2. RecordInv(d.cases[i])
  BY <1>1 DEF CasesInv
<1>3. r = [ id |-> d.cases[i].id, state |-> "closed", opened |-> d.cases[i].opened,
            updated |-> d.cases[i].updated, findings |-> d.cases[i].findings,
            notes |-> d.cases[i].notes ]
  BY <1>2 DEF RecordInv, IsRecord
<1>4. RecordInv(r)
  BY <1>2, <1>3 DEF RecordInv, IsRecord, NotesTell
<1> HIDE DEF r
<1>5. CasesInv(c)
  BY <1>1, <1>4 DEF CasesInv
<1>6. [d EXCEPT !.cases[i].state = "closed"] = ToJson(c)
  BY <1>1 DEF ToJson, r
<1>7. QED
  BY <1>5, <1>6, ToJsonContent

LEMMA CasesNextInv ==
  ASSUME CasesWereKept, CasesNext
  PROVE  CasesWereKept'
<1> SUFFICES CasesInv(cases') /\ DiskInv(disk')
  BY DEF CasesWereKept
<1>0. CasesInv(cases) /\ DiskInv(disk)
  BY DEF CasesWereKept
<1>1. ASSUME NEW path \in Paths, ReadFile(path)
      PROVE  CasesInv(cases') /\ DiskInv(disk')
  <2>1. cases' = FromJson(disk[path]) /\ disk' = disk /\ IsDocument(disk[path])
    BY <1>1 DEF ReadFile, IsJson
  <2>2. ContentInv(disk[path])
    BY <1>0 DEF DiskInv
  <2>3. QED
    BY <1>0, <2>1, <2>2, ReadCases
<1>2. ASSUME NEW i \in DOMAIN cases, NEW to \in WorkflowStates, NEW tick1 \in 0..MaxTick,
             Transition(i, to, tick1)
      PROVE  CasesInv(cases') /\ DiskInv(disk')
  <2> DEFINE r == Transitioned(cases[i], to, tick1)
  <2>1. cases' = [cases EXCEPT ![i] = r] /\ disk' = disk /\ CanTransition(cases[i].state, to)
    BY <1>2 DEF Transition
  <2>2. RecordInv(r)
    BY <1>0, <2>1, TransitionedRecord DEF CasesInv
  <2> HIDE DEF r
  <2>3. CasesInv([cases EXCEPT ![i] = r])
    BY <1>0, <2>2 DEF CasesInv
  <2>4. QED
    BY <1>0, <2>1, <2>3
<1>3. ASSUME NEW path, WriteFile(path)
      PROVE  CasesInv(cases') /\ DiskInv(disk')
  <2>1. PICK content \in {Garbage, ToJson(cases)} :
          disk' = [disk EXCEPT ![path] = content]
    BY <1>3 DEF WriteFile
  <2>2. ContentInv(content)
    BY <1>0, NoContent, ToJsonContent
  <2>3. cases' = cases
    BY <1>3 DEF WriteFile
  <2>4. QED
    BY <1>0, <2>1, <2>2, <2>3, ContentIsKept
<1>4. ASSUME NEW path, Mistype(path)
      PROVE  CasesInv(cases') /\ DiskInv(disk')
  <2>1. PICK i \in DOMAIN disk[path].cases :
          disk' = [disk EXCEPT ![path].cases[i].state = "closed"]
    BY <1>4 DEF Mistype
  <2> DEFINE content == [disk[path] EXCEPT !.cases[i].state = "closed"]
  <2>2. disk' = [disk EXCEPT ![path] = content]
    BY <2>1
  <2>3. cases' = cases /\ IsDocument(disk[path]) /\ disk[path].kind = "casebook"
    BY <1>4 DEF Mistype
  <2>4. CASE path \in Paths
    <3>1. ContentInv(disk[path])
      BY <1>0, <2>4 DEF DiskInv
    <3>2. ContentInv(content)
      BY <2>3, <3>1, MistypedCases
    <3> HIDE DEF content
    <3>3. QED
      BY <1>0, <2>2, <2>3, <3>2, ContentIsKept
  <2>5. CASE path \notin Paths
    <3> HIDE DEF content
    <3>1. disk' = disk
      BY <1>0, <2>2, <2>5 DEF DiskInv
    <3>2. QED
      BY <1>0, <2>3, <3>1
  <2>6. QED
    BY <2>4, <2>5
<1>5. QED
  BY <1>1, <1>2, <1>3, <1>4 DEF CasesNext

LEMMA RunInv ==
  ASSUME CasesWereKept, OpenOutput \/ WriteOutput \/ Kill
  PROVE  CasesWereKept'
<1>0. CasesInv(cases) /\ DiskInv(disk)
  BY DEF CasesWereKept
<1>1. cases' = cases
  BY DEF OpenOutput, WriteOutput, Kill
<1>2. \/ disk' = disk
      \/ \E path, content : /\ content \in {Garbage, Document(options, tick, Outputs[Place])}
                            /\ disk' = [disk EXCEPT ![path] = content]
  BY DEF OpenOutput, WriteOutput, Written, Kill, Leaves
<1>3. DiskInv(disk')
  BY <1>0, <1>2, NoContent, DocumentContent, ContentIsKept
<1>4. QED
  BY <1>0, <1>1, <1>3 DEF CasesWereKept

LEMMA CasesWereKeptInvariant == Spec => []CasesWereKept
<1>1. Init => CasesWereKept
  <2> SUFFICES ASSUME Init PROVE CasesWereKept
    OBVIOUS
  <2>1. CasesInv(cases)
    BY DEF Init, CasesInv
  <2>2. DiskInv(disk)
    BY FilesAssumption DEF Init, DiskInv, ContentInv
  <2>3. QED
    BY <2>1, <2>2 DEF CasesWereKept
<1>2. CasesWereKept /\ [Next]_vars => CasesWereKept'
  <2> SUFFICES ASSUME CasesWereKept, [Next]_vars
               PROVE  CasesWereKept'
    OBVIOUS
  <2>1. ASSUME UNCHANGED <<disk, cases>>
        PROVE  CasesWereKept'
    BY <2>1 DEF CasesWereKept
  <2>2. CASE \E o \in Invocations :
               \/ RefuseOptions(o) \/ RefuseProfile(o) \/ ListScenarios(o)
               \/ InspectSession(o) \/ RefuseScenario(o) \/ StartSimulation(o)
    BY <2>1, <2>2 DEF RefuseOptions, RefuseProfile, ListScenarios, InspectSession,
                      RefuseScenario, StartSimulation, Invoked
  <2>3. CASE Step \/ Return \/ UNCHANGED vars
    BY <2>1, <2>3 DEF Step, Return, vars
  <2>4. CASE OpenOutput \/ WriteOutput \/ Kill
    BY <2>4, RunInv
  <2>5. CASE WorkOnCases
    BY <2>5, CasesNextInv DEF WorkOnCases
  <2>6. QED
    BY <2>2, <2>3, <2>4, <2>5 DEF Next
<1>3. QED
  BY <1>1, <1>2, PTL DEF Spec

(* A closed case was isolated, then verified, and has been closed since.   *)
THEOREM ClosedTheorem == Spec => []ClosedCasesWereVerified
<1>1. CasesWereKept => ClosedCasesWereVerified
  <2> SUFFICES ASSUME CasesWereKept, NEW r \in Records, r.state = "CLOSED"
               PROVE  WasVerified(r.notes)
    BY DEF ClosedCasesWereVerified, WasVerified
  <2>1. RecordInv(r)
    <3>1. ASSUME NEW i \in DOMAIN cases PROVE RecordInv(cases[i])
      BY DEF CasesWereKept, CasesInv
    <3>2. ASSUME NEW path \in Paths, IsDocument(disk[path]), disk[path].kind = "casebook",
                 NEW i \in DOMAIN disk[path].cases
          PROVE  RecordInv(disk[path].cases[i])
      BY <3>2 DEF CasesWereKept, DiskInv, ContentInv, CasesInv
    <3>3. QED
      BY <3>1, <3>2 DEF Records
  <2>2. QED
    BY <2>1 DEF RecordInv, NotesTell
<1>2. QED
  BY <1>1, CasesWereKeptInvariant, PTL

------------------------------------------------------------------------------
(* What has become of the files, in the middle of an invocation.           *)

Complete(path, content, o, written, short) ==
  \E i \in written :
    /\ o.out[Outputs[i]] = path
    /\ \A j \in written : o.out[Outputs[j]] = path => j <= i
    /\ \/ content = Document(o, o.ticks, Outputs[i])
       \/ i \in short /\ content = Garbage

Untouched(path, content, was, o, written) ==
  (\A i \in written : o.out[Outputs[i]] # path) /\ content = was

Settled(path, content, was, o, written, short) ==
  Untouched(path, content, was, o, written) \/ Complete(path, content, o, written, short)

(* The outputs that are done come before those that are left, and every    *)
(* file is settled but that of the output at which the run is, or stopped. *)
OutputsInv ==
  /\ disk = [path \in Paths |-> disk[path]]
  /\ phase \in {"idle", "simulating", "writing", "open"}
  /\ phase # "idle" => options # NoOptions /\ exitCode = None
  /\ phase = "simulating" => disk = before /\ todo = Asked(options)
  /\ phase = "open" => todo # {}
  /\ options = NoOptions => disk = before
  /\ options # NoOptions =>
       /\ todo \subseteq Asked(options)
       /\ \A i \in Asked(options) \ todo, j \in todo : i < j
       /\ exitCode = "success" => todo = {}
       /\ \A path \in Paths :
            \/ Settled(path, disk[path], before[path], options, Asked(options) \ todo, lost)
            \/ phase \in {"open", "idle"} /\ todo # {} /\ Target = path

LEMMA PlaceIsFirst ==
  ASSUME NEW S \in SUBSET (DOMAIN Outputs), S # {}, todo = S
  PROVE  Place \in S /\ \A j \in S : Place <= j
<1>1. S \subseteq {1, 2, 3, 4, 5, 6}
  BY DEF Outputs
<1>2. \E i \in S : \A j \in S : i <= j
  <2>1. CASE 1 \in S
    BY <1>1, <2>1
  <2>2. CASE 1 \notin S /\ 2 \in S
    BY <1>1, <2>2
  <2>3. CASE S \cap {1, 2} = {} /\ 3 \in S
    BY <1>1, <2>3
  <2>4. CASE S \cap {1, 2, 3} = {} /\ 4 \in S
    BY <1>1, <2>4
  <2>5. CASE S \cap {1, 2, 3, 4} = {} /\ 5 \in S
    BY <1>1, <2>5
  <2>6. CASE S \cap {1, 2, 3, 4, 5} = {}
    BY <1>1, <2>6
  <2>7. QED
    BY <1>1, <2>1, <2>2, <2>3, <2>4, <2>5, <2>6
<1>3. QED
  BY <1>2 DEF Place

LEMMA AskedPlaces ==
  ASSUME NEW o
  PROVE  Asked(o) \subseteq 1..6 /\ Asked(o) \subseteq DOMAIN Outputs /\ Len(Outputs) = 6
BY DEF Asked, Outputs

(* The next output is done, and its document is where it belongs.          *)
LEMMA OneMore ==
  ASSUME NEW o, NEW left \in SUBSET Asked(o), NEW i \in left,
         \A k \in Asked(o) \ left, j \in left : k < j,
         \A j \in left : i <= j,
         NEW path, NEW content, NEW was, NEW short, NEW more \in SUBSET {i},
         IF o.out[Outputs[i]] = path
         THEN \/ content = Document(o, o.ticks, Outputs[i])
              \/ i \in more /\ content = Garbage
         ELSE Settled(path, content, was, o, Asked(o) \ left, short)
  PROVE  Settled(path, content, was, o, Asked(o) \ (left \ {i}), short \cup more)
<1>1. Asked(o) \subseteq 1..6
  BY AskedPlaces
<1>2. Asked(o) \ (left \ {i}) = (Asked(o) \ left) \cup {i}
  OBVIOUS
<1> DEFINE done == Asked(o) \ left
<1>3. \A k \in done : k < i
  OBVIOUS
<1>4. CASE o.out[Outputs[i]] = path
  <2>1. \A j \in done \cup {i} : j <= i
    BY <1>1, <1>3
  <2>2. Complete(path, content, o, done \cup {i}, short \cup more)
    BY <1>4, <2>1 DEF Complete
  <2>3. QED
    BY <1>1, <1>2, <2>2, <1>3 DEF Settled
<1>5. CASE o.out[Outputs[i]] # path
  <2>1. Settled(path, content, was, o, done, short)
    BY <1>5
  <2>2. Untouched(path, content, was, o, done) => Untouched(path, content, was, o, done \cup {i})
    BY <1>5 DEF Untouched
  <2>3. Complete(path, content, o, done, short) =>
          Complete(path, content, o, done \cup {i}, short \cup more)
    BY <1>5 DEF Complete
  <2>4. Settled(path, content, was, o, done \cup {i}, short \cup more)
    BY <2>1, <2>2, <2>3 DEF Settled
  <2>5. QED
    BY <1>1, <1>2, <1>3, <2>4
<1>6. QED
  BY <1>4, <1>5

LEMMA OrderIsKept ==
  ASSUME NEW o, NEW left \in SUBSET Asked(o), NEW i \in left,
         \A k \in Asked(o) \ left, j \in left : k < j,
         \A j \in left : i <= j
  PROVE  \A k \in Asked(o) \ (left \ {i}), j \in left \ {i} : k < j
BY AskedPlaces

LEMMA OutputsInvInit == Init => OutputsInv
BY FilesAssumption DEF Init, OutputsInv

LEMMA InvocationOutputs ==
  ASSUME OutputsInv, NEW o \in Invocations,
         \/ RefuseOptions(o) \/ RefuseProfile(o) \/ ListScenarios(o)
         \/ InspectSession(o) \/ RefuseScenario(o) \/ StartSimulation(o)
  PROVE  OutputsInv'
<1>1. disk' = disk /\ before' = disk
  BY DEF RefuseOptions, RefuseProfile, ListScenarios, InspectSession, RefuseScenario,
         StartSimulation, Invoked
<1>2. CASE phase' = "idle" /\ options' = NoOptions
  BY <1>1, <1>2 DEF OutputsInv
<1>3. CASE StartSimulation(o)
  <2>1. /\ phase' = "simulating" /\ exitCode' = None
        /\ options' = Effective(o) /\ todo' = Asked(options')
    BY <1>3 DEF StartSimulation
  <2>2. options' # NoOptions
    <3>1. "out" \in DOMAIN Effective(o)
      BY InvocationsAssumption DEF Effective, WithDefaults, Merged
    <3>2. QED
      BY <2>1, <3>1 DEF NoOptions
  <2>3. QED
    BY <1>1, <2>1, <2>2, ExitCodesAssumption DEF OutputsInv, Settled, Untouched
<1>4. QED
  BY <1>2, <1>3 DEF RefuseOptions, RefuseProfile, ListScenarios, InspectSession, RefuseScenario,
                    EndsAtOnce, Ends

LEMMA OutputsInvStep ==
  ASSUME OutputsInv, OutputsFollowTicks, [Next]_vars
  PROVE  OutputsInv'
<1> DEFINE done == Asked(options) \ todo
<1>1. CASE \E o \in Invocations :
             \/ RefuseOptions(o) \/ RefuseProfile(o) \/ ListScenarios(o)
             \/ InspectSession(o) \/ RefuseScenario(o) \/ StartSimulation(o)
  BY <1>1, InvocationOutputs
<1>2. ASSUME UNCHANGED <<disk, before, options, todo, lost, exitCode>>,
             phase = "simulating", phase' \in {"simulating", "writing"}
      PROVE  OutputsInv'
  BY <1>2 DEF OutputsInv, Target, Place
<1>3. CASE Step
  BY <1>2, <1>3 DEF Step
<1>4. ASSUME phase \in {"writing", "open"}, todo # {}
      PROVE  /\ options # NoOptions /\ todo \in SUBSET Asked(options)
             /\ Place \in todo /\ \A j \in todo : Place <= j
             /\ \A i \in done, j \in todo : i < j
             /\ tick = options.ticks
  <2>1. options # NoOptions /\ todo \subseteq Asked(options) /\ \A i \in done, j \in todo : i < j
    BY <1>4 DEF OutputsInv
  <2>2. todo \in SUBSET (DOMAIN Outputs)
    BY <2>1, AskedPlaces
  <2>3. QED
    BY <1>4, <2>1, <2>2, PlaceIsFirst DEF OutputsFollowTicks
<1>5. ASSUME NEW content, disk' = [disk EXCEPT ![Target] = content]
      PROVE  /\ disk' = [path \in Paths |-> disk'[path]]
             /\ \A path \in Paths : disk'[path] = IF path = Target THEN content ELSE disk[path]
  BY <1>5 DEF OutputsInv
(* The file at which the run is may hold anything.                         *)
<1>6. ASSUME phase \in {"writing", "open"}, phase' \in {"open", "idle"}, todo # {},
             UNCHANGED <<options, todo, lost, before>>,
             \/ disk' = disk
             \/ \E content : disk' = [disk EXCEPT ![Target] = content],
             exitCode' # "success",
             phase' = "open" => exitCode' = None
      PROVE  OutputsInv'
  <2>1. \A path \in Paths :
          \/ Settled(path, disk[path], before[path], options, done, lost)
          \/ Target = path
    BY <1>4, <1>6 DEF OutputsInv
  <2>2. \A path \in Paths :
          \/ Settled(path, disk'[path], before[path], options, done, lost)
          \/ Target = path
    BY <1>5, <1>6, <2>1
  <2>3. disk' = [path \in Paths |-> disk'[path]]
    BY <1>5, <1>6 DEF OutputsInv
  <2>4. Target' = Target
    BY <1>6 DEF Target, Place
  <2>5. QED
    BY <1>4, <1>6, <2>2, <2>3, <2>4 DEF OutputsInv
<1>7. CASE OpenOutput
  <2>1. /\ phase = "writing" /\ todo # {} /\ UNCHANGED <<options, todo, lost, before>>
        /\ exitCode = None
    BY <1>7 DEF OpenOutput, OutputsInv
  <2>2. CASE Ends("failure") /\ UNCHANGED disk
    BY <1>6, <2>1, <2>2 DEF Ends
  <2>3. CASE phase' = "open" /\ Leaves(Garbage) /\ UNCHANGED exitCode
    <3>1. exitCode' # "success"
      BY <2>1, <2>3, ExitCodesAssumption
    <3>2. QED
      BY <1>6, <2>1, <2>3, <3>1 DEF Leaves
  <2>4. QED
    BY <1>7, <2>2, <2>3 DEF OpenOutput
<1>8. ASSUME phase = "open", Written, UNCHANGED <<options, before>>
      PROVE  OutputsInv'
  <2>1. /\ todo # {} /\ exitCode' = None
        /\ phase' = "writing" /\ todo' = todo \ {Place}
    BY <1>8 DEF Written, OutputsInv
  <2>2. PICK more \in SUBSET {Place} :
        /\ lost' = lost \cup more
        /\ disk' = [path \in Paths |-> disk'[path]]
        /\ \A path \in Paths : path # Target => disk'[path] = disk[path]
        /\ Target \in Paths =>
             \/ disk'[Target] = Document(options, options.ticks, Outputs[Place])
             \/ Place \in more /\ disk'[Target] = Garbage
    <3>1. CASE /\ disk' = [disk EXCEPT ![Target] = Document(options, tick, Outputs[Place])]
               /\ UNCHANGED lost
      <4>1. lost' = lost \cup {}
        BY <3>1
      <4>2. QED
        BY <1>4, <1>5, <1>8, <2>1, <3>1, <4>1
    <3>2. CASE disk' = [disk EXCEPT ![Target] = Garbage] /\ lost' = lost \cup {Place}
      BY <1>5, <3>2
    <3>3. QED
      BY <1>8, <3>1, <3>2 DEF Written, Leaves
  <2>3. ASSUME NEW path \in Paths
        PROVE  IF options.out[Outputs[Place]] = path
               THEN \/ disk'[path] = Document(options, options.ticks, Outputs[Place])
                    \/ Place \in more /\ disk'[path] = Garbage
               ELSE Settled(path, disk'[path], before[path], options, done, lost)
    <3>1. \/ Settled(path, disk[path], before[path], options, done, lost)
          \/ Target = path
      BY <1>4, <1>8, <2>1 DEF OutputsInv
    <3>2. Target = options.out[Outputs[Place]]
      BY DEF Target
    <3>3. QED
      BY <2>2, <3>1, <3>2
  <2>4. /\ \A path \in Paths :
             Settled(path, disk'[path], before[path], options, Asked(options) \ todo', lost')
        /\ \A k \in Asked(options) \ todo', j \in todo' : k < j
    <3>1. Place \in todo /\ todo \in SUBSET Asked(options)
          /\ (\A j \in todo : Place <= j) /\ \A k \in done, j \in todo : k < j
      BY <1>4, <1>8, <2>1
    <3>2. \A path \in Paths :
            Settled(path, disk'[path], before[path], options,
                    Asked(options) \ (todo \ {Place}), lost \cup more)
      BY <2>3, <3>1, OneMore
    <3>3. \A k \in Asked(options) \ (todo \ {Place}), j \in todo \ {Place} : k < j
      BY <3>1, OrderIsKept
    <3>4. QED
      BY <2>1, <2>2, <3>2, <3>3
  <2>5. QED
    BY <1>4, <1>8, <2>1, <2>2, <2>4, ExitCodesAssumption DEF OutputsInv
<1>9. CASE WriteOutput
  <2>1. phase = "open" /\ todo # {} /\ UNCHANGED <<options, before>>
    BY <1>9 DEF WriteOutput, OutputsInv
  <2>2. CASE Written
    BY <1>8, <2>1, <2>2
  <2>3. CASE Leaves(Garbage) /\ Ends("failure") /\ UNCHANGED <<todo, lost>>
    <3>1. phase' = "idle" /\ exitCode' # "success"
      BY <2>3 DEF Ends
    <3>2. QED
      BY <1>6, <2>1, <2>3, <3>1 DEF Leaves
  <2>4. QED
    BY <1>9, <2>2, <2>3 DEF WriteOutput
<1>10. CASE Return
  <2>1. /\ phase = "writing" /\ phase' = "idle" /\ todo = {}
        /\ UNCHANGED <<disk, before, options, todo, lost>>
    BY <1>10 DEF Return, Ends
  <2>2. QED
    BY <2>1 DEF OutputsInv
<1>11. CASE Kill
  <2>1. phase # "idle" /\ phase' = "idle" /\ exitCode' = "killed"
        /\ UNCHANGED <<disk, options, todo, lost, before>>
    BY <1>11 DEF Kill, Ends
  <2>2. CASE phase = "open"
    BY <1>6, <2>1, <2>2 DEF OutputsInv
  <2>3. CASE phase # "open"
    BY <2>1, <2>3 DEF OutputsInv
  <2>4. QED
    BY <2>2, <2>3
<1>12. CASE WorkOnCases
  <2>1. disk' = [path \in Paths |-> disk'[path]]
    BY <1>12 DEF WorkOnCases, CasesNext, ReadFile, Transition, WriteFile, Mistype, OutputsInv
  <2>2. phase' = "idle" /\ options' = NoOptions /\ before' = disk'
    BY <1>12 DEF WorkOnCases, EndsAtOnce, Ends
  <2>3. QED
    BY <2>1, <2>2 DEF OutputsInv
<1>13. CASE UNCHANGED vars
  BY <1>13 DEF vars, runVars, OutputsInv, Target, Place
<1>14. QED
  BY <1>1, <1>3, <1>7, <1>9, <1>10, <1>11, <1>12, <1>13 DEF Next

(* An invocation writes whole documents, in order, up to the first write   *)
(* that is seen to fail, and nothing else; what is not whole was cut short *)
(* when its file was closed.                                               *)
THEOREM WritesTheorem == Spec => []RunWritesInOrder
<1>1. OutputsInv => RunWritesInOrder
  <2> SUFFICES ASSUME OutputsInv, options # NoOptions
               PROVE  RunWritesInOrder
    BY DEF OutputsInv, RunWritesInOrder
  <2> DEFINE done == Asked(options) \ todo
             n == IF todo = {} THEN 6 ELSE Place - 1
             written == {i \in Asked(options) : i <= n}
  <2>1. /\ todo \in SUBSET Asked(options) /\ \A i \in done, j \in todo : i < j
        /\ exitCode = "success" => todo = {}
        /\ \A path \in Paths :
             \/ Settled(path, disk[path], before[path], options, done, lost)
             \/ phase \in {"open", "idle"} /\ todo # {} /\ Target = path
    BY DEF OutputsInv
  <2>2. Asked(options) \subseteq 1..6 /\ Asked(options) \subseteq DOMAIN Outputs /\ Len(Outputs) = 6
    BY AskedPlaces
  <2>3. todo # {} => Place \in todo /\ \A j \in todo : Place <= j
    BY <2>1, <2>2, PlaceIsFirst
  <2>4. n \in 0..Len(Outputs) /\ written = done
    <3>1. CASE todo = {}
      BY <2>2, <3>1
    <3>2. CASE todo # {}
      <4>1. Place \in 1..6
        BY <2>1, <2>2, <2>3, <3>2
      <4>2. \A i \in Asked(options) : i <= Place - 1 <=> i \notin todo
        BY <2>1, <2>2, <2>3, <3>2, <4>1
      <4>3. QED
        BY <2>2, <3>2, <4>1, <4>2
    <3>3. QED
      BY <3>1, <3>2
  <2>5. todo # {} => n + 1 = Place /\ n + 1 \in Asked(options)
    BY <2>1, <2>2, <2>3
  <2> HIDE DEF n
  <2>6. exitCode = "success" => written = Asked(options)
    BY <2>1, <2>4
  <2>7. ASSUME NEW path \in Paths
        PROVE  \/ /\ phase \in {"open", "idle"} /\ n + 1 \in Asked(options)
                  /\ options.out[Outputs[n + 1]] = path
               \/ Untouched(path, disk[path], before[path], options, written)
               \/ Complete(path, disk[path], options, written, lost)
    BY <2>1, <2>4, <2>5 DEF Settled, Target
  <2>8. QED
    BY <2>4, <2>6, <2>7 DEF RunWritesInOrder, Untouched, Complete
<1>2. Spec => []OutputsInv
  <2>1. OutputsInv /\ OutputsFollowTicks /\ [Next]_vars => OutputsInv'
    BY OutputsInvStep
  <2>2. QED
    BY OutputsInvInit, OutputsFollowTicksInvariant, <2>1, PTL DEF Spec
<1>3. QED
  BY <1>1, <1>2, PTL
==============================================================================
