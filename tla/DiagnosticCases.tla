---------------------------- MODULE DiagnosticCases ----------------------------
(***************************************************************************)
(* The diagnostic casebook: case records in a JSON file that is read as a  *)
(* whole, worked on in memory along the workflow DETECTED ... CLOSED, and  *)
(* written back in place.                                                  *)
(*                                                                         *)
(* A file is None, Garbage (empty or cut short: nothing a parser accepts)  *)
(* or a document with its kind.  A record is its identifier, the name of   *)
(* its state, the ticks it was opened and updated at, the run whose        *)
(* findings it lists and its notes.  Callers give every transition a note, *)
(* as the tests do; here it is the name of the state that was entered.     *)
(***************************************************************************)
EXTENDS Naturals, Sequences

CONSTANTS
  Paths,         \* names of files
  Casebooks,     \* those that callers keep casebooks in
  None, Garbage,
  MaxTick,       \* bound: ticks that a caller passes
  MaxNotes       \* bound: notes of a case

VARIABLES
  disk,          \* the files
  cases          \* the records a caller has read

------------------------------------------------------------------------------
(* DiagnosticWorkflowState, by the names diagnosticWorkflowStateName gives.*)
WorkflowStates == {"DETECTED", "ISOLATING", "RECOVERING", "VERIFYING", "CLOSED"}

Later ==
  { <<"DETECTED", "ISOLATING">>,
    <<"ISOLATING", "RECOVERING">>, <<"ISOLATING", "VERIFYING">>,
    <<"RECOVERING", "VERIFYING">>, <<"RECOVERING", "ISOLATING">>,
    <<"VERIFYING", "CLOSED">>, <<"VERIFYING", "RECOVERING">>,
    <<"VERIFYING", "ISOLATING">> }

CanTransitionFromRecovery(from, to) ==
  from = to \/ <<from, to>> \in Later \cup {<<"RECOVERING", "CLOSED">>}

CanTransition(from, to) == from = to \/ <<from, to>> \in Later

(* DiagnosticWorkflow::transition, when it is allowed; any tick will do.   *)
Transitioned(record, to, tick) ==
  [record EXCEPT !.state = to, !.updated = tick, !.notes = Append(@, to)]

------------------------------------------------------------------------------
Markdown == {"reportMd", "diagnosticMd"}

IsDocument(content) == content \notin {None, Garbage}
IsJson(content) == IsDocument(content) /\ content.kind \notin Markdown

(* stateFromString: a name that is not known is DETECTED.                  *)
StateFromString(name) == IF name \in WorkflowStates THEN name ELSE "DETECTED"

(* fromJson: a document of another kind has no cases, and is no error.     *)
FromJson(document) ==
  IF document.kind = "casebook"
  THEN [i \in DOMAIN document.cases |->
          [document.cases[i] EXCEPT !.state = StateFromString(@)]]
  ELSE <<>>

ToJson(records) == [kind |-> "casebook", cases |-> records]

------------------------------------------------------------------------------
(* readFile, which throws when the file is missing or cannot be parsed.    *)
ReadFile(path) ==
  /\ IsJson(disk[path])
  /\ cases' = FromJson(disk[path])
  /\ UNCHANGED disk

Transition(i, to, tick) ==
  /\ CanTransition(cases[i].state, to)
  /\ Len(cases[i].notes) < MaxNotes
  /\ cases' = [cases EXCEPT ![i] = Transitioned(@, to, tick)]
  /\ UNCHANGED disk

(* writeFile truncates the file when it opens it, throws when a write has  *)
(* failed, and does not see what is lost when the stream is closed.        *)
WriteFile(path) ==
  /\ \E content \in {Garbage, ToJson(cases)} :
       disk' = [disk EXCEPT ![path] = content]
  /\ UNCHANGED cases

(* Someone edits the file, and mistypes the state of a case.               *)
Mistype(path) ==
  /\ IsDocument(disk[path]) /\ disk[path].kind = "casebook"
  /\ \E i \in DOMAIN disk[path].cases :
       disk' = [disk EXCEPT ![path].cases[i].state = "closed"]
  /\ UNCHANGED cases

CasesNext ==
  \/ \E path \in Paths : ReadFile(path)
  \/ \E i \in DOMAIN cases, to \in WorkflowStates, tick \in 0..MaxTick :
       Transition(i, to, tick)
  \/ \E path \in Casebooks : WriteFile(path) \/ Mistype(path)

------------------------------------------------------------------------------
(* The records in memory and in all files.                                 *)
Records ==
  {cases[i] : i \in DOMAIN cases}
    \cup
  UNION { {disk[path].cases[i] : i \in DOMAIN disk[path].cases} :
            path \in {p \in Paths : IsDocument(disk[p]) /\ disk[p].kind = "casebook"} }

(* docs/STAGES_1701_1720.md:19: "DETECTED -> ISOLATING -> RECOVERING ->    *)
(* VERIFYING -> CLOSED state machine."  A case that is closed, in memory   *)
(* or in a file, was isolated and then verified, and has been nothing but  *)
(* closed since, whatever was read, edited or overwritten in between.      *)
ClosedCasesWereVerified ==
  \A record \in Records :
    record.state = "CLOSED" =>
      \E verified \in DOMAIN record.notes :
        /\ record.notes[verified] = "VERIFYING"
        /\ verified < Len(record.notes)
        /\ \A i \in (verified + 1)..Len(record.notes) : record.notes[i] = "CLOSED"
        /\ \E isolated \in 1..(verified - 1) : record.notes[isolated] = "ISOLATING"
==============================================================================
