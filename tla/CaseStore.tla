----------------------------- MODULE CaseStore -----------------------------
(***************************************************************************)
(* The file behind soar-engine's cases: record_case changes the memory and *)
(* appends a line, load_cases reads the lines back at startup, the last    *)
(* record of a case wins and a line it cannot parse is skipped.            *)
(*                                                                         *)
(* SoarCases takes an append for granted.  Here it may be cut off, by a    *)
(* full disk or the end of the process: what is left is nothing, a part of *)
(* the record, or the record without its newline, and the next append      *)
(* continues that line.  A line is the sequence of the pieces on it.       *)
(***************************************************************************)
EXTENDS Integers, Sequences, FiniteSets, FiniteSetsExt

CONSTANTS
  Writes,   \* calls of record_case, each with a record of its own
  CaseOf,   \* CaseOf[w]: the case_id of the record
  MaxCuts,  \* bound: appends that are cut off
  MaxStarts, \* bound: restarts between two calls
  Nothing

Parameters ==
  /\ Nothing \notin Writes
  /\ MaxCuts \in Nat /\ MaxStarts \in Nat

VARIABLES
  memory,   \* CASES, by case the write its record comes from
  lines,    \* the lines of CASE_STORE_PATH
  open,     \* the last line has no newline yet
  outcome,  \* outcome[w]: "none", "stored", "error" or "died"
  starts    \* restarts so far

vars == <<memory, lines, open, outcome, starts>>

Cases  == {CaseOf[w] : w \in Writes}
Pieces == [write : Writes, whole : BOOLEAN]

TypeOK ==
  /\ memory \in [Cases -> Writes \cup {Nothing}]
  /\ lines \in Seq(Seq(Pieces))
  /\ open \in BOOLEAN
  /\ outcome \in [Writes -> {"none", "stored", "error", "died"}]
  /\ starts \in 0..MaxStarts

Init ==
  /\ memory = [c \in Cases |-> Nothing]
  /\ lines = <<>>
  /\ open = FALSE
  /\ outcome = [w \in Writes |-> "none"]
  /\ starts = 0

-----------------------------------------------------------------------------
(* load_cases *)
Readable(line) == Len(line) = 1 /\ line[1].whole

\* Mutation: the first line that cannot be parsed ends the loading.
Loaded_m(text) ==
  {k \in DOMAIN text : \A j \in 1..k : Readable(text[j])}

Loaded(text) == {k \in DOMAIN text : Readable(text[k])}

Load(text) ==
  [c \in Cases |->
     LET mine == {k \in Loaded(text) : CaseOf[text[k][1].write] = c}
     IN  IF mine = {} THEN Nothing ELSE text[Max(mine)][1].write]

(* persist_case: what the file holds once a piece of record w is appended. *)
\* Mutation: every append starts on the line of the last one.
Appended_m(w, whole) ==
  LET piece == [write |-> w, whole |-> whole]
  IN  IF lines # <<>>
      THEN [lines EXCEPT ![Len(lines)] = Append(@, piece)]
      ELSE Append(lines, <<piece>>)

Appended(w, whole) ==
  LET piece == [write |-> w, whole |-> whole]
  IN  IF open THEN [lines EXCEPT ![Len(lines)] = Append(@, piece)]
      ELSE Append(lines, <<piece>>)

Remembered(w) == [memory EXCEPT ![CaseOf[w]] = w]

(* record_case: no await lies between the memory and the file.             *)
RecordCase(w) ==
  /\ outcome[w] = "none"
  /\ memory' = Remembered(w)
  /\ lines' = Appended(w, TRUE)
  /\ open' = FALSE
  /\ outcome' = [outcome EXCEPT ![w] = "stored"]
  /\ UNCHANGED starts

Cuts == {w \in Writes : outcome[w] \in {"error", "died"}}

CutOff(w, how) ==
  /\ outcome[w] = "none" /\ Cardinality(Cuts) < MaxCuts
  /\ \/ UNCHANGED <<lines, open>>
     \/ \E whole \in BOOLEAN : lines' = Appended(w, whole) /\ open' = TRUE
  /\ outcome' = [outcome EXCEPT ![w] = how]
  /\ UNCHANGED starts

(* The append raises; the caller answers 500, the memory stays changed.    *)
AppendRaises(w) ==
  /\ CutOff(w, "error")
  /\ memory' = Remembered(w)

(* The process dies in the middle of the append, and starts again.         *)
AppendDies(w) ==
  /\ CutOff(w, "died")
  /\ memory' = Load(lines')

Restart ==
  /\ starts < MaxStarts
  /\ starts' = starts + 1
  /\ memory' = Load(lines)
  /\ UNCHANGED <<lines, open, outcome>>

Next ==
  \/ \E w \in Writes : RecordCase(w) \/ AppendRaises(w) \/ AppendDies(w)
  \/ Restart

Spec == Init /\ [][Next]_vars

-----------------------------------------------------------------------------
(* As long as no append was cut off, the memory is what the file says: a   *)
(* restart loses nothing and brings nothing old back (record_case,         *)
(* load_cases).                                                            *)
FileIsMemory == Cuts = {} => Load(lines) = memory

(* The damage is bounded: an append that is cut off costs at most one      *)
(* record that was reported stored, the one that continues its line        *)
(* (persist_case, load_cases).                                             *)
Kept == {lines[k][1].write : k \in Loaded(lines)}

DamageIsBounded ==
  Cardinality({w \in Writes : outcome[w] = "stored" /\ w \notin Kept})
    <= Cardinality(Cuts)

(* What the store promises as a whole.                                     *)
StoreIsSound == FileIsMemory /\ DamageIsBounded
=============================================================================
