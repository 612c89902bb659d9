------------------------------ MODULE Questions ------------------------------
(***************************************************************************)
(* The commands and tools that only read: what a graph says (GraphAnswers), *)
(* and what a change did to one (Comparison). A command is a process of its *)
(* own and keeps nothing, so that it is the one or the other that is asked. *)
(***************************************************************************)
EXTENDS GraphAnswers

CONSTANTS
  ComparedFiles, ComparedTests, ComparedStructural,  \* files of the comparison
  ComparedLines, Names, LanguageOf, Occurs, Globs, Thresholds, Baselines, Spare, Words,
  MaxEdits

VARIABLES before, after, origin, deeds, edits, judged

Change == INSTANCE Comparison WITH
  Files <- ComparedFiles, TestFiles <- ComparedTests, StructuralFiles <- ComparedStructural,
  Lines <- ComparedLines

ASSUME NumbersAssumption ==
  /\ ComparedFiles \subseteq Nat \ {0} /\ Names \subseteq Nat /\ Words \subseteq Nat
  /\ Thresholds \subseteq Nat /\ ComparedLines \subseteq Nat

ASSUME BaselinesAssumption == \A source \in Baselines : Change!IsSource(source) /\ Change!FilesApart(source)
ASSUME SpareAssumption == Spare \subseteq Change!Declarations

comparison == <<before, after, origin, deeds, edits, judged>>
questions == <<vars, comparison>>

QuestionsInit ==
  \/ Init /\ Change!Idle
  \/ Change!Baseline /\ Init /\ structural = {}

AskOfGraph == before = NONE /\ Next /\ UNCHANGED comparison
AskOfChange == Change!CompareStep /\ UNCHANGED vars

QuestionsSpec == QuestionsInit /\ [][AskOfGraph \/ AskOfChange]_questions

-----------------------------------------------------------------------------
(* What holds of a comparison holds of it here: see Comparison.             *)
EverySymbolIsAccountedFor == Change!EverySymbolIsAccountedFor

(* A rename or a move is told as one (Comparison).                          *)
RefactoringLosesNothing == Change!RefactoringLosesNothing

(* A reference left behind is a finding (Comparison).                       *)
StaleReferenceIsReported == Change!StaleReferenceIsReported

(* A rule's verdict does not rest on a guess (Comparison).                  *)
VerdictIsCertain == Change!VerdictIsCertain

(* An entry of the ignore file hides one finding (Comparison).              *)
AnEntryHidesOneFinding == Change!AnEntryHidesOneFinding
=============================================================================
