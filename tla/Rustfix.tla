------------------------------- MODULE Rustfix -------------------------------
(***************************************************************************)
(* How the suggestions of rustc are applied to the code of a file          *)
(* (crates/rustfix): CodeFix::apply makes the replacements of a suggestion *)
(* one by one, all or none, and replace::Data keeps them apart and puts    *)
(* the new code together. Positions are those of the bytes of the code; a  *)
(* new piece of code is a number.                                          *)
(***************************************************************************)
EXTENDS FiniteSets, Integers, SequencesExt

CONSTANTS
  Length,          \* of the original code
  SuggestionLists  \* what may be applied: sequences of suggestions, each one a sequence of
                   \* replacements [start, end, data]

VARIABLES
  parts,        \* Data::parts, with `committed`
  replacements, \* those of the suggestion being applied that are left
  suggestions,  \* the suggestions left
  applied,      \* the replacements of those applied
  failed        \* number of suggestions refused

rfvars == <<parts, replacements, suggestions, applied, failed>>

RfInit ==
  /\ parts = <<>> /\ replacements = <<>>
  /\ suggestions \in SuggestionLists
  /\ applied = {} /\ failed = 0
-----------------------------------------------------------------------------
(* replace::Data. *)

\* Where a new part goes: after those that start before it, or where it starts and end before it.
InsPoint(r) ==
  1 + Cardinality({i \in 1 .. Len(parts) :
        \/ parts[i].start < r.start
        \/ parts[i].start = r.start /\ parts[i].end < r.end})

\* Mutant: what comes after is not looked at.
ConflictBefore(r) ==
  \/ r.start > r.end \/ r.end > Length
  \/ InsPoint(r) > 1 /\ r.start < parts[InsPoint(r) - 1].end

\* Data::replace_range refuses it.
Conflict(r) ==
  \/ r.start > r.end \/ r.end > Length
  \/ InsPoint(r) > 1 /\ r.start < parts[InsPoint(r) - 1].end
  \/ /\ InsPoint(r) <= Len(parts)
     /\ \E after \in {parts[InsPoint(r)]} :
          r.end > after.start \/ (r.start = after.start /\ r.end = after.end)

Span(r) == [start |-> r.start, end |-> r.end, data |-> r.data, committed |-> FALSE]

\* Data::to_vec, with the bytes of the code as negative numbers.
Bytes(from, to) == [i \in 1 .. to - from |-> -(from + i)]
ToVec ==
  LET ends == [i \in 0 .. Len(parts) |-> IF i = 0 THEN 0 ELSE parts[i].end]
      pieces == [i \in 1 .. Len(parts) |-> Bytes(ends[i - 1], parts[i].start) \o parts[i].data]
  IN  FlattenSeq(pieces) \o Bytes(ends[Len(parts)], Length)
-----------------------------------------------------------------------------
(* CodeFix::apply, for each suggestion of rustfix_and_fix. *)

Apply ==
  /\ replacements = <<>> /\ suggestions # <<>>
  /\ replacements' = Head(suggestions)
  /\ UNCHANGED <<parts, suggestions, applied, failed>>

\* Data::replace_range, and Data::commit after the last replacement of a suggestion.
ReplaceRange ==
  /\ replacements # <<>> /\ ~Conflict(Head(replacements))
  /\ replacements' = Tail(replacements)
  /\ \E new \in {InsertAt(parts, InsPoint(Head(replacements)), Span(Head(replacements)))} :
       IF Len(replacements) > 1
       THEN parts' = new /\ UNCHANGED <<suggestions, applied>>
       ELSE /\ parts' = [i \in 1 .. Len(new) |-> [new[i] EXCEPT !.committed = TRUE]]
            /\ applied' = applied \union ToSet(Head(suggestions))
            /\ suggestions' = Tail(suggestions)
  /\ UNCHANGED failed

\* Data::restore: a conflict takes back the replacements of the suggestion made so far.
Restore ==
  /\ replacements # <<>> /\ Conflict(Head(replacements))
  /\ parts' = SelectSeq(parts, LAMBDA p : p.committed)
  /\ replacements' = <<>> /\ suggestions' = Tail(suggestions)
  /\ failed' = failed + 1
  /\ UNCHANGED applied

RfNext == Apply \/ ReplaceRange \/ Restore
-----------------------------------------------------------------------------
(* Properties. *)

\* What the replacements make of the code, position by position: what is inserted there, what
\* begins there instead of the code, or the byte, if nothing replaces it.
Inserted(i) == {r \in applied : r.start = i /\ r.end = i}
Replaced(i) == {r \in applied : r.start = i /\ r.end > i}
SpanData(set) == IF set = {} THEN <<>> ELSE (CHOOSE r \in set : TRUE).data
FixedCode ==
  FlattenSeq([k \in 1 .. Length + 1 |->
    SpanData(Inserted(k - 1)) \o SpanData(Replaced(k - 1))
      \o IF k > Length \/ \E r \in applied : r.start < k /\ k <= r.end THEN <<>> ELSE <<-k>>])

\* The code is the original with all the replacements of the suggestions that were applied, each
\* in its place, and none of those of the others, though some were made before a conflict
\* (CodeFix::apply, Data::restore). Two replacements never touch the same code, and the assertion
\* of Data::to_vec holds.
CodeIsFixed ==
  /\ \A i \in 2 .. Len(parts) : parts[i - 1].end <= parts[i].start
  /\ replacements = <<>> =>
       /\ ToVec = FixedCode
       /\ \A r, s \in applied : r # s => r.end <= s.start \/ s.end <= r.start
=============================================================================
