---------------------------- MODULE ResultCursor ----------------------------
(***************************************************************************)
(* A query read through SQLiteResult and SQLiteResultIterator             *)
(* (src/src/daemon/util/SQLiteWrapper.cpp), as Index::get_meta reads it:  *)
(* for(auto row : db_->exec(sql, values)) result_list.push_back(...).     *)
(*                                                                         *)
(* The statement follows sqlite3_step: SQLITE_ROW with the next row,      *)
(* SQLITE_DONE after the last, or an error (an I/O error, a busy or       *)
(* corrupt file) at most MaxFaults times.  A step after anything but      *)
(* SQLITE_ROW resets the statement first, so it starts the query over; a  *)
(* step of a finalized (null) statement returns SQLITE_MISUSE.            *)
(*                                                                         *)
(* end() is SQLiteResultIterator(SQLITE_DONE), which sets rescode only.   *)
(* The header that would give prepared_stmt and current_idx defaults is   *)
(* not in the tree, so endNull chooses between the two builds: both read  *)
(* as (nullptr, 0), or both hold values no live iterator has.             *)
(***************************************************************************)
EXTENDS Naturals, Sequences, SequencesExt

CONSTANTS
    Row,        \* the rows a query may return
    MaxRows,    \* longest query result
    MaxFaults,  \* failing steps per read
    MaxYields,  \* rows the loop may push before the read is cut off
    Garbage     \* what row[0] reads from an empty result vector

ASSUME MaxRows \in Nat /\ MaxFaults \in Nat /\ MaxYields \in Nat
ASSUME Garbage \notin Row

None == "none"  \* an empty result vector

VARIABLES
    q,          \* the rows the query selects, in order
    endNull,    \* end()'s uninitialised stmt and index read as (nullptr, 0)
    stmt,       \* "live", or "null" once finalize() ran
    last,       \* code of the statement's last step ("none" before the first)
    pos,        \* rows stepped since the statement was last reset
    rescode,    \* SQLiteResultIterator::rescode
    result,     \* SQLiteResultIterator::result: a row, or None
    idx,        \* *shared_idx, and the iterator's current_idx
    out,        \* result_list
    faults,     \* failing steps so far
    pc          \* "exec", "loop" or "done"

vars == <<q, endNull, stmt, last, pos, rescode, result, idx, out, faults, pc>>

Code == {"ROW", "DONE", "ERROR", "MISUSE"}

TypeOK ==
    /\ q \in BoundedSeq(Row, MaxRows)
    /\ endNull \in BOOLEAN
    /\ stmt \in {"live", "null"}
    /\ last \in Code \cup {"none"}
    /\ pos \in 0..MaxRows
    /\ rescode \in Code \cup {"none"}
    /\ result \in Row \cup {None}
    /\ idx \in 0..MaxYields
    /\ out \in BoundedSeq(Row \cup {Garbage}, MaxYields)
    /\ faults \in 0..MaxFaults
    /\ pc \in {"exec", "loop", "done"}

Init ==
    /\ q \in BoundedSeq(Row, MaxRows)
    /\ endNull \in BOOLEAN
    /\ stmt = "live" /\ last = "none" /\ pos = 0
    /\ rescode = "none" /\ result = None /\ idx = 0
    /\ out = <<>> /\ faults = 0 /\ pc = "exec"

\* The outcomes of one sqlite3_step: records of the code returned, the
\* statement's new position and whether the step failed.
StepOutcomes ==
    IF stmt = "null" THEN {[code |-> "MISUSE", pos |-> pos, fault |-> 0]}
    ELSE LET p0 == IF last = "ROW" THEN pos ELSE 0 IN
         {[code |-> IF p0 < Len(q) THEN "ROW" ELSE "DONE",
           pos |-> IF p0 < Len(q) THEN p0 + 1 ELSE p0, fault |-> 0]}
         \cup (IF faults < MaxFaults
               THEN {[code |-> "ERROR", pos |-> p0, fault |-> 1]} ELSE {})

\* fill_result: the current row is read only when the step gave SQLITE_ROW;
\* otherwise result keeps what it held.
FillResult(s) == IF s.code = "ROW" THEN q[s.pos] ELSE result

\* The statement's part of a step.
Stepped(s) ==
    /\ last' = s.code /\ rescode' = s.code /\ pos' = s.pos
    /\ faults' = faults + s.fault

\* Mutant: begin() without fill_result, so the first row is never read.
ExecNoFill ==
    /\ pc = "exec"
    /\ \E s \in StepOutcomes :
          /\ Stepped(s)
          /\ stmt' = IF s.code = "ROW" THEN "live" ELSE "null"
    /\ pc' = "loop"
    /\ UNCHANGED <<q, endNull, idx, out, result>>

\* SQLiteDB::exec and the SQLiteResult constructor: the first step, then
\* finalize() unless have_rows(); begin() builds the iterator at index 0
\* and fills its result.
Exec ==
    /\ pc = "exec"
    /\ \E s \in StepOutcomes :
          /\ Stepped(s)
          /\ stmt' = IF s.code = "ROW" THEN "live" ELSE "null"
          /\ result' = FillResult(s)
    /\ pc' = "loop"
    /\ UNCHANGED <<q, endNull, idx, out>>

\* SQLiteResultIterator::operator!= against end().
NotEqualEnd ==
    /\ rescode \notin {"DONE", "OK"}
    /\ ~(endNull /\ stmt = "null" /\ idx = 0)

\* Mutant: operator++ without fill_result, the row left as it was.
IncrementNoFill ==
    /\ \E s \in StepOutcomes : Stepped(s)
    /\ idx' = idx + 1
    /\ UNCHANGED <<stmt, result>>

\* SQLiteResultIterator::operator++: step, advance the shared index, fill.
Increment ==
    /\ \E s \in StepOutcomes : Stepped(s) /\ result' = FillResult(s)
    /\ idx' = idx + 1
    /\ UNCHANGED stmt

\* operator* and operator[]: result[pos], an out-of-range read of an
\* empty vector when no row was filled; it is taken to yield Garbage.
Deref == IF result = None THEN Garbage ELSE result

\* One pass of the range-for: the test against end(), the body's
\* push_back of row[0], then ++.
LoopBody ==
    /\ pc = "loop" /\ NotEqualEnd
    /\ Len(out) < MaxYields
    /\ out' = Append(out, Deref)
    /\ Increment
    /\ UNCHANGED <<q, endNull, pc>>

\* The test fails and the loop ends; ~SQLiteResult finalizes.
LoopExit ==
    /\ pc = "loop" /\ ~NotEqualEnd
    /\ pc' = "done" /\ stmt' = "null"
    /\ UNCHANGED <<q, endNull, last, pos, rescode, result, idx, out, faults>>

\* The read is cut off at MaxYields rows (the loop would go on).
CutOff ==
    /\ pc = "loop" /\ NotEqualEnd /\ Len(out) = MaxYields
    /\ UNCHANGED vars

Next == Exec \/ LoopBody \/ LoopExit \/ CutOff \/ (pc = "done" /\ UNCHANGED vars)

Spec == Init /\ [][Next]_vars

-----------------------------------------------------------------------------
\* With no failing step, get_meta's loop returns exactly the selected rows,
\* in order: the iterator protocol (begin, operator!=, operator++,
\* fill_result) neither drops, repeats nor invents a row.
FaultFreeReadExact ==
    pc = "done" /\ faults = 0 => out = q

\* A loop that ends on SQLITE_DONE ends with one whole pass of the query:
\* after a failing step the statement restarts, so a row read before the
\* failure is returned again, but none of the final pass is missing.
ReadEndsWithWholeQuery ==
    pc = "done" /\ rescode = "DONE" => IsSuffix(q, out)

=============================================================================
