------------------------------- MODULE Header -------------------------------
(***************************************************************************)
(* parse_one_code() of MBI.py: the tests that are described in the header  *)
(* of a source file.                                                       *)
(*                                                                         *)
(* The function goes through the lines with one iterator, from which it    *)
(* also takes, with next(), the line that follows a test.  A line is       *)
(* represented by what the regular expressions make of it.                 *)
(***************************************************************************)
EXTENDS Naturals, Sequences, SequencesExt

CONSTANTS MaxLines  \* bound on the number of lines of a file

ASSUME HeaderAssumption == MaxLines \in Nat

(***************************************************************************)
(* "begin", "end": BEGIN_MBI_TESTS and END_MBI_TESTS; "test": a command    *)
(* after a $; "ok", "error": the expectation, "error" with one of the      *)
(* possible_details; "odd error": with another detail; "text": the rest.   *)
(***************************************************************************)
Lines == {"begin", "end", "test", "ok", "error", "odd error", "text"}

Expectations == {"ok", "error"}

VARIABLES
  lines,     \* the file
  at,        \* position of the iterator: the next line that it gives
  state,     \* 0: before the header; 1: in the header; 2: after the header
  line_num,  \* the number of the line that the messages tell
  res,       \* the tests found
  ended      \* how the function ended: see Endings

vars == <<lines, at, state, line_num, res, ended>>

Endings ==
  {"no", "returned", "second header", "unexpected end", "no expectation",
   "unknown detail", "StopIteration", "no header", "open header", "no test"}

Tests == [id : Nat, line : Nat, expect : Expectations]

Init ==
  /\ lines \in SeqOf(Lines, MaxLines)
  /\ at = 1
  /\ state = 0
  /\ line_num = 1
  /\ res = <<>>
  /\ ended = "no"

Reading == ended = "no" /\ at <= Len(lines)

Raise(what) == ended' = what /\ UNCHANGED <<lines, at, state, line_num, res>>

\* Mutant: no check that the header was not begun before.
Begin_unchecked ==
  /\ Reading
  /\ lines[at] = "begin"
  /\ state' = state + 1
  /\ at' = at + 1
  /\ UNCHANGED <<lines, line_num, res, ended>>

Begin ==
  /\ Reading
  /\ lines[at] = "begin"
  /\ IF state = 0
       THEN /\ state' = 1
            /\ at' = at + 1
            /\ UNCHANGED <<lines, line_num, res, ended>>
       ELSE Raise("second header")

\* Mutant: a second end of the header is accepted.
End_twice ==
  /\ Reading
  /\ lines[at] = "end"
  /\ IF state > 0
       THEN /\ state' = 2
            /\ at' = at + 1
            /\ UNCHANGED <<lines, line_num, res, ended>>
       ELSE Raise("unexpected end")

End ==
  /\ Reading
  /\ lines[at] = "end"
  /\ IF state = 1
       THEN /\ state' = 2
            /\ at' = at + 1
            /\ UNCHANGED <<lines, line_num, res, ended>>
       ELSE Raise("unexpected end")

Skip ==
  /\ Reading
  /\ lines[at] \notin {"begin", "end"}
  /\ lines[at] = "test" => state # 1
  /\ at' = at + 1
  /\ UNCHANGED <<lines, state, line_num, res, ended>>

\* Mutant: the tests are not counted.
NewTest_uncounted == [id |-> 0, line |-> at, expect |-> lines[at + 1]]

\* The tests are numbered from 0 on; the number is part of the log's name.
NewTest == [id |-> Len(res), line |-> at, expect |-> lines[at + 1]]

\* next(input) takes the line of the expectation from the iterator of the loop.
Expectation ==
  /\ Reading
  /\ lines[at] = "test"
  /\ state = 1
  /\ CASE at = Len(lines) -> Raise("StopIteration")
       [] at < Len(lines) /\ lines[at + 1] = "odd error" -> Raise("unknown detail")
       [] at < Len(lines) /\ lines[at + 1] \in {"begin", "end", "test", "text"} ->
            Raise("no expectation")
       [] at < Len(lines) /\ lines[at + 1] \in Expectations ->
            /\ res' = Append(res, NewTest)
            /\ at' = at + 2
            /\ line_num' = line_num + 1
            /\ UNCHANGED <<lines, state, ended>>

\* The checks after the loop.
Finish ==
  /\ ended = "no"
  /\ at > Len(lines)
  /\ \/ state = 0 /\ ended' = "no header"
     \/ state = 1 /\ ended' = "open header"
     \/ state = 2 /\ res = <<>> /\ ended' = "no test"
     \/ state = 2 /\ res # <<>> /\ ended' = "returned"
  /\ UNCHANGED <<lines, at, state, line_num, res>>

Next == Begin \/ End \/ Skip \/ Expectation \/ Finish

Spec == Init /\ [][Next]_vars

-----------------------------------------------------------------------------
TypeOK ==
  /\ lines \in Seq(Lines)
  /\ at \in 1 .. Len(lines) + 1
  /\ state \in 0 .. 2
  /\ line_num \in Nat
  /\ res \in Seq(Tests)
  /\ ended \in Endings

(***************************************************************************)
(* The reference: a header is one begin and, later, one end, with at least *)
(* one test between them, each followed by its expectation.                *)
(***************************************************************************)
Header(b, e) ==
  /\ \A i \in 1 .. Len(lines) : lines[i] = "begin" <=> i = b
  /\ \A i \in 1 .. Len(lines) : lines[i] = "end" <=> i = e
  /\ b < e

HeaderTests(b, e) == { i \in b .. e : lines[i] = "test" }

WellFormed ==
  \E b, e \in 1 .. Len(lines) :
    /\ Header(b, e)
    /\ HeaderTests(b, e) # {}
    /\ \A i \in HeaderTests(b, e) : lines[i + 1] \in Expectations

(***************************************************************************)
(* parse_one_code() returns for the files with a well-formed header and    *)
(* raises an exception for all the others: the lines that next() takes     *)
(* away from the loop never hide a misplaced end or beginning.             *)
(***************************************************************************)
AcceptsWellFormed == ended # "no" => (ended = "returned" <=> WellFormed)

(***************************************************************************)
(* What it returns is all the tests of the header and no other: one test   *)
(* for each $ line, with the expectation of the line below, numbered from  *)
(* 0 in the order of the lines, so that two tests never share a log file.  *)
(***************************************************************************)
ReturnsAllTests ==
  ended = "returned" =>
    \A b, e \in 1 .. Len(lines) :
      Header(b, e) =>
        /\ { res[n].line : n \in 1 .. Len(res) } = HeaderTests(b, e)
        /\ \A n \in 1 .. Len(res) :
             /\ res[n].id = n - 1
             /\ res[n].expect = lines[res[n].line + 1]
             /\ n > 1 => res[n - 1].line < res[n].line
=============================================================================
