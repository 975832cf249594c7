---------------------------- MODULE HeaderProofs ----------------------------
(***************************************************************************)
(* Proofs about Header, for files of any length:                           *)
(*   - HeaderTypeCorrect: Header keeps its type;                           *)
(*   - ParserIsRight: AcceptsWellFormed and ReturnsAllTests.               *)
(* The invariant says of the lines read so far what the reference says of  *)
(* the whole file.                                                         *)
(***************************************************************************)
EXTENDS Header, TLAPS

\* A test with its expectation is read.
TestFound ==
  /\ at < Len(lines)
  /\ lines[at] = "test"
  /\ lines[at + 1] \in Expectations
  /\ res' = Append(res, NewTest)
  /\ at' = at + 2
  /\ line_num' = line_num + 1
  /\ UNCHANGED <<lines, state, ended>>

\* The four ways in which a test is read.
LEMMA ExpectationCases ==
  ASSUME TypeOK, Expectation
  PROVE  /\ state = 1 /\ lines[at] = "test"
         /\ \/ at = Len(lines) /\ Raise("StopIteration")
            \/ /\ at < Len(lines) /\ lines[at + 1] \notin Expectations
               /\ Raise("unknown detail") \/ Raise("no expectation")
            \/ TestFound
<1>1. at <= Len(lines) /\ lines[at] = "test" /\ state = 1
  BY DEF Expectation, Reading
<1>2. at = Len(lines) \/ at < Len(lines)
  BY <1>1 DEF TypeOK
<1>3. CASE at = Len(lines)
  <2>1. ~ (at < Len(lines))
    BY <1>3 DEF TypeOK
  <2> QED BY <1>1, <1>3, <2>1 DEF Expectation
<1>4. CASE at < Len(lines)
  <2>1. lines[at + 1] \in Lines /\ at # Len(lines)
    BY <1>4 DEF TypeOK
  <2>2. CASE lines[at + 1] = "odd error"
    BY <1>1, <1>4, <2>1, <2>2 DEF Expectation, Expectations
  <2>3. CASE lines[at + 1] \in {"begin", "end", "test", "text"}
    BY <1>1, <1>4, <2>1, <2>3 DEF Expectation, Expectations
  <2>4. CASE lines[at + 1] \in Expectations
    BY <1>1, <1>4, <2>1, <2>4 DEF Expectation, Expectations, TestFound
  <2> QED BY <2>1, <2>2, <2>3, <2>4 DEF Lines, Expectations
<1> QED BY <1>2, <1>3, <1>4

LEMMA HeaderTypeStep == ASSUME TypeOK, [Next]_vars PROVE TypeOK'
<1>0. Len(lines) \in Nat /\ at \in Nat /\ Len(res) \in Nat
  BY DEF TypeOK
<1>1. CASE Begin
  <2>1. at <= Len(lines)
    BY <1>1 DEF Begin, Reading
  <2>2. Raise("second header") => TypeOK'
    BY DEF Raise, TypeOK, Endings
  <2>3. state' = 1 /\ at' = at + 1 /\ UNCHANGED <<lines, line_num, res, ended>> => TypeOK'
    BY <1>0, <2>1 DEF TypeOK
  <2> QED BY <1>1, <2>2, <2>3 DEF Begin
<1>2. CASE End
  <2>1. at <= Len(lines)
    BY <1>2 DEF End, Reading
  <2>2. Raise("unexpected end") => TypeOK'
    BY DEF Raise, TypeOK, Endings
  <2>3. state' = 2 /\ at' = at + 1 /\ UNCHANGED <<lines, line_num, res, ended>> => TypeOK'
    BY <1>0, <2>1 DEF TypeOK
  <2> QED BY <1>2, <2>2, <2>3 DEF End
<1>3. CASE Skip
  BY <1>0, <1>3 DEF Skip, Reading, TypeOK
<1>4. CASE Expectation
  <2>1. ASSUME NEW w \in Endings, Raise(w) PROVE TypeOK'
    BY <2>1 DEF Raise, TypeOK
  <2>2. ASSUME TestFound PROVE TypeOK'
    <3>1. NewTest \in Tests
      BY <1>0, <2>2 DEF TestFound, NewTest, Tests
    <3> QED BY <1>0, <2>2, <3>1 DEF TestFound, TypeOK
  <2> QED BY <1>4, <2>1, <2>2, ExpectationCases DEF Endings
<1>5. CASE Finish
  BY <1>5 DEF Finish, TypeOK, Endings
<1>6. CASE UNCHANGED vars
  BY <1>6 DEF vars, TypeOK
<1> QED BY <1>1, <1>2, <1>3, <1>4, <1>5, <1>6 DEF Next

(***************************************************************************)
(* Header keeps its type.                                                  *)
(***************************************************************************)
THEOREM HeaderTypeCorrect == Spec => []TypeOK
<1>1. Init => TypeOK
  <2>1. SeqOf(Lines, MaxLines) \subseteq Seq(Lines)
    BY HeaderAssumption DEF SeqOf
  <2>2. \A l \in Seq(Lines) : Len(l) \in Nat
    OBVIOUS
  <2> QED BY <2>1, <2>2 DEF Init, TypeOK, Endings
<1>2. TypeOK /\ [Next]_vars => TypeOK'
  BY HeaderTypeStep
<1> QED BY <1>1, <1>2, PTL DEF Spec

-----------------------------------------------------------------------------
(***************************************************************************)
(* The lines read so far, and what makes the function end.                 *)
(***************************************************************************)
\* Among the lines before line n, b is the only beginning.
OnlyBegin(b, n) == \A i \in 1 .. n - 1 : lines[i] = "begin" <=> i = b

OnlyEnd(e, n) == \A i \in 1 .. n - 1 : lines[i] = "end" <=> i = e

\* The result is the tests of the lines from b on and before line n.
TestsRead(b, n) ==
  /\ \A i \in b .. n - 1 :
       lines[i] = "test" => /\ i + 1 < n
                            /\ lines[i + 1] \in Expectations
                            /\ \E k \in 1 .. Len(res) : res[k].line = i
  /\ \A k \in 1 .. Len(res) : res[k].line \in b .. n - 1 /\ lines[res[k].line] = "test"

\* The tests are numbered in order.
Numbered ==
  \A k \in 1 .. Len(res) :
    /\ res[k].id = k - 1
    /\ res[k].expect = lines[res[k].line + 1]
    /\ k > 1 => res[k - 1].line < res[k].line

BeforeHeader ==
  state = 0 => /\ res = <<>>
               /\ \A i \in 1 .. at - 1 : lines[i] \notin {"begin", "end"}

InHeader ==
  state = 1 =>
    \E b \in 1 .. at - 1 :
      /\ OnlyBegin(b, at)
      /\ \A i \in 1 .. at - 1 : lines[i] # "end"
      /\ TestsRead(b, at)

AfterHeader ==
  state = 2 =>
    \E b, e \in 1 .. at - 1 :
      /\ b < e
      /\ OnlyBegin(b, at)
      /\ OnlyEnd(e, at)
      /\ TestsRead(b, e)

\* Why the function ended.
EndedInv ==
  /\ ended = "returned" => at > Len(lines) /\ state = 2 /\ res # <<>>
  /\ ended = "second header" => at <= Len(lines) /\ lines[at] = "begin" /\ state # 0
  /\ ended = "unexpected end" => at <= Len(lines) /\ lines[at] = "end" /\ state # 1
  /\ ended \in {"no expectation", "unknown detail"} =>
       at < Len(lines) /\ lines[at] = "test" /\ lines[at + 1] \notin Expectations /\ state = 1
  /\ ended = "StopIteration" => at = Len(lines) /\ lines[at] = "test" /\ state = 1
  /\ ended = "no header" => at > Len(lines) /\ state = 0
  /\ ended = "open header" => at > Len(lines) /\ state = 1
  /\ ended = "no test" => at > Len(lines) /\ state = 2 /\ res = <<>>

ReadInv == Numbered /\ BeforeHeader /\ InHeader /\ AfterHeader /\ EndedInv

\* What was read stays the same when the function ends.
LEMMA EndKeeps ==
  ASSUME UNCHANGED <<lines, at, state, res>>,
         Numbered, BeforeHeader, InHeader, AfterHeader
  PROVE  Numbered' /\ BeforeHeader' /\ InHeader' /\ AfterHeader'
  BY DEF Numbered, BeforeHeader, InHeader, AfterHeader, OnlyBegin, OnlyEnd, TestsRead

LEMMA RaiseKeeps ==
  ASSUME NEW w, Raise(w), Numbered, BeforeHeader, InHeader, AfterHeader
  PROVE  Numbered' /\ BeforeHeader' /\ InHeader' /\ AfterHeader'
  BY EndKeeps DEF Raise

LEMMA BeginStep == ASSUME TypeOK, ReadInv, Begin PROVE ReadInv'
<1>1. lines[at] = "begin" /\ ended = "no" /\ at <= Len(lines)
  BY DEF Begin, Reading
<1>2. at \in Nat /\ at > 0 /\ Len(lines) \in Nat
  BY DEF TypeOK
<1>3. CASE state = 0
  <2>1. /\ state' = 1 /\ at' = at + 1 /\ UNCHANGED <<lines, res, ended>>
    BY <1>3 DEF Begin
  <2>2. res = <<>> /\ Len(res) = 0 /\ \A i \in 1 .. at - 1 : lines[i] \notin {"begin", "end"}
    BY <1>3 DEF ReadInv, BeforeHeader
  <2>3. \A i \in 1 .. at' - 1 : i \in 1 .. at - 1 \/ i = at
    BY <1>2, <2>1
  <2>4. InHeader'
    <3>1. PICK b \in Nat : b = at
      BY <1>2
    <3>2. b \in 1 .. at' - 1
      BY <1>2, <2>1, <3>1
    <3>3. OnlyBegin(b, at)'
      BY <1>1, <2>1, <2>2, <2>3, <3>1 DEF OnlyBegin
    <3>4. \A i \in 1 .. at' - 1 : lines'[i] # "end"
      BY <1>1, <2>1, <2>2, <2>3
    <3>5. TestsRead(b, at)'
      <4>1. \A i \in b .. at' - 1 : lines'[i] # "test"
        BY <1>1, <1>2, <2>1, <3>1
      <4>2. 1 .. Len(res') = {}
        BY <2>1, <2>2
      <4> QED BY <4>1, <4>2 DEF TestsRead
    <3> QED BY <3>2, <3>3, <3>4, <3>5 DEF InHeader
  <2>5. Numbered' /\ BeforeHeader' /\ AfterHeader'
    BY <2>1, <2>2 DEF Numbered, BeforeHeader, AfterHeader
  <2>6. EndedInv'
    BY <1>1, <2>1 DEF EndedInv
  <2> QED BY <2>4, <2>5, <2>6 DEF ReadInv
<1>4. CASE state # 0
  <2>1. Raise("second header")
    BY <1>4 DEF Begin
  <2>2. EndedInv'
    BY <1>1, <1>4, <2>1 DEF Raise, EndedInv
  <2> QED BY <2>1, <2>2, RaiseKeeps DEF ReadInv
<1> QED BY <1>3, <1>4

LEMMA EndStep == ASSUME TypeOK, ReadInv, End PROVE ReadInv'
<1>1. lines[at] = "end" /\ ended = "no" /\ at <= Len(lines)
  BY DEF End, Reading
<1>2. at \in Nat /\ at > 0 /\ Len(lines) \in Nat
  BY DEF TypeOK
<1>3. CASE state = 1
  <2>1. /\ state' = 2 /\ at' = at + 1 /\ UNCHANGED <<lines, res, ended>>
    BY <1>3 DEF End
  <2>2. PICK b \in 1 .. at - 1 :
          OnlyBegin(b, at) /\ (\A i \in 1 .. at - 1 : lines[i] # "end") /\ TestsRead(b, at)
    BY <1>3 DEF ReadInv, InHeader
  <2>3. \A i \in 1 .. at' - 1 : i \in 1 .. at - 1 \/ i = at
    BY <1>2, <2>1
  <2>4. AfterHeader'
    <3>1. PICK e \in Nat : e = at
      BY <1>2
    <3>2. b \in 1 .. at' - 1 /\ e \in 1 .. at' - 1 /\ b < e
      BY <1>2, <2>1, <2>2, <3>1
    <3>3. OnlyBegin(b, at)'
      BY <1>1, <1>2, <2>1, <2>2, <2>3 DEF OnlyBegin
    <3>4. OnlyEnd(e, at)'
      BY <1>1, <2>1, <2>2, <2>3, <3>1 DEF OnlyEnd
    <3>5. TestsRead(b, e)'
      BY <2>1, <2>2, <3>1 DEF TestsRead
    <3> QED BY <3>2, <3>3, <3>4, <3>5 DEF AfterHeader
  <2>5. Numbered' /\ BeforeHeader' /\ InHeader'
    BY <2>1 DEF ReadInv, Numbered, BeforeHeader, InHeader
  <2>6. EndedInv'
    BY <1>1, <2>1 DEF EndedInv
  <2> QED BY <2>4, <2>5, <2>6 DEF ReadInv
<1>4. CASE state # 1
  <2>1. Raise("unexpected end")
    BY <1>4 DEF End
  <2>2. EndedInv'
    BY <1>1, <1>4, <2>1 DEF Raise, EndedInv
  <2> QED BY <2>1, <2>2, RaiseKeeps DEF ReadInv
<1> QED BY <1>3, <1>4

\* The lines from b on grow by one that is not a test.
LEMMA TestsReadGrows ==
  ASSUME NEW b \in Nat, NEW n \in Nat, lines[n] # "test", TestsRead(b, n)
  PROVE  TestsRead(b, n + 1)
<1>1. \A i \in b .. n : i \in b .. n - 1 \/ i = n
  OBVIOUS
<1>2. (n + 1) - 1 = n /\ \A i \in b .. n - 1 : i \in b .. n
  OBVIOUS
<1>3. \A i \in b .. n - 1 : i + 1 < n => i + 1 < n + 1
  OBVIOUS
<1> QED BY <1>1, <1>2, <1>3 DEF TestsRead

LEMMA SkipStep == ASSUME TypeOK, ReadInv, Skip PROVE ReadInv'
<1>1. /\ lines[at] \notin {"begin", "end"} /\ ended = "no"
      /\ lines[at] = "test" => state # 1
      /\ at' = at + 1 /\ UNCHANGED <<lines, state, res, ended>>
  BY DEF Skip, Reading
<1>2. at \in Nat /\ at > 0
  BY DEF TypeOK
<1>3. \A i \in 1 .. at' - 1 : i \in 1 .. at - 1 \/ i = at
  BY <1>1, <1>2
<1>4. \A i \in 1 .. at - 1 : i \in 1 .. at' - 1 /\ i # at
  BY <1>1, <1>2
<1>5. BeforeHeader'
  BY <1>1, <1>3 DEF ReadInv, BeforeHeader
<1>6. InHeader'
  <2> SUFFICES ASSUME state = 1 PROVE InHeader'
    BY <1>1 DEF InHeader
  <2>1. PICK b \in 1 .. at - 1 :
          OnlyBegin(b, at) /\ (\A i \in 1 .. at - 1 : lines[i] # "end") /\ TestsRead(b, at)
    BY DEF ReadInv, InHeader
  <2>2. TestsRead(b, at + 1)
    BY <1>1, <1>2, <2>1, TestsReadGrows
  <2>3. TestsRead(b, at)'
    BY <1>1, <2>2 DEF TestsRead
  <2>4. OnlyBegin(b, at)'
    BY <1>1, <1>3, <1>4, <2>1 DEF OnlyBegin
  <2>5. b \in 1 .. at' - 1 /\ \A i \in 1 .. at' - 1 : lines'[i] # "end"
    BY <1>1, <1>3, <1>4, <2>1
  <2> QED BY <2>3, <2>4, <2>5 DEF InHeader
<1>7. AfterHeader'
  <2> SUFFICES ASSUME state = 2 PROVE AfterHeader'
    BY <1>1 DEF AfterHeader
  <2>1. PICK b, e \in 1 .. at - 1 :
          b < e /\ OnlyBegin(b, at) /\ OnlyEnd(e, at) /\ TestsRead(b, e)
    BY DEF ReadInv, AfterHeader
  <2>2. OnlyBegin(b, at)' /\ OnlyEnd(e, at)'
    BY <1>1, <1>3, <1>4, <2>1 DEF OnlyBegin, OnlyEnd
  <2>3. TestsRead(b, e)'
    BY <1>1, <2>1 DEF TestsRead
  <2> QED BY <1>4, <2>1, <2>2, <2>3 DEF AfterHeader
<1>8. Numbered' /\ EndedInv'
  BY <1>1 DEF ReadInv, Numbered, EndedInv
<1> QED BY <1>5, <1>6, <1>7, <1>8 DEF ReadInv

\* A test that is found is added to the tests of the header.
LEMMA TestFoundStep ==
  ASSUME TypeOK, ReadInv, state = 1, ended = "no", TestFound
  PROVE  Numbered' /\ InHeader'
<1>1. /\ at < Len(lines) /\ lines[at] = "test" /\ lines[at + 1] \in Expectations
      /\ at' = at + 2 /\ lines' = lines /\ state' = state
      /\ res' = Append(res, [id |-> Len(res), line |-> at, expect |-> lines[at + 1]])
  BY DEF TestFound, NewTest
<1>2. at \in Nat /\ at > 0 /\ res \in Seq(Tests) /\ Len(res) \in Nat
  BY DEF TypeOK
<1>3. PICK b \in 1 .. at - 1 :
        OnlyBegin(b, at) /\ (\A i \in 1 .. at - 1 : lines[i] # "end") /\ TestsRead(b, at)
  BY DEF ReadInv, InHeader
<1>4. /\ Len(res') = Len(res) + 1
      /\ \A k \in 1 .. Len(res) : res'[k] = res[k]
      /\ res'[Len(res) + 1].id = Len(res)
      /\ res'[Len(res) + 1].line = at
      /\ res'[Len(res) + 1].expect = lines[at + 1]
  BY <1>1, <1>2
<1>5. \A k \in 1 .. Len(res') : k \in 1 .. Len(res) \/ k = Len(res) + 1
  BY <1>2, <1>4
<1>6. \A k \in 1 .. Len(res) : res[k].line \in b .. at - 1 /\ lines[res[k].line] = "test"
  BY <1>3 DEF TestsRead
<1>7. Numbered'
  <2>1. ASSUME NEW k \in 1 .. Len(res)
        PROVE  /\ res'[k].id = k - 1
               /\ res'[k].expect = lines'[res'[k].line + 1]
               /\ k > 1 => res'[k - 1].line < res'[k].line
    <3>1. k > 1 => k - 1 \in 1 .. Len(res)
      BY <1>2
    <3> QED BY <1>1, <1>4, <3>1 DEF ReadInv, Numbered
  <2>2. ASSUME NEW k, k = Len(res) + 1
        PROVE  /\ res'[k].id = k - 1
               /\ res'[k].expect = lines'[res'[k].line + 1]
               /\ k > 1 => res'[k - 1].line < res'[k].line
    <3>1. k > 1 => k - 1 \in 1 .. Len(res) /\ k - 1 = Len(res)
      BY <1>2, <2>2
    <3>2. k > 1 => res[k - 1].line \in b .. at - 1
      BY <1>6, <3>1
    <3>3. k > 1 => res'[k - 1].line < at
      BY <1>2, <1>3, <1>4, <3>1, <3>2
    <3>4. res'[k].id = k - 1
      BY <1>2, <1>4, <2>2
    <3> QED BY <1>1, <1>4, <2>2, <3>3, <3>4
  <2> QED BY <1>5, <2>1, <2>2 DEF Numbered
<1>8. \A i \in 1 .. at' - 1 : i \in 1 .. at - 1 \/ i = at \/ i = at + 1
  BY <1>1, <1>2
<1>9. /\ lines[at + 1] \notin {"begin", "end", "test"}
      /\ lines[at] \notin {"begin", "end"}
  BY <1>1 DEF Expectations
<1>10. TestsRead(b, at)'
  <2>1. ASSUME NEW i \in b .. at' - 1, lines[i] = "test"
        PROVE  /\ i + 1 < at' /\ lines[i + 1] \in Expectations
               /\ \E k \in 1 .. Len(res') : res'[k].line = i
    <3>1. i \in b .. at - 1 \/ i = at
      BY <1>1, <1>2, <1>3, <1>8, <1>9, <2>1
    <3>2. CASE i = at
      <4>1. Len(res) + 1 \in 1 .. Len(res')
        BY <1>2, <1>4
      <4> QED BY <1>1, <1>2, <1>4, <3>2, <4>1
    <3>3. CASE i \in b .. at - 1
      <4>1. PICK k \in 1 .. Len(res) : res[k].line = i
        BY <1>3, <2>1, <3>3 DEF TestsRead
      <4>2. k \in 1 .. Len(res') /\ res'[k].line = i
        BY <1>2, <1>4, <4>1
      <4>3. i + 1 < at /\ lines[i + 1] \in Expectations
        BY <1>3, <2>1, <3>3 DEF TestsRead
      <4> QED BY <1>1, <1>2, <1>3, <3>3, <4>2, <4>3
    <3> QED BY <3>1, <3>2, <3>3
  <2>2. ASSUME NEW k \in 1 .. Len(res')
        PROVE  res'[k].line \in b .. at' - 1 /\ lines[res'[k].line] = "test"
    <3>1. CASE k \in 1 .. Len(res)
      <4>1. res[k].line \in b .. at - 1 /\ lines[res[k].line] = "test"
        BY <1>6, <3>1
      <4>2. \A i \in b .. at - 1 : i \in b .. at' - 1
        BY <1>1, <1>2, <1>3
      <4> QED BY <1>4, <3>1, <4>1, <4>2
    <3>2. CASE k = Len(res) + 1
      <4>1. at \in b .. at' - 1
        BY <1>1, <1>2, <1>3
      <4> QED BY <1>1, <1>4, <3>2, <4>1
    <3> QED BY <1>5, <3>1, <3>2
  <2> QED BY <1>1, <2>1, <2>2 DEF TestsRead
<1>11. InHeader'
  <2>1. b \in 1 .. at' - 1 /\ b # at /\ b # at + 1
    BY <1>1, <1>2, <1>3
  <2>2. OnlyBegin(b, at)'
    BY <1>1, <1>3, <1>8, <1>9, <2>1 DEF OnlyBegin
  <2>3. \A i \in 1 .. at' - 1 : lines'[i] # "end"
    BY <1>1, <1>3, <1>8, <1>9
  <2> QED BY <1>10, <2>1, <2>2, <2>3 DEF InHeader
<1> QED BY <1>7, <1>11

LEMMA ExpectationStep == ASSUME TypeOK, ReadInv, Expectation PROVE ReadInv'
<1>1. ended = "no" /\ state = 1 /\ lines[at] = "test"
  BY DEF Expectation, Reading
<1>2. CASE at = Len(lines) /\ Raise("StopIteration")
  <2>1. EndedInv'
    BY <1>1, <1>2 DEF Raise, EndedInv
  <2> QED BY <1>2, <2>1, RaiseKeeps DEF ReadInv
<1>3. ASSUME NEW w \in {"unknown detail", "no expectation"}, Raise(w),
             at < Len(lines), lines[at + 1] \notin Expectations
      PROVE  ReadInv'
  <2>1. EndedInv'
    BY <1>1, <1>3 DEF Raise, EndedInv
  <2> QED BY <1>3, <2>1, RaiseKeeps DEF ReadInv
<1>4. CASE TestFound
  <2>1. Numbered' /\ InHeader'
    BY <1>1, <1>4, TestFoundStep
  <2>2. BeforeHeader' /\ AfterHeader' /\ EndedInv'
    BY <1>1, <1>4 DEF TestFound, BeforeHeader, AfterHeader, EndedInv
  <2> QED BY <2>1, <2>2 DEF ReadInv
<1> QED BY <1>2, <1>3, <1>4, ExpectationCases

LEMMA ReadStep == ASSUME TypeOK, ReadInv, [Next]_vars PROVE ReadInv'
<1>1. CASE Finish
  <2>1. EndedInv'
    BY <1>1 DEF Finish, EndedInv
  <2> QED BY <1>1, <2>1, EndKeeps DEF Finish, ReadInv
<1>2. CASE UNCHANGED vars
  <2>1. EndedInv'
    BY <1>2 DEF vars, ReadInv, EndedInv
  <2> QED BY <1>2, <2>1, EndKeeps DEF vars, ReadInv
<1> QED BY <1>1, <1>2, BeginStep, EndStep, SkipStep, ExpectationStep DEF Next

-----------------------------------------------------------------------------
(***************************************************************************)
(* What the invariant says of a function that has ended.                   *)
(***************************************************************************)
LEMMA ReturnedIsWellFormed ==
  ASSUME TypeOK, ReadInv, ended = "returned" PROVE WellFormed
<1>1. at > Len(lines) /\ state = 2 /\ res # <<>>
  BY DEF ReadInv, EndedInv
<1>2. at = Len(lines) + 1 /\ at - 1 = Len(lines) /\ Len(lines) \in Nat
  BY <1>1 DEF TypeOK
<1>3. PICK b, e \in 1 .. at - 1 :
        b < e /\ OnlyBegin(b, at) /\ OnlyEnd(e, at) /\ TestsRead(b, e)
  BY <1>1 DEF ReadInv, AfterHeader
<1>4. Header(b, e)
  BY <1>2, <1>3 DEF Header, OnlyBegin, OnlyEnd
<1>5. lines[e] = "end"
  BY <1>3 DEF OnlyEnd
<1>6. \A i \in HeaderTests(b, e) : i \in b .. e - 1 /\ lines[i] = "test"
  BY <1>2, <1>3, <1>5 DEF HeaderTests
<1>7. \A i \in HeaderTests(b, e) : lines[i + 1] \in Expectations
  BY <1>3, <1>6 DEF TestsRead
<1>8. 1 \in 1 .. Len(res)
  BY <1>1 DEF TypeOK
<1>9. res[1].line \in HeaderTests(b, e)
  <2>1. res[1].line \in b .. e - 1 /\ lines[res[1].line] = "test"
    BY <1>3, <1>8 DEF TestsRead
  <2>2. \A i \in b .. e - 1 : i \in b .. e
    BY <1>2, <1>3
  <2> QED BY <2>1, <2>2 DEF HeaderTests
<1> QED BY <1>2, <1>3, <1>4, <1>7, <1>9 DEF WellFormed

LEMMA RaisedIsNotWellFormed ==
  ASSUME TypeOK, ReadInv, ended \notin {"no", "returned"}, WellFormed PROVE FALSE
<1>1. PICK b, e \in 1 .. Len(lines) :
        /\ Header(b, e) /\ HeaderTests(b, e) # {}
        /\ \A i \in HeaderTests(b, e) : lines[i + 1] \in Expectations
  BY DEF WellFormed
<1>2. Len(lines) \in Nat /\ at \in Nat /\ at > 0 /\ at <= Len(lines) + 1
  BY DEF TypeOK
<1>3. /\ lines[b] = "begin" /\ lines[e] = "end" /\ b < e
      /\ \A i \in 1 .. Len(lines) : lines[i] = "begin" => i = b
      /\ \A i \in 1 .. Len(lines) : lines[i] = "end" => i = e
  BY <1>1 DEF Header
<1>4. \A i \in 1 .. at - 1 : i \in 1 .. Len(lines)
  BY <1>2
<1>5. state = 1 => b \in 1 .. at - 1 /\ e \notin 1 .. at - 1
  BY <1>3, <1>4 DEF ReadInv, InHeader, OnlyBegin
<1>6. state = 2 => b \in 1 .. at - 1 /\ e \in 1 .. at - 1
  BY <1>3, <1>4 DEF ReadInv, AfterHeader, OnlyBegin, OnlyEnd
<1>7. state = 0 => b \notin 1 .. at - 1
  BY <1>3 DEF ReadInv, BeforeHeader
<1>8. CASE ended = "second header"
  <2>0. at <= Len(lines) /\ lines[at] = "begin" /\ state # 0
    BY <1>8 DEF ReadInv, EndedInv
  <2>1. at \in 1 .. Len(lines) /\ lines[at] = "begin" /\ state \in {1, 2}
    BY <1>2, <2>0 DEF TypeOK
  <2> QED BY <1>2, <1>3, <1>5, <1>6, <2>1
<1>9. CASE ended = "unexpected end"
  <2>0. at <= Len(lines) /\ lines[at] = "end" /\ state # 1
    BY <1>9 DEF ReadInv, EndedInv
  <2>1. at \in 1 .. Len(lines) /\ lines[at] = "end" /\ state \in {0, 2}
    BY <1>2, <2>0 DEF TypeOK
  <2>2. e = at
    BY <1>3, <2>1
  <2> QED BY <1>2, <1>3, <1>6, <1>7, <2>1, <2>2
<1>10. CASE ended \in {"no expectation", "unknown detail"}
  <2>1. at < Len(lines) /\ lines[at] = "test" /\ lines[at + 1] \notin Expectations /\ state = 1
    BY <1>10 DEF ReadInv, EndedInv
  <2>2. at \in b .. e
    BY <1>2, <1>5, <2>1
  <2> QED BY <1>1, <2>1, <2>2 DEF HeaderTests
<1>11. CASE ended = "StopIteration"
  <2>1. at = Len(lines) /\ lines[at] = "test" /\ state = 1
    BY <1>11 DEF ReadInv, EndedInv
  <2> QED BY <1>2, <1>3, <1>5, <2>1
<1>12. CASE ended \in {"no header", "open header"}
  <2>1. at > Len(lines) /\ state \in {0, 1}
    BY <1>12 DEF ReadInv, EndedInv
  <2> QED BY <1>2, <1>5, <1>7, <2>1
<1>13. CASE ended = "no test"
  <2>1. state = 2 /\ res = <<>>
    BY <1>13 DEF ReadInv, EndedInv
  <2>2. PICK c, d \in 1 .. at - 1 : OnlyBegin(c, at) /\ OnlyEnd(d, at) /\ TestsRead(c, d)
    BY <2>1 DEF ReadInv, AfterHeader
  <2>3. c = b /\ d = e
    BY <1>6, <1>3, <2>1, <2>2 DEF OnlyBegin, OnlyEnd
  <2>4. PICK i \in b .. e : lines[i] = "test"
    BY <1>1 DEF HeaderTests
  <2>5. i \in b .. e - 1
    BY <1>2, <1>3, <2>4
  <2>6. \E k \in 1 .. Len(res) : res[k].line = i
    BY <2>2, <2>3, <2>4, <2>5 DEF TestsRead
  <2> QED BY <2>1, <2>6
<1> QED BY <1>8, <1>9, <1>10, <1>11, <1>12, <1>13 DEF TypeOK, Endings

LEMMA ReturnedAllTests == ASSUME TypeOK, ReadInv PROVE ReturnsAllTests
<1> SUFFICES ASSUME ended = "returned",
                    NEW b \in 1 .. Len(lines), NEW e \in 1 .. Len(lines), Header(b, e)
             PROVE  /\ { res[n].line : n \in 1 .. Len(res) } = HeaderTests(b, e)
                    /\ Numbered
  BY DEF ReturnsAllTests, Numbered
<1>1. at = Len(lines) + 1 /\ at - 1 = Len(lines) /\ Len(lines) \in Nat /\ state = 2
  BY DEF ReadInv, EndedInv, TypeOK
<1>2. PICK c, d \in 1 .. at - 1 : OnlyBegin(c, at) /\ OnlyEnd(d, at) /\ TestsRead(c, d)
  BY <1>1 DEF ReadInv, AfterHeader
<1>3. c = b /\ d = e /\ lines[e] = "end"
  BY <1>1, <1>2 DEF Header, OnlyBegin, OnlyEnd
<1>4. \A n \in 1 .. Len(res) : res[n].line \in b .. e - 1 /\ lines[res[n].line] = "test"
  BY <1>2, <1>3 DEF TestsRead
<1>5. \A i \in b .. e - 1 : lines[i] = "test" => \E n \in 1 .. Len(res) : res[n].line = i
  BY <1>2, <1>3 DEF TestsRead
<1>6. \A i : i \in b .. e - 1 /\ lines[i] = "test" <=> i \in HeaderTests(b, e)
  BY <1>1, <1>3 DEF HeaderTests
<1> QED BY <1>4, <1>5, <1>6 DEF ReadInv

(***************************************************************************)
(* parse_one_code() accepts the files with a well-formed header and no     *)
(* other, and returns all their tests, for files of any length.            *)
(***************************************************************************)
THEOREM ParserIsRight == Spec => [](AcceptsWellFormed /\ ReturnsAllTests)
<1>1. Init => ReadInv
  BY DEF Init, ReadInv, Numbered, BeforeHeader, InHeader, AfterHeader, EndedInv
<1>2. TypeOK /\ ReadInv /\ [Next]_vars => ReadInv'
  BY ReadStep
<1>3. TypeOK /\ ReadInv => AcceptsWellFormed /\ ReturnsAllTests
  BY ReturnedIsWellFormed, RaisedIsNotWellFormed, ReturnedAllTests DEF AcceptsWellFormed
<1> QED BY <1>1, <1>2, <1>3, HeaderTypeCorrect, PTL DEF Spec

(***************************************************************************)
(* When parse_file_header() returns, its result has every test of the      *)
(* header, once, in order and with the expectation that follows it.        *)
(***************************************************************************)
THEOREM ParserReturnsAllTests == Spec => []ReturnsAllTests
  BY ParserIsRight, PTL
=============================================================================
