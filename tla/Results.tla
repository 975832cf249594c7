------------------------------ MODULE Results ------------------------------
(***************************************************************************)
(* What the cache of run_cmd() promises to those who read results: a store *)
(* that gives each test no result or one.  A result appears as a whole, is *)
(* that of the present source and never a compilation error, stays as it   *)
(* is, and is lost when the source of the test changes and not otherwise.  *)
(* RunCmd makes it of four files that are opened and written one by one by *)
(* a child that may be killed between any two steps.                       *)
(***************************************************************************)
CONSTANTS
  Tests,     \* the tests
  Files,     \* the source files
  FileOf,    \* FileOf[t]: the file that test t compiles
  Versions   \* the contents that a file may have

VARIABLES
  src,       \* src[f]: the content of file f
  store      \* store[t]: the result of test t, none or one element

\* What is told apart of a result: the content that was analysed, how the
\* tool ended, whether the soft timeout stopped it, and whether it is marked
\* as a timeout (a mark may be left from an earlier run).
Ends == {"exited", "killed 15", "killed 9"}

NewResult(t) ==
  {r \in [of : {src[FileOf[t]]}, how : Ends, late : BOOLEAN, marked : BOOLEAN] :
     r.late => r.marked}

Init ==
  /\ src \in [Files -> Versions]
  /\ store = [t \in Tests |-> {}]

\* A test without a result gets one.
Keep(t) ==
  /\ store[t] = {}
  /\ \E r \in NewResult(t) : store' = [store EXCEPT ![t] = {r}]
  /\ UNCHANGED src

\* A file gets another content: the results of its tests are lost, all the
\* others stay.
NewCode(f) ==
  /\ \E v \in Versions \ {src[f]} : src' = [src EXCEPT ![f] = v]
  /\ store' = [t \in Tests |-> IF FileOf[t] = f THEN {} ELSE store[t]]

Next ==
  \/ \E t \in Tests : Keep(t)
  \/ \E f \in Files : NewCode(f)

Spec == Init /\ [][Next]_<<src, store>>

=============================================================================
