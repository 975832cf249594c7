---------------------------- MODULE HandWritten ----------------------------
(***************************************************************************)
(* The hand-written codes in codes/: their header and the calls of their   *)
(* ranks.  A header tells what mpirun line is used, what is expected, and  *)
(* for each kind of error whether it occurs never, sometimes or always.    *)
(*                                                                         *)
(* The arguments of the calls stand in the code (unlike in the codes of    *)
(* the generators, where they are variables).  Buffers are not modelled:   *)
(* the one use of a buffer of a pending request is written as such.  A     *)
(* loop on MPI_Test and the like is left when the corresponding MPI_Wait   *)
(* returns, so it is written as that.  The test whether there are enough   *)
(* processes is left out: the mpirun line gives enough of them.            *)
(***************************************************************************)
EXTENDS CollGenerators, FiniteSets

ANY == -99

\* Bound on the loops over independent requests.
Reps == 2

-----------------------------------------------------------------------------
(* Calls *)

Literal(do, call, peer, tag) ==
  [do |-> do, call |-> call, comm |-> "MPI_COMM_WORLD", met |-> FALSE, data |-> 0,
   big |-> FALSE, peer |-> peer, tag |-> tag, type |-> "MPI_INT", root |-> 0,
   op |-> "MPI_SUM"]

Op(n, o) == <<[do |-> o.do, call |-> o.call, n |-> n, literal |-> o]>>

Send(dest, tag) == Op(0, Literal("send", "MPI_Send", dest, tag))
SendValue(x, dest, tag) ==
  Op(0, [Literal("send", "MPI_Send", dest, tag) EXCEPT !.data = x])
SendBig(dest, tag) ==
  Op(0, [Literal("send", "MPI_Send", dest, tag) EXCEPT !.big = TRUE])
Bsend(dest, tag) == Op(0, Literal("send", "MPI_Bsend", dest, tag))
Isend(n, dest, tag) == Op(n, Literal("send", "MPI_Isend", dest, tag))
Recv(src, tag) == Op(0, Literal("recv", "MPI_Recv", src, tag))
Irecv(n, src, tag) == Op(n, Literal("recv", "MPI_Irecv", src, tag))

CollCall(call) == Op(0, Literal("coll", call, 0, 0))
Barrier == CollCall("MPI_Barrier")

\* MPI_Waitall of the requests 1 .. n.
Waitall(n) == FlattenSeq([i \in 1 .. n |-> On("wait", i)])

\* MPI_Waitany and assert(done == ...).
Waitany(ns, expected) == <<[do |-> "waitany", ns |-> ns, expected |-> expected]>>

\* MPI_Sendrecv: both parts are under way at once.
Sendrecv(dest, stag, src, rtag) ==
  Isend(3, dest, stag) \o Irecv(4, src, rtag) \o On("wait", 3) \o On("wait", 4)

\* A call without communication.
LocalOp(faults) == <<[do |-> "local", faults |-> faults]>>

\* if (what the last message tells == x) piece
IfValue(x, piece) == <<[do |-> "jump", unless |-> x, by |-> Len(piece)]>> \o piece

\* for (i = from; i <= to; i++) piece
Times(n, piece) == FlattenSeq([i \in 1 .. n |-> piece])

-----------------------------------------------------------------------------
(* Headers *)

\* A code and the kinds of errors that its header does not exclude.  It is
\* run in every way an implementation may run it.
Labelled(name, errors, prog) ==
  LET np == Cardinality(DOMAIN prog) IN
  [file |-> <<name>>, outcome |-> "never", np |-> np,
   buffering |-> {"none", "small", "all"}, picks |-> {},
   never |-> (Kinds \cup (IF errors = {} THEN {"unmatched"} ELSE {})) \ errors,
   env |-> [r \in All(np) |-> vars0],
   prog |-> [r \in All(np) |-> prog[r] \o Do("finalize")]]

\* | OK
OK(name, prog) == << Labelled(name, {}, prog) >>

\* | ERROR: kind.  The code is also run by an implementation that buffers and
\* that chooses among the messages as given, where the error has to occur.
ERROR(name, kind, others, buffering, picks, prog) ==
  LET c == Labelled(name, {kind} \cup others, prog) IN
  << c, [c EXCEPT !.file = <<"witness", name>>, !.outcome = kind, !.never = {},
                  !.buffering = {buffering}, !.picks = picks] >>

=============================================================================
