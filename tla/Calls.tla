------------------------------- MODULE Calls -------------------------------
(***************************************************************************)
(* The tables of scripts/generator_utils.py: for each MPI call, the pieces *)
(* of C that declare its buffers, make the call, start it, complete it,    *)
(* free what it used and write to its buffer.  A piece of C is a sequence  *)
(* of instructions for the machine of module Mpi; the number n that the    *)
(* tables paste into the names of buffers and requests is kept, the text   *)
(* of a declaration that has no effect is the empty sequence.              *)
(*                                                                         *)
(* The arguments of a call are C variables (dest, root, newcom, ...) that  *)
(* the templates set before.  The machine reads them when it makes the     *)
(* call, as the compiled program does.                                     *)
(***************************************************************************)
EXTENDS Integers, Sequences, SequencesExt

\* Lists of calls, in the order of the source.
coll == <<"MPI_Barrier", "MPI_Bcast", "MPI_Reduce", "MPI_Gather", "MPI_Scatter",
          "MPI_Scan", "MPI_Exscan", "MPI_Allgather", "MPI_Allreduce",
          "MPI_Allgatherv", "MPI_Alltoall", "MPI_Alltoallv">>
icoll == <<"MPI_Ibcast", "MPI_Ireduce", "MPI_Igather", "MPI_Iscatter",
           "MPI_Iscan", "MPI_Iexscan", "MPI_Iallgather", "MPI_Iallreduce",
           "MPI_Iallgatherv", "MPI_Ialltoall", "MPI_Ialltoallv">>
ibarrier == <<"MPI_Ibarrier">>
coll4op == <<"MPI_Reduce", "MPI_Allreduce">>
icoll4op == <<"MPI_Ireduce", "MPI_Iallreduce">>
coll4root == <<"MPI_Reduce", "MPI_Bcast", "MPI_Gather", "MPI_Scatter">>
icoll4root == <<"MPI_Ireduce", "MPI_Ibcast", "MPI_Igather", "MPI_Iscatter">>
tcoll == <<"MPI_Comm_split", "MPI_Op_create", "MPI_Comm_group", "MPI_Comm_dup",
           "MPI_Type_contiguous", "MPI_Comm_create", "MPI_Group_excl">>

send == <<"MPI_Send">>
ssend == <<"MPI_Ssend">>
bsend == <<"MPI_Bsend">>
isend == <<"MPI_Isend">>
psend == <<"MPI_Send_init">>
recv == <<"MPI_Recv">>
irecv == <<"MPI_Irecv">>
precv == <<"MPI_Recv_init">>
probe == <<"MPI_Probe">>
allsend == send \o isend \o ssend \o bsend \o psend
allrecv == recv \o irecv \o precv

epochs == <<"MPI_Win_fence", "MPI_Win_lock", "MPI_Win_lock_all">>
rma == <<"MPI_Get", "MPI_Put">>
accesses == rma \o <<"store", "load", "loadstore">>

-----------------------------------------------------------------------------
\* What the signatures of the calls say.
Persistent == ToSet(psend \o precv)
Nonblocking == ToSet(icoll \o ibarrier \o isend \o irecv)
Rooted == ToSet(coll4root \o icoll4root)
Reducing == ToSet(coll4op \o icoll4op)
              \cup {"MPI_Scan", "MPI_Exscan", "MPI_Iscan", "MPI_Iexscan"}
\* The last three occur in hand-written codes only.
Typed == (ToSet(coll \o icoll \o allsend \o allrecv \o rma) \ {"MPI_Barrier"})
           \cup {"MPI_Alltoallw", "MPI_Scatterv", "MPI_Reduce_scatter_block"}

\* The collectives whose buffers come from malloc.
Mallocs == {"MPI_Allgather", "MPI_Alltoall", "MPI_Alltoallv", "MPI_Allgatherv",
            "MPI_Iallgather", "MPI_Ialltoall", "MPI_Ialltoallv", "MPI_Iallgatherv"}

\* The kinds of errors that the header of a hand-written code speaks of.
Kinds == {"deadlock", "numstab", "segfault", "mpierr", "resleak", "livelock",
          "datarace"}

-----------------------------------------------------------------------------
\* Instructions.
Do(what) == <<[do |-> what]>>
Set(x, v) == <<[do |-> "set", var |-> x, val |-> v]>>
On(what, n) == <<[do |-> what, n |-> n]>>
Collective(c, comm) == <<[do |-> "coll", call |-> c, n |-> 0, comm |-> comm]>>
Call(what, c, n) == <<[do |-> what, call |-> c, n |-> n, comm |-> "newcom"]>>
New(handle, indexed) == <<[do |-> "new", handle |-> handle, indexed |-> indexed]>>
Release(handle) == <<[do |-> "release", handle |-> handle]>>

\* error[c]: what is leaked when the object that c creates is not freed.
error(c) ==
  CASE c \in {"MPI_Comm_split", "MPI_Comm_create", "MPI_Comm_dup"} -> "CommunicatorLeak"
    [] c \in {"MPI_Comm_group", "MPI_Group_excl"} -> "GroupLeak"
    [] c = "MPI_Op_create" -> "OperatorLeak"
    [] c = "MPI_Type_contiguous" -> "TypeLeak"

\* init[c](n).  Requests begin as MPI_REQUEST_NULL, which is how the machine
\* begins; MPI_Bsend attaches a buffer that is large enough for one integer.
\* Of the color of MPI_Comm_split, rank % 2, only the sign matters.
init(c, n) ==
  CASE c = "MPI_Bsend" -> Set("room", 1)
    [] c = "MPI_Comm_split" -> Set("color", 0)
    [] c = "MPI_Group_excl" -> New("GroupLeak", FALSE)
    [] OTHER -> <<>>

\* Mutant: MPI_Comm_create gets a group that was not made before.
operation_nogroup(c, n) ==
  CASE c \in ToSet(coll \o icoll \o ibarrier) -> Call("coll", c, n)
    [] c \in ToSet(allsend) -> Call("send", c, n)
    [] c \in ToSet(allrecv) -> Call("recv", c, n)
    [] c \in ToSet(probe) -> Call("probe", c, n)
    [] c \in ToSet(accesses) -> Call("access", c, n)
    [] c \in {"MPI_Comm_split", "MPI_Comm_dup"} ->
         Collective(c, "world") \o New(error(c), TRUE)
    [] c = "MPI_Comm_create" ->
         Collective(c, "world") \o New(error(c), TRUE) \o Release("GroupLeak")
    [] c = "MPI_Cart_get" -> Call("cart_get", c, n)
    [] OTHER -> New(error(c), TRUE)

\* operation[c](n)
operation(c, n) ==
  CASE c \in ToSet(coll \o icoll \o ibarrier) -> Call("coll", c, n)
    [] c \in ToSet(allsend) -> Call("send", c, n)
    [] c \in ToSet(allrecv) -> Call("recv", c, n)
    [] c \in ToSet(probe) -> Call("probe", c, n)
    [] c \in ToSet(accesses) -> Call("access", c, n)
    [] c \in {"MPI_Comm_split", "MPI_Comm_dup"} ->
         Collective(c, "world") \o New(error(c), TRUE)
    [] c = "MPI_Comm_create" ->
         New("GroupLeak", TRUE) \o Collective(c, "world")
           \o New(error(c), TRUE) \o Release("GroupLeak")
    [] c = "MPI_Cart_get" -> Call("cart_get", c, n)
    [] OTHER -> New(error(c), TRUE)

\* start[c](n)
start(c, n) == IF c \in Persistent THEN On("start", n) ELSE <<>>

\* fini[c](n)
fini(c, n) ==
  IF c \in Nonblocking \cup Persistent THEN On("wait", n)
  ELSE IF c \in ToSet(tcoll) THEN Release(error(c))
  ELSE <<>>

\* free[c](n).  Giving a buffer back to malloc counts as writing to it.
free(c, n) ==
  CASE c \in Mallocs -> On("write", n)
    [] c = "MPI_Bsend" -> Do("detach")
    [] c = "MPI_Group_excl" -> Release("GroupLeak")
    [] c \in (Nonblocking \cup Persistent) \ Mallocs -> On("reqfree", n)
    [] OTHER -> <<>>

\* write[c](n)
write(c, n) ==
  IF c \in (Nonblocking \cup Persistent) \ ToSet(ibarrier)
  THEN On("write", n) ELSE <<>>

\* epoch[e](n) and finEpoch[e](n)
epoch(e) ==
  IF e = "MPI_Win_fence" THEN Collective(e, "world") ELSE Do("lock")

finEpoch(e) ==
  IF e = "MPI_Win_fence" THEN Collective(e, "world") ELSE Do("unlock")

=============================================================================
