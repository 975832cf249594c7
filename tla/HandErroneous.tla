--------------------------- MODULE HandErroneous ---------------------------
(***************************************************************************)
(* The hand-written codes that are expected to have an error.  In most of  *)
(* them the error is transient: it needs a certain choice of the messages, *)
(* or an implementation that does not buffer, and that is what the last    *)
(* arguments of ERROR tell.  A choice is <<r, j, s>>: communication j of   *)
(* rank r takes a message of rank s.                                       *)
(***************************************************************************)
EXTENDS HandWritten

-----------------------------------------------------------------------------
(* Messages of several ranks for one receive *)

\* The header does not tell anything of data races.
medium_DTG_deadlock ==
  ERROR("medium-DTG-deadlock", "deadlock", {"datarace"}, "none", {<<0, 1, 2>>},
    [r \in 0 .. 4 |->
      CASE r = 0 -> Recv(ANY, 0) \o Send(3, 0) \o Recv(ANY, 0)
        [] r = 1 -> Send(0, 0) \o Send(3, 0)
        [] r = 2 -> Recv(ANY, 0) \o Send(0, 0)
        [] r = 3 -> Recv(1, 0) \o Recv(0, 0)
        [] r = 4 -> Send(2, 0)])

\* A message tells its sender.  The receives are all alike, so that the one
\* that depends on the sender of the first message may be the second one.
p2p_any_src_msg_dependant_deadlock ==
  ERROR("p2p-any-src-msg-dependant-deadlock", "deadlock", {}, "all", {<<0, 1, 2>>},
    [r \in 0 .. 2 |->
      IF r = 0 THEN Recv(ANY, 0) \o IfValue(2, Recv(ANY, 0)) \o Recv(ANY, 0)
               ELSE SendValue(r, 0, 0)])

p2p_any_src_wait_deadlock ==
  ERROR("p2p-any-src-wait-deadlock", "deadlock", {}, "all", {},
    [r \in 0 .. 3 |->
      CASE r = 0 -> Irecv(1, ANY, 666) \o Recv(3, 123) \o On("wait", 1)
        [] r \in {1, 2} -> Irecv(1, ANY, 666) \o Send(r - 1, 666) \o Recv(3, 123)
                             \o On("wait", 1)
        [] r = 3 -> Irecv(1, ANY, 666) \o Send(2, 666) \o On("wait", 1)
                      \o Send(0, 123) \o Send(1, 123) \o Send(2, 123)])

p2p_any_src_wait_deadlock3 ==
  ERROR("p2p-any-src-wait-deadlock3", "deadlock", {}, "all", {<<0, 2, 2>>},
    [r \in 0 .. 2 |->
      Barrier
        \o (CASE r = 0 -> Irecv(1, ANY, 0) \o Recv(2, 0) \o Send(2, 0) \o Recv(ANY, 0)
                            \o On("wait", 1)
              [] r = 1 -> Send(0, 0)
              [] r = 2 -> Send(0, 0) \o Recv(0, 0) \o Send(0, 0))
        \o Barrier])

\* Rank 1 sends the buffer that its request receives into.
p2p_any_src_wait_deadlock4 ==
  ERROR("p2p-any-src-wait-deadlock4", "deadlock", {}, "all", {},
    [r \in 0 .. 1 |->
      Barrier \o Irecv(1, ANY, 0) \o (IF r = 1 THEN On("write", 1) ELSE <<>>)
        \o Send(1 - r, 0) \o Recv(1 - r, 0) \o Send(1 - r, 0) \o On("wait", 1) \o Barrier])

p2p_any_src_waitall_deadlock ==
  ERROR("p2p-any-src-waitall-deadlock", "deadlock", {}, "all", {},
    [r \in 0 .. 2 |->
      Barrier
        \o (CASE r = 0 -> Irecv(1, ANY, 0) \o Irecv(2, ANY, 0) \o Waitall(2) \o Send(1, 1)
                            \o Send(2, 2)
              [] r = 1 -> Send(0, 0) \o Recv(0, 1)
              [] r = 2 -> Recv(0, 2) \o Send(0, 0))
        \o Barrier])

p2p_any_src_waitall_deadlock2 ==
  ERROR("p2p-any-src-waitall-deadlock2", "deadlock", {}, "all", {},
    [r \in 0 .. 1 |->
      Barrier
        \o (IF r = 0 THEN Irecv(1, ANY, 0) \o Irecv(2, ANY, 0) \o Waitall(2) \o Send(1, 1)
                     ELSE Send(0, 0) \o Recv(0, 1) \o Send(0, 0))
        \o Barrier])

\* The rank that waits for two messages of another one, of which the second
\* is sent too late; `src' is what it receives from, `leave' how the other
\* one waits for its sends.
SecondTooLate(src, leave, more) ==
  [r \in 0 .. 2 |->
    Barrier
      \o (CASE r = 0 -> Irecv(1, src, 0) \o Irecv(2, src, 0) \o Waitall(2) \o Send(1, 1)
            [] r = 1 -> Isend(1, 0, 0) \o Isend(2, 2, 1) \o leave \o Recv(0, 1)
                          \o Send(0, 0) \o more
            [] r = 2 -> Recv(1, 1))
      \o Barrier]

p2p_any_src_waitall_deadlock3 ==
  ERROR("p2p-any-src-waitall-deadlock3", "deadlock", {}, "all", {},
        SecondTooLate(ANY, Waitall(2), <<>>))

p2p_waitall_deadlock ==
  ERROR("p2p-waitall-deadlock", "deadlock", {}, "all", {},
        SecondTooLate(1, Waitall(2), <<>>))

\* The request that MPI_Waitany leaves is the only one to wait for at the end.
p2p_any_src_waitany_deadlock2 ==
  ERROR("p2p-any-src-waitany-deadlock2", "deadlock", {}, "all", {},
        SecondTooLate(ANY, Waitany({1, 2}, {1, 2}), Waitall(2)))

p2p_any_src_waitany_deadlock ==
  ERROR("p2p-any-src-waitany-deadlock", "deadlock", {}, "all", {},
    [r \in 0 .. 1 |->
      Barrier
        \o (IF r = 0 THEN Irecv(1, ANY, 0) \o Irecv(2, ANY, 0)
                            \o Waitany({1, 2}, {1, 2}) \o Send(1, 1)
                     ELSE Recv(0, 1) \o Send(0, 0))
        \o Barrier])

\* token1 is larger than token0.
p2p_any_src_waitany_deadlock3 ==
  ERROR("p2p-any-src-waitany-deadlock3", "deadlock", {}, "small", {<<2, 2, 0>>},
    [r \in 0 .. 2 |->
      Barrier
        \o (CASE r = 0 -> Send(1, 0) \o SendBig(2, 0)
              [] r = 1 -> SendBig(2, 20) \o Recv(0, ANY)
              [] r = 2 -> Recv(ANY, ANY) \o Recv(0, ANY))])

-----------------------------------------------------------------------------
(* Waiting in a circle, or for what is never sent *)

p2p_sendrecv_send_recv_deadlock ==
  ERROR("p2p-sendrecv-send-recv-deadlock", "deadlock", {}, "none", {},
    [r \in 0 .. 2 |->
      Barrier
        \o (CASE r = 0 -> Sendrecv(1, 0, 1, 0) \o Recv(2, 0)
              [] r = 1 -> Recv(0, 0) \o Send(2, 0) \o Send(0, 0)
              [] r = 2 -> Send(0, 0) \o Recv(1, 0))
        \o Barrier])

p2p_sendrecv_send_recv_deadlock2 ==
  ERROR("p2p-sendrecv-send-recv-deadlock2", "deadlock", {}, "all", {},
    [r \in 0 .. 2 |->
      CASE r = 0 -> Send(1, 123)
        [] r = 1 -> Sendrecv(2, 123, ANY, 789)
        [] r = 2 -> Recv(1, 123) \o Send(1, 123)])

\* for (i = 3; i > 0; i--): request i - 1 is number i here.
p2p_waitany_deadlock ==
  ERROR("p2p-waitany-deadlock", "deadlock", {}, "all", {},
    [r \in 0 .. 1 |->
      LET Round0(i) == Waitany(1 .. i, {i}) \o Send(1, i)
          Round1(i) == Recv(0, i) \o Send(0, 0)
      IN  Barrier
            \o (IF r = 0 THEN Irecv(1, 1, 0) \o Irecv(2, 1, 0) \o Irecv(3, 1, 0)
                                \o Round0(3) \o Round0(2) \o Round0(1)
                         ELSE Round1(3) \o Round1(2) \o Round1(1))
            \o Barrier])

-----------------------------------------------------------------------------
(* medium-Diffusion2D.c *)

nprocsx == 2
nprocsy == 4
nyl == 2

\* The neighbours that initdata computes, for a grid of 2 x 4 processes.
initdata(r) ==
  LET xcoord == r % nprocsx
      ycoord == r \div nprocsx
  IN  [up    |-> xcoord + nprocsx * ((ycoord + 1) % nprocsy),
       down  |-> xcoord + nprocsx * ((ycoord + nprocsy - 1) % nprocsy),
       left  |-> ((xcoord + nprocsx - 1) % nprocsx) + nprocsx * ycoord,
       right |-> ((xcoord + 1) % nprocsx) + nprocsx * ycoord]

write_frame_2(r) ==
  IF r # 0 THEN FlattenSeq([j \in 1 .. nyl |-> Send(0, j - 1)])
           ELSE Times(nyl * (nprocsx * nprocsy - 1), Recv(ANY, ANY))

exchange_ghost_cells(r) ==
  LET g == initdata(r) IN
  Send(g.down, 0) \o Recv(g.up, 0) \o Send(g.up, 0) \o Recv(g.down, 0)
    \o Send(g.left, 0) \o Recv(g.right, 0) \o Send(g.right, 0) \o Recv(g.left, 0)

medium_Diffusion2D ==
  ERROR("medium-Diffusion2D", "deadlock", {"datarace"}, "all", {},
    [r \in 0 .. 2 |-> write_frame_2(r) \o Barrier \o exchange_ghost_cells(r)])

-----------------------------------------------------------------------------
(* Invalid arguments *)

topo_cart_intercom_error ==
  ERROR("topo-cart-intercom-error", "mpierr", {}, "all", {},
    [r \in 0 .. 1 |->
      CollCall("MPI_Comm_split") \o New("CommunicatorLeak", FALSE)
        \o CollCall("MPI_Intercomm_create") \o New("CommunicatorLeak", FALSE)
        \o Op(0, [Literal("coll", "MPI_Cart_create", 0, 0) EXCEPT !.comm = "intercomm"])
        \o New("CommunicatorLeak", FALSE) \o Times(3, Release("CommunicatorLeak"))])

\* Two ranks have a communicator with two dimensions, the third one has none.
topo_cart_shift_dim_error ==
  ERROR("topo-cart-shift-dim-error", "mpierr", {}, "all", {},
    [r \in 0 .. 2 |->
      LET created == r < 2 IN
      CollCall("MPI_Cart_create")
        \o (IF created THEN New("CommunicatorLeak", FALSE) ELSE <<>>)
        \o LocalOp(IF created THEN {"InvalidOtherArg"} ELSE {"InvalidCommunicator"})
        \o (IF created THEN Release("CommunicatorLeak") ELSE <<>>)])

type_null_error ==
  ERROR("type-null-error", "mpierr", {}, "all", {},
    [r \in 0 .. 1 |-> IF r = 0 THEN LocalOp({"InvalidDatatype"}) ELSE <<>>])

type_null_error2 ==
  ERROR("type-null-error2", "mpierr", {}, "all", {},
    [r \in 0 .. 1 |->
      IF r = 0 THEN LocalOp({"InvalidDatatype"}) \o New("TypeLeak", FALSE)
                      \o Release("TypeLeak")
               ELSE <<>>])

-----------------------------------------------------------------------------
ErroneousCodes ==
  medium_DTG_deadlock \o p2p_any_src_msg_dependant_deadlock \o p2p_any_src_wait_deadlock
    \o p2p_any_src_wait_deadlock3 \o p2p_any_src_wait_deadlock4
    \o p2p_any_src_waitall_deadlock \o p2p_any_src_waitall_deadlock2
    \o p2p_any_src_waitall_deadlock3 \o p2p_waitall_deadlock
    \o p2p_any_src_waitany_deadlock \o p2p_any_src_waitany_deadlock2
    \o p2p_any_src_waitany_deadlock3 \o p2p_sendrecv_send_recv_deadlock
    \o p2p_sendrecv_send_recv_deadlock2 \o p2p_waitany_deadlock \o medium_Diffusion2D
    \o topo_cart_intercom_error \o topo_cart_shift_dim_error \o type_null_error
    \o type_null_error2

=============================================================================
