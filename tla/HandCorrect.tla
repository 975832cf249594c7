---------------------------- MODULE HandCorrect ----------------------------
(***************************************************************************)
(* The hand-written codes that are expected to be correct.                 *)
(***************************************************************************)
EXTENDS HandWritten

-----------------------------------------------------------------------------
(* Collectives, datatypes and communicators *)

\* What rank r sends to rank q and expects from it, in integers: counts of a
\* contiguous type.
typesize(r, i) == ((2 + r + i) % 3) + 1
sendcnts(r, i) == ((((3 - r + i) % 3) + 1) * 6) \div typesize(r, i)
recvcnts(r, i) == ((((3 + r - i) % 3) + 1) * 6) \div typesize(r, i)

no_error_coll_alltoallw ==
  LET np == 2
      Fits2(r, q) == sendcnts(r, q) * typesize(r, q) = recvcnts(q, r) * typesize(q, r)
      contis(r) == IF \A q \in All(np) : Fits2(r, q) THEN "MPI_INT" ELSE "contis"
  IN  OK("no-error-coll-alltoallw", [r \in All(np) |->
        Times(3, New("TypeLeak", FALSE))
          \o Op(0, [Literal("coll", "MPI_Alltoallw", 0, 0) EXCEPT !.type = contis(r)])
          \o Times(3, Release("TypeLeak"))])

no_error_coll_barrier_type_free ==
  OK("no-error-coll-barrier-type-free", [r \in 0 .. 1 |->
    Barrier \o New("TypeLeak", FALSE) \o Barrier \o Release("TypeLeak")])

no_error_coll_reduceScatterBlock ==
  OK("no-error-coll-reduceScatterBlock", [r \in 0 .. 2 |->
    New("TypeLeak", FALSE) \o CollCall("MPI_Reduce_scatter_block") \o Release("TypeLeak")])

\* The assertions on what the collectives compute are left out.
no_error_coll_scatter_allgather_bcast_reduce ==
  OK("no-error-coll-scatter-allgather-bcast-reduce", [r \in 0 .. 3 |->
    CollCall("MPI_Scatter") \o CollCall("MPI_Allgather") \o CollCall("MPI_Bcast")
      \o CollCall("MPI_Reduce")])

no_error_coll_scatterv ==
  OK("no-error-coll-scatterv", [r \in 0 .. 1 |->
    Op(0, [Literal("coll", "MPI_Scatterv", 0, 0) EXCEPT !.root = 1])])

\* A second MPI_Type_commit does nothing.
no_error_coll_type_commit_twice ==
  OK("no-error-coll-type-commit-twice", [r \in 0 .. 1 |->
    Barrier \o New("TypeLeak", FALSE) \o LocalOp({}) \o LocalOp({}) \o Barrier
      \o Release("TypeLeak")])

no_error_com_compare ==
  OK("no-error-com-compare", [r \in 0 .. 1 |-> LocalOp({})])

no_error_topo_cart_com ==
  OK("no-error-topo-cart-com", [r \in 0 .. 1 |->
    CollCall("MPI_Cart_create") \o New("CommunicatorLeak", FALSE)
      \o Op(0, [Literal("cart_get", "MPI_Cart_get", 0, 0) EXCEPT !.comm = "cart"])
      \o Release("CommunicatorLeak")])

-----------------------------------------------------------------------------
(* Point-to-point messages *)

no_error_DTG ==
  OK("no-error-DTG", [r \in 0 .. 4 |->
    CASE r = 0 -> Recv(1, 0) \o Send(3, 0) \o Recv(ANY, 0)
      [] r = 1 -> Send(0, 0) \o Send(3, 0)
      [] r = 2 -> Recv(ANY, 0) \o Send(0, 0)
      [] r = 3 -> Recv(1, 0) \o Recv(0, 0)
      [] r = 4 -> Send(2, 0)])

no_error_p2p_any_src ==
  OK("no-error-p2p-any-src", [r \in 0 .. 1 |->
    Barrier
      \o (IF r = 0 THEN Recv(ANY, 0) \o Recv(1, 0) ELSE Send(0, 0) \o Send(0, 0))
      \o Barrier])

no_error_p2p_any_src2 ==
  OK("no-error-p2p-any-src2", [r \in 0 .. 1 |->
    Barrier
      \o (IF r = 0 THEN Sendrecv(1, 0, ANY, 0) ELSE Recv(ANY, 0) \o Send(0, 0))
      \o Barrier])

no_error_p2p_any_src3 ==
  OK("no-error-p2p-any-src3", [r \in 0 .. 1 |->
    IF r = 0 THEN Send(1, 42) ELSE Recv(ANY, 42)])

no_error_p2p_bsend_recv ==
  OK("no-error-p2p-bsend-recv", [r \in 0 .. 1 |->
    IF r = 0
    THEN Set("room", 1) \o Bsend(1, 666) \o Send(1, 666) \o Do("detach")
    ELSE Recv(0, 666) \o Recv(0, 666)])

NUMREPS == 3

no_error_p2p_irecv_any_src_loop ==
  OK("no-error-p2p-irecv-any-src-loop", [r \in 0 .. 1 |->
    Barrier
      \o (IF r = 0
          THEN Irecv(1, ANY, 0) \o Send(1, 0)
                 \o Times(NUMREPS, Send(1, 0) \o Recv(1, 0)) \o On("wait", 1)
          ELSE Irecv(1, ANY, 0) \o Recv(0, 0) \o Send(0, 0)
                 \o Times(NUMREPS - 1, Send(0, 0) \o Recv(0, 0))
                 \o Send(0, 0) \o On("wait", 1))
      \o Barrier])

no_error_p2p_irecv_isend_loop ==
  OK("no-error-p2p-irecv-isend-loop", [r \in 0 .. 1 |->
    LET dest == IF r = 1 THEN 0 ELSE r + 1
        src == IF r = 0 THEN 1 ELSE r - 1
    IN  Barrier
          \o Times(5, Irecv(1, src, 0) \o Isend(2, dest, 0) \o On("wait", 2) \o On("wait", 1))
          \o Barrier])

\* req2 = req: both handles are the same request.
no_error_p2p_irecv_send_2_handles ==
  OK("no-error-p2p-irecv-send-2-handles", [r \in 0 .. 1 |->
    Barrier
      \o (IF r = 0 THEN Irecv(1, 1, 0) \o Send(1, 0) \o On("wait", 1)
                   ELSE Irecv(1, 0, 0) \o On("wait", 1) \o Send(0, 0))
      \o Barrier])

no_error_p2p_message_dependant ==
  OK("no-error-p2p-message-dependant", [r \in 0 .. 1 |->
    IF r = 0 THEN SendValue(0, 1, 0)
             ELSE Recv(0, 0) \o IfValue(1, Recv(0, 0))])

no_error_p2p_recv_any_src_loop ==
  OK("no-error-p2p-recv-any-src-loop", [r \in 0 .. 3 |->
    Barrier \o (IF r = 0 THEN Times(3, Recv(ANY, 0)) ELSE Send(0, 0)) \o Barrier])

\* Mutant: all the ranks send first.
no_error_p2p_send_recv_ring_sends ==
  OK("no-error-p2p-send-recv-ring", [r \in 0 .. 3 |->
    Send((r + 5) % 4, 0) \o Recv((r + 3) % 4, 0)])

no_error_p2p_send_recv_ring ==
  OK("no-error-p2p-send-recv-ring", [r \in 0 .. 3 |->
    LET left == (r + 3) % 4
        right == (r + 5) % 4
    IN  IF r % 2 = 0 THEN Send(right, 0) \o Recv(left, 0)
                     ELSE Recv(left, 0) \o Send(right, 0)])

no_error_p2p_sendrecv_send_recv ==
  OK("no-error-p2p-sendrecv-send-recv", [r \in 0 .. 1 |->
    Barrier
      \o (IF r = 0 THEN Sendrecv(1, 0, 1, 0) ELSE Recv(0, 0) \o Send(0, 0))
      \o Barrier])

no_error_p2p_sendrecv2 ==
  OK("no-error-p2p-sendrecv2", [r \in 0 .. 1 |->
    LET src == (r + 1) % 2
        dest == (r - 1 + 2) % 2
    IN  Sendrecv(dest, 0, src, 0) \o Sendrecv(src, 0, dest, 0)
          \o Sendrecv(dest, 0, src, 0) \o Barrier])

no_error_p2p_sendrecv3 ==
  OK("no-error-p2p-sendrecv3", [r \in 0 .. 1 |->
    LET left == IF r = 0 THEN 1 ELSE r - 1
        right == IF r = 1 THEN 0 ELSE r + 1
        FROMRIGHT == 0
        FROMLEFT == 1
    IN  Sendrecv(left, FROMRIGHT, right, FROMRIGHT)
          \o Sendrecv(right, FROMLEFT, left, FROMLEFT)])

no_error_p2p_test ==
  OK("no-error-p2p-test", [r \in 0 .. 1 |->
    Barrier
      \o (IF r = 0 THEN Irecv(1, 1, 0) \o Send(1, 0) \o On("wait", 1)
                   ELSE Irecv(1, 0, 0) \o On("wait", 1) \o Send(0, 0))
      \o Barrier])

\* The programs of no-error-p2p-testall and no-error-p2p-waitall are the same
\* but for the loop on MPI_Testall.
TwoRequests == [r \in 0 .. 2 |->
  Barrier
    \o (CASE r = 0 -> Irecv(1, 1, 0) \o Irecv(2, 1, 0) \o Waitall(2) \o Send(1, 1)
          [] r = 1 -> Isend(1, 0, 0) \o Isend(2, 2, 1) \o Waitall(2) \o Send(0, 0)
                        \o Recv(0, 1)
          [] r = 2 -> Recv(1, 1))
    \o Barrier]

no_error_p2p_testall == OK("no-error-p2p-testall", TwoRequests)

\* for (i = 3; i > 0; i--): request i - 1 is number i here.
no_error_p2p_testany ==
  OK("no-error-p2p-testany", [r \in 0 .. 1 |->
    LET Down(Piece(_)) == Piece(3) \o Piece(2) \o Piece(1) IN
    Barrier
      \o (IF r = 0
          THEN Irecv(1, 1, 1) \o Irecv(2, 1, 2) \o Irecv(3, 1, 3)
                 \o Down(LAMBDA i : Send(1, i) \o Waitany(1 .. i, {i}))
          ELSE Down(LAMBDA i : Recv(0, i) \o Send(0, i)))
      \o Barrier])

\* A type may be freed while a message of that type is under way.
no_error_p2p_type_free ==
  OK("no-error-p2p-type-free", [r \in 0 .. 1 |->
    LET partner == IF r % 2 = 1 THEN r - 1 ELSE r + 1
        transfer == IF r % 2 = 1 THEN Irecv(1, partner, 0) ELSE Isend(1, partner, 0)
        uncommitted == New("TypeLeak", FALSE) \o Release("TypeLeak")
    IN  Barrier
          \o Times(10, uncommitted \o uncommitted \o New("TypeLeak", FALSE) \o transfer
                         \o Release("TypeLeak") \o Waitall(1))
          \o Barrier])

no_error_p2p_waitall_loop ==
  OK("no-error-p2p-waitall-loop", [r \in 0 .. 1 |->
    LET Each(Piece(_), is) == FlattenSeq([k \in 1 .. Reps |-> Piece(is[k])])
        first == [k \in 1 .. Reps |-> k - 1]
        second == [k \in 1 .. Reps |-> Reps + k - 1]
    IN  (IF r = 0
         THEN Each(LAMBDA i : Isend(i + 1, 1, i), first)
                \o Each(LAMBDA i : Irecv(i + 1, 1, i), second)
         ELSE Each(LAMBDA i : Irecv(i + 1, 0, Reps - 1 - i), first)
                \o Each(LAMBDA i : Isend(i + 1, 0, 3 * Reps - 1 - i), second))
          \o Waitall(2 * Reps)])

no_error_p2p_waitall == OK("no-error-p2p-waitall", TwoRequests)

\* One receive allows for two integers where there is room for one, but the
\* message has one only.
no_error_p2p_waitsome ==
  OK("no-error-p2p-waitsome", [r \in 0 .. 2 |->
    CASE r = 0 -> Send(1, 666) \o Recv(1, 666)
      [] r = 1 -> Irecv(1, 0, 666) \o Isend(2, 0, 666) \o Irecv(3, 2, 123) \o Waitall(3)
      [] r = 2 -> Send(1, 123)])

-----------------------------------------------------------------------------
(* One-sided communication *)

Window(piece) == CollCall("MPI_Win_create") \o piece \o CollCall("MPI_Win_free")

OneSided(call, n, target) ==
  Set("target", target) \o Op(n, Literal("access", call, 0, 0))

no_error_rma_lock ==
  OK("no-error-rma-lock", [r \in 0 .. 2 |->
    Window(Do("lock_exclusive") \o OneSided("MPI_Get", 1, (r + 1) % 3) \o Do("unlock"))])

\* MPI_Win_flush completes the calls before it.
no_error_rma_lock2 ==
  OK("no-error-rma-lock2", [r \in 0 .. 2 |->
    Window(Do("lock_exclusive") \o OneSided("MPI_Put", 1, (r + 1) % 3)
             \o OneSided("MPI_Get", 2, (r + 1) % 3) \o Do("unlock"))])

-----------------------------------------------------------------------------
CorrectCodes ==
  no_error_coll_alltoallw \o no_error_coll_barrier_type_free
    \o no_error_coll_reduceScatterBlock \o no_error_coll_scatter_allgather_bcast_reduce
    \o no_error_coll_scatterv \o no_error_coll_type_commit_twice \o no_error_com_compare
    \o no_error_topo_cart_com \o no_error_DTG \o no_error_p2p_any_src
    \o no_error_p2p_any_src2 \o no_error_p2p_any_src3 \o no_error_p2p_bsend_recv
    \o no_error_p2p_irecv_any_src_loop \o no_error_p2p_irecv_isend_loop
    \o no_error_p2p_irecv_send_2_handles \o no_error_p2p_message_dependant
    \o no_error_p2p_recv_any_src_loop \o no_error_p2p_send_recv_ring
    \o no_error_p2p_sendrecv_send_recv \o no_error_p2p_sendrecv2 \o no_error_p2p_sendrecv3
    \o no_error_p2p_test \o no_error_p2p_testall \o no_error_p2p_testany
    \o no_error_p2p_type_free \o no_error_p2p_waitall_loop \o no_error_p2p_waitall
    \o no_error_p2p_waitsome \o no_error_rma_lock \o no_error_rma_lock2

=============================================================================
