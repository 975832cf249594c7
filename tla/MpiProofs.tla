------------------------------ MODULE MpiProofs ------------------------------
(***************************************************************************)
(* Proofs about Mpi, for any codes that are well-formed: however the ranks *)
(* are scheduled, whatever MPI buffers and whichever messages it matches,  *)
(* the variables keep their types; no object is freed twice, no request    *)
(* refers to an operation that was not posted, no rank leaves its program. *)
(* And codes of which NothingHidden holds show the errors of objects and   *)
(* requests that their headers announce, and no others, in all their runs. *)
(***************************************************************************)
EXTENDS Mpi, SequenceTheorems, FiniteSetTheorems, TLAPS

-----------------------------------------------------------------------------
(* The steps *)

RankStep(r) ==
  \/ InvalidCall(r) \/ Post(r) \/ InitRequest(r) \/ Return(r) \/ Wait(r)
  \/ Start(r) \/ FreeRequest(r) \/ Probe(r) \/ Detach(r) \/ Assign(r)
  \/ Write(r) \/ Create(r) \/ FreeObject(r) \/ FreeNewcom(r) \/ CartGet(r)
  \/ WaitAny(r) \/ Jump(r) \/ LocalCall(r)
  \/ Expect(r) \/ Lock(r) \/ Access(r) \/ StoreWindow(r) \/ Finalize(r)

LEMMA Steps ==
  ASSUME [Next]_vars
  PROVE  \/ \E r \in Ranks : RankStep(r)
         \/ \E s, r \in Ranks : \E i \in DOMAIN ops[s], j \in DOMAIN ops[r] : Match(s, i, r, j)
         \/ \E c \in Communicators : MatchColl(c) \/ MismatchColl(c)
         \/ UNCHANGED vars
BY Zenon DEF Next, RankStep

\* How the place in the program moves.
Stays == UNCHANGED <<pc, posted>>
Posts(r) ==
  /\ At(r).do \in Comms /\ ~ OnRequest(At(r))
  /\ pc' = pc /\ posted' = [posted EXCEPT ![r] = TRUE]
Returns(r) ==
  /\ posted[r] /\ posted' = [posted EXCEPT ![r] = FALSE]
  /\ pc' = [pc EXCEPT ![r] = @ + 1]
Advances(r) ==
  /\ ~ posted[r] \/ At(r).do \notin Comms
  /\ pc' = [pc EXCEPT ![r] = @ + 1] /\ posted' = posted
Jumps(r) ==
  /\ At(r).do = "jump" /\ posted' = posted
  /\ pc' = [pc EXCEPT ![r] = IF value[r] = At(r).unless THEN @ + 1 ELSE @ + 1 + At(r).by]

LEMMA Moves ==
  ASSUME NEW r \in Ranks, RankStep(r)
  PROVE  /\ code' = code /\ buffered' = buffered /\ Running(r)
         /\ Stays \/ Posts(r) \/ Returns(r) \/ Advances(r) \/ Jumps(r)
<1> USE DEF Stays, Posts, Returns, Advances, Jumps, Comms, run
<1>1. CASE InvalidCall(r)
  BY <1>1 DEF InvalidCall, Calling
<1>2. CASE Post(r)
  <2>1. CASE At(r).call \in Nonblocking
    BY <1>2, <2>1 DEF Post, Calling
  <2>2. CASE At(r).call \notin Nonblocking
    BY <1>2, <2>2 DEF Post, Calling, OnRequest
  <2> QED BY <2>1, <2>2
<1>3. CASE InitRequest(r)
  BY <1>3 DEF InitRequest, Calling
<1>4. CASE Return(r)
  BY <1>4 DEF Return
<1>5. CASE Wait(r)
  BY <1>5 DEF Wait
<1>6. CASE Start(r)
  BY <1>6 DEF Start
<1>7. CASE FreeRequest(r)
  BY <1>7 DEF FreeRequest
<1>8. CASE Probe(r)
  BY <1>8 DEF Probe, Calling
<1>9. CASE Detach(r)
  BY <1>9 DEF Detach
<1>10. CASE Assign(r)
  BY <1>10 DEF Assign
<1>11. CASE Write(r)
  BY <1>11 DEF Write
<1>12. CASE Create(r)
  BY <1>12 DEF Create
<1>13. CASE FreeObject(r)
  BY <1>13 DEF FreeObject
<1>14. CASE FreeNewcom(r)
  BY <1>14 DEF FreeNewcom
<1>15. CASE CartGet(r)
  BY <1>15 DEF CartGet, Calling
<1>16. CASE WaitAny(r)
  BY <1>16 DEF WaitAny
<1>17. CASE Jump(r)
  BY <1>17 DEF Jump
<1>18. CASE LocalCall(r)
  BY <1>18 DEF LocalCall
<1>19. CASE Expect(r)
  BY <1>19 DEF Expect
<1>20. CASE Lock(r)
  BY <1>20 DEF Lock
<1>21. CASE Access(r)
  BY <1>21 DEF Access, Calling
<1>22. CASE StoreWindow(r)
  BY <1>22 DEF StoreWindow
<1>23. CASE Finalize(r)
  BY <1>23 DEF Finalize
<1> QED BY <1>1, <1>2, <1>3, <1>4, <1>5, <1>6, <1>7, <1>8, <1>9, <1>10, <1>11, <1>12,
           <1>13, <1>14, <1>15, <1>16, <1>17, <1>18, <1>19, <1>20, <1>21, <1>22, <1>23,
           Zenon DEF RankStep

LEMMA OthersStay ==
  ASSUME \/ \E s, r \in Ranks : \E i \in DOMAIN ops[s], j \in DOMAIN ops[r] : Match(s, i, r, j)
         \/ \E c \in Communicators : MatchColl(c) \/ MismatchColl(c)
         \/ UNCHANGED vars
  PROVE  code' = code /\ buffered' = buffered /\ Stays /\ env' = env /\ handles' = handles
<1>1. ASSUME NEW s, NEW r, NEW i, NEW j, Match(s, i, r, j)
      PROVE  UNCHANGED <<run, pc, posted, env, handles>>
  BY <1>1, Zenon DEF Match
<1>2. ASSUME NEW c, MatchColl(c)
      PROVE  UNCHANGED <<run, pc, posted, env, handles>>
  BY <1>2, Zenon DEF MatchColl
<1>3. ASSUME NEW c, MismatchColl(c)
      PROVE  UNCHANGED <<run, pc, posted, env, handles>>
  BY <1>3, Zenon DEF MismatchColl
<1>4. CASE UNCHANGED vars
  BY <1>4, Zenon DEF vars, run, Stays
<1>5. CASE UNCHANGED <<run, pc, posted, env, handles>>
  BY <1>5, Zenon DEF run, Stays
<1> QED BY <1>1, <1>2, <1>3, <1>4, <1>5, Zenon

-----------------------------------------------------------------------------
(* The code and the places in the programs *)

\* The code is well-formed and does not change.
CodeInv == WellFormedCode(code) /\ buffered \in {"none", "small", "all"}

\* A rank is at an instruction of its program or at its end; when its call
\* is posted it is at a communication that blocks.
PlaceInv ==
  /\ pc \in [Ranks -> Nat] /\ posted \in [Ranks -> BOOLEAN]
  /\ \A r \in Ranks :
       /\ pc[r] \in 1 .. Len(Program(r)) + 1
       /\ posted[r] =>
            pc[r] <= Len(Program(r)) /\ At(r).do \in Comms /\ ~ OnRequest(At(r))

LEMMA CodeFacts ==
  ASSUME CodeInv
  PROVE  /\ code.np \in 2 .. 5 /\ Ranks = 0 .. code.np - 1
         /\ DOMAIN code.env = Ranks
         /\ \A r \in Ranks :
              /\ "newcom" \in DOMAIN code.env[r] /\ code.env[r].newcom \in NoObject
              /\ Len(Program(r)) \in Nat /\ WellFormedProgram(Program(r))
              /\ \A a \in 1 .. Len(Program(r)) :
                   "literal" \in DOMAIN Program(r)[a] =>
                     /\ WellFormedOperation(Program(r)[a].literal, code.np)
                     /\ ~ Program(r)[a].literal.met
BY Zenon DEF CodeInv, WellFormedCode, Ranks, Program

LEMMA CodeStays ==
  ASSUME [Next]_vars PROVE code' = code /\ buffered' = buffered
<1>1. ASSUME NEW r \in Ranks, RankStep(r) PROVE code' = code /\ buffered' = buffered
  BY <1>1, Moves
<1> QED BY <1>1, Steps, OthersStay, Zenon

LEMMA CodeAlways == WellFormedCodes /\ Spec => []CodeInv
<1> SUFFICES ASSUME WellFormedCodes PROVE Spec => []CodeInv
  BY Zenon
<1>1. Init => CodeInv
  BY DEF Init, CodeInv, WellFormedCodes, WellFormedCode
<1>2. CodeInv /\ [Next]_vars => CodeInv'
  BY CodeStays, Zenon DEF CodeInv
<1> QED BY <1>1, <1>2, PTL DEF Spec

LEMMA PlaceStep ==
  ASSUME CodeInv, PlaceInv, [Next]_vars
  PROVE  PlaceInv'
<1>1. code' = code /\ Ranks' = Ranks /\ \A r : Program(r)' = Program(r)
  BY CodeStays DEF Ranks, Program
<1>2. CASE Stays
  BY <1>1, <1>2 DEF Stays, PlaceInv, At
<1>3. ASSUME NEW r \in Ranks, RankStep(r), ~ Stays PROVE PlaceInv'
  <2>1. Running(r)
    BY <1>3, Moves
  <2>2. pc[r] \in 1 .. Len(Program(r))
    BY <2>1 DEF Running, PlaceInv, Program
  <2>3. Len(Program(r)) \in Nat
    BY CodeFacts
  <2>4. CASE Posts(r)
    BY <1>1, <2>2, <2>4 DEF Posts, PlaceInv, At, Program
  <2>5. ASSUME pc' \in [Ranks -> Nat], pc'[r] \in 1 .. Len(Program(r)) + 1, ~ posted'[r],
               posted' \in [Ranks -> BOOLEAN],
               \A q \in Ranks : q # r => pc'[q] = pc[q] /\ posted'[q] = posted[q]
        PROVE  PlaceInv'
    BY <1>1, <2>5 DEF PlaceInv, At, Program
  <2>6. CASE Returns(r)
    BY <2>2, <2>3, <2>5, <2>6 DEF Returns, PlaceInv
  <2>7. CASE Advances(r)
    <3>1. ~ posted[r]
      BY <2>7 DEF Advances, PlaceInv
    <3> QED BY <2>2, <2>3, <2>5, <2>7, <3>1 DEF Advances, PlaceInv
  <2>8. CASE Jumps(r)
    <3>1. ~ posted[r]
      BY <2>8 DEF Jumps, PlaceInv, Comms
    <3>2. At(r).by \in Nat /\ pc[r] + At(r).by <= Len(Program(r))
      BY <2>2, <2>8, CodeFacts DEF WellFormedProgram, Jumps, At, Program
    <3> QED BY <2>2, <2>3, <2>5, <2>8, <3>1, <3>2 DEF Jumps, PlaceInv
  <2> QED BY <1>3, <2>4, <2>6, <2>7, <2>8, Moves
<1> QED BY <1>2, <1>3, Steps, OthersStay, Zenon

LEMMA PlaceAlways == WellFormedCodes /\ Spec => []PlaceInv
<1> SUFFICES ASSUME WellFormedCodes PROVE Spec => []PlaceInv
  BY Zenon
<1>1. CodeInv /\ Init => PlaceInv
  BY CodeFacts DEF Init, PlaceInv
<1> QED BY <1>1, PlaceStep, CodeAlways, PTL DEF Spec

-----------------------------------------------------------------------------
(* Objects *)

\* Instructions that concern objects.
ObjectOps == {"new", "release", "comm_free", "set"}

\* held[h]: the objects that the program holds at its instruction k.
Balance(p, k, held) ==
  \A h \in Leaks :
    /\ held[h] \in Nat
    /\ Cardinality(Created(p, h, k)) = held[h] + Cardinality(Freed(p, h, k))

Owned(r) ==
  /\ DOMAIN env[r] = DOMAIN code.env[r]
  /\ env[r].newcom \notin NoObject <=> OwnsNewcom(Program(r), pc[r])
  /\ DOMAIN handles[r] = Leaks
  /\ Balance(Program(r), pc[r], handles[r])

\* A program holds what it has created and not freed so far, and newcom is
\* an object where the program tells.
ObjectInv ==
  /\ DOMAIN env = Ranks /\ DOMAIN handles = Ranks
  /\ \A r \in Ranks : Owned(r)

LEMMA CountsFinite ==
  ASSUME NEW p, NEW h, NEW k \in Nat
  PROVE  /\ IsFiniteSet(Created(p, h, k)) /\ Cardinality(Created(p, h, k)) \in Nat
         /\ IsFiniteSet(Freed(p, h, k)) /\ Cardinality(Freed(p, h, k)) \in Nat
<1>1. IsFiniteSet(1 .. k - 1)
  BY FS_Interval
<1>2. Created(p, h, k) \subseteq 1 .. k - 1 /\ Freed(p, h, k) \subseteq 1 .. k - 1
  BY DEF Created, Freed
<1> QED BY <1>1, <1>2, FS_Subset, FS_CardinalityType

\* Instruction k adds itself to what was created and freed, or nothing.
LEMMA CountsNext ==
  ASSUME NEW p, NEW h, NEW k \in Nat \ {0}
  PROVE  /\ Cardinality(Created(p, h, k + 1)) =
              Cardinality(Created(p, h, k)) + (IF CreatesAt(p, h, k) THEN 1 ELSE 0)
         /\ Cardinality(Freed(p, h, k + 1)) =
              Cardinality(Freed(p, h, k)) + (IF FreesAt(p, h, k) THEN 1 ELSE 0)
<1>1. 1 .. (k + 1) - 1 = (1 .. k - 1) \cup {k} /\ k \notin 1 .. k - 1
  OBVIOUS
<1>2. /\ Created(p, h, k + 1) =
           IF CreatesAt(p, h, k) THEN Created(p, h, k) \cup {k} ELSE Created(p, h, k)
      /\ k \notin Created(p, h, k)
  BY <1>1 DEF Created
<1>3. /\ Freed(p, h, k + 1) =
           IF FreesAt(p, h, k) THEN Freed(p, h, k) \cup {k} ELSE Freed(p, h, k)
      /\ k \notin Freed(p, h, k)
  BY <1>1 DEF Freed
<1>4. /\ Cardinality(Created(p, h, k) \cup {k}) = Cardinality(Created(p, h, k)) + 1
      /\ Cardinality(Freed(p, h, k) \cup {k}) = Cardinality(Freed(p, h, k)) + 1
  BY <1>2, <1>3, CountsFinite, FS_AddElement
<1> QED BY <1>2, <1>3, <1>4, CountsFinite

\* Other instructions do not count.
LEMMA CountsSkip ==
  ASSUME NEW p, NEW k \in Nat \ {0}, NEW n \in Nat,
         \A b \in k .. k + n - 1 : p[b].do \notin ObjectOps
  PROVE  /\ \A h : Created(p, h, k + n) = Created(p, h, k) /\ Freed(p, h, k + n) = Freed(p, h, k)
         /\ OwnsNewcom(p, k) <=> OwnsNewcom(p, k + n)
<1>1. 1 .. (k + n) - 1 = (1 .. k - 1) \cup (k .. k + n - 1)
  OBVIOUS
<1>2. ASSUME NEW h, NEW b \in k .. k + n - 1
      PROVE  ~ CreatesAt(p, h, b) /\ ~ FreesAt(p, h, b)
  BY DEF CreatesAt, FreesAt, ObjectOps
<1>3. ASSUME NEW h
      PROVE  Created(p, h, k + n) = Created(p, h, k) /\ Freed(p, h, k + n) = Freed(p, h, k)
  BY <1>1, <1>2 DEF Created, Freed
<1>4. ASSUME OwnsNewcom(p, k) PROVE OwnsNewcom(p, k + n)
  <2>1. PICK a \in 1 .. k - 1 :
          /\ p[a].do = "set" /\ p[a].var = "newcom" /\ p[a].val \notin NoObject
          /\ \A b \in a + 1 .. k - 1 : ~ ChangesNewcom(p[b])
    BY <1>4 DEF OwnsNewcom
  <2>2. \A b \in k .. k + n - 1 : ~ ChangesNewcom(p[b])
    BY DEF ChangesNewcom, ObjectOps
  <2>3. a + 1 .. (k + n) - 1 = (a + 1 .. k - 1) \cup (k .. k + n - 1)
    OBVIOUS
  <2>4. \A b \in a + 1 .. (k + n) - 1 : ~ ChangesNewcom(p[b])
    BY <2>1, <2>2, <2>3
  <2>5. a \in 1 .. (k + n) - 1
    OBVIOUS
  <2> QED BY <2>1, <2>4, <2>5 DEF OwnsNewcom
<1>5. ASSUME OwnsNewcom(p, k + n) PROVE OwnsNewcom(p, k)
  <2>1. PICK a \in 1 .. (k + n) - 1 :
          /\ p[a].do = "set" /\ p[a].var = "newcom" /\ p[a].val \notin NoObject
          /\ \A b \in a + 1 .. (k + n) - 1 : ~ ChangesNewcom(p[b])
    BY <1>5 DEF OwnsNewcom
  <2>2. a \notin k .. k + n - 1
    BY <2>1 DEF ObjectOps
  <2>3. a \in 1 .. k - 1 /\ \A b \in a + 1 .. k - 1 : ~ ChangesNewcom(p[b])
    BY <1>1, <2>1, <2>2
  <2> QED BY <2>1, <2>3 DEF OwnsNewcom
<1> QED BY <1>3, <1>4, <1>5

\* All but these steps leave variables and objects alone.
LEMMA QuietSteps ==
  ASSUME NEW r \in Ranks, RankStep(r),
         ~ Detach(r), ~ Assign(r), ~ Create(r), ~ FreeObject(r), ~ FreeNewcom(r)
  PROVE  env' = env /\ handles' = handles /\ (At(r).do \notin ObjectOps \/ posted[r])
<1> USE DEF ObjectOps
<1>1. CASE InvalidCall(r)
  BY <1>1 DEF InvalidCall, Calling
<1>2. CASE Post(r)
  BY <1>2 DEF Post, Calling
<1>3. CASE InitRequest(r)
  BY <1>3 DEF InitRequest, Calling
<1>4. CASE Return(r)
  BY <1>4 DEF Return
<1>5. CASE Wait(r)
  BY <1>5 DEF Wait
<1>6. CASE Start(r)
  BY <1>6 DEF Start
<1>7. CASE FreeRequest(r)
  BY <1>7 DEF FreeRequest
<1>8. CASE Probe(r)
  BY <1>8 DEF Probe, Calling
<1>9. CASE Write(r)
  BY <1>9 DEF Write
<1>10. CASE CartGet(r)
  BY <1>10 DEF CartGet, Calling
<1>11. CASE WaitAny(r)
  BY <1>11 DEF WaitAny
<1>12. CASE Jump(r)
  BY <1>12 DEF Jump
<1>13. CASE LocalCall(r)
  BY <1>13 DEF LocalCall
<1>14. CASE Expect(r)
  BY <1>14 DEF Expect
<1>15. CASE Lock(r)
  BY <1>15 DEF Lock
<1>16. CASE Access(r)
  BY <1>16 DEF Access, Calling
<1>17. CASE StoreWindow(r)
  BY <1>17 DEF StoreWindow
<1>18. CASE Finalize(r)
  BY <1>18 DEF Finalize
<1> QED BY <1>1, <1>2, <1>3, <1>4, <1>5, <1>6, <1>7, <1>8, <1>9, <1>10, <1>11, <1>12,
           <1>13, <1>14, <1>15, <1>16, <1>17, <1>18, Zenon DEF RankStep

\* Instruction k of p is executed, and held becomes now.
LEMMA BalanceNext ==
  ASSUME NEW p, NEW k \in Nat \ {0}, NEW held, NEW now, Balance(p, k, held),
         \A h \in Leaks : FreesAt(p, h, k) =>
           Cardinality(Freed(p, h, k)) < Cardinality(Created(p, h, k)),
         \A h \in Leaks :
           \/ CreatesAt(p, h, k) /\ ~ FreesAt(p, h, k) /\ now[h] = held[h] + 1
           \/ FreesAt(p, h, k) /\ ~ CreatesAt(p, h, k) /\ now[h] = held[h] - 1
           \/ ~ CreatesAt(p, h, k) /\ ~ FreesAt(p, h, k) /\ now[h] = held[h]
  PROVE  Balance(p, k + 1, now)
<1> SUFFICES ASSUME NEW h \in Leaks
             PROVE  /\ now[h] \in Nat
                    /\ Cardinality(Created(p, h, k + 1)) =
                         now[h] + Cardinality(Freed(p, h, k + 1))
  BY DEF Balance
<1> DEFINE c == Cardinality(Created(p, h, k))
           f == Cardinality(Freed(p, h, k))
<1>1. c \in Nat /\ f \in Nat
  BY CountsFinite
<1>2. held[h] \in Nat /\ c = held[h] + f
  BY DEF Balance
<1>3. /\ Cardinality(Created(p, h, k + 1)) = c + (IF CreatesAt(p, h, k) THEN 1 ELSE 0)
      /\ Cardinality(Freed(p, h, k + 1)) = f + (IF FreesAt(p, h, k) THEN 1 ELSE 0)
  BY CountsNext
<1>4. FreesAt(p, h, k) => f < c
  OBVIOUS
<1> HIDE DEF c, f
<1> QED BY <1>1, <1>2, <1>3, <1>4

\* Instructions that do not concern objects are passed.
LEMMA OwnedSkip ==
  ASSUME CodeInv, PlaceInv, ObjectInv, NEW r \in Ranks, NEW n \in Nat,
         pc'[r] = pc[r] + n, code' = code, env'[r] = env[r], handles'[r] = handles[r],
         \A b \in pc[r] .. pc[r] + n - 1 : Program(r)[b].do \notin ObjectOps
  PROVE  Owned(r)'
<1>1. pc[r] \in Nat \ {0}
  BY DEF PlaceInv
<1>2. /\ \A h : /\ Created(Program(r), h, pc[r] + n) = Created(Program(r), h, pc[r])
                /\ Freed(Program(r), h, pc[r] + n) = Freed(Program(r), h, pc[r])
      /\ OwnsNewcom(Program(r), pc[r]) <=> OwnsNewcom(Program(r), pc[r] + n)
  BY <1>1, CountsSkip
<1>3. Program(r)' = Program(r)
  BY DEF Program
<1>4. Owned(r)
  BY DEF ObjectInv
<1> QED BY <1>2, <1>3, <1>4 DEF Owned, Balance

LEMMA ObjectStep ==
  ASSUME CodeInv, PlaceInv, ObjectInv, [Next]_vars
  PROVE  ObjectInv'
<1>1. code' = code /\ Ranks' = Ranks /\ \A r : Program(r)' = Program(r)
  BY CodeStays DEF Ranks, Program
<1>2. CASE Stays /\ env' = env /\ handles' = handles
  BY <1>1, <1>2 DEF Stays, ObjectInv, Owned
<1>3. ASSUME NEW r \in Ranks, RankStep(r), ~ (Stays /\ env' = env /\ handles' = handles)
      PROVE  ObjectInv'
  <2>1. /\ Running(r)
        /\ Stays \/ Posts(r) \/ Returns(r) \/ Advances(r) \/ Jumps(r)
    BY <1>3, Moves
  <2> DEFINE p == Program(r)
             k == pc[r]
  <2>2. k \in Nat \ {0} /\ k \in 1 .. Len(p) /\ At(r) = p[k]
    BY <2>1 DEF Running, PlaceInv, Program, At
  <2>3. /\ \A h \in Leaks : FreesAt(p, h, k) =>
             Cardinality(Freed(p, h, k)) < Cardinality(Created(p, h, k))
        /\ "newcom" \in DOMAIN code.env[r]
    BY <2>2, CodeFacts DEF WellFormedProgram
  <2>4. /\ DOMAIN env = Ranks /\ DOMAIN handles = Ranks
        /\ DOMAIN env[r] = DOMAIN code.env[r] /\ DOMAIN handles[r] = Leaks
        /\ env[r].newcom \notin NoObject <=> OwnsNewcom(p, k)
        /\ Balance(p, k, handles[r])
    BY DEF ObjectInv, Owned
  <2>5. ASSUME DOMAIN env' = Ranks, DOMAIN handles' = Ranks, Owned(r)',
               \A q \in Ranks : q # r =>
                 pc'[q] = pc[q] /\ env'[q] = env[q] /\ handles'[q] = handles[q]
        PROVE  ObjectInv'
    <3>1. ASSUME NEW q \in Ranks, q # r PROVE Owned(q)'
      <4>1. Owned(q)
        BY DEF ObjectInv
      <4> QED BY <1>1, <2>5, <3>1, <4>1 DEF Owned
    <3> QED BY <1>1, <2>5, <3>1 DEF ObjectInv
  <2>6. CASE ~ Detach(r) /\ ~ Assign(r) /\ ~ Create(r) /\ ~ FreeObject(r) /\ ~ FreeNewcom(r)
    <3>1. env' = env /\ handles' = handles /\ At(r).do \notin ObjectOps
      <4>1. posted[r] => At(r).do \in Comms
        BY DEF PlaceInv
      <4> QED BY <1>3, <2>6, <4>1, QuietSteps DEF ObjectOps, Comms
    <3>2. \A q \in Ranks : q # r => pc'[q] = pc[q]
      BY <2>1 DEF Stays, Posts, Returns, Advances, Jumps, PlaceInv
    <3>3. \E n \in Nat : /\ pc'[r] = k + n
                         /\ \A b \in k .. k + n - 1 : p[b].do \notin ObjectOps
      <4>1. CASE pc' = pc
        <5>1. pc'[r] = k + 0 /\ \A b \in k .. k + 0 - 1 : p[b].do \notin ObjectOps
          BY <2>2, <4>1
        <5> QED BY <5>1
      <4>2. CASE pc'[r] = k + 1
        <5>1. \A b \in k .. k + 1 - 1 : p[b].do \notin ObjectOps
          BY <2>2, <3>1
        <5> QED BY <4>2, <5>1
      <4>3. CASE Jumps(r) /\ pc'[r] # k + 1
        <5>1. /\ At(r).by \in Nat
              /\ \A b \in k + 1 .. k + At(r).by : p[b].do \notin ObjectOps
          BY <2>2, <4>3, CodeFacts DEF WellFormedProgram, Jumps, ObjectOps
        <5>2. pc'[r] = k + (1 + At(r).by)
          <6>1. pc'[r] = k + 1 + At(r).by
            BY <4>3, Zenon DEF Jumps, PlaceInv
          <6> QED BY <2>2, <5>1, <6>1
        <5>3. \A b \in k .. k + (1 + At(r).by) - 1 : p[b].do \notin ObjectOps
          BY <2>2, <3>1, <5>1
        <5> QED BY <5>1, <5>2, <5>3
      <4> QED BY <2>1, <4>1, <4>2, <4>3 DEF Stays, Posts, Returns, Advances, PlaceInv
    <3>4. Owned(r)'
      BY <1>1, <3>1, <3>3, OwnedSkip
    <3> QED BY <2>4, <2>5, <3>1, <3>2, <3>4
  <2>7. ASSUME pc' = [pc EXCEPT ![r] = @ + 1],
               DOMAIN env' = Ranks, DOMAIN handles' = Ranks,
               \A q \in Ranks : q # r => env'[q] = env[q] /\ handles'[q] = handles[q],
               DOMAIN env'[r] = DOMAIN env[r], DOMAIN handles'[r] = DOMAIN handles[r],
               env'[r].newcom \notin NoObject <=> OwnsNewcom(p, k + 1),
               \A h \in Leaks :
                 \/ CreatesAt(p, h, k) /\ ~ FreesAt(p, h, k) /\ handles'[r][h] = handles[r][h] + 1
                 \/ FreesAt(p, h, k) /\ ~ CreatesAt(p, h, k) /\ handles'[r][h] = handles[r][h] - 1
                 \/ ~ CreatesAt(p, h, k) /\ ~ FreesAt(p, h, k) /\ handles'[r][h] = handles[r][h]
        PROVE  ObjectInv'
    <3>1. pc'[r] = k + 1 /\ \A q \in Ranks : q # r => pc'[q] = pc[q]
      BY <2>7 DEF PlaceInv
    <3>2. Balance(p, k + 1, handles'[r])
      BY <2>2, <2>3, <2>4, <2>7, BalanceNext
    <3>3. Owned(r)'
      BY <1>1, <2>4, <2>7, <3>1, <3>2 DEF Owned
    <3> QED BY <2>5, <2>7, <3>1, <3>3
  <2>8. ASSUME ~ ChangesNewcom(p[k])
        PROVE  env[r].newcom \notin NoObject <=> OwnsNewcom(p, k + 1)
    <3>1. ASSUME OwnsNewcom(p, k) PROVE OwnsNewcom(p, k + 1)
      <4>1. PICK a \in 1 .. k - 1 :
              /\ p[a].do = "set" /\ p[a].var = "newcom" /\ p[a].val \notin NoObject
              /\ \A b \in a + 1 .. k - 1 : ~ ChangesNewcom(p[b])
        BY <3>1 DEF OwnsNewcom
      <4>2. a \in 1 .. (k + 1) - 1 /\ \A b \in a + 1 .. (k + 1) - 1 : ~ ChangesNewcom(p[b])
        BY <2>2, <2>8, <4>1
      <4> QED BY <4>1, <4>2 DEF OwnsNewcom
    <3>2. ASSUME OwnsNewcom(p, k + 1) PROVE OwnsNewcom(p, k)
      <4>1. PICK a \in 1 .. (k + 1) - 1 :
              /\ p[a].do = "set" /\ p[a].var = "newcom" /\ p[a].val \notin NoObject
              /\ \A b \in a + 1 .. (k + 1) - 1 : ~ ChangesNewcom(p[b])
        BY <3>2 DEF OwnsNewcom
      <4>2. a # k
        BY <2>8, <4>1 DEF ChangesNewcom
      <4>3. a \in 1 .. k - 1 /\ \A b \in a + 1 .. k - 1 : ~ ChangesNewcom(p[b])
        BY <2>2, <4>1, <4>2
      <4> QED BY <4>1, <4>3 DEF OwnsNewcom
    <3> QED BY <2>4, <3>1, <3>2
  \* An instruction that changes newcom decides by itself.
  <2>14. ASSUME ChangesNewcom(p[k]), OwnsNewcom(p, k + 1)
         PROVE  p[k].do = "set" /\ p[k].val \notin NoObject
    <3>1. PICK a \in 1 .. (k + 1) - 1 :
            /\ p[a].do = "set" /\ p[a].var = "newcom" /\ p[a].val \notin NoObject
            /\ \A b \in a + 1 .. (k + 1) - 1 : ~ ChangesNewcom(p[b])
      BY <2>14 DEF OwnsNewcom
    <3>2. a = k
      BY <2>2, <2>14, <3>1
    <3> QED BY <3>1, <3>2
  <2> HIDE DEF p, k
  <2>9. CASE Detach(r)
    <3>1. /\ At(r).do = "detach" /\ handles' = handles /\ pc' = [pc EXCEPT ![r] = @ + 1]
          /\ env' = [env EXCEPT ![r] = [@ EXCEPT !.room = 0]]
      BY <2>9 DEF Detach
    <3>2. /\ DOMAIN env' = Ranks /\ DOMAIN env'[r] = DOMAIN env[r]
          /\ \A q \in Ranks : q # r => env'[q] = env[q]
          /\ env'[r].newcom = env[r].newcom
      BY <2>3, <2>4, <3>1
    <3>3. ~ ChangesNewcom(p[k]) /\ \A h : ~ CreatesAt(p, h, k) /\ ~ FreesAt(p, h, k)
      BY <2>2, <3>1 DEF ChangesNewcom, CreatesAt, FreesAt
    <3> QED BY <2>4, <2>7, <2>8, <3>1, <3>2, <3>3
  <2>10. CASE Assign(r)
    <3>1. /\ p[k].do = "set" /\ handles' = handles /\ pc' = [pc EXCEPT ![r] = @ + 1]
          /\ env' = [env EXCEPT ![r] = [@ EXCEPT ![p[k].var] = p[k].val]]
      BY <2>2, <2>10 DEF Assign
    <3>2. /\ DOMAIN env' = Ranks /\ DOMAIN env'[r] = DOMAIN env[r]
          /\ \A q \in Ranks : q # r => env'[q] = env[q]
          /\ env'[r].newcom = IF p[k].var = "newcom" THEN p[k].val ELSE env[r].newcom
      BY <2>3, <2>4, <3>1
    <3>3. \A h : ~ CreatesAt(p, h, k) /\ ~ FreesAt(p, h, k)
      BY <3>1 DEF CreatesAt, FreesAt
    <3>4. env'[r].newcom \notin NoObject <=> OwnsNewcom(p, k + 1)
      <4>1. CASE p[k].var = "newcom"
        <5>1. ASSUME p[k].val \notin NoObject PROVE OwnsNewcom(p, k + 1)
          <6>1. k \in 1 .. (k + 1) - 1 /\ \A b \in k + 1 .. (k + 1) - 1 : FALSE
            BY <2>2
          <6> QED BY <3>1, <4>1, <5>1, <6>1 DEF OwnsNewcom
        <5>2. ASSUME OwnsNewcom(p, k + 1) PROVE p[k].val \notin NoObject
          BY <2>14, <3>1, <4>1, <5>2 DEF ChangesNewcom
        <5> QED BY <3>2, <4>1, <5>1, <5>2
      <4>2. CASE p[k].var # "newcom"
        <5>1. ~ ChangesNewcom(p[k])
          BY <3>1, <4>2 DEF ChangesNewcom
        <5> QED BY <2>8, <3>2, <4>2, <5>1
      <4> QED BY <4>1, <4>2
    <3> QED BY <2>4, <2>7, <3>1, <3>2, <3>3, <3>4
  <2>11. CASE Create(r)
    <3>1. /\ p[k].do = "new" /\ env' = env /\ pc' = [pc EXCEPT ![r] = @ + 1]
          /\ handles' = [handles EXCEPT ![r][At(r).handle] = @ + 1]
      BY <2>2, <2>11 DEF Create
    <3>2. /\ DOMAIN handles' = Ranks /\ DOMAIN handles'[r] = DOMAIN handles[r]
          /\ \A q \in Ranks : q # r => handles'[q] = handles[q]
          /\ \A h \in Leaks :
               handles'[r][h] = IF h = p[k].handle THEN handles[r][h] + 1 ELSE handles[r][h]
      BY <2>2, <2>4, <3>1
    <3>3. /\ ~ ChangesNewcom(p[k])
          /\ \A h : ~ FreesAt(p, h, k) /\ (CreatesAt(p, h, k) <=> h = p[k].handle)
      BY <3>1 DEF ChangesNewcom, CreatesAt, FreesAt
    <3> QED BY <2>4, <2>7, <2>8, <3>1, <3>2, <3>3
  <2>12. CASE FreeObject(r)
    <3>1. /\ p[k].do = "release" /\ env' = env /\ pc' = [pc EXCEPT ![r] = @ + 1]
          /\ handles' = [handles EXCEPT ![r][At(r).handle] = @ - 1]
      BY <2>2, <2>12 DEF FreeObject
    <3>2. /\ DOMAIN handles' = Ranks /\ DOMAIN handles'[r] = DOMAIN handles[r]
          /\ \A q \in Ranks : q # r => handles'[q] = handles[q]
          /\ \A h \in Leaks :
               handles'[r][h] = IF h = p[k].handle THEN handles[r][h] - 1 ELSE handles[r][h]
      BY <2>2, <2>4, <3>1
    <3>3. /\ ~ ChangesNewcom(p[k])
          /\ \A h : ~ CreatesAt(p, h, k) /\ (FreesAt(p, h, k) <=> h = p[k].handle)
      BY <3>1 DEF ChangesNewcom, CreatesAt, FreesAt
    <3> QED BY <2>4, <2>7, <2>8, <3>1, <3>2, <3>3
  <2>13. CASE FreeNewcom(r)
    <3>1. p[k].do = "comm_free" /\ pc' = [pc EXCEPT ![r] = @ + 1]
      BY <2>2, <2>13 DEF FreeNewcom
    <3>2. /\ \A h : ~ CreatesAt(p, h, k)
          /\ \A h : FreesAt(p, h, k) <=> h = "CommunicatorLeak" /\ OwnsNewcom(p, k)
          /\ ~ OwnsNewcom(p, k + 1)
      <4>1. /\ \A h : ~ CreatesAt(p, h, k)
            /\ \A h : FreesAt(p, h, k) <=> h = "CommunicatorLeak" /\ OwnsNewcom(p, k)
        BY <3>1 DEF CreatesAt, FreesAt
      <4>2. ~ OwnsNewcom(p, k + 1)
        BY <2>14, <3>1 DEF ChangesNewcom
      <4> QED BY <4>1, <4>2
    <3>3. CASE env[r].newcom \in NoObject
      <4>1. env' = env /\ handles' = handles
        BY <2>13, <3>3 DEF FreeNewcom, NoObject
      <4> QED BY <2>4, <2>7, <3>1, <3>2, <3>3, <4>1
    <3>4. CASE env[r].newcom \notin NoObject
      <4>1. /\ handles' = [handles EXCEPT ![r]["CommunicatorLeak"] = @ - 1]
            /\ env' = [env EXCEPT ![r] = [@ EXCEPT !.newcom = "MPI_COMM_NULL"]]
        BY <2>13, <3>4 DEF FreeNewcom, NoObject
      <4>2. /\ DOMAIN env' = Ranks /\ DOMAIN env'[r] = DOMAIN env[r]
            /\ \A q \in Ranks : q # r => env'[q] = env[q]
            /\ env'[r].newcom = "MPI_COMM_NULL"
        BY <2>3, <2>4, <4>1
      <4>3. /\ DOMAIN handles' = Ranks /\ DOMAIN handles'[r] = DOMAIN handles[r]
            /\ \A q \in Ranks : q # r => handles'[q] = handles[q]
            /\ \A h \in Leaks : handles'[r][h] =
                 IF h = "CommunicatorLeak" THEN handles[r][h] - 1 ELSE handles[r][h]
        BY <2>4, <4>1
      <4>4. \A h : FreesAt(p, h, k) <=> h = "CommunicatorLeak"
        BY <2>4, <3>2, <3>4
      <4>5. env'[r].newcom \in NoObject
        BY <4>2 DEF NoObject
      <4> QED BY <2>7, <3>1, <3>2, <4>2, <4>3, <4>4, <4>5
    <3> QED BY <3>3, <3>4
  <2> QED BY <2>6, <2>9, <2>10, <2>11, <2>12, <2>13
<1> QED BY <1>2, <1>3, Steps, OthersStay, Zenon

LEMMA ObjectsAlways == WellFormedCodes /\ Spec => []ObjectInv
<1> SUFFICES ASSUME WellFormedCodes PROVE Spec => []ObjectInv
  BY Zenon
<1>1. CodeInv /\ Init => ObjectInv
  <2> SUFFICES ASSUME CodeInv, Init PROVE ObjectInv
    OBVIOUS
  <2>1. DOMAIN env = Ranks /\ DOMAIN handles = Ranks
    BY CodeFacts DEF Init
  <2>2. ASSUME NEW r \in Ranks PROVE Owned(r)
    <3>1. env[r] = code.env[r] /\ env[r].newcom \in NoObject
      BY CodeFacts DEF Init
    <3>2. pc[r] = 1 /\ handles[r] = [h \in Leaks |-> 0]
      BY DEF Init
    <3>3. /\ \A h : Created(Program(r), h, 1) = {} /\ Freed(Program(r), h, 1) = {}
          /\ ~ OwnsNewcom(Program(r), 1)
      BY DEF Created, Freed, OwnsNewcom
    <3>4. Cardinality({}) = 0
      BY FS_EmptySet
    <3> QED BY <3>1, <3>2, <3>3, <3>4 DEF Owned, Balance
  <2> QED BY <2>1, <2>2 DEF ObjectInv
<1> QED BY <1>1, ObjectStep, CodeAlways, PlaceAlways, PTL DEF Spec

-----------------------------------------------------------------------------
(* Operations, requests and messages *)

IsOps(s, np) ==
  /\ s \in Seq({s[i] : i \in DOMAIN s})
  /\ \A i \in DOMAIN s : WellFormedOperation(s[i], np)

IsRequest(q, len, np) ==
  /\ DOMAIN q = {"st", "at", "started", "pers", "op"}
  /\ q.st \in {"null", "active", "inactive"}
  /\ q.st = "active" => q.at \in 1 .. len
  /\ WellFormedOperation(q.op, np)

PostedInv ==
  /\ DOMAIN ops = Ranks /\ DOMAIN req = Ranks /\ value \in [Ranks -> Ranks \cup {-1}]
  /\ \A r \in Ranks :
       /\ IsOps(ops[r], code.np)
       /\ DOMAIN req[r] = Requests
       /\ \A n \in Requests : IsRequest(req[r][n], Len(ops[r]), code.np)

LEMMA OpsLength ==
  ASSUME NEW s, NEW np, IsOps(s, np)
  PROVE  Len(s) \in Nat /\ DOMAIN s = 1 .. Len(s)
BY DEF IsOps

LEMMA AppendOps ==
  ASSUME NEW s, NEW np, IsOps(s, np), NEW o, WellFormedOperation(o, np)
  PROVE  IsOps(Append(s, o), np) /\ Len(Append(s, o)) = Len(s) + 1
<1> DEFINE S == {s[i] : i \in DOMAIN s} \cup {o}
           t == Append(s, o)
<1>1. Len(s) \in Nat /\ DOMAIN s = 1 .. Len(s)
  BY OpsLength
<1>2. s \in Seq(S)
  <2>1. s \in [1 .. Len(s) -> S]
    BY <1>1 DEF IsOps
  <2> QED BY <1>1, <2>1, SeqDef
<1>3. /\ t \in Seq(S) /\ Len(t) = Len(s) + 1
      /\ \A i \in 1 .. Len(s) : t[i] = s[i]
      /\ t[Len(s) + 1] = o
  BY <1>2, AppendProperties
<1> HIDE DEF t
<1>4. DOMAIN t = 1 .. Len(s) + 1 /\ t \in [1 .. Len(s) + 1 -> {t[i] : i \in DOMAIN t}]
  BY <1>1, <1>3
<1>5. t \in Seq({t[i] : i \in DOMAIN t})
  BY <1>1, <1>4, SeqDef
<1>6. ASSUME NEW i \in DOMAIN t PROVE WellFormedOperation(t[i], np)
  <2>1. CASE i \in 1 .. Len(s)
    BY <1>1, <1>3, <2>1 DEF IsOps
  <2>2. CASE i = Len(s) + 1
    BY <1>3, <2>2
  <2> QED BY <1>1, <1>4, <2>1, <2>2
<1> QED BY <1>3, <1>5, <1>6 DEF t, IsOps

\* Some operations are marked as met.
LEMMA MarkOps ==
  ASSUME PostedInv, NEW these, NEW r \in Ranks
  PROVE  IsOps(Met(these)[r], code.np) /\ Len(Met(these)[r]) = Len(ops[r])
<1> DEFINE s == ops[r]
           t == Met(these)[r]
<1>1. IsOps(s, code.np) /\ Len(s) \in Nat /\ DOMAIN s = 1 .. Len(s)
  BY OpsLength DEF PostedInv
<1>2. t = [a \in DOMAIN s |->
             IF <<r, a>> \in these THEN [s[a] EXCEPT !.met = TRUE] ELSE s[a]]
  BY DEF Met
<1> HIDE DEF s, t
<1>3. DOMAIN t = 1 .. Len(s) /\ t \in [1 .. Len(s) -> {t[i] : i \in DOMAIN t}]
  BY <1>1, <1>2
<1>4. t \in Seq({t[i] : i \in DOMAIN t}) /\ Len(t) = Len(s)
  <2>1. t \in Seq({t[i] : i \in DOMAIN t})
    BY <1>1, <1>3, SeqDef
  <2> QED BY <1>1, <1>3, <2>1
<1>5. ASSUME NEW i \in DOMAIN t PROVE WellFormedOperation(t[i], code.np)
  <2>1. WellFormedOperation(s[i], code.np)
    BY <1>1, <1>3 DEF IsOps
  <2>2. WellFormedOperation([s[i] EXCEPT !.met = TRUE], code.np)
    BY <2>1 DEF WellFormedOperation
  <2> QED BY <1>1, <1>2, <1>3, <2>1, <2>2
<1> QED BY <1>4, <1>5 DEF s, t, IsOps

LEMMA OperationIsWellFormed ==
  ASSUME CodeInv, PlaceInv, NEW r \in Ranks, Running(r)
  PROVE  WellFormedOperation(Operation(r, At(r)), code.np)
<1>1. pc[r] \in 1 .. Len(Program(r)) /\ At(r) = Program(r)[pc[r]]
  BY DEF PlaceInv, Running, Program, At
<1>2. CASE "literal" \in DOMAIN At(r)
  BY <1>1, <1>2, CodeFacts DEF Operation
<1>3. CASE "literal" \notin DOMAIN At(r)
  <2>1. /\ DOMAIN Operation(r, At(r)) =
             {"do", "call", "comm", "met", "data", "big", "peer", "tag", "type", "root", "op"}
        /\ Operation(r, At(r)).data = r
    BY <1>3 DEF Operation
  <2>2. r \in 0 .. code.np - 1
    BY DEF Ranks
  <2> QED BY <2>1, <2>2 DEF WellFormedOperation
<1> QED BY <1>2, <1>3

\* All but these steps leave operations, requests and messages alone.
LEMMA SilentSteps ==
  ASSUME NEW r \in Ranks, RankStep(r), ~ Post(r), ~ InitRequest(r), ~ Wait(r),
         ~ WaitAny(r), ~ Start(r), ~ FreeRequest(r)
  PROVE  ops' = ops /\ req' = req /\ value' = value
<1>1. CASE InvalidCall(r)
  BY <1>1 DEF InvalidCall
<1>2. CASE Return(r)
  BY <1>2 DEF Return
<1>3. CASE Probe(r)
  BY <1>3 DEF Probe
<1>4. CASE Detach(r)
  BY <1>4 DEF Detach
<1>5. CASE Assign(r)
  BY <1>5 DEF Assign
<1>6. CASE Write(r)
  BY <1>6 DEF Write
<1>7. CASE Create(r)
  BY <1>7 DEF Create
<1>8. CASE FreeObject(r)
  BY <1>8 DEF FreeObject
<1>9. CASE FreeNewcom(r)
  BY <1>9 DEF FreeNewcom
<1>10. CASE CartGet(r)
  BY <1>10 DEF CartGet
<1>11. CASE Jump(r)
  BY <1>11 DEF Jump
<1>12. CASE LocalCall(r)
  BY <1>12 DEF LocalCall
<1>13. CASE Expect(r)
  BY <1>13 DEF Expect
<1>14. CASE Lock(r)
  BY <1>14 DEF Lock
<1>15. CASE Access(r)
  BY <1>15 DEF Access
<1>16. CASE StoreWindow(r)
  BY <1>16 DEF StoreWindow
<1>17. CASE Finalize(r)
  BY <1>17 DEF Finalize
<1> QED BY <1>1, <1>2, <1>3, <1>4, <1>5, <1>6, <1>7, <1>8, <1>9, <1>10, <1>11, <1>12,
           <1>13, <1>14, <1>15, <1>16, <1>17, Zenon DEF RankStep

\* More operations do not make a request invalid.
LEMMA RequestStays ==
  ASSUME NEW q, NEW np, NEW m \in Nat, NEW n \in Nat, m <= n, IsRequest(q, m, np)
  PROVE  IsRequest(q, n, np)
BY DEF IsRequest

LEMMA NoRequestIsRequest ==
  ASSUME NEW len, NEW np PROVE IsRequest(NoRequest, len, np)
BY DEF IsRequest, NoRequest, WellFormedOperation, Comms

\* One request of a rank is given another value.
LEMMA OneRequest ==
  ASSUME PostedInv, NEW r \in Ranks, NEW m, NEW x,
         m \in Requests => IsRequest(x, Len(ops[r]), code.np),
         req' = [req EXCEPT ![r][m] = x], ops' = ops, value' = value, code' = code
  PROVE  PostedInv'
<1>1. /\ DOMAIN req' = Ranks /\ \A q \in Ranks : q # r => req'[q] = req[q]
      /\ DOMAIN req'[r] = Requests
      /\ \A n \in Requests : req'[r][n] = IF n = m THEN x ELSE req[r][n]
  BY DEF PostedInv
<1>2. Ranks' = Ranks
  BY DEF Ranks
<1> QED BY <1>1, <1>2 DEF PostedInv

LEMMA MetPosted ==
  ASSUME PostedInv, NEW these, ops' = Met(these), req' = req, code' = code,
         value' \in [Ranks -> Ranks \cup {-1}]
  PROVE  PostedInv'
<1>1. Ranks' = Ranks
  BY DEF Ranks
<1>2. DOMAIN ops' = Ranks /\ \A r \in Ranks : IsOps(ops'[r], code.np) /\ Len(ops'[r]) = Len(ops[r])
  <2>1. DOMAIN Met(these) = Ranks
    BY DEF Met
  <2> QED BY <2>1, MarkOps
<1> QED BY <1>1, <1>2 DEF PostedInv

LEMMA MatchPosted ==
  ASSUME PostedInv, code' = code, NEW s \in Ranks, NEW r \in Ranks,
         NEW i \in DOMAIN ops[s], NEW j \in DOMAIN ops[r], Match(s, i, r, j)
  PROVE  PostedInv'
<1>1. /\ ops' = Met({<<s, i>>, <<r, j>>}) /\ req' = req
      /\ value' = [value EXCEPT ![r] = ops[s][i].data]
      /\ ops[s][i].do = "send"
  BY DEF Match, Fits, FitsBut
<1>2. ops[s][i].data \in Ranks
  <2>1. WellFormedOperation(ops[s][i], code.np)
    BY DEF PostedInv, IsOps
  <2> QED BY <1>1, <2>1 DEF WellFormedOperation, Ranks
<1>3. value' \in [Ranks -> Ranks \cup {-1}]
  BY <1>1, <1>2 DEF PostedInv
<1> QED BY <1>1, <1>3, MetPosted

LEMMA MatchCollPosted ==
  ASSUME PostedInv, code' = code, NEW c, MatchColl(c)
  PROVE  PostedInv'
<1>1. ops' = Met({<<r, NextColl(r, c)>> : r \in Ranks}) /\ req' = req /\ value' = value
  BY Zenon DEF MatchColl
<1>2. value' \in [Ranks -> Ranks \cup {-1}]
  BY <1>1 DEF PostedInv
<1> QED BY <1>1, <1>2, MetPosted

\* A rank posts an operation and keeps its number in a request, or not.
LEMMA OneOperation ==
  ASSUME PostedInv, NEW r \in Ranks, NEW o, WellFormedOperation(o, code.np),
         ops' = [ops EXCEPT ![r] = Append(ops[r], o)], value' = value, code' = code,
         DOMAIN req' = Ranks, \A q \in Ranks : q # r => req'[q] = req[q],
         DOMAIN req'[r] = Requests,
         \A n \in Requests : \/ req'[r][n] = req[r][n]
                             \/ IsRequest(req'[r][n], Len(ops[r]) + 1, code.np)
  PROVE  PostedInv'
<1>1. IsOps(ops[r], code.np) /\ Len(ops[r]) \in Nat
  BY OpsLength DEF PostedInv
<1>2. IsOps(Append(ops[r], o), code.np) /\ Len(Append(ops[r], o)) = Len(ops[r]) + 1
  BY <1>1, AppendOps
<1>3. /\ DOMAIN ops' = Ranks /\ \A q \in Ranks : q # r => ops'[q] = ops[q]
      /\ ops'[r] = Append(ops[r], o)
  BY DEF PostedInv
<1>4. ASSUME NEW n \in Requests PROVE IsRequest(req'[r][n], Len(ops[r]) + 1, code.np)
  <2>1. IsRequest(req[r][n], Len(ops[r]), code.np)
    BY DEF PostedInv
  <2>2. IsRequest(req[r][n], Len(ops[r]) + 1, code.np)
    BY <1>1, <2>1, RequestStays
  <2> QED BY <2>2
<1>5. Ranks' = Ranks
  BY DEF Ranks
<1>6. ASSUME NEW q \in Ranks
      PROVE  /\ IsOps(ops'[q], code.np) /\ DOMAIN req'[q] = Requests
             /\ \A n \in Requests : IsRequest(req'[q][n], Len(ops'[q]), code.np)
  <2>1. CASE q = r
    BY <1>2, <1>3, <1>4, <2>1
  <2>2. CASE q # r
    BY <1>3, <2>2 DEF PostedInv
  <2> QED BY <2>1, <2>2
<1>7. value' \in [Ranks -> Ranks \cup {-1}]
  BY DEF PostedInv
<1> QED BY <1>3, <1>5, <1>6, <1>7 DEF PostedInv

LEMMA PostedStep ==
  ASSUME CodeInv, PlaceInv, PostedInv, [Next]_vars
  PROVE  PostedInv'
<1>1. code' = code /\ Ranks' = Ranks
  BY CodeStays DEF Ranks
<1>2. CASE ops' = ops /\ req' = req /\ value' = value
  BY <1>1, <1>2 DEF PostedInv
<1>3. ASSUME NEW r \in Ranks, RankStep(r) PROVE PostedInv'
  <2> DEFINE len == Len(ops[r])
             m == At(r).n
  <2>1. Running(r) /\ WellFormedOperation(Operation(r, At(r)), code.np)
    BY <1>3, Moves, OperationIsWellFormed
  <2>2. /\ DOMAIN req = Ranks /\ DOMAIN req[r] = Requests /\ len \in Nat
        /\ \A n \in Requests : IsRequest(req[r][n], len, code.np)
    BY OpsLength DEF PostedInv
  <2> HIDE DEF m
  <2>3. CASE Post(r)
    <3> DEFINE x == [NoRequest EXCEPT !.st = "active", !.at = len + 1]
    <3>1. /\ ops' = [ops EXCEPT ![r] = Append(ops[r], Operation(r, At(r)))]
          /\ value' = value
          /\ req' = req \/ req' = [req EXCEPT ![r][m] = x]
      BY <2>3 DEF Post, m
    <3>2. IsRequest(x, len + 1, code.np)
      BY <2>2 DEF IsRequest, NoRequest, WellFormedOperation, Comms
    <3> HIDE DEF x
    <3>3. /\ DOMAIN req' = Ranks /\ \A q \in Ranks : q # r => req'[q] = req[q]
          /\ DOMAIN req'[r] = Requests
          /\ \A n \in Requests : req'[r][n] = req[r][n] \/ req'[r][n] = x
      BY <2>2, <3>1
    <3>4. \A n \in Requests : \/ req'[r][n] = req[r][n]
                              \/ IsRequest(req'[r][n], Len(ops[r]) + 1, code.np)
      BY <3>2, <3>3
    <3> DEFINE o == Operation(r, At(r))
    <3>5. WellFormedOperation(o, code.np) /\ ops' = [ops EXCEPT ![r] = Append(ops[r], o)]
      BY <2>1, <3>1
    <3> HIDE DEF o
    <3> QED BY <1>1, <3>1, <3>3, <3>4, <3>5, OneOperation
  <2>4. CASE InitRequest(r)
    <3> DEFINE x == [NoRequest EXCEPT !.st = "inactive", !.pers = TRUE,
                                      !.op = Operation(r, At(r))]
    <3>1. req' = [req EXCEPT ![r][m] = x] /\ ops' = ops /\ value' = value
      BY <2>4 DEF InitRequest, m
    <3>2. IsRequest(x, len, code.np)
      BY <2>1 DEF IsRequest, NoRequest
    <3> QED BY <1>1, <3>1, <3>2, OneRequest
  <2>5. CASE Wait(r)
    <3> DEFINE q == req[r][m]
               x == IF q.pers THEN [q EXCEPT !.st = "inactive"] ELSE NoRequest
    <3>1. req' = [req EXCEPT ![r][m] = x] /\ ops' = ops /\ value' = value
      BY <2>5 DEF Wait, m
    <3>2. ASSUME m \in Requests PROVE IsRequest(x, len, code.np)
      <4>1. IsRequest(q, len, code.np)
        BY <2>2, <3>2
      <4> HIDE DEF q
      <4>2. IsRequest([q EXCEPT !.st = "inactive"], len, code.np)
        BY <4>1 DEF IsRequest
      <4> QED BY <4>2, NoRequestIsRequest
    <3> HIDE DEF x
    <3> QED BY <1>1, <3>1, <3>2, OneRequest
  <2>6. CASE WaitAny(r)
    <3>1. CASE UNCHANGED req
      BY <1>2, <2>6, <3>1 DEF WaitAny
    <3>2. CASE ~ UNCHANGED req
      <4>1. PICK n : req' = [req EXCEPT ![r][n] = NoRequest]
        BY <2>6, <3>2 DEF WaitAny
      <4>2. ops' = ops /\ value' = value
        BY <2>6 DEF WaitAny
      <4> QED BY <1>1, <4>1, <4>2, NoRequestIsRequest, OneRequest
    <3> QED BY <3>1, <3>2
  <2>7. CASE Start(r)
    <3> DEFINE q == req[r][m]
               x == [q EXCEPT !.st = "active", !.started = TRUE, !.at = len + 1]
    <3>1. /\ req' = [req EXCEPT ![r][m] = x] /\ value' = value
          /\ ops' = [ops EXCEPT ![r] = Append(ops[r], q.op)]
      BY <2>7 DEF Start, m
    <3>2. m \in Requests
      <4>1. pc[r] \in 1 .. Len(Program(r)) /\ At(r) = Program(r)[pc[r]]
        BY <2>1 DEF PlaceInv, Running, Program, At
      <4> QED BY <2>7, <4>1, CodeFacts DEF Start, WellFormedProgram, m
    <3>3. IsRequest(q, len, code.np)
      BY <2>2, <3>2
    <3> HIDE DEF q
    <3>4. IsRequest(x, len + 1, code.np) /\ WellFormedOperation(q.op, code.np)
      BY <2>2, <3>3 DEF IsRequest
    <3> HIDE DEF x
    <3>5. /\ DOMAIN req' = Ranks /\ \A p \in Ranks : p # r => req'[p] = req[p]
          /\ DOMAIN req'[r] = Requests
          /\ \A n \in Requests : req'[r][n] = req[r][n] \/ req'[r][n] = x
      BY <2>2, <3>1
    <3> QED BY <1>1, <3>1, <3>4, <3>5, OneOperation
  <2>8. CASE FreeRequest(r)
    <3>1. req' = [req EXCEPT ![r][m] = NoRequest] /\ ops' = ops /\ value' = value
      BY <2>8 DEF FreeRequest, m
    <3> QED BY <1>1, <3>1, NoRequestIsRequest, OneRequest
  <2> QED BY <1>2, <1>3, <2>3, <2>4, <2>5, <2>6, <2>7, <2>8, SilentSteps, Zenon
<1>4. ASSUME NEW c, MismatchColl(c) PROVE PostedInv'
  <2>1. ops' = ops /\ req' = req /\ value' = value
    BY <1>4, Zenon DEF MismatchColl
  <2> QED BY <1>2, <2>1
<1>5. CASE UNCHANGED vars
  BY <1>2, <1>5, Zenon DEF vars
<1> QED BY <1>1, <1>3, <1>4, <1>5, Steps, MatchPosted, MatchCollPosted, Zenon

LEMMA PostedAlways == WellFormedCodes /\ Spec => []PostedInv
<1> SUFFICES ASSUME WellFormedCodes PROVE Spec => []PostedInv
  BY Zenon
<1>1. Init => PostedInv
  <2> SUFFICES ASSUME Init PROVE PostedInv
    OBVIOUS
  <2>1. /\ DOMAIN ops = Ranks /\ DOMAIN req = Ranks /\ value \in [Ranks -> Ranks \cup {-1}]
        /\ \A r \in Ranks : ops[r] = <<>> /\ req[r] = [n \in Requests |-> NoRequest]
    BY DEF Init
  <2>2. \A np : IsOps(<<>>, np)
    BY DEF IsOps
  <2> QED BY <2>1, <2>2, NoRequestIsRequest DEF PostedInv
<1> QED BY <1>1, PostedStep, CodeAlways, PlaceAlways, PTL DEF Spec

-----------------------------------------------------------------------------
(* The types *)

EpochInv == epo \in [Ranks -> {"none", "shared", "exclusive"}] /\ over \in BOOLEAN

LEMMA EpochStep ==
  ASSUME EpochInv, [Next]_vars PROVE EpochInv'
<1>1. Ranks' = Ranks
  BY CodeStays DEF Ranks
<1>2. ASSUME epo' \in [Ranks -> {"none", "shared", "exclusive"}], over' \in BOOLEAN
      PROVE  EpochInv'
  BY <1>1, <1>2 DEF EpochInv
<1>3. over \in BOOLEAN /\ epo \in [Ranks -> {"none", "shared", "exclusive"}]
  BY DEF EpochInv
<1>4. ASSUME NEW r \in Ranks, RankStep(r) PROVE EpochInv'
  <2>1. CASE InvalidCall(r)
    BY <1>2, <1>3, <2>1 DEF InvalidCall
  <2>2. CASE Post(r)
    BY <1>2, <1>3, <2>2 DEF Post
  <2>3. CASE InitRequest(r)
    BY <1>2, <1>3, <2>3 DEF InitRequest
  <2>4. CASE Return(r)
    BY <1>2, <1>3, <2>4 DEF Return
  <2>5. CASE Wait(r)
    BY <1>2, <1>3, <2>5 DEF Wait
  <2>6. CASE Start(r)
    BY <1>2, <1>3, <2>6 DEF Start
  <2>7. CASE FreeRequest(r)
    BY <1>2, <1>3, <2>7 DEF FreeRequest
  <2>8. CASE Probe(r)
    BY <1>2, <1>3, <2>8 DEF Probe
  <2>9. CASE Detach(r)
    BY <1>2, <1>3, <2>9 DEF Detach
  <2>10. CASE Assign(r)
    BY <1>2, <1>3, <2>10 DEF Assign
  <2>11. CASE Write(r)
    BY <1>2, <1>3, <2>11 DEF Write
  <2>12. CASE Create(r)
    BY <1>2, <1>3, <2>12 DEF Create
  <2>13. CASE FreeObject(r)
    BY <1>2, <1>3, <2>13 DEF FreeObject
  <2>14. CASE FreeNewcom(r)
    BY <1>2, <1>3, <2>14 DEF FreeNewcom
  <2>15. CASE CartGet(r)
    BY <1>2, <1>3, <2>15 DEF CartGet
  <2>16. CASE WaitAny(r)
    <3>1. epo' = epo /\ (over' = over \/ over' \in BOOLEAN)
      BY <2>16, Zenon DEF WaitAny
    <3> QED BY <1>2, <1>3, <3>1
  <2>17. CASE Jump(r)
    BY <1>2, <1>3, <2>17 DEF Jump
  <2>18. CASE LocalCall(r)
    BY <1>2, <1>3, <2>18 DEF LocalCall
  <2>19. CASE Expect(r)
    BY <1>2, <1>3, <2>19 DEF Expect
  <2>20. CASE Lock(r)
    BY <1>2, <1>3, <2>20 DEF Lock
  <2>21. CASE Access(r)
    BY <1>2, <1>3, <2>21 DEF Access
  <2>22. CASE StoreWindow(r)
    BY <1>2, <1>3, <2>22 DEF StoreWindow
  <2>23. CASE Finalize(r)
    BY <1>2, <1>3, <2>23 DEF Finalize
  <2> QED BY <1>4, <2>1, <2>2, <2>3, <2>4, <2>5, <2>6, <2>7, <2>8, <2>9, <2>10, <2>11,
             <2>12, <2>13, <2>14, <2>15, <2>16, <2>17, <2>18, <2>19, <2>20, <2>21, <2>22,
             <2>23, Zenon DEF RankStep
<1>5. ASSUME NEW s, NEW i, NEW r, NEW j, Match(s, i, r, j) PROVE EpochInv'
  <2>1. epo' = epo /\ over' = over
    BY <1>5, Zenon DEF Match
  <2> QED BY <1>2, <1>3, <2>1
<1>6. ASSUME NEW c, MatchColl(c) PROVE EpochInv'
  <2>1. over' = over /\ (epo' = epo \/ epo' = [r \in Ranks |-> "shared"])
    BY <1>6, Zenon DEF MatchColl
  <2> QED BY <1>2, <1>3, <2>1
<1>7. ASSUME NEW c, MismatchColl(c) PROVE EpochInv'
  <2>1. epo' = epo /\ over' = TRUE
    BY <1>7, Zenon DEF MismatchColl
  <2> QED BY <1>2, <1>3, <2>1
<1>8. CASE UNCHANGED vars
  BY <1>2, <1>3, <1>8, Zenon DEF vars
<1> QED BY <1>4, <1>5, <1>6, <1>7, <1>8, Steps, Zenon

(***************************************************************************)
(* While a well-formed code runs, every variable has a value that it       *)
(* should have: no rank leaves its program, an active request belongs to   *)
(* an operation that was posted, a message comes from a rank, and no       *)
(* object is freed that was not created or was freed before.               *)
(***************************************************************************)
THEOREM MpiTypeCorrect == WellFormedCodes /\ Spec => []TypeOK
<1> SUFFICES ASSUME WellFormedCodes PROVE Spec => []TypeOK
  BY Zenon
<1>1. Init => EpochInv
  BY DEF Init, EpochInv
<1>2. CodeInv /\ PlaceInv /\ ObjectInv /\ PostedInv /\ EpochInv => TypeOK
  <2> SUFFICES ASSUME CodeInv, PlaceInv, ObjectInv, PostedInv, EpochInv PROVE TypeOK
    OBVIOUS
  <2>1. /\ WellFormedCode(code) /\ code.np \in 2 .. 5
        /\ buffered \in {"none", "small", "all"} /\ over \in BOOLEAN
    BY CodeFacts DEF CodeInv, EpochInv
  <2>2. ASSUME NEW r \in Ranks
        PROVE  /\ pc[r] \in 1 .. Len(code.prog[r]) + 1
               /\ posted[r] => Running(r) \/ over
               /\ DOMAIN env[r] = DOMAIN code.env[r]
               /\ \A n \in Requests :
                    /\ req[r][n].st \in {"null", "active", "inactive"}
                    /\ req[r][n].st = "active" => req[r][n].at \in DOMAIN ops[r]
               /\ \A h \in Leaks : handles[r][h] \in Nat
               /\ epo[r] \in {"none", "shared", "exclusive"}
               /\ value[r] \in Ranks \cup {-1}
    <3>1. pc[r] \in 1 .. Len(code.prog[r]) + 1 /\ (posted[r] => Running(r) \/ over)
      BY DEF PlaceInv, Running, Program
    <3>2. DOMAIN env[r] = DOMAIN code.env[r] /\ \A h \in Leaks : handles[r][h] \in Nat
      BY DEF ObjectInv, Owned, Balance
    <3>3. /\ DOMAIN ops[r] = 1 .. Len(ops[r])
          /\ \A n \in Requests : IsRequest(req[r][n], Len(ops[r]), code.np)
          /\ value[r] \in Ranks \cup {-1}
      BY OpsLength DEF PostedInv
    <3>4. epo[r] \in {"none", "shared", "exclusive"}
      BY DEF EpochInv
    <3> QED BY <3>1, <3>2, <3>3, <3>4 DEF IsRequest
  <2> QED BY <2>1, <2>2 DEF TypeOK
<1> QED BY <1>1, <1>2, EpochStep, CodeAlways, PlaceAlways, ObjectsAlways, PostedAlways,
           PTL DEF Spec

-----------------------------------------------------------------------------
(* Leaks *)

\* A leak is found exactly when a rank has passed an MPI_Finalize before which
\* its program creates more objects of a kind than it frees.
LeaksInText ==
  \A h \in Leaks :
    h \in diag <=> \E r \in Ranks : \E a \in 1 .. pc[r] - 1 : LeaksAt(Program(r), h, a)

Harmless(i) == i.do # "finalize" /\ ~ OnRequest(i)

\* No instruction that is skipped is a finalize or concerns a request.
LEMMA OnlyHarmlessSkipped ==
  ASSUME CodeInv, PlaceInv, NEW r \in Ranks, RankStep(r)
  PROVE  /\ \A q \in Ranks : q # r => pc'[q] = pc[q]
         /\ \E n \in Nat :
              /\ pc'[r] = pc[r] + n
              /\ \A b \in pc[r] + 1 .. pc[r] + n - 1 : Harmless(Program(r)[b])
<1> DEFINE k == pc[r]
           p == Program(r)
<1>1. k \in Nat /\ pc \in [Ranks -> Nat]
  BY DEF PlaceInv
<1>2. Stays \/ Posts(r) \/ Returns(r) \/ Advances(r) \/ Jumps(r)
  BY Moves
<1>3. \A q \in Ranks : q # r => pc'[q] = pc[q]
  BY <1>1, <1>2 DEF Stays, Posts, Returns, Advances, Jumps
<1>4. CASE pc' = pc
  <2>1. pc'[r] = k + 0 /\ \A b \in k + 1 .. k + 0 - 1 : Harmless(p[b])
    BY <1>1, <1>4
  <2> QED BY <1>3, <2>1
<1>5. CASE pc'[r] = k + 1
  <2>1. \A b \in k + 1 .. k + 1 - 1 : Harmless(p[b])
    BY <1>1
  <2> QED BY <1>3, <1>5, <2>1
<1>6. CASE Jumps(r) /\ pc'[r] # k + 1
  <2>1. k \in 1 .. Len(p) /\ At(r) = p[k]
    BY Moves DEF Running, PlaceInv, Program, At
  <2>2. /\ At(r).by \in Nat
        /\ \A b \in k + 1 .. k + At(r).by : Harmless(p[b])
    BY <1>6, <2>1, CodeFacts DEF WellFormedProgram, Jumps, Harmless
  <2>3. pc'[r] = k + 1 + At(r).by
    BY <1>1, <1>6, Zenon DEF Jumps
  <2>4. pc'[r] = k + (1 + At(r).by)
    BY <1>1, <2>2, <2>3
  <2>5. \A b \in k + 1 .. k + (1 + At(r).by) - 1 : Harmless(p[b])
    BY <1>1, <2>2
  <2> QED BY <1>3, <2>2, <2>4, <2>5
<1> QED BY <1>1, <1>2, <1>4, <1>5, <1>6 DEF Stays, Posts, Returns, Advances

\* No other step finds a leak.
LEMMA OtherFindings ==
  ASSUME CodeInv, PlaceInv, NEW r \in Ranks, RankStep(r), ~ Finalize(r)
  PROVE  /\ \A h \in Leaks : h \in diag' <=> h \in diag
         /\ pc' = pc \/ At(r).do # "finalize"
<1> USE DEF Leaks
<1>1. CASE InvalidCall(r)
  <2>1. diag' = diag \cup Faults(r, Operation(r, At(r))) /\ pc' = pc
    BY <1>1, Zenon DEF InvalidCall
  <2>2. \A h \in Leaks : h \notin Faults(r, Operation(r, At(r)))
    BY DEF Faults
  <2> QED BY <2>1, <2>2
<1>2. CASE Post(r)
  BY <1>2 DEF Post, Overrun, Comms
<1>3. CASE InitRequest(r)
  BY <1>3 DEF InitRequest, Overrun
<1>4. CASE Return(r)
  <2>1. diag' = diag /\ posted[r]
    BY <1>4 DEF Return
  <2>2. At(r).do # "finalize"
    BY <2>1 DEF PlaceInv, Comms
  <2> QED BY <2>1, <2>2
<1>5. CASE Wait(r)
  BY <1>5 DEF Wait
<1>6. CASE Start(r)
  BY <1>6 DEF Start
<1>7. CASE FreeRequest(r)
  BY <1>7 DEF FreeRequest
<1>8. CASE Probe(r)
  BY <1>8 DEF Probe
<1>9. CASE Detach(r)
  BY <1>9 DEF Detach
<1>10. CASE Assign(r)
  BY <1>10 DEF Assign
<1>11. CASE Write(r)
  BY <1>11 DEF Write
<1>12. CASE Create(r)
  BY <1>12 DEF Create
<1>13. CASE FreeObject(r)
  BY <1>13 DEF FreeObject
<1>14. CASE FreeNewcom(r)
  BY <1>14 DEF FreeNewcom
<1>15. CASE CartGet(r)
  BY <1>15 DEF CartGet
<1>16. CASE WaitAny(r)
  <2>1. At(r).do # "finalize"
    BY <1>16 DEF WaitAny
  <2>2. diag' = diag \/ \E n : diag' = diag \cup {e \in {"AssertFailed"} : n \notin At(r).expected}
    BY <1>16, Zenon DEF WaitAny
  <2> QED BY <2>1, <2>2
<1>17. CASE Jump(r)
  BY <1>17 DEF Jump
<1>18. CASE LocalCall(r)
  <2>1. pc[r] \in 1 .. Len(Program(r)) /\ At(r) = Program(r)[pc[r]]
    BY <1>18 DEF LocalCall, PlaceInv, Running, Program, At
  <2>2. At(r).do = "local" /\ diag' = diag \cup At(r).faults
    BY <1>18 DEF LocalCall
  <2>3. At(r).faults \cap Leaks = {}
    BY <2>1, <2>2, CodeFacts, Zenon DEF WellFormedProgram
  <2> HIDE DEF Leaks
  <2> QED BY <2>2, <2>3
<1>19. CASE Expect(r)
  BY <1>19 DEF Expect
<1>20. CASE Lock(r)
  BY <1>20 DEF Lock
<1>21. CASE Access(r)
  BY <1>21 DEF Access
<1>22. CASE StoreWindow(r)
  BY <1>22 DEF StoreWindow
<1> QED BY <1>1, <1>2, <1>3, <1>4, <1>5, <1>6, <1>7, <1>8, <1>9, <1>10, <1>11, <1>12,
           <1>13, <1>14, <1>15, <1>16, <1>17, <1>18, <1>19, <1>20, <1>21, <1>22,
           Zenon DEF RankStep

LEMMA LeakStep ==
  ASSUME CodeInv, PlaceInv, ObjectInv, LeaksInText, [Next]_vars
  PROVE  LeaksInText'
<1> DEFINE Told(r, h) == \E a \in 1 .. pc[r] - 1 : LeaksAt(Program(r), h, a)
<1>1. code' = code /\ Ranks' = Ranks /\ \A r : Program(r)' = Program(r)
  BY CodeStays DEF Ranks, Program
<1>2. \A h \in Leaks : h \in diag <=> \E r \in Ranks : Told(r, h)
  BY DEF LeaksInText
<1>3. ASSUME \A h \in Leaks : h \in diag' <=> \E r \in Ranks : Told(r, h)' PROVE LeaksInText'
  BY <1>1, <1>3, Zenon DEF LeaksInText
<1>4. ASSUME pc' = pc, \A h \in Leaks : h \in diag' <=> h \in diag PROVE LeaksInText'
  BY <1>1, <1>2, <1>3, <1>4, Zenon
<1>5. ASSUME NEW r \in Ranks, RankStep(r), pc' # pc \/ Finalize(r) PROVE LeaksInText'
  <2> DEFINE p == Program(r)
             k == pc[r]
  <2>1. k \in Nat \ {0} /\ At(r) = p[k] /\ \A q \in Ranks : pc[q] \in Nat
    BY DEF PlaceInv, Program, At
  <2>2. PICK n \in Nat : /\ pc'[r] = k + n
                         /\ \A b \in k + 1 .. k + n - 1 : p[b].do # "finalize"
    BY <1>5, OnlyHarmlessSkipped DEF Harmless
  <2>3. ASSUME NEW q \in Ranks, q # r, NEW h PROVE Told(q, h)' <=> Told(q, h)
    BY <1>1, <1>5, <2>3, OnlyHarmlessSkipped
  <2>4. CASE ~ Finalize(r)
    <3>1. p[k].do # "finalize" /\ \A h \in Leaks : h \in diag' <=> h \in diag
      BY <1>5, <2>1, <2>4, OtherFindings
    <3>2. ASSUME NEW h PROVE Told(r, h)' <=> Told(r, h)
      <4>1. \A a \in 1 .. pc'[r] - 1 : LeaksAt(p, h, a) => a \in 1 .. k - 1
        BY <2>1, <2>2, <3>1 DEF LeaksAt
      <4>2. \A a \in 1 .. k - 1 : a \in 1 .. pc'[r] - 1
        BY <2>1, <2>2
      <4> QED BY <1>1, <4>1, <4>2, Zenon
    <3> QED BY <1>1, <1>2, <1>3, <2>3, <3>1, <3>2, Zenon
  <2>5. CASE Finalize(r)
    <3>1. /\ p[k].do = "finalize" /\ pc'[r] = k + 1
          /\ \A h \in Leaks : h \in diag' <=> h \in diag \/ handles[r][h] > 0
      BY <2>1, <2>5 DEF Finalize, PlaceInv, Leaks
    <3>2. ASSUME NEW h \in Leaks PROVE handles[r][h] > 0 <=> LeaksAt(p, h, k)
      <4>1. /\ handles[r][h] \in Nat
            /\ Cardinality(Created(p, h, k)) = handles[r][h] + Cardinality(Freed(p, h, k))
        BY DEF ObjectInv, Owned, Balance
      <4>2. Cardinality(Created(p, h, k)) \in Nat /\ Cardinality(Freed(p, h, k)) \in Nat
        BY <2>1, CountsFinite
      <4> QED BY <3>1, <4>1, <4>2 DEF LeaksAt
    <3>3. ASSUME NEW h PROVE Told(r, h)' <=> Told(r, h) \/ LeaksAt(p, h, k)
      <4>1. 1 .. pc'[r] - 1 = (1 .. k - 1) \cup {k}
        BY <2>1, <3>1
      <4> QED BY <1>1, <4>1
    <3> QED BY <1>1, <1>2, <1>3, <2>3, <3>1, <3>2, <3>3, Zenon
  <2> QED BY <2>4, <2>5
<1>6. ASSUME NEW r \in Ranks, RankStep(r), pc' = pc, ~ Finalize(r) PROVE LeaksInText'
  BY <1>4, <1>6, OtherFindings
<1>7. ASSUME NEW s, NEW i, NEW r, NEW j, Match(s, i, r, j) PROVE LeaksInText'
  <2>1. /\ pc' = pc
        /\ diag' = diag \cup {e \in {"DatatypeMatching"} : ops[s][i].type # ops[r][j].type}
             \cup {e \in {"MessageRace"} :
                    ops[r][j].peer = MPI_ANY_SOURCE /\ Rival(s, r, ops[r][j])}
    BY <1>7, Zenon DEF Match
  <2> QED BY <1>4, <2>1 DEF Leaks
<1>8. ASSUME NEW c, MatchColl(c) PROVE LeaksInText'
  <2>1. pc' = pc /\ diag' \subseteq diag \cup
                      {"RootMatching", "DatatypeMatching", "OperatorMatching"}
    BY <1>8, Zenon DEF MatchColl
  <2>2. diag \subseteq diag'
    BY <1>8, Zenon DEF MatchColl
  <2> QED BY <1>4, <2>1, <2>2 DEF Leaks
<1>9. ASSUME NEW c, MismatchColl(c) PROVE LeaksInText'
  <2>1. pc' = pc /\ diag' = diag \cup {"CallMatching"}
    BY <1>9, Zenon DEF MismatchColl
  <2> QED BY <1>4, <2>1 DEF Leaks
<1>10. CASE UNCHANGED vars
  <2>1. pc' = pc /\ diag' = diag
    BY <1>10, Zenon DEF vars
  <2> QED BY <1>4, <2>1
<1> QED BY <1>5, <1>6, <1>7, <1>8, <1>9, <1>10, Steps, Zenon

LEMMA LeaksAreInTheText == WellFormedCodes /\ Spec => []LeaksInText
<1> SUFFICES ASSUME WellFormedCodes PROVE Spec => []LeaksInText
  BY Zenon
<1>1. Init => LeaksInText
  BY DEF Init, LeaksInText
<1> QED BY <1>1, LeakStep, CodeAlways, PlaceAlways, ObjectsAlways, PTL DEF Spec

-----------------------------------------------------------------------------
(* Calls *)

\* The members of two sequences in a row.
LEMMA ToSetConcat ==
  ASSUME NEW S, NEW s \in Seq(S), NEW t \in Seq(S)
  PROVE  ToSet(s \o t) = ToSet(s) \cup ToSet(t)
<1>1. Len(s) \in Nat /\ Len(t) \in Nat /\ DOMAIN s = 1 .. Len(s) /\ DOMAIN t = 1 .. Len(t)
  OBVIOUS
<1>2. /\ DOMAIN (s \o t) = 1 .. Len(s) + Len(t)
      /\ \A i \in 1 .. Len(s) + Len(t) :
           (s \o t)[i] = IF i <= Len(s) THEN s[i] ELSE t[i - Len(s)]
  OBVIOUS
<1>3. \A i \in 1 .. Len(t) : i + Len(s) \in 1 .. Len(s) + Len(t) /\ (s \o t)[i + Len(s)] = t[i]
  BY <1>1, <1>2
<1>4. ASSUME NEW x \in ToSet(t) PROVE x \in ToSet(s \o t)
  <2>1. PICK i \in 1 .. Len(t) : x = t[i]
    BY <1>1 DEF ToSet
  <2> QED BY <1>2, <1>3, <2>1 DEF ToSet
<1>5. ToSet(s) \subseteq ToSet(s \o t)
  BY <1>1, <1>2 DEF ToSet
<1>6. ToSet(s \o t) \subseteq ToSet(s) \cup ToSet(t)
  BY <1>1, <1>2 DEF ToSet
<1> QED BY <1>4, <1>5, <1>6

\* No call is both nonblocking and persistent.
LEMMA NoneIsBoth == Persistent \cap Nonblocking = {}
<1> DEFINE S == ToSet(psend) \cup ToSet(precv) \cup ToSet(icoll) \cup ToSet(ibarrier)
                  \cup ToSet(isend) \cup ToSet(irecv)
<1>1. ToSet(psend) = {"MPI_Send_init"} /\ ToSet(precv) = {"MPI_Recv_init"}
  BY DEF psend, precv, ToSet
<1>2. /\ psend \in Seq(S) /\ precv \in Seq(S) /\ icoll \in Seq(S)
      /\ ibarrier \in Seq(S) /\ isend \in Seq(S) /\ irecv \in Seq(S)
  <2>1. psend \in Seq(S)
    BY DEF psend, ToSet
  <2>2. precv \in Seq(S)
    BY DEF precv, ToSet
  <2>3. icoll \in Seq(S)
    BY DEF icoll, ToSet
  <2>4. ibarrier \in Seq(S)
    BY DEF ibarrier, ToSet
  <2>5. isend \in Seq(S)
    BY DEF isend, ToSet
  <2>6. irecv \in Seq(S)
    BY DEF irecv, ToSet
  <2> QED BY <2>1, <2>2, <2>3, <2>4, <2>5, <2>6
<1>3. /\ ToSet(icoll) \cap {"MPI_Send_init", "MPI_Recv_init"} = {}
      /\ ToSet(ibarrier) = {"MPI_Ibarrier"}
      /\ ToSet(isend) = {"MPI_Isend"} /\ ToSet(irecv) = {"MPI_Irecv"}
  BY DEF icoll, ibarrier, isend, irecv, ToSet
<1> HIDE DEF S
<1>4. Persistent = ToSet(psend) \cup ToSet(precv)
  BY <1>2, ToSetConcat DEF Persistent
<1>5. Nonblocking = ((ToSet(icoll) \cup ToSet(ibarrier)) \cup ToSet(isend)) \cup ToSet(irecv)
  <2>1. icoll \o ibarrier \in Seq(S) /\ (icoll \o ibarrier) \o isend \in Seq(S)
    BY <1>2
  <2>2. ToSet(icoll \o ibarrier) = ToSet(icoll) \cup ToSet(ibarrier)
    BY <1>2, ToSetConcat
  <2>3. ToSet((icoll \o ibarrier) \o isend) = ToSet(icoll \o ibarrier) \cup ToSet(isend)
    BY <1>2, <2>1, ToSetConcat, Zenon
  <2>4. ToSet(((icoll \o ibarrier) \o isend) \o irecv) =
          ToSet((icoll \o ibarrier) \o isend) \cup ToSet(irecv)
    BY <1>2, <2>1, ToSetConcat, Zenon
  <2> QED BY <2>2, <2>3, <2>4, Zenon DEF Nonblocking
<1> QED BY <1>1, <1>3, <1>4, <1>5

-----------------------------------------------------------------------------
(* Requests *)

\* A request is what the program has made it so far.
IsAsTold(q, p, n, k) ==
  /\ q.pers <=> PersistentAt(p, n, k)
  /\ q.st = "active" <=> ActiveAt(p, n, k)
  /\ q.st = "inactive" <=> q.pers /\ q.st # "active"
  /\ q.pers => (q.started <=> StartedAt(p, n, k))

RequestInv ==
  Without(code, "waitany") =>
    \A r \in Ranks : \A n \in Requests : IsAsTold(req[r][n], Program(r), n, pc[r])

LEMMA SinceNext ==
  ASSUME NEW on \in SUBSET Nat, NEW off, NEW k \in Nat \ {0}
  PROVE  Since(on, off, k + 1) <=> k \in on \/ (k \notin off /\ Since(on, off, k))
<1>1. ASSUME k \in on PROVE Since(on, off, k + 1)
  <2>1. k < k + 1 /\ \A b \in k + 1 .. (k + 1) - 1 : b \notin off
    OBVIOUS
  <2> QED BY <1>1, <2>1 DEF Since
<1>2. ASSUME k \notin off, Since(on, off, k) PROVE Since(on, off, k + 1)
  <2>1. PICK a \in on : a < k /\ \A b \in a + 1 .. k - 1 : b \notin off
    BY <1>2 DEF Since
  <2>2. a < k + 1 /\ \A b \in a + 1 .. (k + 1) - 1 : b \notin off
    BY <1>2, <2>1
  <2> QED BY <2>2 DEF Since
<1>3. ASSUME Since(on, off, k + 1), k \notin on PROVE k \notin off /\ Since(on, off, k)
  <2>1. PICK a \in on : a < k + 1 /\ \A b \in a + 1 .. (k + 1) - 1 : b \notin off
    BY <1>3 DEF Since
  <2>2. a < k /\ \A b \in a + 1 .. k - 1 : b \notin off
    BY <1>3, <2>1
  <2>3. k \in a + 1 .. (k + 1) - 1
    BY <2>2
  <2> QED BY <2>1, <2>2, <2>3 DEF Since
<1> QED BY <1>1, <1>2, <1>3

LEMMA SinceSkip ==
  ASSUME NEW on \in SUBSET Nat, NEW off, NEW k \in Nat, NEW m \in Nat,
         \A b \in k .. k + m - 1 : b \notin on /\ b \notin off
  PROVE  Since(on, off, k + m) <=> Since(on, off, k)
<1>1. ASSUME Since(on, off, k) PROVE Since(on, off, k + m)
  <2>1. PICK a \in on : a < k /\ \A b \in a + 1 .. k - 1 : b \notin off
    BY <1>1 DEF Since
  <2>2. a < k + m /\ \A b \in a + 1 .. (k + m) - 1 : b \notin off
    BY <2>1
  <2> QED BY <2>2 DEF Since
<1>2. ASSUME Since(on, off, k + m) PROVE Since(on, off, k)
  <2>1. PICK a \in on : a < k + m /\ \A b \in a + 1 .. (k + m) - 1 : b \notin off
    BY <1>2 DEF Since
  <2>2. a < k /\ \A b \in a + 1 .. k - 1 : b \notin off
    BY <2>1
  <2> QED BY <2>2 DEF Since
<1> QED BY <1>1, <1>2

StartsIt(i, n) == i.do = "start" /\ i.n = n
WaitsForIt(i, n) == i.do = "wait" /\ i.n = n
FreesIt(i, n) == i.do = "reqfree" /\ i.n = n
MakesIt(i, n, calls) == i.do \in Comms /\ i.call \in calls /\ i.n = n

\* Instruction k of p makes of request n what it does.
LEMMA RequestNext ==
  ASSUME NEW p, NEW n, Len(p) \in Nat, NEW k \in 1 .. Len(p)
  PROVE  /\ ActiveAt(p, n, k + 1) <=>
              \/ StartsIt(p[k], n) \/ MakesIt(p[k], n, Nonblocking)
              \/ /\ ~ WaitsForIt(p[k], n) /\ ~ FreesIt(p[k], n)
                 /\ ~ MakesIt(p[k], n, Persistent) /\ ActiveAt(p, n, k)
         /\ PersistentAt(p, n, k + 1) <=>
              \/ MakesIt(p[k], n, Persistent)
              \/ /\ ~ FreesIt(p[k], n) /\ ~ MakesIt(p[k], n, Nonblocking)
                 /\ PersistentAt(p, n, k)
         /\ StartedAt(p, n, k + 1) <=>
              \/ StartsIt(p[k], n)
              \/ /\ ~ FreesIt(p[k], n) /\ ~ MakesIt(p[k], n, Nonblocking)
                 /\ ~ MakesIt(p[k], n, Persistent) /\ StartedAt(p, n, k)
<1>1. /\ k \in Starts(p, n) <=> StartsIt(p[k], n)
      /\ k \in Waits(p, n) <=> WaitsForIt(p[k], n)
      /\ k \in Frees(p, n) <=> FreesIt(p[k], n)
      /\ \A calls : k \in Requesting(p, n, calls) <=> MakesIt(p[k], n, calls)
  BY DEF Starts, Waits, Frees, Requesting, StartsIt, WaitsForIt, FreesIt, MakesIt
<1>2. /\ Starts(p, n) \in SUBSET Nat
      /\ \A calls : Requesting(p, n, calls) \in SUBSET Nat
  BY DEF Starts, Requesting
<1>3. Starts(p, n) \cup Requesting(p, n, Nonblocking) \in SUBSET Nat
  BY <1>2
<1>4. k \in Nat \ {0}
  OBVIOUS
<1>5. ActiveAt(p, n, k + 1) <=>
        \/ k \in Starts(p, n) \cup Requesting(p, n, Nonblocking)
        \/ /\ k \notin Waits(p, n) \cup Frees(p, n) \cup Requesting(p, n, Persistent)
           /\ ActiveAt(p, n, k)
  BY <1>3, <1>4, SinceNext DEF ActiveAt
<1>6. PersistentAt(p, n, k + 1) <=>
        \/ k \in Requesting(p, n, Persistent)
        \/ /\ k \notin Frees(p, n) \cup Requesting(p, n, Nonblocking)
           /\ PersistentAt(p, n, k)
  BY <1>2, <1>4, SinceNext DEF PersistentAt
<1>7. StartedAt(p, n, k + 1) <=>
        \/ k \in Starts(p, n)
        \/ /\ k \notin Frees(p, n) \cup Requesting(p, n, Nonblocking)
                       \cup Requesting(p, n, Persistent)
           /\ StartedAt(p, n, k)
  BY <1>2, <1>4, SinceNext DEF StartedAt
<1> QED BY <1>1, <1>5, <1>6, <1>7

\* Other instructions leave requests as they are.
LEMMA RequestSkip ==
  ASSUME NEW p, NEW n, NEW k \in Nat, NEW m \in Nat, Len(p) \in Nat,
         \A b \in k .. k + m - 1 : ~ OnRequest(p[b])
  PROVE  /\ ActiveAt(p, n, k + m) <=> ActiveAt(p, n, k)
         /\ PersistentAt(p, n, k + m) <=> PersistentAt(p, n, k)
         /\ StartedAt(p, n, k + m) <=> StartedAt(p, n, k)
<1> DEFINE NB == Requesting(p, n, Nonblocking)
           PE == Requesting(p, n, Persistent)
<1>1. /\ Starts(p, n) \in SUBSET Nat /\ NB \in SUBSET Nat /\ PE \in SUBSET Nat
      /\ Starts(p, n) \cup NB \in SUBSET Nat
  BY DEF Starts, Requesting
<1>2. \A b \in k .. k + m - 1 :
        /\ b \notin Starts(p, n) /\ b \notin Waits(p, n) /\ b \notin Frees(p, n)
        /\ b \notin NB /\ b \notin PE
  BY DEF OnRequest, Starts, Waits, Frees, Requesting, Comms
<1> HIDE DEF NB, PE
<1>3. /\ \A b \in k .. k + m - 1 :
           b \notin Starts(p, n) \cup NB /\ b \notin Waits(p, n) \cup Frees(p, n) \cup PE
      /\ \A b \in k .. k + m - 1 : b \notin PE /\ b \notin Frees(p, n) \cup NB
      /\ \A b \in k .. k + m - 1 :
           b \notin Starts(p, n) /\ b \notin Frees(p, n) \cup NB \cup PE
  BY <1>2
<1>4. ActiveAt(p, n, k + m) <=> ActiveAt(p, n, k)
  BY <1>1, <1>3, SinceSkip, Zenon DEF ActiveAt, NB, PE
<1>5. PersistentAt(p, n, k + m) <=> PersistentAt(p, n, k)
  BY <1>1, <1>3, SinceSkip, Zenon DEF PersistentAt, NB, PE
<1>6. StartedAt(p, n, k + m) <=> StartedAt(p, n, k)
  BY <1>1, <1>3, SinceSkip, Zenon DEF StartedAt, NB, PE
<1> QED BY <1>4, <1>5, <1>6

\* All but these steps leave the requests alone.
LEMMA RequestsStay ==
  ASSUME PlaceInv, Without(code, "waitany"), NEW r \in Ranks, RankStep(r), ~ InitRequest(r),
         ~ Wait(r), ~ Start(r), ~ FreeRequest(r), ~ Write(r),
         ~ (Post(r) /\ At(r).call \in Nonblocking)
  PROVE  req' = req /\ (pc' = pc \/ ~ OnRequest(At(r)))
<1> USE DEF OnRequest
<1>1. CASE InvalidCall(r)
  BY <1>1 DEF InvalidCall
<1>2. CASE Post(r)
  BY <1>2 DEF Post
<1>3. CASE Return(r)
  <2>1. req' = req /\ posted[r]
    BY <1>3 DEF Return
  <2> QED BY <2>1 DEF PlaceInv
<1>4. CASE Probe(r)
  BY <1>4 DEF Probe, Comms
<1>5. CASE Detach(r)
  BY <1>5 DEF Detach, Comms
<1>6. CASE Assign(r)
  BY <1>6 DEF Assign, Comms
<1>7. CASE Create(r)
  BY <1>7 DEF Create, Comms
<1>8. CASE FreeObject(r)
  BY <1>8 DEF FreeObject, Comms
<1>9. CASE FreeNewcom(r)
  BY <1>9 DEF FreeNewcom, Comms
<1>10. CASE CartGet(r)
  BY <1>10 DEF CartGet, Comms
<1>11. CASE WaitAny(r)
  <2>1. pc[r] \in 1 .. Len(Program(r)) /\ At(r) = Program(r)[pc[r]]
    BY <1>11 DEF WaitAny, PlaceInv, Running, Program, At
  <2>2. At(r).do = "waitany"
    BY <1>11 DEF WaitAny
  <2> QED BY <2>1, <2>2 DEF Without, Ranks, Program
<1>12. CASE Jump(r)
  BY <1>12 DEF Jump, Comms
<1>13. CASE LocalCall(r)
  BY <1>13 DEF LocalCall, Comms
<1>14. CASE Expect(r)
  BY <1>14 DEF Expect, Comms
<1>15. CASE Lock(r)
  BY <1>15 DEF Lock, Comms
<1>16. CASE Access(r)
  BY <1>16 DEF Access, Comms
<1>17. CASE StoreWindow(r)
  BY <1>17 DEF StoreWindow, Comms
<1>18. CASE Finalize(r)
  BY <1>18 DEF Finalize, Comms
<1> QED BY <1>1, <1>2, <1>3, <1>4, <1>5, <1>6, <1>7, <1>8, <1>9, <1>10, <1>11, <1>12,
           <1>13, <1>14, <1>15, <1>16, <1>17, <1>18, Zenon DEF RankStep

\* A request that instruction k of p does not name is as it was.
LEMMA OtherRequest ==
  ASSUME NEW q, NEW p, NEW n, Len(p) \in Nat, NEW k \in 1 .. Len(p), IsAsTold(q, p, n, k),
         p[k].n # n
  PROVE  IsAsTold(q, p, n, k + 1)
<1>1. ~ StartsIt(p[k], n) /\ ~ WaitsForIt(p[k], n) /\ ~ FreesIt(p[k], n)
      /\ \A calls : ~ MakesIt(p[k], n, calls)
  BY DEF StartsIt, WaitsForIt, FreesIt, MakesIt
<1> QED BY <1>1, RequestNext DEF IsAsTold

LEMMA RequestStep ==
  ASSUME CodeInv, PlaceInv, PostedInv, RequestInv, [Next]_vars
  PROVE  RequestInv'
<1>1. code' = code /\ Ranks' = Ranks /\ \A r : Program(r)' = Program(r)
  BY CodeStays DEF Ranks, Program
<1> SUFFICES ASSUME Without(code, "waitany")
             PROVE  \A r \in Ranks : \A n \in Requests :
                      IsAsTold(req'[r][n], Program(r), n, pc'[r])
  BY <1>1 DEF RequestInv, Without, IsAsTold
<1>2. \A r \in Ranks : \A n \in Requests : IsAsTold(req[r][n], Program(r), n, pc[r])
  BY DEF RequestInv
<1>3. CASE req' = req /\ pc' = pc
  BY <1>2, <1>3
<1>4. ASSUME NEW r \in Ranks, RankStep(r)
      PROVE  \A q \in Ranks : \A n \in Requests :
               IsAsTold(req'[q][n], Program(q), n, pc'[q])
  <2> DEFINE p == Program(r)
             k == pc[r]
             m == At(r).n
  <2>1. Running(r) /\ Len(p) \in Nat
    BY <1>4, Moves, CodeFacts
  <2>2. k \in 1 .. Len(p) /\ At(r) = p[k] /\ pc \in [Ranks -> Nat]
    BY <2>1 DEF Running, PlaceInv, Program, At
  <2>3. \A q \in Ranks : q # r => pc'[q] = pc[q]
    BY <1>4, OnlyHarmlessSkipped
  <2>4. /\ DOMAIN req = Ranks /\ DOMAIN req[r] = Requests
        /\ \A n \in Requests : DOMAIN req[r][n] = {"st", "at", "started", "pers", "op"}
    BY DEF PostedInv, IsRequest
  \* A request step gives request m another value x.
  <2>5. ASSUME NEW x, req' = [req EXCEPT ![r][m] = x], pc' = [pc EXCEPT ![r] = @ + 1],
               m \in Requests => IsAsTold(x, p, m, k + 1)
        PROVE  \A q \in Ranks : \A n \in Requests :
                 IsAsTold(req'[q][n], Program(q), n, pc'[q])
    <3>1. pc'[r] = k + 1
      BY <2>2, <2>5
    <3>2. /\ \A q \in Ranks : q # r => req'[q] = req[q]
          /\ \A n \in Requests : req'[r][n] = IF n = m THEN x ELSE req[r][n]
      BY <2>4, <2>5
    <3>3. ASSUME NEW n \in Requests PROVE IsAsTold(req'[r][n], p, n, k + 1)
      <4>1. CASE n = m
        BY <2>5, <3>2, <4>1
      <4>2. CASE n # m
        BY <1>2, <2>1, <2>2, <3>2, <4>2, OtherRequest
      <4> QED BY <4>1, <4>2
    <3> QED BY <1>2, <2>3, <3>1, <3>2, <3>3
  <2> DEFINE was == req[r][m]
  <2>6. /\ ActiveAt(p, m, k + 1) <=>
              \/ p[k].do = "start" \/ (p[k].do \in Comms /\ p[k].call \in Nonblocking)
              \/ /\ p[k].do # "wait" /\ p[k].do # "reqfree"
                 /\ ~ (p[k].do \in Comms /\ p[k].call \in Persistent) /\ ActiveAt(p, m, k)
        /\ PersistentAt(p, m, k + 1) <=>
              \/ (p[k].do \in Comms /\ p[k].call \in Persistent)
              \/ /\ p[k].do # "reqfree" /\ ~ (p[k].do \in Comms /\ p[k].call \in Nonblocking)
                 /\ PersistentAt(p, m, k)
        /\ StartedAt(p, m, k + 1) <=>
              \/ p[k].do = "start"
              \/ /\ p[k].do # "reqfree" /\ ~ (p[k].do \in Comms /\ p[k].call \in Nonblocking)
                 /\ ~ (p[k].do \in Comms /\ p[k].call \in Persistent) /\ StartedAt(p, m, k)
    BY <2>1, <2>2, RequestNext DEF StartsIt, WaitsForIt, FreesIt, MakesIt
  <2>7. m \in Requests => /\ IsAsTold(was, p, m, k)
                          /\ DOMAIN was = {"st", "at", "started", "pers", "op"}
    BY <1>2, <2>4
  <2>8. p[k].do \in {"start", "wait", "reqfree", "write"} => m \in Requests
    BY <2>2, CodeFacts DEF WellFormedProgram
  <2> HIDE DEF p, k, m, was
  <2>9. CASE Post(r) /\ At(r).call \in Nonblocking
    <3> DEFINE x == [NoRequest EXCEPT !.st = "active", !.at = Len(ops[r]) + 1]
    <3>1. /\ req' = [req EXCEPT ![r][m] = x] /\ pc' = [pc EXCEPT ![r] = @ + 1]
          /\ p[k].do \in Comms /\ p[k].call \in Nonblocking /\ p[k].call \notin Persistent
      BY <2>2, <2>9 DEF Post, m, Comms
    <3>2. x.st = "active" /\ x.pers = FALSE
      BY DEF NoRequest
    <3> HIDE DEF x
    <3>3. IsAsTold(x, p, m, k + 1)
      BY <2>6, <3>1, <3>2 DEF IsAsTold, Comms
    <3> QED BY <2>5, <3>1, <3>3
  <2>10. CASE InitRequest(r)
    <3> DEFINE x == [NoRequest EXCEPT !.st = "inactive", !.pers = TRUE,
                                      !.op = Operation(r, At(r))]
    <3>1. /\ req' = [req EXCEPT ![r][m] = x] /\ pc' = [pc EXCEPT ![r] = @ + 1]
          /\ p[k].do \in Comms /\ p[k].call \in Persistent /\ p[k].call \notin Nonblocking
      BY <2>2, <2>10, NoneIsBoth DEF InitRequest, m, Comms
    <3>2. x.st = "inactive" /\ x.pers = TRUE /\ x.started = FALSE
      BY DEF NoRequest
    <3> HIDE DEF x
    <3>3. IsAsTold(x, p, m, k + 1)
      BY <2>6, <3>1, <3>2 DEF IsAsTold, Comms
    <3> QED BY <2>5, <3>1, <3>3
  <2>11. CASE Wait(r)
    <3> DEFINE x == IF was.pers THEN [was EXCEPT !.st = "inactive"] ELSE NoRequest
    <3>1. /\ req' = [req EXCEPT ![r][m] = x] /\ pc' = [pc EXCEPT ![r] = @ + 1]
          /\ p[k].do = "wait"
      BY <2>2, <2>11 DEF Wait, m, was
    <3>2. m \in Requests /\ IsAsTold(was, p, m, k)
      BY <2>7, <2>8, <3>1
    <3>3. /\ was.pers => x.st = "inactive" /\ x.pers = was.pers /\ x.started = was.started
          /\ ~ was.pers => x.st = "null" /\ x.pers = FALSE
      BY <2>7, <3>2 DEF NoRequest
    <3> HIDE DEF x
    <3>4. IsAsTold(x, p, m, k + 1)
      BY <2>6, <3>1, <3>2, <3>3 DEF IsAsTold, Comms
    <3> QED BY <2>5, <3>1, <3>4
  <2>12. CASE Start(r)
    <3> DEFINE x == [was EXCEPT !.st = "active", !.started = TRUE, !.at = Len(ops[r]) + 1]
    <3>1. /\ req' = [req EXCEPT ![r][m] = x] /\ pc' = [pc EXCEPT ![r] = @ + 1]
          /\ p[k].do = "start"
      BY <2>2, <2>12 DEF Start, m, was
    <3>2. m \in Requests /\ IsAsTold(was, p, m, k)
      BY <2>7, <2>8, <3>1
    <3>3. x.st = "active" /\ x.pers = was.pers /\ x.started = TRUE
      BY <2>7, <3>2
    <3> HIDE DEF x
    <3>4. IsAsTold(x, p, m, k + 1)
      BY <2>6, <3>1, <3>2, <3>3 DEF IsAsTold, Comms
    <3> QED BY <2>5, <3>1, <3>4
  <2>13. CASE FreeRequest(r)
    <3>1. /\ req' = [req EXCEPT ![r][m] = NoRequest] /\ pc' = [pc EXCEPT ![r] = @ + 1]
          /\ p[k].do = "reqfree"
      BY <2>2, <2>13 DEF FreeRequest, m
    <3>2. NoRequest.st = "null" /\ NoRequest.pers = FALSE
      BY DEF NoRequest
    <3>3. IsAsTold(NoRequest, p, m, k + 1)
      BY <2>6, <3>1, <3>2 DEF IsAsTold, Comms
    <3> QED BY <2>5, <3>1, <3>3
  <2>14. CASE Write(r)
    <3>1. req' = req /\ pc' = [pc EXCEPT ![r] = @ + 1] /\ p[k].do = "write"
      BY <2>2, <2>14 DEF Write
    <3>2. IsAsTold(was, p, m, k + 1)
      BY <2>6, <2>7, <2>8, <3>1 DEF IsAsTold, Comms
    <3>3. \A n \in Requests : n # m => IsAsTold(req[r][n], p, n, k + 1)
      BY <1>2, <2>1, <2>2, OtherRequest DEF p, k, m
    <3>4. pc'[r] = k + 1
      BY <2>2, <3>1 DEF k
    <3> QED BY <1>2, <2>3, <3>1, <3>2, <3>3, <3>4 DEF p, was
  <2>15. CASE /\ ~ InitRequest(r) /\ ~ Wait(r) /\ ~ Start(r) /\ ~ FreeRequest(r)
              /\ ~ Write(r) /\ ~ (Post(r) /\ At(r).call \in Nonblocking)
    <3>1. req' = req /\ (pc' = pc \/ ~ OnRequest(p[k]))
      BY <1>4, <2>2, <2>15, RequestsStay
    <3>2. PICK d \in Nat : /\ pc'[r] = k + d
                           /\ \A b \in k + 1 .. k + d - 1 : ~ OnRequest(p[b])
      BY <1>4, OnlyHarmlessSkipped DEF Harmless, p, k
    <3>3. \A b \in k .. k + d - 1 : ~ OnRequest(p[b])
      <4>1. CASE pc' = pc
        <5>1. d = 0
          BY <2>2, <3>2, <4>1 DEF k
        <5> QED BY <2>2, <5>1
      <4>2. CASE ~ OnRequest(p[k])
        BY <2>2, <3>2, <4>2
      <4> QED BY <3>1, <4>1, <4>2
    <3>4. \A n \in Requests : IsAsTold(req[r][n], p, n, k + d)
      <4>1. k \in Nat /\ \A n \in Requests : IsAsTold(req[r][n], p, n, k)
        BY <1>2, <2>2 DEF p, k
      <4> QED BY <2>1, <3>3, <4>1, RequestSkip DEF IsAsTold
    <3> QED BY <1>2, <2>3, <3>1, <3>2, <3>4 DEF p
  <2> QED BY <2>9, <2>10, <2>11, <2>12, <2>13, <2>14, <2>15
<1>5. ASSUME NEW s, NEW i, NEW r, NEW j, Match(s, i, r, j) PROVE req' = req /\ pc' = pc
  BY <1>5, Zenon DEF Match
<1>6. ASSUME NEW c, MatchColl(c) PROVE req' = req /\ pc' = pc
  BY <1>6, Zenon DEF MatchColl
<1>7. ASSUME NEW c, MismatchColl(c) PROVE req' = req /\ pc' = pc
  BY <1>7, Zenon DEF MismatchColl
<1>8. CASE UNCHANGED vars
  BY <1>3, <1>8, Zenon DEF vars
<1> QED BY <1>3, <1>4, <1>5, <1>6, <1>7, <1>8, Steps, Zenon

\* A request that is not waited for, not freed or not started, and a write to
\* the buffer of an active one, are found exactly when a rank has passed the
\* instruction of its program at which they happen.
RequestsInText ==
  Without(code, "waitany") =>
    \A e \in RequestErrors :
      (e = "LocalConcurrency" => Without(code, "access")) =>
        (e \in diag <=> \E r \in Ranks : \E a \in 1 .. pc[r] - 1 : FoundAt(Program(r), e, a))

\* Errors of requests that a step finds are those of the instruction that it
\* passes.
LEMMA RequestFindings ==
  ASSUME CodeInv, PlaceInv, RequestInv, Without(code, "waitany"), NEW r \in Ranks, RankStep(r),
         NEW e \in RequestErrors, e = "LocalConcurrency" => Without(code, "access")
  PROVE  e \in diag' <=> e \in diag \/ (pc' # pc /\ FoundAt(Program(r), e, pc[r]))
<1> DEFINE p == Program(r)
           k == pc[r]
<1>1. k \in 1 .. Len(p) /\ At(r) = p[k] /\ pc \in [Ranks -> Nat]
  <2>1. Running(r)
    BY Moves
  <2> QED BY <2>1 DEF Running, PlaceInv, Program, At
<1>2. p[k].do \in {"wait", "reqfree", "write"} => p[k].n \in Requests
  BY <1>1, CodeFacts DEF WellFormedProgram
<1>3. \A n \in Requests : IsAsTold(req[r][n], p, n, k)
  BY DEF RequestInv
<1>4. pc' = [pc EXCEPT ![r] = @ + 1] => pc' # pc
  BY <1>1
<1> HIDE DEF p, k
\* Other steps find none.
<1>5. ASSUME e \in diag' <=> e \in diag,
             pc' = pc \/ p[k].do \notin {"finalize", "wait", "reqfree", "write"}
      PROVE  e \in diag' <=> e \in diag \/ (pc' # pc /\ FoundAt(p, e, k))
  BY <1>5 DEF FoundAt
<1> USE DEF RequestErrors
<1>6. CASE Wait(r)
  <2>1. /\ p[k].do = "wait" /\ pc' = [pc EXCEPT ![r] = @ + 1]
        /\ diag' = diag \cup {x \in {"MissingStart"} :
                               req[r][p[k].n].pers /\ ~ req[r][p[k].n].started}
    BY <1>1, <1>6 DEF Wait
  <2>2. IsAsTold(req[r][p[k].n], p, p[k].n, k)
    BY <1>2, <1>3, <2>1
  <2> QED BY <1>4, <2>1, <2>2 DEF FoundAt, IsAsTold, p, k
<1>7. CASE FreeRequest(r)
  <2>1. /\ p[k].do = "reqfree" /\ pc' = [pc EXCEPT ![r] = @ + 1]
        /\ diag' = diag \cup {x \in {"MissingWait"} : req[r][p[k].n].st = "active"}
    BY <1>1, <1>7 DEF FreeRequest
  <2>2. IsAsTold(req[r][p[k].n], p, p[k].n, k)
    BY <1>2, <1>3, <2>1
  <2> QED BY <1>4, <2>1, <2>2 DEF FoundAt, IsAsTold, p, k
<1>8. CASE Write(r)
  <2>1. /\ p[k].do = "write" /\ pc' = [pc EXCEPT ![r] = @ + 1]
        /\ diag' = diag \cup {x \in {"LocalConcurrency"} : req[r][p[k].n].st = "active"}
    BY <1>1, <1>8 DEF Write
  <2>2. IsAsTold(req[r][p[k].n], p, p[k].n, k)
    BY <1>2, <1>3, <2>1
  <2> QED BY <1>4, <2>1, <2>2 DEF FoundAt, IsAsTold, p, k
<1>9. CASE Finalize(r)
  <2>1. /\ p[k].do = "finalize" /\ pc' = [pc EXCEPT ![r] = @ + 1]
        /\ diag' = diag \cup {h \in Leaks : handles[r][h] > 0}
             \cup {x \in {"MissingWait"} : \E n \in Requests : req[r][n].st = "active"}
             \cup {x \in {"RequestLeak"} : \E n \in Requests : req[r][n].st = "inactive"}
    BY <1>1, <1>9 DEF Finalize
  <2>2. e \notin Leaks
    BY DEF Leaks
  <2>3. \A n \in Requests :
          /\ req[r][n].st = "active" <=> ActiveAt(p, n, k)
          /\ req[r][n].st = "inactive" <=> PersistentAt(p, n, k) /\ ~ ActiveAt(p, n, k)
    BY <1>3 DEF IsAsTold
  <2>4. e \in diag' <=> e \in diag \/ FoundAt(p, e, k)
    BY <2>1, <2>2, <2>3 DEF FoundAt
  <2> QED BY <1>4, <2>1, <2>4 DEF p, k
<1>10. CASE InvalidCall(r)
  <2>1. diag' = diag \cup Faults(r, Operation(r, At(r))) /\ pc' = pc
    BY <1>10, Zenon DEF InvalidCall
  <2>2. e \notin Faults(r, Operation(r, At(r)))
    BY DEF Faults
  <2> QED BY <1>5, <2>1, <2>2 DEF p, k
<1>11. CASE Post(r)
  BY <1>1, <1>5, <1>11 DEF Post, Overrun, p, k, Comms
<1>12. CASE InitRequest(r)
  BY <1>1, <1>5, <1>12 DEF InitRequest, Overrun, p, k
<1>13. CASE Return(r)
  <2>1. diag' = diag /\ posted[r]
    BY <1>13 DEF Return
  <2>2. At(r).do \in Comms
    BY <2>1 DEF PlaceInv
  <2> QED BY <1>1, <1>5, <2>1, <2>2 DEF Comms, p, k
<1>14. CASE Start(r)
  BY <1>1, <1>5, <1>14 DEF Start, p, k
<1>15. CASE Probe(r)
  BY <1>1, <1>5, <1>15 DEF Probe, p, k
<1>16. CASE Detach(r)
  BY <1>1, <1>5, <1>16 DEF Detach, p, k
<1>17. CASE Assign(r)
  BY <1>1, <1>5, <1>17 DEF Assign, p, k
<1>18. CASE Create(r)
  BY <1>1, <1>5, <1>18 DEF Create, p, k
<1>19. CASE FreeObject(r)
  BY <1>1, <1>5, <1>19 DEF FreeObject, p, k
<1>20. CASE FreeNewcom(r)
  BY <1>1, <1>5, <1>20 DEF FreeNewcom, p, k
<1>21. CASE CartGet(r)
  BY <1>1, <1>5, <1>21 DEF CartGet, p, k
<1>22. CASE WaitAny(r)
  <2>1. p[k].do = "waitany"
    BY <1>1, <1>22 DEF WaitAny
  <2> QED BY <1>1, <2>1 DEF Without, Ranks, Program, p, k
<1>23. CASE Jump(r)
  BY <1>1, <1>5, <1>23 DEF Jump, p, k
<1>24. CASE LocalCall(r)
  <2>1. p[k].do = "local" /\ diag' = diag \cup p[k].faults
    BY <1>1, <1>24 DEF LocalCall
  <2>2. p[k].faults \cap (Leaks \cup RequestErrors) = {}
    BY <1>1, <2>1, CodeFacts DEF WellFormedProgram, p, k
  <2>3. e \notin p[k].faults
    BY <2>2
  <2> QED BY <1>5, <2>1, <2>3 DEF p, k
<1>25. CASE Expect(r)
  BY <1>1, <1>5, <1>25 DEF Expect, p, k
<1>26. CASE Lock(r)
  BY <1>1, <1>5, <1>26 DEF Lock, p, k
<1>27. CASE Access(r)
  <2>1. p[k].do = "access"
    BY <1>1, <1>27 DEF Access
  <2>2. e # "LocalConcurrency"
    BY <1>1, <2>1 DEF Without, Ranks, Program, p, k
  <2>3. e \in diag' <=> e \in diag
    BY <1>27, <2>2 DEF Access
  <2> QED BY <1>5, <2>1, <2>3 DEF p, k
<1>28. CASE StoreWindow(r)
  BY <1>1, <1>5, <1>28 DEF StoreWindow, p, k
<1> QED BY <1>6, <1>7, <1>8, <1>9, <1>10, <1>11, <1>12, <1>13, <1>14, <1>15, <1>16, <1>17,
           <1>18, <1>19, <1>20, <1>21, <1>22, <1>23, <1>24, <1>25, <1>26, <1>27, <1>28,
           Zenon DEF RankStep, p, k

LEMMA FindingsStep ==
  ASSUME CodeInv, PlaceInv, RequestInv, RequestsInText, [Next]_vars
  PROVE  RequestsInText'
<1>1. code' = code /\ Ranks' = Ranks /\ \A r : Program(r)' = Program(r)
  BY CodeStays DEF Ranks, Program
<1> DEFINE Told(r, e) == \E a \in 1 .. pc[r] - 1 : FoundAt(Program(r), e, a)
<1> SUFFICES ASSUME Without(code, "waitany"), NEW e \in RequestErrors,
                    e = "LocalConcurrency" => Without(code, "access")
             PROVE  e \in diag' <=> \E r \in Ranks : Told(r, e)'
  BY <1>1 DEF RequestsInText, Without
<1>2. e \in diag <=> \E r \in Ranks : Told(r, e)
  BY DEF RequestsInText
<1>3. CASE pc' = pc /\ (e \in diag' <=> e \in diag)
  BY <1>1, <1>2, <1>3, Zenon
<1>4. ASSUME NEW r \in Ranks, RankStep(r)
      PROVE  e \in diag' <=> \E q \in Ranks : Told(q, e)'
  <2> DEFINE p == Program(r)
             k == pc[r]
  <2>1. k \in Nat \ {0} /\ pc \in [Ranks -> Nat]
    BY DEF PlaceInv
  <2>2. PICK n \in Nat : /\ pc'[r] = k + n
                         /\ \A b \in k + 1 .. k + n - 1 : Harmless(p[b])
    BY <1>4, OnlyHarmlessSkipped
  <2>3. ASSUME NEW q \in Ranks, q # r PROVE Told(q, e)' <=> Told(q, e)
    BY <1>1, <1>4, <2>3, OnlyHarmlessSkipped
  <2>4. Told(r, e)' <=> Told(r, e) \/ (pc' # pc /\ FoundAt(p, e, k))
    <3>1. \A b \in k + 1 .. k + n - 1 : ~ FoundAt(p, e, b)
      BY <2>2 DEF Harmless, OnRequest, FoundAt
    <3>2. CASE pc' = pc
      BY <1>1, <3>2, Zenon
    <3>3. CASE pc' # pc
      <4>1. n # 0
        <5>1. pc' \in [Ranks -> Nat]
          BY <1>1, PlaceStep DEF PlaceInv
        <5>2. \A q \in Ranks : q # r => pc'[q] = pc[q]
          BY <1>4, OnlyHarmlessSkipped
        <5> QED BY <2>1, <2>2, <3>3, <5>1, <5>2
      <4>2. 1 .. pc'[r] - 1 = (1 .. k - 1) \cup {k} \cup (k + 1 .. k + n - 1)
        BY <2>1, <2>2, <4>1
      <4> QED BY <1>1, <3>1, <3>3, <4>2
    <3> QED BY <3>2, <3>3
  <2>5. e \in diag' <=> e \in diag \/ (pc' # pc /\ FoundAt(p, e, k))
    BY <1>4, RequestFindings
  <2> QED BY <1>2, <2>3, <2>4, <2>5, Zenon
<1> USE DEF RequestErrors
<1>5. ASSUME NEW s, NEW i, NEW r, NEW j, Match(s, i, r, j)
      PROVE  pc' = pc /\ (e \in diag' <=> e \in diag)
  <2>1. /\ pc' = pc
        /\ diag' = diag \cup {x \in {"DatatypeMatching"} : ops[s][i].type # ops[r][j].type}
             \cup {x \in {"MessageRace"} :
                    ops[r][j].peer = MPI_ANY_SOURCE /\ Rival(s, r, ops[r][j])}
    BY <1>5, Zenon DEF Match
  <2> QED BY <2>1
<1>6. ASSUME NEW c, MatchColl(c) PROVE pc' = pc /\ (e \in diag' <=> e \in diag)
  <2>1. pc' = pc /\ diag' \subseteq diag \cup
                      {"RootMatching", "DatatypeMatching", "OperatorMatching"}
    BY <1>6, Zenon DEF MatchColl
  <2>2. diag \subseteq diag'
    BY <1>6, Zenon DEF MatchColl
  <2> QED BY <2>1, <2>2
<1>7. ASSUME NEW c, MismatchColl(c) PROVE pc' = pc /\ (e \in diag' <=> e \in diag)
  <2>1. pc' = pc /\ diag' = diag \cup {"CallMatching"}
    BY <1>7, Zenon DEF MismatchColl
  <2> QED BY <2>1
<1>8. CASE UNCHANGED vars
  BY <1>3, <1>8, Zenon DEF vars
<1> QED BY <1>3, <1>4, <1>5, <1>6, <1>7, <1>8, Steps, Zenon

LEMMA RequestsAreInTheText == WellFormedCodes /\ Spec => []RequestsInText
<1> SUFFICES ASSUME WellFormedCodes PROVE Spec => []RequestsInText
  BY Zenon
<1>1. Init => RequestsInText
  BY DEF Init, RequestsInText, RequestErrors
<1>2. Init => RequestInv
  <2> SUFFICES ASSUME Init, NEW r \in Ranks, NEW n \in Requests
               PROVE  IsAsTold(req[r][n], Program(r), n, pc[r])
    BY DEF RequestInv
  <2>1. req[r][n] = NoRequest /\ pc[r] = 1
    BY DEF Init
  <2>2. /\ ~ ActiveAt(Program(r), n, 1) /\ ~ PersistentAt(Program(r), n, 1)
        /\ ~ StartedAt(Program(r), n, 1)
    BY DEF ActiveAt, PersistentAt, StartedAt, Since, Starts, Requesting
  <2> QED BY <2>1, <2>2 DEF IsAsTold, NoRequest
<1> QED BY <1>1, <1>2, RequestStep, FindingsStep, CodeAlways, PlaceAlways, PostedAlways,
           PTL DEF Spec

-----------------------------------------------------------------------------
(* What the headers announce *)

\* The header tells what the text of the code tells.
TextInv == Generated /\ code.file \notin Mislabelled => TextMatchesHeader(code)

LEMMA TextAlways == Spec /\ []NothingHidden => []TextInv
<1>1. Init /\ NothingHidden => TextInv
  BY DEF Init, NothingHidden, TextInv
<1>2. TextInv /\ [Next]_vars => TextInv'
  BY CodeStays, Zenon DEF TextInv, Generated
<1> QED BY <1>1, <1>2, PTL DEF Spec

\* The errors of objects and requests are those that the header tells, and
\* the one that it announces is there when all ranks have come to their end.
HeadersHold ==
  /\ Generated /\ code.file \notin Mislabelled
  /\ Without(code, "waitany") /\ Without(code, "access")
  => /\ diag \cap (Leaks \cup RequestErrors) \subseteq InHeader(code)
     /\ /\ code.outcome \in Leaks \cup RequestErrors
        /\ \A r \in Ranks : pc[r] = Len(Program(r)) + 1
        => code.outcome \in diag

(***************************************************************************)
(* What NothingHidden says of the text of a code decides all its runs.     *)
(* However its ranks are scheduled, whatever MPI buffers and matches, a    *)
(* code that its generator labels ERROR has no other error of its objects  *)
(* or requests than the announced one (and those that InHeader excepts),   *)
(* and has that one for certain when it gets to its end; a code labelled   *)
(* OK has none.  The runs that are checked do not buffer in ERROR codes,   *)
(* and check the text of every file.  One-sided accesses and MPI_Waitany   *)
(* are left out: what they do is not in the text.                          *)
(***************************************************************************)
THEOREM HeadersHoldInAllRuns ==
  WellFormedCodes /\ Spec /\ []NothingHidden => []HeadersHold
<1> SUFFICES ASSUME WellFormedCodes PROVE Spec /\ []NothingHidden => []HeadersHold
  BY Zenon
<1>1. ASSUME CodeInv, PlaceInv, TextInv, LeaksInText, RequestsInText PROVE HeadersHold
  <2> SUFFICES ASSUME Generated, code.file \notin Mislabelled,
                      Without(code, "waitany"), Without(code, "access")
               PROVE  /\ diag \cap (Leaks \cup RequestErrors) \subseteq InHeader(code)
                      /\ /\ code.outcome \in Leaks \cup RequestErrors
                         /\ \A r \in Ranks : pc[r] = Len(Program(r)) + 1
                         => code.outcome \in diag
    BY DEF HeadersHold
  <2> DEFINE Error(e, p, a) == \/ e \in Leaks /\ LeaksAt(p, e, a)
                               \/ e \in RequestErrors /\ FoundAt(p, e, a)
  <2>1. TextMatchesHeader(code)
    BY <1>1 DEF TextInv
  <2>2. /\ \A r \in Ranks : pc[r] \in 1 .. Len(Program(r)) + 1 /\ Len(Program(r)) \in Nat
        /\ Leaks \cap RequestErrors = {}
    BY <1>1, CodeFacts DEF PlaceInv, Leaks, RequestErrors
  <2>3. ASSUME NEW e \in Leaks \cup RequestErrors
        PROVE  /\ e \in TextErrors(code) <=>
                    \E r \in Ranks : \E a \in 1 .. Len(Program(r)) : Error(e, Program(r), a)
               /\ e \in diag <=>
                    \E r \in Ranks : \E a \in 1 .. pc[r] - 1 : Error(e, Program(r), a)
    <3>1. e \in TextErrors(code) <=>
            \E r \in Ranks : \E a \in 1 .. Len(Program(r)) : Error(e, Program(r), a)
      BY Zenon DEF TextErrors, Ranks, Program
    <3>2. CASE e \in Leaks
      BY <1>1, <2>2, <3>1, <3>2, Zenon DEF LeaksInText
    <3>3. CASE e \in RequestErrors
      BY <1>1, <2>2, <3>1, <3>3, Zenon DEF RequestsInText
    <3> QED BY <3>2, <3>3
  <2> HIDE DEF Error
  <2>4. diag \cap (Leaks \cup RequestErrors) \subseteq InHeader(code)
    <3>1. ASSUME NEW e \in diag \cap (Leaks \cup RequestErrors) PROVE e \in TextErrors(code)
      BY <2>2, <2>3
    <3> QED BY <2>1, <3>1 DEF TextMatchesHeader
  <2>5. ASSUME code.outcome \in Leaks \cup RequestErrors,
               \A r \in Ranks : pc[r] = Len(Program(r)) + 1
        PROVE  code.outcome \in diag
    <3>1. code.outcome \in TextErrors(code)
      BY <2>1, <2>5 DEF TextMatchesHeader
    <3>2. PICK r \in Ranks : \E a \in 1 .. Len(Program(r)) : Error(code.outcome, Program(r), a)
      BY <2>3, <2>5, <3>1
    <3>3. pc[r] - 1 = Len(Program(r))
      BY <2>2, <2>5
    <3> QED BY <2>3, <2>5, <3>2, <3>3
  <2> QED BY <2>4, <2>5
<1> QED BY <1>1, TextAlways, LeaksAreInTheText, RequestsAreInTheText, CodeAlways, PlaceAlways, PTL
=============================================================================
