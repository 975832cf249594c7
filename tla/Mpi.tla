-------------------------------- MODULE Mpi --------------------------------
(***************************************************************************)
(* A machine that runs the codes of the benchmark: as much of MPI as the   *)
(* codes use.  MPI is not part of the repository; what is modelled is what *)
(* the templates and the descriptions of the expected errors rely on.      *)
(*                                                                         *)
(* Each rank executes its program.  A communication is first posted (it    *)
(* gets into ops[r]) and later met by its counterpart; a blocking call     *)
(* returns, and MPI_Wait completes a request, when the operation may be    *)
(* left.  diag collects the errors that have been observed.  An invalid    *)
(* argument and collectives that do not match end the run (MPI's default   *)
(* error handler), all the other errors let it go on.                      *)
(*                                                                         *)
(* `buffered' says what an implementation buffers.  If it is "none", no    *)
(* call is left before its counterpart is there.  If it is "all", a        *)
(* standard send may be left at once, and so may a collective by a rank    *)
(* that needs nothing from the others.  If it is "small", the same holds   *)
(* but for the sends that a code makes larger than its others.             *)
(***************************************************************************)
EXTENDS Calls, FiniteSets

CONSTANTS
  Codes,      \* the files, in the order in which the generators make them
  Mislabelled \* the names of those whose header does not tell what they do

\* Request numbers of the codes.
Requests == 1 .. 4

\* Instructions that post an operation.
Comms == {"coll", "send", "recv"}

\* The errors of objects that are not freed.
Leaks == {"CommunicatorLeak", "GroupLeak", "OperatorLeak", "TypeLeak"}

\* The errors of requests, and of the buffers of requests.
RequestErrors == {"RequestLeak", "MissingWait", "MissingStart", "LocalConcurrency"}

(***************************************************************************)
(* What all the codes have in common, as can be seen in their programs     *)
(* without running them.  Objects are the delicate part: when program p    *)
(* frees one, it has created more of its kind than it has freed so far.    *)
(* MPI_Comm_free(&newcom) counts only where newcom may be an object, which *)
(* the last instruction that changed it tells.                             *)
(***************************************************************************)
NoObject == {"MPI_COMM_NULL", "MPI_COMM_WORLD"}

ChangesNewcom(i) == i.do = "comm_free" \/ (i.do = "set" /\ i.var = "newcom")

OwnsNewcom(p, k) ==
  \E a \in 1 .. k - 1 :
    /\ p[a].do = "set" /\ p[a].var = "newcom" /\ p[a].val \notin NoObject
    /\ \A b \in a + 1 .. k - 1 : ~ ChangesNewcom(p[b])

CreatesAt(p, h, a) == p[a].do = "new" /\ p[a].handle = h

FreesAt(p, h, a) ==
  \/ p[a].do = "release" /\ p[a].handle = h
  \/ p[a].do = "comm_free" /\ h = "CommunicatorLeak" /\ OwnsNewcom(p, a)

Created(p, h, k) == {a \in 1 .. k - 1 : CreatesAt(p, h, a)}
Freed(p, h, k) == {a \in 1 .. k - 1 : FreesAt(p, h, a)}

\* Instructions that concern requests.
OnRequest(i) ==
  \/ i.do \in {"start", "wait", "waitany", "reqfree", "write"}
  \/ i.do \in Comms /\ i.call \in Nonblocking \cup Persistent

\* Jumps stay in the program and do not skip anything about objects or
\* requests.
WellFormedProgram(p) ==
  \A a \in 1 .. Len(p) :
    /\ p[a].do \in {"start", "wait", "reqfree", "write"} => p[a].n \in Requests
    /\ p[a].do = "local" => p[a].faults \cap (Leaks \cup RequestErrors) = {}
    /\ \A h \in Leaks :
         FreesAt(p, h, a) => Cardinality(Freed(p, h, a)) < Cardinality(Created(p, h, a))
    /\ p[a].do = "jump" =>
         /\ p[a].by \in Nat /\ a + p[a].by <= Len(p)
         /\ \A b \in a + 1 .. a + p[a].by :
              /\ p[b].do \notin {"new", "release", "comm_free", "set", "finalize"}
              /\ ~ OnRequest(p[b])

\* An operation, and what the message tells if it is a send.
WellFormedOperation(o, np) ==
  /\ "do" \in DOMAIN o
  /\ o.do \in Comms =>
       {"call", "comm", "peer", "tag", "met"} \subseteq DOMAIN o
  /\ o.do = "send" => "data" \in DOMAIN o /\ o.data \in 0 .. np - 1

WellFormedCode(f) ==
  /\ f.np \in 2 .. 5 /\ f.buffering \subseteq {"none", "small", "all"}
  /\ DOMAIN f.env = 0 .. f.np - 1
  /\ \A r \in 0 .. f.np - 1 :
       /\ "newcom" \in DOMAIN f.env[r] /\ f.env[r].newcom \in NoObject
       /\ Len(f.prog[r]) \in Nat /\ WellFormedProgram(f.prog[r])
       /\ \A a \in 1 .. Len(f.prog[r]) :
            "literal" \in DOMAIN f.prog[r][a] =>
              /\ WellFormedOperation(f.prog[r][a].literal, f.np)
              /\ ~ f.prog[r][a].literal.met

WellFormedCodes == \A f \in ToSet(Codes) : WellFormedCode(f)

VARIABLES
  code,     \* the file that runs
  buffered, \* whether calls may be left early
  pc,       \* pc[r]: the instruction rank r is at
  env,      \* env[r]: the C variables of rank r
  ops,      \* ops[r]: what rank r has posted so far, in order
  posted,   \* posted[r]: the blocking call at pc[r] has been posted
  req,      \* req[r][n]: request n of rank r
  handles,  \* handles[r][h]: the objects that rank r has not freed yet
  epo,      \* epo[r]: rank r is inside an access epoch of the window
  local,    \* local[r]: accesses to local buffers by open one-sided calls
  window,   \* accesses to the windows since the last fence
  value,    \* value[r]: what the last message of rank r tells, in most
            \* codes the rank that sent it
  diag,     \* the errors observed so far
  over      \* the run was aborted

run == <<code, buffered>>
vars == <<run, pc, env, ops, posted, req, handles, epo, local, window, value, diag, over>>

Ranks == 0 .. code.np - 1
Program(r) == code.prog[r]
Running(r) == ~ over /\ pc[r] <= Len(code.prog[r])
At(r) == code.prog[r][pc[r]]

\* The wildcards, as numbers that no code uses by itself.
MPI_ANY_SOURCE == -99
MPI_ANY_TAG == -99

Communicators == {"MPI_COMM_WORLD", "newcom", "cart"}

\* MPI_REQUEST_NULL
NoRequest == [st |-> "null", at |-> 0, started |-> FALSE, pers |-> FALSE,
              op |-> [do |-> "none"]]

\* Programs start with all their objects fresh.
Init ==
  /\ code \in ToSet(Codes)
  /\ buffered \in code.buffering
  /\ pc = [r \in Ranks |-> 1]
  /\ env = code.env
  /\ ops = [r \in Ranks |-> <<>>]
  /\ posted = [r \in Ranks |-> FALSE]
  /\ req = [r \in Ranks |-> [n \in Requests |-> NoRequest]]
  /\ handles = [r \in Ranks |-> [h \in Leaks |-> 0]]
  /\ epo = [r \in Ranks |-> "none"]
  /\ local = [r \in Ranks |-> {}]
  /\ window = {}
  /\ value = [r \in Ranks |-> -1]
  /\ diag = {}
  /\ over = FALSE

-----------------------------------------------------------------------------
\* The operation that rank r makes by instruction i: the arguments are the
\* present values of its variables, or they stand in the code.
Operation(r, i) ==
  IF "literal" \in DOMAIN i THEN i.literal ELSE
  [do |-> i.do, call |-> i.call, comm |-> env[r][i.comm], met |-> FALSE,
   data |-> r, big |-> FALSE,
   peer |-> IF i.do = "send" THEN env[r].dest ELSE env[r].src,
   tag |-> CASE i.do = "send" -> env[r].stag
             [] i.do = "probe" -> 0
             [] OTHER -> env[r].rtag,
   type |-> env[r].type, root |-> env[r].root, op |-> env[r].op]

\* What is wrong with the arguments of operation o of rank r.
Faults(r, o) ==
     {e \in {"InvalidCommunicator"} :
        \/ o.comm = "MPI_COMM_NULL"
        \/ o.call = "MPI_Cart_get" /\ o.comm # "cart"
        \/ o.call = "MPI_Cart_create" /\ o.comm = "intercomm"}
  \cup {e \in {"InvalidDatatype"} :
        o.call \in Typed /\ o.type \in {"MPI_DATATYPE_NULL", "freed"}}
  \cup {e \in {"InvalidTag"} :
        \/ o.do = "send" /\ o.tag < 0
        \/ o.do = "recv" /\ o.tag < 0 /\ o.tag # MPI_ANY_TAG}
  \cup {e \in {"InvalidSrcDest"} :
        \/ o.do = "send" /\ o.peer \notin Ranks
        \/ o.do = "recv" /\ o.peer \notin Ranks \cup {MPI_ANY_SOURCE}}
  \cup {e \in {"InvalidRoot"} : o.call \in Rooted /\ o.root \notin Ranks}
  \cup {e \in {"InvalidOperator"} : o.call \in Reducing /\ o.op = "MPI_OP_NULL"}
  \cup {e \in {"InvalidOtherArg"} :
        \/ o.call = "MPI_Comm_split" /\ env[r].color < 0
        \/ o.call = "MPI_Cart_create" /\ env[r].dims < 0}
  \cup {e \in {"BufferTooSmall"} : o.call = "MPI_Bsend" /\ env[r].buff_size > env[r].room}

Calling(r) == Running(r) /\ ~ posted[r]
                /\ At(r).do \in {"coll", "send", "recv", "access", "cart_get", "probe"}

\* An invalid argument ends the run.
InvalidCall(r) ==
  /\ Calling(r)
  /\ Faults(r, Operation(r, At(r))) # {}
  /\ diag' = diag \cup Faults(r, Operation(r, At(r)))
  /\ over' = TRUE
  /\ UNCHANGED <<run, pc, env, ops, posted, req, handles, epo, local, window, value>>

\* The point-to-point buffers of the codes are single integers.
Overrun(r, o) ==
  {e \in {"OutOfBounds"} : o.do \in {"send", "recv"} /\ env[r].buff_size > 1}

\* A communication is posted.  A blocking call then waits in Return.
Post(r) ==
  /\ Calling(r)
  /\ At(r).do \in Comms /\ At(r).call \notin Persistent
  /\ LET i == At(r)
         o == Operation(r, i)
         request == [NoRequest EXCEPT !.st = "active", !.at = Len(ops[r]) + 1]
     IN  /\ Faults(r, o) = {}
         /\ ops' = [ops EXCEPT ![r] = Append(@, o)]
         /\ diag' = diag \cup Overrun(r, o)
         /\ IF i.call \in Nonblocking
            THEN /\ req' = [req EXCEPT ![r][i.n] = request]
                 /\ pc' = [pc EXCEPT ![r] = @ + 1]
                 /\ UNCHANGED posted
            ELSE /\ posted' = [posted EXCEPT ![r] = TRUE]
                 /\ UNCHANGED <<req, pc>>
  /\ UNCHANGED <<run, env, handles, epo, local, window, value, over>>

\* MPI_Send_init and MPI_Recv_init keep the arguments for MPI_Start.
InitRequest(r) ==
  /\ Calling(r)
  /\ At(r).do \in {"send", "recv"} /\ At(r).call \in Persistent
  /\ LET o == Operation(r, At(r)) IN
       /\ Faults(r, o) = {}
       /\ req' = [req EXCEPT ![r][At(r).n] =
                    [NoRequest EXCEPT !.st = "inactive", !.pers = TRUE, !.op = o]]
       /\ diag' = diag \cup Overrun(r, o)
  /\ pc' = [pc EXCEPT ![r] = @ + 1]
  /\ UNCHANGED <<run, env, ops, posted, handles, epo, local, window, value, over>>

-----------------------------------------------------------------------------
(* Messages *)

\* Send o of rank s and receive v of rank r concern the same message.  The
\* ranks of newcom are those of MPI_COMM_WORLD in the reverse order.
World(comm, i) == IF comm = "newcom" THEN code.np - 1 - i ELSE i

FitsBut(what, s, o, r, v) ==
  /\ o.do = "send" /\ ~ o.met /\ v.do \in {"recv", "probe"} /\ ~ v.met
  /\ what = "comm" \/ o.comm = v.comm
  /\ what = "tag" \/ v.tag \in {o.tag, MPI_ANY_TAG}
  /\ IF what = "comm"
     THEN o.peer = r /\ v.peer \in {s, MPI_ANY_SOURCE}
     ELSE /\ World(o.comm, o.peer) = r
          /\ v.peer = MPI_ANY_SOURCE \/ World(v.comm, v.peer) = s

Fits(s, o, r, v) == FitsBut("nothing", s, o, r, v)

-----------------------------------------------------------------------------
(* Completion *)

\* Whether rank r can do without the other ranks in collective c.
NeedsNobody(r, c, root) ==
  \/ c \in {"MPI_Bcast", "MPI_Ibcast", "MPI_Scatter", "MPI_Iscatter"} /\ r = root
  \/ c \in {"MPI_Reduce", "MPI_Ireduce", "MPI_Gather", "MPI_Igather"} /\ r # root
  \/ c \in {"MPI_Scan", "MPI_Iscan", "MPI_Exscan", "MPI_Iexscan"} /\ r = 0

MayLeave(r, o) ==
  \/ o.met
  \/ o.call = "MPI_Bsend"
  \/ /\ o.do = "send" /\ o.call # "MPI_Ssend"
     /\ buffered = "all" \/ (buffered = "small" /\ ~ o.big)
  \/ o.do = "coll" /\ buffered # "none" /\ NeedsNobody(r, o.call, o.root)

\* A blocking call returns.
Return(r) ==
  /\ Running(r) /\ posted[r]
  /\ MayLeave(r, Last(ops[r]))
  /\ posted' = [posted EXCEPT ![r] = FALSE]
  /\ pc' = [pc EXCEPT ![r] = @ + 1]
  /\ UNCHANGED <<run, env, ops, req, handles, epo, local, window, value, diag, over>>

\* MPI_Wait.  It returns at once if the request is not active, be it that a
\* persistent request was never started.
Wait(r) ==
  /\ Running(r) /\ At(r).do = "wait"
  /\ LET q == req[r][At(r).n] IN
       /\ q.st = "active" => MayLeave(r, ops[r][q.at])
       /\ req' = [req EXCEPT ![r][At(r).n] =
                    IF q.pers THEN [q EXCEPT !.st = "inactive"] ELSE NoRequest]
       /\ diag' = diag \cup {e \in {"MissingStart"} : q.pers /\ ~ q.started}
  /\ pc' = [pc EXCEPT ![r] = @ + 1]
  /\ UNCHANGED <<run, env, ops, posted, handles, epo, local, window, value, over>>

\* MPI_Waitany completes one of the requests ns, if one of them is active.
\* The code may assert which one it is.
WaitAny(r) ==
  /\ Running(r) /\ At(r).do = "waitany"
  /\ LET active == {n \in At(r).ns : req[r][n].st = "active"} IN
       IF active = {} THEN UNCHANGED <<req, diag, over>>
       ELSE \E n \in active :
              /\ MayLeave(r, ops[r][req[r][n].at])
              /\ req' = [req EXCEPT ![r][n] = NoRequest]
              /\ over' = (n \notin At(r).expected)
              /\ diag' = diag \cup {e \in {"AssertFailed"} : n \notin At(r).expected}
  /\ pc' = [pc EXCEPT ![r] = @ + 1]
  /\ UNCHANGED <<run, env, ops, posted, handles, epo, local, window, value>>

\* MPI_Start
Start(r) ==
  /\ Running(r) /\ At(r).do = "start"
  /\ ops' = [ops EXCEPT ![r] = Append(@, req[r][At(r).n].op)]
  /\ req' = [req EXCEPT ![r][At(r).n] =
               [@ EXCEPT !.st = "active", !.started = TRUE, !.at = Len(ops[r]) + 1]]
  /\ pc' = [pc EXCEPT ![r] = @ + 1]
  /\ UNCHANGED <<run, env, posted, handles, epo, local, window, value, diag, over>>

\* if (req != MPI_REQUEST_NULL) MPI_Request_free(&req)
FreeRequest(r) ==
  /\ Running(r) /\ At(r).do = "reqfree"
  /\ diag' = diag \cup {e \in {"MissingWait"} : req[r][At(r).n].st = "active"}
  /\ req' = [req EXCEPT ![r][At(r).n] = NoRequest]
  /\ pc' = [pc EXCEPT ![r] = @ + 1]
  /\ UNCHANGED <<run, env, ops, posted, handles, epo, local, window, value, over>>

\* MPI_Probe waits for a message that it leaves where it is.
Probe(r) ==
  /\ Calling(r) /\ At(r).do = "probe"
  /\ LET o == Operation(r, At(r)) IN
       \E q \in Ranks : \E j \in DOMAIN ops[q] : Fits(q, ops[q][j], r, o)
  /\ pc' = [pc EXCEPT ![r] = @ + 1]
  /\ UNCHANGED <<run, env, ops, posted, req, handles, epo, local, window, value, diag, over>>

\* MPI_Buffer_detach waits until the buffered messages have left.
Detach(r) ==
  /\ Running(r) /\ At(r).do = "detach"
  /\ \A j \in DOMAIN ops[r] : ops[r][j].call = "MPI_Bsend" => ops[r][j].met
  /\ env' = [env EXCEPT ![r].room = 0]
  /\ pc' = [pc EXCEPT ![r] = @ + 1]
  /\ UNCHANGED <<run, ops, posted, req, handles, epo, local, window, value, diag, over>>

-----------------------------------------------------------------------------
(* Matching *)

\* Messages do not overtake one another: of two sends of one rank that fit a
\* receive the first one is taken, and likewise of two receives.
First(s, i, r, j) ==
  /\ \A a \in 1 .. i - 1 : ~ Fits(s, ops[s][a], r, ops[r][j])
  /\ \A b \in 1 .. j - 1 : ~ Fits(s, ops[s][i], r, ops[r][b])

\* A rank other than s has sent, or is yet to send, a message that receive v
\* of rank r could take as well.
Rival(s, r, v) ==
  \E q \in Ranks \ {s} :
    \/ \E a \in DOMAIN ops[q] : Fits(q, ops[q][a], r, v)
    \/ \E a \in (IF posted[q] THEN pc[q] + 1 ELSE pc[q]) .. Len(code.prog[q]) :
         /\ code.prog[q][a].do = "send"
         /\ Fits(q, Operation(q, code.prog[q][a]), r, v)

\* The operations with these ranks and positions have met.
Met(these) ==
  [q \in Ranks |-> [a \in DOMAIN ops[q] |->
     IF <<q, a>> \in these THEN [ops[q][a] EXCEPT !.met = TRUE] ELSE ops[q][a]]]

\* Send i of rank s meets receive j of rank r.
Match(s, i, r, j) ==
  LET o == ops[s][i]
      v == ops[r][j]
  IN  /\ ~ over
      /\ Fits(s, o, r, v) /\ v.do = "recv" /\ First(s, i, r, j)
      /\ ops' = Met({<<s, i>>, <<r, j>>})
      /\ value' = [value EXCEPT ![r] = o.data]
      /\ diag' = diag \cup {e \in {"DatatypeMatching"} : o.type # v.type}
                      \cup {e \in {"MessageRace"} :
                             v.peer = MPI_ANY_SOURCE /\ Rival(s, r, v)}
      /\ UNCHANGED <<run, pc, env, posted, req, handles, epo, local, window, over>>

\* What the implementation is told to do where it has a choice: receive j of
\* rank r takes a message of rank s.
Picked(s, r, j) == \A p \in code.picks : p[1] = r /\ p[2] = j => p[3] = s

\* The next collective that rank r takes part in on communicator c.
Waiting(r, c) ==
  {j \in DOMAIN ops[r] : ops[r][j].do = "coll" /\ ops[r][j].comm = c /\ ~ ops[r][j].met}
NextColl(r, c) == CHOOSE j \in Waiting(r, c) : \A i \in Waiting(r, c) : j <= i

Gathered(c) == ~ over /\ \A r \in Ranks : Waiting(r, c) # {}
Agree(c, Arg(_)) == \A r, q \in Ranks :
                      Arg(ops[r][NextColl(r, c)]) = Arg(ops[q][NextColl(q, c)])
SameCall(c) == Agree(c, LAMBDA o : o.call)

\* All the ranks have called the same collective.  A fence completes the
\* one-sided calls before it and begins the next epoch.
MatchColl(c) ==
  /\ Gathered(c) /\ SameCall(c)
  /\ LET call == ops[0][NextColl(0, c)].call IN
       /\ diag' = diag
            \cup {e \in {"RootMatching"} :
                   call \in Rooted /\ ~ Agree(c, LAMBDA o : o.root)}
            \cup {e \in {"DatatypeMatching"} :
                   call \in Typed /\ ~ Agree(c, LAMBDA o : o.type)}
            \cup {e \in {"OperatorMatching"} :
                   call \in Reducing /\ ~ Agree(c, LAMBDA o : o.op)}
       /\ IF call = "MPI_Win_fence"
          THEN /\ epo' = [r \in Ranks |-> "shared"]
               /\ local' = [r \in Ranks |-> {}]
               /\ window' = {}
          ELSE UNCHANGED <<epo, local, window>>
  /\ ops' = Met({<<r, NextColl(r, c)>> : r \in Ranks})
  /\ UNCHANGED <<run, pc, env, posted, req, handles, value, over>>

\* The ranks have called different collectives.
MismatchColl(c) ==
  /\ Gathered(c) /\ ~ SameCall(c)
  /\ diag' = diag \cup {"CallMatching"}
  /\ over' = TRUE
  /\ UNCHANGED <<run, pc, env, ops, posted, req, handles, epo, local, window, value>>

-----------------------------------------------------------------------------
(* Local statements *)

Assign(r) ==
  /\ Running(r) /\ At(r).do = "set"
  /\ env' = [env EXCEPT ![r] = [@ EXCEPT ![At(r).var] = At(r).val]]
  /\ pc' = [pc EXCEPT ![r] = @ + 1]
  /\ UNCHANGED <<run, ops, posted, req, handles, epo, local, window, value, diag, over>>

\* A statement that writes to the buffer of request n.
Write(r) ==
  /\ Running(r) /\ At(r).do = "write"
  /\ diag' = diag \cup {e \in {"LocalConcurrency"} : req[r][At(r).n].st = "active"}
  /\ pc' = [pc EXCEPT ![r] = @ + 1]
  /\ UNCHANGED <<run, env, ops, posted, req, handles, epo, local, window, value, over>>

\* A new object; its handle is stored at index j of an array of `size' ones.
Create(r) ==
  /\ Running(r) /\ At(r).do = "new"
  /\ handles' = [handles EXCEPT ![r][At(r).handle] = @ + 1]
  /\ diag' = diag \cup {e \in {"OutOfBounds"} : At(r).indexed /\ env[r].j >= env[r].size}
  /\ pc' = [pc EXCEPT ![r] = @ + 1]
  /\ UNCHANGED <<run, env, ops, posted, req, epo, local, window, value, over>>

FreeObject(r) ==
  /\ Running(r) /\ At(r).do = "release"
  /\ handles' = [handles EXCEPT ![r][At(r).handle] = @ - 1]
  /\ pc' = [pc EXCEPT ![r] = @ + 1]
  /\ UNCHANGED <<run, env, ops, posted, req, epo, local, window, value, diag, over>>

\* MPI_Comm_free(&newcom), unless it is MPI_COMM_NULL or MPI_COMM_WORLD.
FreeNewcom(r) ==
  /\ Running(r) /\ At(r).do = "comm_free"
  /\ IF env[r].newcom \in {"MPI_COMM_NULL", "MPI_COMM_WORLD"}
     THEN UNCHANGED <<handles, env>>
     ELSE /\ handles' = [handles EXCEPT ![r]["CommunicatorLeak"] = @ - 1]
          /\ env' = [env EXCEPT ![r].newcom = "MPI_COMM_NULL"]
  /\ pc' = [pc EXCEPT ![r] = @ + 1]
  /\ UNCHANGED <<run, ops, posted, req, epo, local, window, value, diag, over>>

CartGet(r) ==
  /\ Calling(r) /\ At(r).do = "cart_get"
  /\ Faults(r, Operation(r, At(r))) = {}
  /\ pc' = [pc EXCEPT ![r] = @ + 1]
  /\ UNCHANGED <<run, env, ops, posted, req, handles, epo, local, window, value, diag, over>>

\* The program stops by itself if the last message is not the one of rank 3.
Expect(r) ==
  /\ Running(r) /\ At(r).do = "expect"
  /\ over' = (value[r] # 3)
  /\ pc' = [pc EXCEPT ![r] = @ + 1]
  /\ UNCHANGED <<run, env, ops, posted, req, handles, epo, local, window, value, diag>>

\* Instructions are skipped unless the last message tells what they need.
Jump(r) ==
  /\ Running(r) /\ At(r).do = "jump"
  /\ pc' = [pc EXCEPT ![r] = IF value[r] = At(r).unless THEN @ + 1 ELSE @ + 1 + At(r).by]
  /\ UNCHANGED <<run, env, ops, posted, req, handles, epo, local, window, value, diag, over>>

\* A call that concerns its own rank only: its faults end the run.
LocalCall(r) ==
  /\ Running(r) /\ At(r).do = "local"
  /\ diag' = diag \cup At(r).faults
  /\ over' = (At(r).faults # {})
  /\ pc' = [pc EXCEPT ![r] = @ + 1]
  /\ UNCHANGED <<run, env, ops, posted, req, handles, epo, local, window, value>>

-----------------------------------------------------------------------------
(* One-sided communication *)

\* Locks of the codes never exclude one another: all are shared, or there is
\* only one.
Lock(r) ==
  /\ Running(r) /\ At(r).do \in {"lock", "lock_exclusive", "unlock"}
  /\ epo' = [epo EXCEPT ![r] = CASE At(r).do = "lock" -> "shared"
                                 [] At(r).do = "lock_exclusive" -> "exclusive"
                                 [] At(r).do = "unlock" -> "none"]
  /\ local' = [local EXCEPT ![r] = IF At(r).do = "unlock" THEN {} ELSE @]
  /\ pc' = [pc EXCEPT ![r] = @ + 1]
  /\ UNCHANGED <<run, env, ops, posted, req, handles, window, value, diag, over>>

\* Two accesses of which one writes, and which nothing orders.
Races(a, b) ==
  a.by # b.by /\ a.to = b.to /\ (a.writes \/ b.writes) /\ ~ (a.excl /\ b.excl)

\* An access to the local buffer n, by the program itself or by a one-sided
\* call, which goes on until its epoch ends and accesses the window as well.
\* MPI_Get writes to the buffer, MPI_Put to the window.
Access(r) ==
  /\ Calling(r) /\ At(r).do = "access"
  /\ Faults(r, Operation(r, At(r))) = {}
  /\ LET i == At(r)
         onesided == i.call \in ToSet(rma)
         here  == [n |-> i.n, writes |-> i.call \in {"MPI_Get", "store", "loadstore"}]
         there == [by |-> r, to |-> env[r].target, writes |-> i.call = "MPI_Put",
                   excl |-> epo[r] = "exclusive"]
     IN  /\ diag' = diag
              \cup {e \in {"LocalConcurrency"} :
                     \E a \in local[r] : a.n = i.n /\ (a.writes \/ here.writes)}
              \cup {e \in {"GlobalConcurrency"} :
                     onesided /\ \E a \in window : Races(a, there)}
              \cup {e \in {"EpochMissing"} : onesided /\ epo[r] = "none"}
         /\ local' = [local EXCEPT ![r] = IF onesided THEN @ \cup {here} ELSE @]
         /\ window' = IF onesided THEN window \cup {there} ELSE window
  /\ pc' = [pc EXCEPT ![r] = @ + 1]
  /\ UNCHANGED <<run, env, ops, posted, req, handles, epo, value, over>>

\* The owner of a window writes to it.
StoreWindow(r) ==
  /\ Running(r) /\ At(r).do = "store_window"
  /\ LET own == [by |-> r, to |-> r, writes |-> TRUE, excl |-> FALSE] IN
       /\ diag' = diag \cup {e \in {"GlobalConcurrency"} : \E a \in window : Races(a, own)}
       /\ window' = window \cup {own}
  /\ pc' = [pc EXCEPT ![r] = @ + 1]
  /\ UNCHANGED <<run, env, ops, posted, req, handles, epo, local, value, over>>

-----------------------------------------------------------------------------
\* MPI_Finalize: what is left is lost.
Finalize(r) ==
  /\ Running(r) /\ At(r).do = "finalize"
  /\ diag' = diag \cup {h \in Leaks : handles[r][h] > 0}
         \cup {e \in {"MissingWait"} : \E n \in Requests : req[r][n].st = "active"}
         \cup {e \in {"RequestLeak"} : \E n \in Requests : req[r][n].st = "inactive"}
  /\ pc' = [pc EXCEPT ![r] = @ + 1]
  /\ UNCHANGED <<run, env, ops, posted, req, handles, epo, local, window, value, over>>

Next ==
  \/ \E r \in Ranks :
       \/ InvalidCall(r) \/ Post(r) \/ InitRequest(r) \/ Return(r) \/ Wait(r)
       \/ Start(r) \/ FreeRequest(r) \/ Probe(r) \/ Detach(r) \/ Assign(r)
       \/ Write(r) \/ Create(r) \/ FreeObject(r) \/ FreeNewcom(r) \/ CartGet(r)
       \/ WaitAny(r) \/ Jump(r) \/ LocalCall(r)
       \/ Expect(r) \/ Lock(r) \/ Access(r) \/ StoreWindow(r) \/ Finalize(r)
  \/ \E s, r \in Ranks : \E i \in DOMAIN ops[s], j \in DOMAIN ops[r] :
       Picked(s, r, j) /\ Match(s, i, r, j)
  \/ \E c \in Communicators : MatchColl(c) \/ MismatchColl(c)

Spec == Init /\ [][Next]_vars

-----------------------------------------------------------------------------
\* The run is over, be it because it hangs.
Stopped == ~ ENABLED Next

Hangs ==
  /\ ~ over /\ \E r \in Ranks : Running(r)
  /\ \A s, r \in Ranks : \A i \in DOMAIN ops[s], j \in DOMAIN ops[r] :
       ~ (Fits(s, ops[s][i], r, ops[r][j]) /\ First(s, i, r, j))

Unmet(r) == {j \in DOMAIN ops[r] : ~ ops[r][j].met}

\* What the operations that never met a counterpart tell: two of them differ
\* in the tag only, or in the communicator only, or they just do not match.
Unmatched ==
  LET Pair(what) == \E s, r \in Ranks : \E i \in Unmet(s), j \in Unmet(r) :
                       FitsBut(what, s, ops[s][i], r, ops[r][j])
      Colls == \E s, r \in Ranks : \E i \in Unmet(s), j \in Unmet(r) :
                 /\ ops[s][i].do = "coll" /\ ops[s][i].call = ops[r][j].call
                 /\ ops[s][i].comm # ops[r][j].comm
  IN  IF over \/ \A r \in Ranks : Unmet(r) = {} /\ ~ Running(r) THEN {}
      ELSE IF Pair("tag") THEN {"TagMatching"}
      ELSE IF Pair("comm") \/ Colls THEN {"CommunicatorMatching"}
      ELSE {"CallMatching"}

\* The kind of an error in the words of the hand-written headers.
KindOf(e) ==
  CASE e \in {"InvalidCommunicator", "InvalidDatatype", "InvalidTag", "InvalidSrcDest",
              "InvalidRoot", "InvalidOperator", "InvalidOtherArg", "BufferTooSmall",
              "RootMatching", "OperatorMatching", "EpochMissing"} -> "mpierr"
    [] e \in Leaks \cup {"RequestLeak", "MissingWait"} -> "resleak"
    [] e \in {"LocalConcurrency", "GlobalConcurrency"} -> "datarace"
    [] e = "DatatypeMatching" -> "numstab"
    [] e = "OutOfBounds" -> "segfault"
    [] e = "CallMatching" -> "deadlock"
    [] OTHER -> e

\* The errors of the run so far, in the words of both kinds of headers; those
\* of communications without a counterpart are known at the end only.
Observed ==
  diag \cup {KindOf(e) : e \in diag}
    \cup (IF Stopped
          THEN Unmatched \cup {e \in {"deadlock"} : Hangs}
                 \cup {e \in {"unmatched"} : Unmatched # {}}
          ELSE {})

\* The header of a generated code announces one error, or OK; that of a
\* hand-written one excludes kinds of errors.
Generated == code.never = {} /\ code.outcome \notin Kinds
Announces == code.outcome \notin {"OK", "never"}
LabelHolds ==
  /\ code.outcome = "OK" => Observed = {}
  /\ Announces => code.outcome \in Observed
  /\ Observed \cap code.never = {}

\* The code that runs is well-formed, which is looked at in the beginning
\* only; the variables have the values they should have; nothing is freed
\* twice.
TypeOK ==
  /\ (\A r \in Ranks : pc[r] = 1) => WellFormedCode(code)
  /\ code.np \in 2 .. 5 /\ buffered \in {"none", "small", "all"} /\ over \in BOOLEAN
  /\ \A r \in Ranks :
       /\ pc[r] \in 1 .. Len(code.prog[r]) + 1
       /\ posted[r] => Running(r) \/ over
       /\ DOMAIN env[r] = DOMAIN code.env[r]
       /\ \A n \in Requests :
            /\ req[r][n].st \in {"null", "active", "inactive"}
            /\ req[r][n].st = "active" => req[r][n].at \in DOMAIN ops[r]
       /\ \A h \in Leaks : handles[r][h] \in Nat
       /\ epo[r] \in {"none", "shared", "exclusive"}
       /\ value[r] \in Ranks \cup {-1}

(***************************************************************************)
(* A code whose header says OK runs to its end without any error: however  *)
(* its ranks are scheduled and however much MPI buffers, every operation   *)
(* is matched, every object and request freed, and nothing undefined done. *)
(***************************************************************************)
OkIsClean ==
  code.outcome = "OK" /\ code.file \notin Mislabelled => Observed = {} /\ ~ over

(***************************************************************************)
(* A code whose header says ERROR has the error it announces.  In a        *)
(* generated code no schedule of the ranks avoids it, if nothing is        *)
(* buffered.  In a hand-written code, no schedule avoids it once the       *)
(* implementation buffers as much and takes the messages as the comments   *)
(* of the code tell.                                                       *)
(***************************************************************************)
ErrorIsThere ==
  Announces /\ code.file \notin Mislabelled /\ Stopped => code.outcome \in Observed

(***************************************************************************)
(* A generated code whose header says ERROR has no other error than the    *)
(* one it announces, so that a tool that reports another one is wrong.     *)
(* There are three exceptions: a request that is never started leaves its  *)
(* counterpart unmatched, requests of the LocalConcurrency codes are not   *)
(* freed, and two kinds of codes leave the bounds of their variables, by   *)
(* taking single integers for buffers of 128 (P2PMatching) or an array of  *)
(* one handle for one of two (Resleak).                                    *)
(***************************************************************************)
OverBounds(f) ==
  \E r \in 0 .. f.np - 1 : f.env[r].buff_size > 1 \/ f.env[r].j >= f.env[r].size

Besides(f) ==
  {e \in {"OutOfBounds"} : OverBounds(f)}
    \cup (CASE f.outcome = "MissingStart" -> {"CallMatching"}
            [] f.outcome = "LocalConcurrency" -> {"RequestLeak"}
            [] OTHER -> {})

AnnouncedOnly ==
  Announces /\ Generated /\ code.file \notin Mislabelled /\ Stopped =>
    diag \cup Unmatched \subseteq {code.outcome} \cup Besides(code)

(***************************************************************************)
(* A hand-written code has none of the errors that its header says never   *)
(* occur: not in any schedule, with any amount of buffering and whichever  *)
(* message a wildcard receive takes.                                       *)
(***************************************************************************)
NeverIsNever ==
  code.never # {} /\ code.file \notin Mislabelled => Observed \cap code.never = {}

(***************************************************************************)
(* The codes that are known to be mislabelled are so in every schedule:    *)
(* none of their runs ends the way the header tells, so that a tool that   *)
(* is right about them is always counted as wrong.                         *)
(***************************************************************************)
MislabelledIsWrong ==
  code.file \in Mislabelled /\ Stopped => ~ LabelHolds

(***************************************************************************)
(* No file is written twice: the name of a file tells its code.            *)
(***************************************************************************)
WrittenOnce ==
  (\A r \in Ranks : pc[r] = 1 /\ ~ posted[r]) =>
    Cardinality({i \in DOMAIN Codes : Codes[i].file = code.file}) = 1

-----------------------------------------------------------------------------
(* What the texts of the programs tell about their runs *)

\* Program p has not freed all the objects of kind h at this MPI_Finalize.
LeaksAt(p, h, a) ==
  p[a].do = "finalize" /\ Cardinality(Freed(p, h, a)) < Cardinality(Created(p, h, a))

\* What is at on holds since then at instruction k of a program, for nothing
\* in between is at off.
Since(on, off, k) == \E a \in on : a < k /\ \A b \in a + 1 .. k - 1 : b \notin off

Starts(p, n) == {a \in 1 .. Len(p) : p[a].do = "start" /\ p[a].n = n}
Waits(p, n) == {a \in 1 .. Len(p) : p[a].do = "wait" /\ p[a].n = n}
Frees(p, n) == {a \in 1 .. Len(p) : p[a].do = "reqfree" /\ p[a].n = n}
Requesting(p, n, calls) ==
  {a \in 1 .. Len(p) : p[a].do \in Comms /\ p[a].call \in calls /\ p[a].n = n}

\* Request n is active, persistent or was started when program p has come to
\* its instruction k.
ActiveAt(p, n, k) ==
  Since(Starts(p, n) \cup Requesting(p, n, Nonblocking),
        Waits(p, n) \cup Frees(p, n) \cup Requesting(p, n, Persistent), k)
PersistentAt(p, n, k) ==
  Since(Requesting(p, n, Persistent), Frees(p, n) \cup Requesting(p, n, Nonblocking), k)
StartedAt(p, n, k) ==
  Since(Starts(p, n),
        Frees(p, n) \cup Requesting(p, n, Nonblocking) \cup Requesting(p, n, Persistent), k)

\* Program p has error e of its requests at this instruction.
FoundAt(p, e, a) ==
  \/ /\ e = "RequestLeak" /\ p[a].do = "finalize"
     /\ \E n \in Requests : PersistentAt(p, n, a) /\ ~ ActiveAt(p, n, a)
  \/ /\ e = "MissingWait" /\ p[a].do = "finalize"
     /\ \E n \in Requests : ActiveAt(p, n, a)
  \/ e = "MissingWait" /\ p[a].do = "reqfree" /\ ActiveAt(p, p[a].n, a)
  \/ /\ e = "MissingStart" /\ p[a].do = "wait"
     /\ PersistentAt(p, p[a].n, a) /\ ~ StartedAt(p, p[a].n, a)
  \/ e = "LocalConcurrency" /\ p[a].do = "write" /\ ActiveAt(p, p[a].n, a)

\* The errors of objects and requests in the text of a code, whether or not
\* a run of it gets there.
TextErrors(f) ==
  {e \in Leaks \cup RequestErrors :
     \E r \in 0 .. f.np - 1 : \E a \in 1 .. Len(f.prog[r]) :
       \/ e \in Leaks /\ LeaksAt(f.prog[r], e, a)
       \/ e \in RequestErrors /\ FoundAt(f.prog[r], e, a)}

\* No program of the code has such an instruction.
Without(f, do) ==
  \A r \in 0 .. f.np - 1 : \A a \in 1 .. Len(f.prog[r]) : f.prog[r][a].do # do

\* The errors that the text of a code may have.  An invalid or different
\* communicator takes the place of one that is then never freed.
InHeader(f) ==
  {f.outcome} \cup Besides(f)
    \cup {e \in {"CommunicatorLeak"} :
            f.outcome \in {"InvalidCommunicator", "CommunicatorMatching"}}

TextMatchesHeader(f) ==
  /\ TextErrors(f) \subseteq InHeader(f)
  /\ f.outcome \in Leaks \cup RequestErrors /\ Without(f, "access") =>
       f.outcome \in TextErrors(f)

(***************************************************************************)
(* No generated code hides an error of its objects or requests behind the  *)
(* one that it announces, where no run gets since the ranks hang or abort  *)
(* before, but where a tool that reads the text finds it: its text has the *)
(* announced error and no other one.  The exception are the codes that     *)
(* replace the communicator in newcom and so lose it.  Local accesses of   *)
(* one-sided calls are left out; the machine sees these.                   *)
(***************************************************************************)
NothingHidden ==
  (\A r \in Ranks : pc[r] = 1 /\ ~ posted[r]) /\ Generated /\ code.file \notin Mislabelled =>
    TextMatchesHeader(code)
=============================================================================
