--------------------------- MODULE OutcomesProofs ---------------------------
(***************************************************************************)
(* Proofs, for every set of tools, every number of messages and of         *)
(* warnings, and whatever earlier runs have left:                          *)
(*   - NotRunIsUnjudged: when a test that was not run is judged (only by   *)
(*     an old report of MUST);                                             *)
(*   - AcceptedErrorsAreOverruled: when a test is accepted in whose run an *)
(*     error was found (in the three ways of Overruled);                   *)
(*   - SilentTimeoutIsUnjudged: when a run stopped before it says anything *)
(*     is judged (by PARCOACH, and by an old report);                      *)
(*   - StaleTimeoutsAreRare: when the .timeout file of an earlier run      *)
(*     decides (for MUST, when nothing else is said).                      *)
(* The orders of the searches are what these rest on: see WellOrdered.     *)
(***************************************************************************)
EXTENDS Outcomes, WellFoundedInduction, TLAPS

(***************************************************************************)
(* A set of natural numbers that is not empty has a least element, and Min *)
(* chooses it.                                                             *)
(***************************************************************************)
LEMMA MinOfNaturals ==
  ASSUME NEW S \in SUBSET Nat, S # {}
  PROVE  Min(S) \in S /\ \A i \in S : Min(S) <= i
<1>1. PICK m \in S : \A i \in S : ~ (<<i, m>> \in OpToRel(<, Nat))
  BY NatLessThanWellFounded, WFMin
<1>2. \A i \in S : ~ (i < m)
  BY <1>1, Zenon DEF OpToRel
<1>3. \A i \in S : m <= i
  BY <1>2
<1> QED BY <1>3 DEF Min

\* The searches of a tool are numbered from 1.
LEMMA SearchesAreNumbered ==
  ASSUME NEW t \in AllTools
  PROVE  DOMAIN Searches(t) \subseteq Nat
  BY DEF AllTools, On, Searches, Aislinn, Civl, Hermes, Isp, Itac, Mpisv, Must, Parcoach,
         Simgrid, Smpi, Smpivg

-----------------------------------------------------------------------------
ErrorMarks == {"race", "error", "leak", "doubt"}

\* Messages about the compilation and about timeouts are no verdicts, and only
\* MUST looks for the .timeout file.
NoVerdict(t, e) ==
  /\ e.mark = "compile error" => e.outcome = "UNIMPLEMENTED"
  /\ e.mark \in {"killed 15 at 300", "timeout file"} <=> e.outcome = "timeout"
  /\ e.mark = "timeout file" => t = "must"

\* The errors that are searched for after the "ok" of the tool.
Early(t) ==
  CASE t = "aislinn" -> {"error"}
    [] t = "civl"    -> {"doubt"}
    [] OTHER         -> {}

(***************************************************************************)
(* What the searches s of all the tools t have in common: the ones that    *)
(* accept a test come after the ones for an error, but for those of Early. *)
(***************************************************************************)
WellOrdered(t, s) ==
  /\ \A i, j \in DOMAIN s :
       s[i].outcome = "OK" /\ s[j].mark \in ErrorMarks =>
         j < i \/ (s[i].mark = "ok" /\ s[j].mark \in Early(t))
  /\ \A i \in DOMAIN s : NoVerdict(t, s[i])

(***************************************************************************)
(* The searches of each tool: the places where a test is accepted, and the *)
(* ones where it is not.                                                   *)
(***************************************************************************)
LEMMA AislinnInOrder == WellOrdered("aislinn", Aislinn)
<1>1. ASSUME NEW s, DOMAIN s = {1, 2, 3, 4, 5, 6},
             s[1].mark = Aislinn[1].mark, s[1].outcome = Aislinn[1].outcome,
             s[2].mark = Aislinn[2].mark, s[2].outcome = Aislinn[2].outcome,
             s[3].mark = Aislinn[3].mark, s[3].outcome = Aislinn[3].outcome,
             s[4].mark = Aislinn[4].mark, s[4].outcome = Aislinn[4].outcome,
             s[5].mark = Aislinn[5].mark, s[5].outcome = Aislinn[5].outcome,
             s[6].mark = Aislinn[6].mark, s[6].outcome = Aislinn[6].outcome
      PROVE  WellOrdered("aislinn", s)
  <2>1. \A i \in DOMAIN s : s[i].outcome = "OK" => i \in {2}
    BY <1>1 DEF Aislinn, On
  <2>2. \A i \in DOMAIN s : s[i].mark \in ErrorMarks => i \in {1, 3}
    BY <1>1 DEF Aislinn, On, ErrorMarks
  <2>3. \A i \in DOMAIN s : NoVerdict("aislinn", s[i])
    BY <1>1 DEF Aislinn, On, NoVerdict
  <2>4. s[2].mark = "ok" /\ s[3].mark = "error"
    BY <1>1 DEF Aislinn, On
  <2> QED BY <2>1, <2>2, <2>3, <2>4 DEF WellOrdered, Early
<1>2. DOMAIN Aislinn = {1, 2, 3, 4, 5, 6}
  BY DEF Aislinn
<1> QED BY <1>1, <1>2

LEMMA CivlInOrder == WellOrdered("civl", Civl)
<1>1. ASSUME NEW s, DOMAIN s = {1, 2, 3, 4, 5, 6, 7, 8, 9},
             s[1].mark = Civl[1].mark, s[1].outcome = Civl[1].outcome,
             s[2].mark = Civl[2].mark, s[2].outcome = Civl[2].outcome,
             s[3].mark = Civl[3].mark, s[3].outcome = Civl[3].outcome,
             s[4].mark = Civl[4].mark, s[4].outcome = Civl[4].outcome,
             s[5].mark = Civl[5].mark, s[5].outcome = Civl[5].outcome,
             s[6].mark = Civl[6].mark, s[6].outcome = Civl[6].outcome,
             s[7].mark = Civl[7].mark, s[7].outcome = Civl[7].outcome,
             s[8].mark = Civl[8].mark, s[8].outcome = Civl[8].outcome,
             s[9].mark = Civl[9].mark, s[9].outcome = Civl[9].outcome
      PROVE  WellOrdered("civl", s)
  <2>1. \A i \in DOMAIN s : s[i].outcome = "OK" => i \in {5}
    BY <1>1 DEF Civl, On
  <2>2. \A i \in DOMAIN s : s[i].mark \in ErrorMarks => i \in {2, 3, 4, 7}
    BY <1>1 DEF Civl, On, ErrorMarks
  <2>3. \A i \in DOMAIN s : NoVerdict("civl", s[i])
    BY <1>1, ZenonT(60) DEF Civl, On, NoVerdict
  <2>4. s[5].mark = "ok" /\ s[7].mark = "doubt"
    BY <1>1 DEF Civl, On
  <2> QED BY <2>1, <2>2, <2>3, <2>4 DEF WellOrdered, Early
<1>2. DOMAIN Civl = {1, 2, 3, 4, 5, 6, 7, 8, 9}
  BY DEF Civl
<1> QED BY <1>1, <1>2

LEMMA HermesInOrder == WellOrdered("hermes", Hermes)
<1>1. ASSUME NEW s, DOMAIN s = {1, 2, 3, 4},
             s[1].mark = Hermes[1].mark, s[1].outcome = Hermes[1].outcome,
             s[2].mark = Hermes[2].mark, s[2].outcome = Hermes[2].outcome,
             s[3].mark = Hermes[3].mark, s[3].outcome = Hermes[3].outcome,
             s[4].mark = Hermes[4].mark, s[4].outcome = Hermes[4].outcome
      PROVE  WellOrdered("hermes", s)
  <2>1. \A i \in DOMAIN s : s[i].outcome = "OK" => i \in {}
    BY <1>1 DEF Hermes, On
  <2>2. \A i \in DOMAIN s : s[i].mark \in ErrorMarks => i \in {1, 2}
    BY <1>1 DEF Hermes, On, ErrorMarks
  <2>3. \A i \in DOMAIN s : NoVerdict("hermes", s[i])
    BY <1>1 DEF Hermes, On, NoVerdict
  <2> QED BY <2>1, <2>2, <2>3 DEF WellOrdered, Early
<1>2. DOMAIN Hermes = {1, 2, 3, 4}
  BY DEF Hermes
<1> QED BY <1>1, <1>2

LEMMA IspInOrder == WellOrdered("isp", Isp)
<1>1. ASSUME NEW s, DOMAIN s = {1, 2, 3, 4, 5, 6},
             s[1].mark = Isp[1].mark, s[1].outcome = Isp[1].outcome,
             s[2].mark = Isp[2].mark, s[2].outcome = Isp[2].outcome,
             s[3].mark = Isp[3].mark, s[3].outcome = Isp[3].outcome,
             s[4].mark = Isp[4].mark, s[4].outcome = Isp[4].outcome,
             s[5].mark = Isp[5].mark, s[5].outcome = Isp[5].outcome,
             s[6].mark = Isp[6].mark, s[6].outcome = Isp[6].outcome
      PROVE  WellOrdered("isp", s)
  <2>1. \A i \in DOMAIN s : s[i].outcome = "OK" => i \in {5}
    BY <1>1 DEF Isp, On
  <2>2. \A i \in DOMAIN s : s[i].mark \in ErrorMarks => i \in {2, 3, 4}
    BY <1>1 DEF Isp, On, ErrorMarks
  <2>3. \A i \in DOMAIN s : NoVerdict("isp", s[i])
    BY <1>1 DEF Isp, On, NoVerdict
  <2> QED BY <2>1, <2>2, <2>3 DEF WellOrdered, Early
<1>2. DOMAIN Isp = {1, 2, 3, 4, 5, 6}
  BY DEF Isp
<1> QED BY <1>1, <1>2

LEMMA ItacInOrder == WellOrdered("itac", Itac)
<1>1. ASSUME NEW s, DOMAIN s = {1, 2, 3, 4, 5, 6},
             s[1].mark = Itac[1].mark, s[1].outcome = Itac[1].outcome,
             s[2].mark = Itac[2].mark, s[2].outcome = Itac[2].outcome,
             s[3].mark = Itac[3].mark, s[3].outcome = Itac[3].outcome,
             s[4].mark = Itac[4].mark, s[4].outcome = Itac[4].outcome,
             s[5].mark = Itac[5].mark, s[5].outcome = Itac[5].outcome,
             s[6].mark = Itac[6].mark, s[6].outcome = Itac[6].outcome
      PROVE  WellOrdered("itac", s)
  <2>1. \A i \in DOMAIN s : s[i].outcome = "OK" => i \in {5}
    BY <1>1 DEF Itac, On
  <2>2. \A i \in DOMAIN s : s[i].mark \in ErrorMarks => i \in {2, 3, 4}
    BY <1>1 DEF Itac, On, ErrorMarks
  <2>3. \A i \in DOMAIN s : NoVerdict("itac", s[i])
    BY <1>1 DEF Itac, On, NoVerdict
  <2> QED BY <2>1, <2>2, <2>3 DEF WellOrdered, Early
<1>2. DOMAIN Itac = {1, 2, 3, 4, 5, 6}
  BY DEF Itac
<1> QED BY <1>1, <1>2

LEMMA MpisvInOrder == WellOrdered("mpisv", Mpisv)
<1>1. ASSUME NEW s, DOMAIN s = {1, 2, 3, 4, 5, 6},
             s[1].mark = Mpisv[1].mark, s[1].outcome = Mpisv[1].outcome,
             s[2].mark = Mpisv[2].mark, s[2].outcome = Mpisv[2].outcome,
             s[3].mark = Mpisv[3].mark, s[3].outcome = Mpisv[3].outcome,
             s[4].mark = Mpisv[4].mark, s[4].outcome = Mpisv[4].outcome,
             s[5].mark = Mpisv[5].mark, s[5].outcome = Mpisv[5].outcome,
             s[6].mark = Mpisv[6].mark, s[6].outcome = Mpisv[6].outcome
      PROVE  WellOrdered("mpisv", s)
  <2>1. \A i \in DOMAIN s : s[i].outcome = "OK" => i \in {6}
    BY <1>1 DEF Mpisv, On
  <2>2. \A i \in DOMAIN s : s[i].mark \in ErrorMarks => i \in {3, 4}
    BY <1>1 DEF Mpisv, On, ErrorMarks
  <2>3. \A i \in DOMAIN s : NoVerdict("mpisv", s[i])
    BY <1>1 DEF Mpisv, On, NoVerdict
  <2> QED BY <2>1, <2>2, <2>3 DEF WellOrdered, Early
<1>2. DOMAIN Mpisv = {1, 2, 3, 4, 5, 6}
  BY DEF Mpisv
<1> QED BY <1>1, <1>2

LEMMA MustInOrder == WellOrdered("must", Must)
<1>1. ASSUME NEW s, DOMAIN s = {1, 2, 3, 4, 5, 6, 7, 8},
             s[1].mark = Must[1].mark, s[1].outcome = Must[1].outcome,
             s[2].mark = Must[2].mark, s[2].outcome = Must[2].outcome,
             s[3].mark = Must[3].mark, s[3].outcome = Must[3].outcome,
             s[4].mark = Must[4].mark, s[4].outcome = Must[4].outcome,
             s[5].mark = Must[5].mark, s[5].outcome = Must[5].outcome,
             s[6].mark = Must[6].mark, s[6].outcome = Must[6].outcome,
             s[7].mark = Must[7].mark, s[7].outcome = Must[7].outcome,
             s[8].mark = Must[8].mark, s[8].outcome = Must[8].outcome
      PROVE  WellOrdered("must", s)
  <2>1. \A i \in DOMAIN s : s[i].outcome = "OK" => i \in {6}
    BY <1>1 DEF Must, On
  <2>2. \A i \in DOMAIN s : s[i].mark \in ErrorMarks => i \in {1, 2, 3, 5}
    BY <1>1 DEF Must, On, ErrorMarks
  <2>3. \A i \in DOMAIN s : NoVerdict("must", s[i])
    BY <1>1 DEF Must, On, NoVerdict
  <2> QED BY <2>1, <2>2, <2>3 DEF WellOrdered, Early
<1>2. DOMAIN Must = {1, 2, 3, 4, 5, 6, 7, 8}
  BY DEF Must
<1> QED BY <1>1, <1>2

LEMMA ParcoachInOrder == WellOrdered("parcoach", Parcoach)
<1>1. ASSUME NEW s, DOMAIN s = {1, 2, 3, 4},
             s[1].mark = Parcoach[1].mark, s[1].outcome = Parcoach[1].outcome,
             s[2].mark = Parcoach[2].mark, s[2].outcome = Parcoach[2].outcome,
             s[3].mark = Parcoach[3].mark, s[3].outcome = Parcoach[3].outcome,
             s[4].mark = Parcoach[4].mark, s[4].outcome = Parcoach[4].outcome
      PROVE  WellOrdered("parcoach", s)
  <2>1. \A i \in DOMAIN s : s[i].outcome = "OK" => i \in {3}
    BY <1>1 DEF Parcoach, On
  <2>2. \A i \in DOMAIN s : s[i].mark \in ErrorMarks => i \in {1}
    BY <1>1 DEF Parcoach, On, ErrorMarks
  <2>3. \A i \in DOMAIN s : NoVerdict("parcoach", s[i])
    BY <1>1 DEF Parcoach, On, NoVerdict
  <2> QED BY <2>1, <2>2, <2>3 DEF WellOrdered, Early
<1>2. DOMAIN Parcoach = {1, 2, 3, 4}
  BY DEF Parcoach
<1> QED BY <1>1, <1>2

LEMMA SimgridInOrder == WellOrdered("simgrid", Simgrid)
<1>1. ASSUME NEW s, DOMAIN s = {1, 2, 3, 4, 5, 6, 7, 8},
             s[1].mark = Simgrid[1].mark, s[1].outcome = Simgrid[1].outcome,
             s[2].mark = Simgrid[2].mark, s[2].outcome = Simgrid[2].outcome,
             s[3].mark = Simgrid[3].mark, s[3].outcome = Simgrid[3].outcome,
             s[4].mark = Simgrid[4].mark, s[4].outcome = Simgrid[4].outcome,
             s[5].mark = Simgrid[5].mark, s[5].outcome = Simgrid[5].outcome,
             s[6].mark = Simgrid[6].mark, s[6].outcome = Simgrid[6].outcome,
             s[7].mark = Simgrid[7].mark, s[7].outcome = Simgrid[7].outcome,
             s[8].mark = Simgrid[8].mark, s[8].outcome = Simgrid[8].outcome
      PROVE  WellOrdered("simgrid", s)
  <2>1. \A i \in DOMAIN s : s[i].outcome = "OK" => i \in {8}
    BY <1>1 DEF Simgrid, On
  <2>2. \A i \in DOMAIN s : s[i].mark \in ErrorMarks => i \in {2, 4, 7}
    BY <1>1 DEF Simgrid, On, ErrorMarks
  <2>3. \A i \in DOMAIN s : NoVerdict("simgrid", s[i])
    BY <1>1 DEF Simgrid, On, NoVerdict
  <2> QED BY <2>1, <2>2, <2>3 DEF WellOrdered, Early
<1>2. DOMAIN Simgrid = {1, 2, 3, 4, 5, 6, 7, 8}
  BY DEF Simgrid
<1> QED BY <1>1, <1>2

LEMMA SmpiInOrder == WellOrdered("smpi", Smpi)
<1>1. ASSUME NEW s, DOMAIN s = {1, 2, 3, 4, 5, 6, 7, 8, 9, 10},
             s[1].mark = Smpi[1].mark, s[1].outcome = Smpi[1].outcome,
             s[2].mark = Smpi[2].mark, s[2].outcome = Smpi[2].outcome,
             s[3].mark = Smpi[3].mark, s[3].outcome = Smpi[3].outcome,
             s[4].mark = Smpi[4].mark, s[4].outcome = Smpi[4].outcome,
             s[5].mark = Smpi[5].mark, s[5].outcome = Smpi[5].outcome,
             s[6].mark = Smpi[6].mark, s[6].outcome = Smpi[6].outcome,
             s[7].mark = Smpi[7].mark, s[7].outcome = Smpi[7].outcome,
             s[8].mark = Smpi[8].mark, s[8].outcome = Smpi[8].outcome,
             s[9].mark = Smpi[9].mark, s[9].outcome = Smpi[9].outcome,
             s[10].mark = Smpi[10].mark, s[10].outcome = Smpi[10].outcome
      PROVE  WellOrdered("smpi", s)
  <2>1. \A i \in DOMAIN s : s[i].outcome = "OK" => i \in {8, 9}
    BY <1>1 DEF Smpi, On
  <2>2. \A i \in DOMAIN s : s[i].mark \in ErrorMarks => i \in {3, 4, 7}
    BY <1>1, ZenonT(60) DEF Smpi, On, ErrorMarks
  <2>3. \A i \in DOMAIN s : NoVerdict("smpi", s[i])
    BY <1>1, ZenonT(60) DEF Smpi, On, NoVerdict
  <2> QED BY <2>1, <2>2, <2>3 DEF WellOrdered, Early
<1>2. DOMAIN Smpi = {1, 2, 3, 4, 5, 6, 7, 8, 9, 10}
  BY DEF Smpi
<1> QED BY <1>1, <1>2

LEMMA SmpivgInOrder == WellOrdered("smpivg", Smpivg)
<1>1. ASSUME NEW s, DOMAIN s = {1, 2, 3, 4, 5, 6, 7, 8, 9, 10, 11},
             s[1].mark = Smpivg[1].mark, s[1].outcome = Smpivg[1].outcome,
             s[2].mark = Smpivg[2].mark, s[2].outcome = Smpivg[2].outcome,
             s[3].mark = Smpivg[3].mark, s[3].outcome = Smpivg[3].outcome,
             s[4].mark = Smpivg[4].mark, s[4].outcome = Smpivg[4].outcome,
             s[5].mark = Smpivg[5].mark, s[5].outcome = Smpivg[5].outcome,
             s[6].mark = Smpivg[6].mark, s[6].outcome = Smpivg[6].outcome,
             s[7].mark = Smpivg[7].mark, s[7].outcome = Smpivg[7].outcome,
             s[8].mark = Smpivg[8].mark, s[8].outcome = Smpivg[8].outcome,
             s[9].mark = Smpivg[9].mark, s[9].outcome = Smpivg[9].outcome,
             s[10].mark = Smpivg[10].mark, s[10].outcome = Smpivg[10].outcome,
             s[11].mark = Smpivg[11].mark, s[11].outcome = Smpivg[11].outcome
      PROVE  WellOrdered("smpivg", s)
  <2>1. \A i \in DOMAIN s : s[i].outcome = "OK" => i \in {9, 10}
    BY <1>1 DEF Smpivg, On
  <2>2. \A i \in DOMAIN s : s[i].mark \in ErrorMarks => i \in {2, 4, 5, 8}
    BY <1>1, ZenonT(60) DEF Smpivg, On, ErrorMarks
  <2>3. \A i \in DOMAIN s : NoVerdict("smpivg", s[i])
    BY <1>1, ZenonT(60) DEF Smpivg, On, NoVerdict
  <2> QED BY <2>1, <2>2, <2>3 DEF WellOrdered, Early
<1>2. DOMAIN Smpivg = {1, 2, 3, 4, 5, 6, 7, 8, 9, 10, 11}
  BY DEF Smpivg
<1> QED BY <1>1, <1>2

LEMMA SearchesInOrder ==
  ASSUME NEW t \in AllTools
  PROVE  WellOrdered(t, Searches(t))
  BY AislinnInOrder, CivlInOrder, HermesInOrder, IspInOrder, ItacInOrder, MpisvInOrder,
     MustInOrder, ParcoachInOrder, SimgridInOrder, SmpiInOrder, SmpivgInOrder
     DEF AllTools, Searches

-----------------------------------------------------------------------------
(***************************************************************************)
(* parse() returns the outcome of the first message that it finds.         *)
(***************************************************************************)
LEMMA SearchFindsFirst ==
  ASSUME tool \in AllTools
  PROVE  LET s == Searches(tool) IN
         \/ /\ \A i \in DOMAIN s : s[i].mark \notin Marks
            /\ Search = NotFound(tool)
         \/ \E i \in DOMAIN s :
              /\ s[i].mark \in Marks
              /\ \A j \in DOMAIN s : s[j].mark \in Marks => i <= j
              /\ Search = s[i].outcome
<1> DEFINE s == Searches(tool)
           found == {i \in DOMAIN s : s[i].mark \in Marks}
<1>1. CASE found = {}
  <2>1. Search = NotFound(tool)
    BY <1>1 DEF Search
  <2> QED BY <1>1, <2>1
<1>2. CASE found # {}
  <2>1. Search = s[Min(found)].outcome
    BY <1>2 DEF Search
  <2>2. found \in SUBSET Nat
    BY SearchesAreNumbered
  <2> HIDE DEF found
  <2>3. Min(found) \in found /\ \A j \in found : Min(found) <= j
    BY <1>2, <2>2, MinOfNaturals
  <2> QED BY <2>1, <2>3 DEF found
<1> QED BY <1>1, <1>2

\* PARCOACH, for which anything else is an error, looks for errors of compilation.
LEMMA ParcoachCompiles ==
  \E i \in DOMAIN Searches("parcoach") : Searches("parcoach")[i].mark = "compile error"
<1>1. 2 \in DOMAIN Parcoach
  BY DEF Parcoach
<1>2. Parcoach[2].mark = "compile error"
  BY DEF Parcoach, On
<1> QED BY <1>1, <1>2 DEF Searches

LEMMA MustMarks ==
  \A i \in DOMAIN Searches("must") :
    Searches("must")[i].mark \in {"error", "leak", "race", "compile error", "doubt", "ok",
                                  "crash", "timeout file"}
<1>1. Searches("must") = Must /\ DOMAIN Must = {1, 2, 3, 4, 5, 6, 7, 8}
  <2>1. Searches("must") = Must
    BY DEF Searches
  <2>2. DOMAIN Must = {1, 2, 3, 4, 5, 6, 7, 8}
    BY DEF Must
  <2> QED BY <2>1, <2>2
<1>2. /\ Must[1].mark = "error" /\ Must[2].mark = "leak" /\ Must[3].mark = "race"
      /\ Must[4].mark = "compile error" /\ Must[5].mark = "doubt" /\ Must[6].mark = "ok"
      /\ Must[7].mark = "crash" /\ Must[8].mark = "timeout file"
  BY DEF Must, On
<1> QED BY <1>1, <1>2

(***************************************************************************)
(* What parse() answers, for the tools on which the exceptions in the      *)
(* properties rest.                                                        *)
(***************************************************************************)
LEMMA AislinnAnswers ==
  ASSUME tool = "aislinn"
  PROVE  Search =
    IF "race" \in Marks THEN "error"
    ELSE IF "ok" \in Marks THEN "OK"
    ELSE IF "error" \in Marks THEN "error"
    ELSE IF Marks \cap {"unsupported", "compile error"} # {} THEN "UNIMPLEMENTED"
    ELSE IF "crash" \in Marks THEN "failure"
    ELSE "other"
<1>1. Searches(tool) = Aislinn /\ tool \in AllTools
  BY DEF Searches, AllTools
<1>2. DOMAIN Aislinn = {1, 2, 3, 4, 5, 6}
  BY DEF Aislinn
<1>3. Aislinn[1].mark = "race" /\ Aislinn[2].mark = "ok" /\
      Aislinn[3].mark = "error" /\ Aislinn[4].mark = "unsupported" /\
      Aislinn[5].mark = "compile error" /\ Aislinn[6].mark = "crash"
  BY DEF Aislinn, On
<1>4. Aislinn[1].outcome = "error" /\ Aislinn[2].outcome = "OK" /\
      Aislinn[3].outcome = "error" /\ Aislinn[4].outcome = "UNIMPLEMENTED" /\
      Aislinn[5].outcome = "UNIMPLEMENTED" /\ Aislinn[6].outcome = "failure"
  BY DEF Aislinn, On
<1>5. CASE \A i \in {1, 2, 3, 4, 5, 6} : Aislinn[i].mark \notin Marks
  <2>1. Search = "other"
    BY <1>1, <1>2, <1>5, SearchFindsFirst DEF NotFound
  <2>2. "race" \notin Marks /\ "ok" \notin Marks /\ "error" \notin Marks /\
        "unsupported" \notin Marks /\ "compile error" \notin Marks /\
        "crash" \notin Marks
    BY <1>3, <1>5
  <2> QED BY <2>1, <2>2
<1>6. CASE \E i \in {1, 2, 3, 4, 5, 6} : Aislinn[i].mark \in Marks
  <2>1. PICK i \in {1, 2, 3, 4, 5, 6} :
          /\ Aislinn[i].mark \in Marks /\ Search = Aislinn[i].outcome
          /\ \A j \in {1, 2, 3, 4, 5, 6} : Aislinn[j].mark \in Marks => i <= j
    BY <1>1, <1>2, <1>6, SearchFindsFirst
  <2>a. \A j \in {1, 2, 3, 4, 5, 6} : i > j => Aislinn[j].mark \notin Marks
    BY <2>1
  <2>2. (i > 1 => "race" \notin Marks) /\ (i > 2 => "ok" \notin Marks) /\
        (i > 3 => "error" \notin Marks) /\ (i > 4 => "unsupported" \notin Marks) /\
        (i > 5 => "compile error" \notin Marks)
    BY <1>3, <2>a
  <2>3. CASE i = 1
    BY <1>3, <1>4, <2>1, <2>3
  <2>4. CASE i = 2
    <3>1. "ok" \in Marks /\ Search = "OK"
      BY <1>3, <1>4, <2>1, <2>4
    <3>2. i > 1
      BY <2>4
    <3>3. "race" \notin Marks
      BY <2>2, <3>2, Zenon
    <3> QED BY <3>1, <3>3
  <2>5. CASE i = 3
    <3>1. "error" \in Marks /\ Search = "error"
      BY <1>3, <1>4, <2>1, <2>5
    <3>2. i > 1 /\ i > 2
      BY <2>5
    <3>3. "race" \notin Marks /\ "ok" \notin Marks
      BY <2>2, <3>2, Zenon
    <3> QED BY <3>1, <3>3
  <2>6. CASE i = 4
    <3>1. "unsupported" \in Marks /\ Search = "UNIMPLEMENTED"
      BY <1>3, <1>4, <2>1, <2>6
    <3>2. i > 1 /\ i > 2 /\ i > 3
      BY <2>6
    <3>3. "race" \notin Marks /\ "ok" \notin Marks /\ "error" \notin Marks
      BY <2>2, <3>2, Zenon
    <3> QED BY <3>1, <3>3
  <2>7. CASE i = 5
    <3>1. "compile error" \in Marks /\ Search = "UNIMPLEMENTED"
      BY <1>3, <1>4, <2>1, <2>7
    <3>2. i > 1 /\ i > 2 /\ i > 3 /\ i > 4
      BY <2>7
    <3>3. "race" \notin Marks /\ "ok" \notin Marks /\ "error" \notin Marks /\
          "unsupported" \notin Marks
      BY <2>2, <3>2, Zenon
    <3> QED BY <3>1, <3>3
  <2>8. CASE i = 6
    <3>1. "crash" \in Marks /\ Search = "failure"
      BY <1>3, <1>4, <2>1, <2>8
    <3>2. i > 1 /\ i > 2 /\ i > 3 /\ i > 4 /\ i > 5
      BY <2>8
    <3>3. "race" \notin Marks /\ "ok" \notin Marks /\ "error" \notin Marks /\
          "unsupported" \notin Marks /\ "compile error" \notin Marks
      BY <2>2, <3>2, Zenon
    <3> QED BY <3>1, <3>3
  <2> QED BY <2>1, <2>3, <2>4, <2>5, <2>6, <2>7, <2>8
<1> QED BY <1>5, <1>6

LEMMA CivlAnswers ==
  ASSUME tool = "civl"
  PROVE  Search =
    IF "compile error" \in Marks THEN "UNIMPLEMENTED"
    ELSE IF Marks \cap {"error", "race", "leak"} # {} THEN "error"
    ELSE IF "ok" \in Marks THEN "OK"
    ELSE IF "crash" \in Marks THEN "failure"
    ELSE IF "doubt" \in Marks THEN "error"
    ELSE IF "unsupported" \in Marks THEN "UNIMPLEMENTED"
    ELSE IF "bug" \in Marks THEN "failure"
    ELSE "other"
<1>1. Searches(tool) = Civl /\ tool \in AllTools
  BY DEF Searches, AllTools
<1>2. DOMAIN Civl = {1, 2, 3, 4, 5, 6, 7, 8, 9}
  BY DEF Civl
<1>3. Civl[1].mark = "compile error" /\ Civl[2].mark = "error" /\
      Civl[3].mark = "race" /\ Civl[4].mark = "leak" /\ Civl[5].mark = "ok" /\
      Civl[6].mark = "crash" /\ Civl[7].mark = "doubt" /\
      Civl[8].mark = "unsupported" /\ Civl[9].mark = "bug"
  BY DEF Civl, On
<1>4. Civl[1].outcome = "UNIMPLEMENTED" /\ Civl[2].outcome = "error" /\
      Civl[3].outcome = "error" /\ Civl[4].outcome = "error" /\
      Civl[5].outcome = "OK" /\ Civl[6].outcome = "failure" /\
      Civl[7].outcome = "error" /\ Civl[8].outcome = "UNIMPLEMENTED" /\
      Civl[9].outcome = "failure"
  BY DEF Civl, On
<1>5. CASE \A i \in {1, 2, 3, 4, 5, 6, 7, 8, 9} : Civl[i].mark \notin Marks
  <2>1. Search = "other"
    BY <1>1, <1>2, <1>5, SearchFindsFirst DEF NotFound
  <2>2. "compile error" \notin Marks /\ "error" \notin Marks /\ "race" \notin Marks /\
        "leak" \notin Marks /\ "ok" \notin Marks /\ "crash" \notin Marks /\
        "doubt" \notin Marks /\ "unsupported" \notin Marks /\ "bug" \notin Marks
    BY <1>3, <1>5
  <2> QED BY <2>1, <2>2
<1>6. CASE \E i \in {1, 2, 3, 4, 5, 6, 7, 8, 9} : Civl[i].mark \in Marks
  <2>1. PICK i \in {1, 2, 3, 4, 5, 6, 7, 8, 9} :
          /\ Civl[i].mark \in Marks /\ Search = Civl[i].outcome
          /\ \A j \in {1, 2, 3, 4, 5, 6, 7, 8, 9} : Civl[j].mark \in Marks => i <= j
    BY <1>1, <1>2, <1>6, SearchFindsFirst
  <2>a. \A j \in {1, 2, 3, 4, 5, 6, 7, 8, 9} : i > j => Civl[j].mark \notin Marks
    BY <2>1
  <2>2. (i > 1 => "compile error" \notin Marks) /\ (i > 2 => "error" \notin Marks) /\
        (i > 3 => "race" \notin Marks) /\ (i > 4 => "leak" \notin Marks) /\
        (i > 5 => "ok" \notin Marks) /\ (i > 6 => "crash" \notin Marks) /\
        (i > 7 => "doubt" \notin Marks) /\ (i > 8 => "unsupported" \notin Marks)
    BY <1>3, <2>a
  <2>3. CASE i = 1
    BY <1>3, <1>4, <2>1, <2>3
  <2>4. CASE i = 2
    <3>1. "error" \in Marks /\ Search = "error"
      BY <1>3, <1>4, <2>1, <2>4
    <3>2. i > 1
      BY <2>4
    <3>3. "compile error" \notin Marks
      BY <2>2, <3>2, Zenon
    <3> QED BY <3>1, <3>3
  <2>5. CASE i = 3
    <3>1. "race" \in Marks /\ Search = "error"
      BY <1>3, <1>4, <2>1, <2>5
    <3>2. i > 1 /\ i > 2
      BY <2>5
    <3>3. "compile error" \notin Marks /\ "error" \notin Marks
      BY <2>2, <3>2, Zenon
    <3> QED BY <3>1, <3>3
  <2>6. CASE i = 4
    <3>1. "leak" \in Marks /\ Search = "error"
      BY <1>3, <1>4, <2>1, <2>6
    <3>2. i > 1 /\ i > 2 /\ i > 3
      BY <2>6
    <3>3. "compile error" \notin Marks /\ "error" \notin Marks /\ "race" \notin Marks
      BY <2>2, <3>2, Zenon
    <3> QED BY <3>1, <3>3
  <2>7. CASE i = 5
    <3>1. "ok" \in Marks /\ Search = "OK"
      BY <1>3, <1>4, <2>1, <2>7
    <3>2. i > 1 /\ i > 2 /\ i > 3 /\ i > 4
      BY <2>7
    <3>3. "compile error" \notin Marks /\ "error" \notin Marks /\
          "race" \notin Marks /\ "leak" \notin Marks
      BY <2>2, <3>2, Zenon
    <3> QED BY <3>1, <3>3
  <2>8. CASE i = 6
    <3>1. "crash" \in Marks /\ Search = "failure"
      BY <1>3, <1>4, <2>1, <2>8
    <3>2. i > 1 /\ i > 2 /\ i > 3 /\ i > 4 /\ i > 5
      BY <2>8
    <3>3. "compile error" \notin Marks /\ "error" \notin Marks /\
          "race" \notin Marks /\ "leak" \notin Marks /\ "ok" \notin Marks
      BY <2>2, <3>2, Zenon
    <3> QED BY <3>1, <3>3
  <2>9. CASE i = 7
    <3>1. "doubt" \in Marks /\ Search = "error"
      BY <1>3, <1>4, <2>1, <2>9
    <3>2. i > 1 /\ i > 2 /\ i > 3 /\ i > 4 /\ i > 5 /\ i > 6
      BY <2>9
    <3>3. "compile error" \notin Marks /\ "error" \notin Marks /\
          "race" \notin Marks /\ "leak" \notin Marks /\ "ok" \notin Marks /\
          "crash" \notin Marks
      BY <2>2, <3>2, Zenon
    <3> QED BY <3>1, <3>3
  <2>10. CASE i = 8
    <3>1. "unsupported" \in Marks /\ Search = "UNIMPLEMENTED"
      BY <1>3, <1>4, <2>1, <2>10
    <3>2. i > 1 /\ i > 2 /\ i > 3 /\ i > 4 /\ i > 5 /\ i > 6 /\ i > 7
      BY <2>10
    <3>3. "compile error" \notin Marks /\ "error" \notin Marks /\
          "race" \notin Marks /\ "leak" \notin Marks /\ "ok" \notin Marks /\
          "crash" \notin Marks /\ "doubt" \notin Marks
      BY <2>2, <3>2, Zenon
    <3> QED BY <3>1, <3>3
  <2>11. CASE i = 9
    <3>1. "bug" \in Marks /\ Search = "failure"
      BY <1>3, <1>4, <2>1, <2>11
    <3>2. i > 1 /\ i > 2 /\ i > 3 /\ i > 4 /\ i > 5 /\ i > 6 /\ i > 7 /\ i > 8
      BY <2>11
    <3>3. "compile error" \notin Marks /\ "error" \notin Marks /\
          "race" \notin Marks /\ "leak" \notin Marks /\ "ok" \notin Marks /\
          "crash" \notin Marks /\ "doubt" \notin Marks /\ "unsupported" \notin Marks
      BY <2>2, <3>2, Zenon
    <3> QED BY <3>1, <3>3
  <2> QED BY <2>1, <2>3, <2>4, <2>5, <2>6, <2>7, <2>8, <2>9, <2>10, <2>11
<1> QED BY <1>5, <1>6

LEMMA MpisvAnswers ==
  ASSUME tool = "mpisv"
  PROVE  Search =
    IF Marks \cap {"compile error", "unsupported"} # {} THEN "UNIMPLEMENTED"
    ELSE IF Marks \cap {"error", "race"} # {} THEN "error"
    ELSE IF "crash" \in Marks THEN "failure"
    ELSE IF "ok" \in Marks THEN "OK"
    ELSE "other"
<1>1. Searches(tool) = Mpisv /\ tool \in AllTools
  BY DEF Searches, AllTools
<1>2. DOMAIN Mpisv = {1, 2, 3, 4, 5, 6}
  BY DEF Mpisv
<1>3. Mpisv[1].mark = "compile error" /\ Mpisv[2].mark = "unsupported" /\
      Mpisv[3].mark = "error" /\ Mpisv[4].mark = "race" /\ Mpisv[5].mark = "crash" /\
      Mpisv[6].mark = "ok"
  BY DEF Mpisv, On
<1>4. Mpisv[1].outcome = "UNIMPLEMENTED" /\ Mpisv[2].outcome = "UNIMPLEMENTED" /\
      Mpisv[3].outcome = "error" /\ Mpisv[4].outcome = "error" /\
      Mpisv[5].outcome = "failure" /\ Mpisv[6].outcome = "OK"
  BY DEF Mpisv, On
<1>5. CASE \A i \in {1, 2, 3, 4, 5, 6} : Mpisv[i].mark \notin Marks
  <2>1. Search = "other"
    BY <1>1, <1>2, <1>5, SearchFindsFirst DEF NotFound
  <2>2. "compile error" \notin Marks /\ "unsupported" \notin Marks /\
        "error" \notin Marks /\ "race" \notin Marks /\ "crash" \notin Marks /\
        "ok" \notin Marks
    BY <1>3, <1>5
  <2> QED BY <2>1, <2>2
<1>6. CASE \E i \in {1, 2, 3, 4, 5, 6} : Mpisv[i].mark \in Marks
  <2>1. PICK i \in {1, 2, 3, 4, 5, 6} :
          /\ Mpisv[i].mark \in Marks /\ Search = Mpisv[i].outcome
          /\ \A j \in {1, 2, 3, 4, 5, 6} : Mpisv[j].mark \in Marks => i <= j
    BY <1>1, <1>2, <1>6, SearchFindsFirst
  <2>a. \A j \in {1, 2, 3, 4, 5, 6} : i > j => Mpisv[j].mark \notin Marks
    BY <2>1
  <2>2. (i > 1 => "compile error" \notin Marks) /\
        (i > 2 => "unsupported" \notin Marks) /\ (i > 3 => "error" \notin Marks) /\
        (i > 4 => "race" \notin Marks) /\ (i > 5 => "crash" \notin Marks)
    BY <1>3, <2>a
  <2>3. CASE i = 1
    BY <1>3, <1>4, <2>1, <2>3
  <2>4. CASE i = 2
    <3>1. "unsupported" \in Marks /\ Search = "UNIMPLEMENTED"
      BY <1>3, <1>4, <2>1, <2>4
    <3>2. i > 1
      BY <2>4
    <3>3. "compile error" \notin Marks
      BY <2>2, <3>2, Zenon
    <3> QED BY <3>1, <3>3
  <2>5. CASE i = 3
    <3>1. "error" \in Marks /\ Search = "error"
      BY <1>3, <1>4, <2>1, <2>5
    <3>2. i > 1 /\ i > 2
      BY <2>5
    <3>3. "compile error" \notin Marks /\ "unsupported" \notin Marks
      BY <2>2, <3>2, Zenon
    <3> QED BY <3>1, <3>3
  <2>6. CASE i = 4
    <3>1. "race" \in Marks /\ Search = "error"
      BY <1>3, <1>4, <2>1, <2>6
    <3>2. i > 1 /\ i > 2 /\ i > 3
      BY <2>6
    <3>3. "compile error" \notin Marks /\ "unsupported" \notin Marks /\
          "error" \notin Marks
      BY <2>2, <3>2, Zenon
    <3> QED BY <3>1, <3>3
  <2>7. CASE i = 5
    <3>1. "crash" \in Marks /\ Search = "failure"
      BY <1>3, <1>4, <2>1, <2>7
    <3>2. i > 1 /\ i > 2 /\ i > 3 /\ i > 4
      BY <2>7
    <3>3. "compile error" \notin Marks /\ "unsupported" \notin Marks /\
          "error" \notin Marks /\ "race" \notin Marks
      BY <2>2, <3>2, Zenon
    <3> QED BY <3>1, <3>3
  <2>8. CASE i = 6
    <3>1. "ok" \in Marks /\ Search = "OK"
      BY <1>3, <1>4, <2>1, <2>8
    <3>2. i > 1 /\ i > 2 /\ i > 3 /\ i > 4 /\ i > 5
      BY <2>8
    <3>3. "compile error" \notin Marks /\ "unsupported" \notin Marks /\
          "error" \notin Marks /\ "race" \notin Marks /\ "crash" \notin Marks
      BY <2>2, <3>2, Zenon
    <3> QED BY <3>1, <3>3
  <2> QED BY <2>1, <2>3, <2>4, <2>5, <2>6, <2>7, <2>8
<1> QED BY <1>5, <1>6

LEMMA MustAnswers ==
  ASSUME tool = "must"
  PROVE  Search =
    IF Marks \cap {"error", "leak", "race"} # {} THEN "error"
    ELSE IF "compile error" \in Marks THEN "UNIMPLEMENTED"
    ELSE IF "doubt" \in Marks THEN "error"
    ELSE IF "ok" \in Marks THEN "OK"
    ELSE IF "crash" \in Marks THEN "failure"
    ELSE IF "timeout file" \in Marks THEN "timeout"
    ELSE "other"
<1>1. Searches(tool) = Must /\ tool \in AllTools
  BY DEF Searches, AllTools
<1>2. DOMAIN Must = {1, 2, 3, 4, 5, 6, 7, 8}
  BY DEF Must
<1>3. Must[1].mark = "error" /\ Must[2].mark = "leak" /\ Must[3].mark = "race" /\
      Must[4].mark = "compile error" /\ Must[5].mark = "doubt" /\
      Must[6].mark = "ok" /\ Must[7].mark = "crash" /\ Must[8].mark = "timeout file"
  BY DEF Must, On
<1>4. Must[1].outcome = "error" /\ Must[2].outcome = "error" /\
      Must[3].outcome = "error" /\ Must[4].outcome = "UNIMPLEMENTED" /\
      Must[5].outcome = "error" /\ Must[6].outcome = "OK" /\
      Must[7].outcome = "failure" /\ Must[8].outcome = "timeout"
  BY DEF Must, On
<1>5. CASE \A i \in {1, 2, 3, 4, 5, 6, 7, 8} : Must[i].mark \notin Marks
  <2>1. Search = "other"
    BY <1>1, <1>2, <1>5, SearchFindsFirst DEF NotFound
  <2>2. "error" \notin Marks /\ "leak" \notin Marks /\ "race" \notin Marks /\
        "compile error" \notin Marks /\ "doubt" \notin Marks /\ "ok" \notin Marks /\
        "crash" \notin Marks /\ "timeout file" \notin Marks
    BY <1>3, <1>5
  <2> QED BY <2>1, <2>2
<1>6. CASE \E i \in {1, 2, 3, 4, 5, 6, 7, 8} : Must[i].mark \in Marks
  <2>1. PICK i \in {1, 2, 3, 4, 5, 6, 7, 8} :
          /\ Must[i].mark \in Marks /\ Search = Must[i].outcome
          /\ \A j \in {1, 2, 3, 4, 5, 6, 7, 8} : Must[j].mark \in Marks => i <= j
    BY <1>1, <1>2, <1>6, SearchFindsFirst
  <2>a. \A j \in {1, 2, 3, 4, 5, 6, 7, 8} : i > j => Must[j].mark \notin Marks
    BY <2>1
  <2>2. (i > 1 => "error" \notin Marks) /\ (i > 2 => "leak" \notin Marks) /\
        (i > 3 => "race" \notin Marks) /\ (i > 4 => "compile error" \notin Marks) /\
        (i > 5 => "doubt" \notin Marks) /\ (i > 6 => "ok" \notin Marks) /\
        (i > 7 => "crash" \notin Marks)
    BY <1>3, <2>a
  <2>3. CASE i = 1
    BY <1>3, <1>4, <2>1, <2>3
  <2>4. CASE i = 2
    <3>1. "leak" \in Marks /\ Search = "error"
      BY <1>3, <1>4, <2>1, <2>4
    <3>2. i > 1
      BY <2>4
    <3>3. "error" \notin Marks
      BY <2>2, <3>2, Zenon
    <3> QED BY <3>1, <3>3
  <2>5. CASE i = 3
    <3>1. "race" \in Marks /\ Search = "error"
      BY <1>3, <1>4, <2>1, <2>5
    <3>2. i > 1 /\ i > 2
      BY <2>5
    <3>3. "error" \notin Marks /\ "leak" \notin Marks
      BY <2>2, <3>2, Zenon
    <3> QED BY <3>1, <3>3
  <2>6. CASE i = 4
    <3>1. "compile error" \in Marks /\ Search = "UNIMPLEMENTED"
      BY <1>3, <1>4, <2>1, <2>6
    <3>2. i > 1 /\ i > 2 /\ i > 3
      BY <2>6
    <3>3. "error" \notin Marks /\ "leak" \notin Marks /\ "race" \notin Marks
      BY <2>2, <3>2, Zenon
    <3> QED BY <3>1, <3>3
  <2>7. CASE i = 5
    <3>1. "doubt" \in Marks /\ Search = "error"
      BY <1>3, <1>4, <2>1, <2>7
    <3>2. i > 1 /\ i > 2 /\ i > 3 /\ i > 4
      BY <2>7
    <3>3. "error" \notin Marks /\ "leak" \notin Marks /\ "race" \notin Marks /\
          "compile error" \notin Marks
      BY <2>2, <3>2, Zenon
    <3> QED BY <3>1, <3>3
  <2>8. CASE i = 6
    <3>1. "ok" \in Marks /\ Search = "OK"
      BY <1>3, <1>4, <2>1, <2>8
    <3>2. i > 1 /\ i > 2 /\ i > 3 /\ i > 4 /\ i > 5
      BY <2>8
    <3>3. "error" \notin Marks /\ "leak" \notin Marks /\ "race" \notin Marks /\
          "compile error" \notin Marks /\ "doubt" \notin Marks
      BY <2>2, <3>2, Zenon
    <3> QED BY <3>1, <3>3
  <2>9. CASE i = 7
    <3>1. "crash" \in Marks /\ Search = "failure"
      BY <1>3, <1>4, <2>1, <2>9
    <3>2. i > 1 /\ i > 2 /\ i > 3 /\ i > 4 /\ i > 5 /\ i > 6
      BY <2>9
    <3>3. "error" \notin Marks /\ "leak" \notin Marks /\ "race" \notin Marks /\
          "compile error" \notin Marks /\ "doubt" \notin Marks /\ "ok" \notin Marks
      BY <2>2, <3>2, Zenon
    <3> QED BY <3>1, <3>3
  <2>10. CASE i = 8
    <3>1. "timeout file" \in Marks /\ Search = "timeout"
      BY <1>3, <1>4, <2>1, <2>10
    <3>2. i > 1 /\ i > 2 /\ i > 3 /\ i > 4 /\ i > 5 /\ i > 6 /\ i > 7
      BY <2>10
    <3>3. "error" \notin Marks /\ "leak" \notin Marks /\ "race" \notin Marks /\
          "compile error" \notin Marks /\ "doubt" \notin Marks /\ "ok" \notin Marks /\
          "crash" \notin Marks
      BY <2>2, <3>2, Zenon
    <3> QED BY <3>1, <3>3
  <2> QED BY <2>1, <2>3, <2>4, <2>5, <2>6, <2>7, <2>8, <2>9, <2>10
<1> QED BY <1>5, <1>6

LEMMA ParcoachAnswers ==
  ASSUME tool = "parcoach"
  PROVE  Search =
    IF "race" \in Marks THEN "error"
    ELSE IF "compile error" \in Marks THEN "UNIMPLEMENTED"
    ELSE IF "ok" \in Marks THEN "OK"
    ELSE IF "unsupported" \in Marks THEN "UNIMPLEMENTED"
    ELSE "error"
<1>1. Searches(tool) = Parcoach /\ tool \in AllTools
  BY DEF Searches, AllTools
<1>2. DOMAIN Parcoach = {1, 2, 3, 4}
  BY DEF Parcoach
<1>3. Parcoach[1].mark = "race" /\ Parcoach[2].mark = "compile error" /\
      Parcoach[3].mark = "ok" /\ Parcoach[4].mark = "unsupported"
  BY DEF Parcoach, On
<1>4. Parcoach[1].outcome = "error" /\ Parcoach[2].outcome = "UNIMPLEMENTED" /\
      Parcoach[3].outcome = "OK" /\ Parcoach[4].outcome = "UNIMPLEMENTED"
  BY DEF Parcoach, On
<1>5. CASE \A i \in {1, 2, 3, 4} : Parcoach[i].mark \notin Marks
  <2>1. Search = "error"
    BY <1>1, <1>2, <1>5, SearchFindsFirst DEF NotFound
  <2>2. "race" \notin Marks /\ "compile error" \notin Marks /\ "ok" \notin Marks /\
        "unsupported" \notin Marks
    BY <1>3, <1>5
  <2> QED BY <2>1, <2>2
<1>6. CASE \E i \in {1, 2, 3, 4} : Parcoach[i].mark \in Marks
  <2>1. PICK i \in {1, 2, 3, 4} :
          /\ Parcoach[i].mark \in Marks /\ Search = Parcoach[i].outcome
          /\ \A j \in {1, 2, 3, 4} : Parcoach[j].mark \in Marks => i <= j
    BY <1>1, <1>2, <1>6, SearchFindsFirst
  <2>a. \A j \in {1, 2, 3, 4} : i > j => Parcoach[j].mark \notin Marks
    BY <2>1
  <2>2. (i > 1 => "race" \notin Marks) /\ (i > 2 => "compile error" \notin Marks) /\
        (i > 3 => "ok" \notin Marks)
    BY <1>3, <2>a
  <2>3. CASE i = 1
    BY <1>3, <1>4, <2>1, <2>3
  <2>4. CASE i = 2
    <3>1. "compile error" \in Marks /\ Search = "UNIMPLEMENTED"
      BY <1>3, <1>4, <2>1, <2>4
    <3>2. i > 1
      BY <2>4
    <3>3. "race" \notin Marks
      BY <2>2, <3>2, Zenon
    <3> QED BY <3>1, <3>3
  <2>5. CASE i = 3
    <3>1. "ok" \in Marks /\ Search = "OK"
      BY <1>3, <1>4, <2>1, <2>5
    <3>2. i > 1 /\ i > 2
      BY <2>5
    <3>3. "race" \notin Marks /\ "compile error" \notin Marks
      BY <2>2, <3>2, Zenon
    <3> QED BY <3>1, <3>3
  <2>6. CASE i = 4
    <3>1. "unsupported" \in Marks /\ Search = "UNIMPLEMENTED"
      BY <1>3, <1>4, <2>1, <2>6
    <3>2. i > 1 /\ i > 2 /\ i > 3
      BY <2>6
    <3>3. "race" \notin Marks /\ "compile error" \notin Marks /\ "ok" \notin Marks
      BY <2>2, <3>2, Zenon
    <3> QED BY <3>1, <3>3
  <2> QED BY <2>1, <2>3, <2>4, <2>5, <2>6
<1> QED BY <1>5, <1>6

-----------------------------------------------------------------------------
(***************************************************************************)
(* The caches stay as run_cmd() left them, and the answer is the one for   *)
(* them.                                                                   *)
(***************************************************************************)
Input ==
  /\ tool \in AllTools
  /\ ended \in Endings
  /\ said \subseteq ToolMarks \cap {Searches(tool)[i].mark : i \in DOMAIN Searches(tool)}
  /\ warnings # 0 => tool = "parcoach"
  /\ left \subseteq ReportMarks(tool)
  /\ PossibleLog

Answer ==
  \/ outcome = "none" /\ category = "none"
  \/ /\ outcome = parse
     /\ category = IF ~ hasElapsed /\ parse # "failure" THEN "raised" ELSE Category(parse)

AnswerInv == Input /\ Answer

LEMMA InputStays ==
  ASSUME UNCHANGED inputs
  PROVE  /\ Input' = Input
         /\ parse' = parse
         /\ Category(parse)' = Category(parse)
         /\ hasElapsed' = hasElapsed
<1> USE DEF inputs
<1>1. Marks' = Marks
  BY DEF Marks, RunMarks
<1>2. Search' = Search
  BY <1>1 DEF Search
<1>3. parse' = parse
  BY <1>2 DEF parse
<1>4. Input' = Input
  BY DEF Input, PossibleLog, Executed
<1>5. Category(parse)' = Category(parse)
  BY <1>3 DEF Category
<1> QED BY <1>3, <1>4, <1>5

LEMMA AnswerAlways == Spec => []AnswerInv
<1>1. Init => AnswerInv
  <2> SUFFICES ASSUME Init PROVE AnswerInv
    OBVIOUS
  <2>1. tool \in AllTools /\ ended \in Endings /\ PossibleLog /\ left \subseteq ReportMarks(tool)
    BY OutcomesAssumption DEF Init
  <2>2. said \subseteq ToolMarks \cap {Searches(tool)[i].mark : i \in DOMAIN Searches(tool)}
    BY DEF Init
  <2>3. warnings # 0 => tool = "parcoach"
    BY DEF Init
  <2> QED BY <2>1, <2>2, <2>3 DEF Init, AnswerInv, Input, Answer
<1>2. AnswerInv /\ [Next]_vars => AnswerInv'
  <2> SUFFICES ASSUME AnswerInv, [Next]_vars PROVE AnswerInv'
    OBVIOUS
  <2>1. UNCHANGED inputs
    BY DEF Next, categorize, vars
  <2>2. Input'
    BY <2>1, InputStays DEF AnswerInv
  <2>3. CASE categorize
    <3>1. Answer'
      BY <2>1, <2>3, InputStays DEF categorize, Answer
    <3> QED BY <2>2, <3>1 DEF AnswerInv
  <2>4. CASE UNCHANGED vars
    <3>1. Answer'
      BY <2>1, <2>4, InputStays DEF vars, AnswerInv, Answer
    <3> QED BY <2>2, <3>1 DEF AnswerInv
  <2> QED BY <2>3, <2>4 DEF Next
<1> QED BY <1>1, <1>2, PTL DEF Spec

\* Only MUST and MPI-SV have reports that an earlier run can have left.
LEMMA LeftInReports ==
  ASSUME AnswerInv, left # {}
  PROVE  /\ report = "old"
         /\ \/ tool = "must" /\ left \subseteq {"error", "leak", "doubt", "ok"}
            \/ tool = "mpisv" /\ left = {"ok"}
<1>1. report = "old" /\ NeedsReport(tool) /\ left \subseteq ReportMarks(tool)
  BY DEF AnswerInv, Input, PossibleLog
<1>2. tool = "must" \/ tool = "mpisv"
  BY <1>1 DEF NeedsReport
<1>3. CASE tool = "must"
  <2>1. ReportMarks(tool) = {"error", "leak", "doubt", "ok"}
    BY <1>3 DEF ReportMarks
  <2> QED BY <1>1, <1>3, <2>1
<1>4. CASE tool = "mpisv"
  BY <1>1, <1>4 DEF ReportMarks
<1> QED BY <1>2, <1>3, <1>4

-----------------------------------------------------------------------------
(***************************************************************************)
(* A test that did not compile or was not run counts neither for nor       *)
(* against any tool, unless MUST finds an error in an earlier report, and  *)
(* categorize() does not raise for it.                                     *)
(***************************************************************************)
THEOREM NotRunIsUnjudged == Spec => []NotRunUnjudged
<1>1. AnswerInv => NotRunUnjudged
  <2> SUFFICES ASSUME AnswerInv, ~ Executed, outcome # "none"
               PROVE  /\ category # "raised"
                      /\ category \in Judged <=>
                           /\ tool = "must"
                           /\ ended = "compile error"
                           /\ left \cap {"error", "leak"} # {}
    BY DEF NotRunUnjudged
  <2> DEFINE s == Searches(tool)
  <2>1. /\ tool \in AllTools /\ PossibleLog
        /\ category = IF ~ hasElapsed /\ parse # "failure" THEN "raised" ELSE Category(parse)
    BY DEF AnswerInv, Answer, Input
  <2>2. said = {} /\ ~ late /\ ~ prompt
    BY <2>1 DEF PossibleLog
  <2>3. CASE parse = "failure"
    <3>1. category = "failure"
      BY <2>1, <2>3 DEF Category
    <3>2. ~ (ended = "compile error" /\ left # {})
      <4> SUFFICES ASSUME ended = "compile error", left # {} PROVE FALSE
        OBVIOUS
      <4>1. report = "old"
        BY LeftInReports
      <4>2. Search = "failure"
        BY <2>3, <4>1 DEF parse
      <4>3. Marks \subseteq left \cup {"compile error", "timeout file"} /\ "compile error" \in Marks
        BY <2>2 DEF Marks, RunMarks
      <4>4. CASE tool = "must" /\ left \subseteq {"error", "leak", "doubt", "ok"}
        BY <4>2, <4>3, <4>4, MustAnswers
      <4>5. CASE tool = "mpisv" /\ left = {"ok"}
        BY <4>2, <4>3, <4>5, MpisvAnswers
      <4> QED BY <4>4, <4>5, LeftInReports
    <3> QED BY <3>1, <3>2 DEF Judged
  <2>4. CASE parse # "failure"
    <3>1. ended = "compile error" /\ hasElapsed /\ parse = Search
      BY <2>1, <2>4 DEF parse, Executed, PossibleLog
    <3>2. category = Category(Search) /\ category # "raised"
      BY <2>1, <3>1 DEF Category
    <3>3. Marks \subseteq left \cup {"compile error", "timeout file"} /\ "compile error" \in Marks
          /\ left \subseteq Marks
      BY <2>2, <3>1 DEF Marks, RunMarks
    <3>4. CASE left = {}
      <4>1. Search \in {"UNIMPLEMENTED", "timeout", "other"}
        <5>1. CASE Search = NotFound(tool) /\ \A i \in DOMAIN s : s[i].mark \notin Marks
          <6>1. tool # "parcoach"
            BY <3>3, <5>1, ParcoachCompiles
          <6> QED BY <5>1, <6>1 DEF NotFound
        <5>2. CASE \E i \in DOMAIN s : s[i].mark \in Marks /\ Search = s[i].outcome
          BY <2>1, <3>3, <3>4, <5>2, SearchesInOrder DEF WellOrdered, NoVerdict
        <5> QED BY <2>1, <5>1, <5>2, SearchFindsFirst
      <4> QED BY <3>2, <3>4, <4>1 DEF Category, Judged
    <3>5. CASE tool = "mpisv" /\ left = {"ok"}
      <4>1. Search = "UNIMPLEMENTED"
        BY <3>3, <3>5, MpisvAnswers
      <4> QED BY <3>2, <3>5, <4>1 DEF Category, Judged
    <3>6. CASE tool = "must" /\ left \subseteq {"error", "leak", "doubt", "ok"}
      <4>1. CASE left \cap {"error", "leak"} = {}
        <5>1. Search = "UNIMPLEMENTED"
          BY <3>3, <3>6, <4>1, MustAnswers
        <5> QED BY <3>2, <4>1, <5>1 DEF Category, Judged
      <4>2. CASE left \cap {"error", "leak"} # {}
        <5>1. Search = "error"
          BY <3>3, <3>6, <4>2, MustAnswers
        <5> QED BY <3>1, <3>2, <3>6, <4>2, <5>1 DEF Category, Judged
      <4> QED BY <4>1, <4>2
    <3> QED BY <3>4, <3>5, <3>6, LeftInReports
  <2> QED BY <2>3, <2>4
<1> QED BY <1>1, AnswerAlways, PTL

-----------------------------------------------------------------------------
(***************************************************************************)
(* A tool that accepts a test in whose run an error was found is one of    *)
(* the three of Overruled.                                                 *)
(***************************************************************************)
LEMMA AcceptedIsOverruled ==
  ASSUME AnswerInv, Reported, outcome = "OK"
  PROVE  Overruled
<1> DEFINE s == Searches(tool)
<1>1. tool \in AllTools /\ PossibleLog /\ parse = "OK"
  BY DEF AnswerInv, Answer, Input
<1>2. Search = "OK"
  BY <1>1 DEF parse
<1>3. PICK i \in DOMAIN s : /\ s[i].mark \in Marks
                            /\ \A k \in DOMAIN s : s[k].mark \in Marks => i <= k
                            /\ s[i].outcome = "OK"
  BY <1>1, <1>2, SearchFindsFirst DEF NotFound
<1>4. ASSUME NEW m \in said, m \in ErrorMarks
      PROVE  s[i].mark = "ok" /\ m \in Early(tool)
  <2>1. PICK j \in DOMAIN s : s[j].mark = m
    BY <1>4 DEF AnswerInv, Input
  <2>2. m \in Marks
    BY <1>4 DEF Marks
  <2>3. i \in Nat /\ j \in Nat /\ i <= j
    BY <1>1, <1>3, <2>1, <2>2, SearchesAreNumbered
  <2> QED BY <1>1, <1>3, <1>4, <2>1, <2>3, SearchesInOrder DEF WellOrdered
<1>5. CASE warnings # 0
  <2>1. tool = "parcoach" /\ ended = "return code 0"
    BY <1>5, <1>1 DEF AnswerInv, Input, PossibleLog
  <2>2. "race" \notin said
    BY <1>4, <2>1 DEF ErrorMarks, Early
  <2>3. left = {}
    BY <2>1, LeftInReports
  <2>4. "ok" \in Marks
    BY <1>2, <2>1, ParcoachAnswers
  <2>5. "ok" \in said
    BY <2>1, <2>3, <2>4 DEF Marks, RunMarks
  <2> QED BY <1>1, <1>5, <2>1, <2>2, <2>5 DEF PossibleLog, Overruled
<1>6. CASE warnings = 0
  <2>1. PICK m \in said : m \in ErrorMarks
    BY <1>6 DEF Reported, ErrorMarks
  <2>2. s[i].mark = "ok" /\ m \in Early(tool)
    BY <1>4, <2>1
  <2>3. (tool = "aislinn" /\ m = "error") \/ (tool = "civl" /\ m = "doubt")
    <3>1. CASE tool = "aislinn"
      <4>1. Early(tool) = {"error"}
        BY <3>1 DEF Early
      <4> QED BY <2>2, <3>1, <4>1
    <3>2. CASE tool = "civl"
      BY <2>2, <3>2 DEF Early
    <3>3. CASE tool \notin {"aislinn", "civl"}
      BY <2>2, <3>3 DEF Early
    <3> QED BY <3>1, <3>2, <3>3
  <2>4. left = {}
    BY <2>3, LeftInReports
  <2>5. "ok" \in said
    BY <1>3, <2>2, <2>4 DEF Marks, RunMarks
  <2>6. \A n \in said : n \in ErrorMarks => n = m
    BY <1>4, <2>3 DEF Early
  <2> QED BY <2>1, <2>3, <2>5, <2>6 DEF ErrorMarks, Overruled
<1> QED BY <1>5, <1>6

\* And these three do accept it.
LEMMA OverruledIsAccepted ==
  ASSUME AnswerInv, Overruled, outcome # "none"
  PROVE  outcome = "OK"
<1> DEFINE s == Searches(tool)
<1>1. tool \in {"aislinn", "civl", "parcoach"} /\ PossibleLog /\ outcome = parse
  BY DEF AnswerInv, Answer, Input, Overruled
<1>2. Executed
  BY <1>1 DEF Overruled, PossibleLog, Executed
<1>3. parse = Search
  BY <1>1, <1>2 DEF parse, NeedsReport, Executed
<1>4. left = {}
  BY <1>1, LeftInReports
<1>5. /\ said \subseteq Marks /\ "compile error" \notin Marks
      /\ \A m \in {"race", "error", "leak"} : m \in Marks => m \in said
  <2>1. said \subseteq ToolMarks
    BY DEF AnswerInv, Input
  <2> QED BY <1>2, <1>4, <2>1 DEF Marks, RunMarks, Executed, ToolMarks
<1>6. CASE tool = "aislinn"
  <2>1. "ok" \in said /\ "race" \notin said
    BY <1>6 DEF Overruled
  <2> QED BY <1>1, <1>3, <1>5, <1>6, <2>1, AislinnAnswers
<1>7. CASE tool = "civl"
  <2>1. "ok" \in said /\ said \cap {"race", "error", "leak"} = {}
    BY <1>7 DEF Overruled
  <2> QED BY <1>1, <1>3, <1>5, <1>7, <2>1, CivlAnswers
<1>8. CASE tool = "parcoach"
  <2>1. warnings # 0 /\ ZeroFound(warnings) /\ "race" \notin said
    BY <1>8 DEF Overruled
  <2>2. "ok" \in said
    BY <1>1, <1>8, <2>1 DEF PossibleLog
  <2> QED BY <1>1, <1>3, <1>5, <1>8, <2>1, <2>2, ParcoachAnswers
<1> QED BY <1>1, <1>6, <1>7, <1>8

(***************************************************************************)
(* Whatever else is printed, whatever the return code and the reports left *)
(* behind, a test in whose run an error was found is accepted in the three *)
(* cases of Overruled and in no other.                                     *)
(***************************************************************************)
THEOREM AcceptedErrorsAreOverruled == Spec => []NoErrorAccepted
<1>1. AnswerInv => NoErrorAccepted
  BY AcceptedIsOverruled, OverruledIsAccepted DEF NoErrorAccepted
<1> QED BY <1>1, AnswerAlways, PTL

-----------------------------------------------------------------------------
(***************************************************************************)
(* A run that the timeout stopped before the tool said anything counts     *)
(* neither for nor against the tool, except with PARCOACH and with what an *)
(* earlier report says.                                                    *)
(***************************************************************************)
THEOREM SilentTimeoutIsUnjudged == Spec => []SilentTimeoutUnjudged
<1>1. AnswerInv => SilentTimeoutUnjudged
  <2> SUFFICES ASSUME AnswerInv, late, ended \in {"killed 15", "killed 9"}, said = {},
                      outcome # "none"
               PROVE  category \in Judged <=> tool = "parcoach" \/ left # {}
    BY DEF SilentTimeoutUnjudged
  <2> DEFINE s == Searches(tool)
  <2>1. tool \in AllTools /\ category = Category(parse)
    BY DEF AnswerInv, Answer, Input, PossibleLog
  <2>2. /\ Marks \subseteq left \cup {"killed 15 at 300", "timeout file"}
        /\ left \subseteq Marks
    BY DEF Marks, RunMarks
  <2>3. CASE left = {} /\ tool # "parcoach"
    <3>1. Search \in {"other", "timeout"}
      <4>1. CASE Search = NotFound(tool)
        BY <2>3, <4>1 DEF NotFound
      <4>2. CASE \E i \in DOMAIN s : s[i].mark \in Marks /\ Search = s[i].outcome
        BY <2>1, <2>2, <2>3, <4>2, SearchesInOrder DEF WellOrdered, NoVerdict
      <4> QED BY <2>1, <4>1, <4>2, SearchFindsFirst
    <3>2. parse \in {"failure", "other", "timeout"}
      BY <3>1 DEF parse
    <3> QED BY <2>1, <2>3, <3>2 DEF Category, Judged
  <2>4. CASE tool = "parcoach"
    <3>1. left = {}
      BY <2>4, LeftInReports
    <3>3. Search = "error"
      BY <2>2, <2>4, <3>1, ParcoachAnswers
    <3>4. parse = "error"
      BY <2>4, <3>3 DEF parse, NeedsReport
    <3> QED BY <2>1, <2>4, <3>4 DEF Category, Judged
  <2>5. CASE left # {}
    <3>1. parse = Search
      BY <2>5, LeftInReports DEF parse
    <3>2. Search \in {"error", "OK"}
      <4>1. CASE tool = "mpisv" /\ left = {"ok"}
        BY <2>2, <4>1, MpisvAnswers
      <4>2. CASE tool = "must" /\ left \subseteq {"error", "leak", "doubt", "ok"}
        BY <2>2, <2>5, <4>2, MustAnswers
      <4> QED BY <2>5, <4>1, <4>2, LeftInReports
    <3> QED BY <2>1, <2>5, <3>1, <3>2 DEF Category, Judged
  <2> QED BY <2>3, <2>4, <2>5
<1> QED BY <1>1, AnswerAlways, PTL

-----------------------------------------------------------------------------
(***************************************************************************)
(* The .timeout file of an earlier run decides only for MUST, and only     *)
(* when neither this run nor the report says anything.                     *)
(***************************************************************************)
THEOREM StaleTimeoutsAreRare == Spec => []TimeoutsAreLate
<1>1. AnswerInv => TimeoutsAreLate
  <2> SUFFICES ASSUME AnswerInv, ~ late, outcome # "none"
               PROVE  outcome = "timeout" <=>
                        /\ tool = "must" /\ timeoutFile /\ Executed
                        /\ report # "none" /\ said \cup left = {}
    BY DEF TimeoutsAreLate
  <2> DEFINE s == Searches(tool)
  <2>1. /\ tool \in AllTools /\ PossibleLog /\ ended \in Endings /\ outcome = parse
        /\ said \subseteq ToolMarks \cap {s[i].mark : i \in DOMAIN s}
    BY DEF AnswerInv, Answer, Input
  <2>2. ~ prompt
    BY <2>1 DEF PossibleLog
  <2>3. Marks = said \cup left \cup (IF ended \in RunMarks THEN {ended} ELSE {})
                     \cup (IF timeoutFile THEN {"timeout file"} ELSE {})
    BY <2>2 DEF Marks
  <2>4. left \subseteq {"error", "leak", "doubt", "ok"}
    BY LeftInReports
  <2>5. ASSUME outcome = "timeout"
        PROVE  /\ tool = "must" /\ timeoutFile /\ Executed
               /\ report # "none" /\ said \cup left = {}
    <3>1. Search = "timeout" /\ ended # "not run"
      BY <2>1, <2>5 DEF parse
    <3>2. PICK i \in DOMAIN s : /\ s[i].mark \in Marks
                                /\ \A j \in DOMAIN s : s[j].mark \in Marks => i <= j
                                /\ s[i].outcome = "timeout"
      BY <2>1, <3>1, SearchFindsFirst DEF NotFound
    <3>3. NoVerdict(tool, s[i])
      BY <2>1, SearchesInOrder DEF WellOrdered
    <3>4. s[i].mark = "timeout file"
      BY <2>1, <2>3, <2>4, <3>2, <3>3 DEF NoVerdict, ToolMarks, Endings
    <3>5. tool = "must" /\ timeoutFile
      BY <2>1, <2>3, <2>4, <3>2, <3>3, <3>4 DEF NoVerdict, ToolMarks, Endings
    <3>6. Marks \cap {"error", "leak", "race", "compile error", "doubt", "ok", "crash"} = {}
      BY <3>1, <3>5, MustAnswers
    <3>7. said \subseteq {"error", "leak", "race", "doubt", "ok", "crash"}
      BY <2>1, <3>5, MustMarks DEF ToolMarks
    <3>8. said \cup left = {}
      BY <2>3, <2>4, <3>6, <3>7
    <3>9. ended # "compile error"
      BY <2>3, <3>6 DEF RunMarks
    <3>10. report # "none"
      BY <2>1, <2>5, <3>5 DEF parse, NeedsReport
    <3> QED BY <3>1, <3>5, <3>8, <3>9, <3>10 DEF Executed
  <2>6. ASSUME tool = "must", timeoutFile, Executed, report # "none", said \cup left = {}
        PROVE  outcome = "timeout"
    <3>1. parse = Search
      BY <2>6 DEF parse, Executed
    <3>2. "timeout file" \in Marks
      BY <2>3, <2>6
    <3>3. Marks \subseteq {"timeout file", "return code 0"}
      <4>1. ended # "compile error" /\ ended # "killed 15 at 300" /\ ended # "timeout file"
        BY <2>1, <2>6 DEF Executed, Endings
      <4> QED BY <2>3, <2>6, <4>1 DEF RunMarks
    <3>4. Search = "timeout"
      BY <2>6, <3>2, <3>3, MustAnswers
    <3> QED BY <2>1, <3>1, <3>4
  <2> QED BY <2>5, <2>6
<1> QED BY <1>1, AnswerAlways, PTL
=============================================================================
