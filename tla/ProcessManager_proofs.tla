------------------------ MODULE ProcessManager_proofs ------------------------
(***************************************************************************)
(* Theorems about ProcessManager, for any number of projects, threads,     *)
(* groups, settings and faults.                                            *)
(***************************************************************************)
EXTENDS ProcessManager, SequenceTheorems, WellFoundedInduction, TLAPS

-----------------------------------------------------------------------------
(* Sequences: the first index that passes a test, the removal of an element *)

Before == {ss \in Nat \X Nat : ss[1] < ss[2]}

(* The least-number principle, from the library's WFMin.                   *)
LEMMA Least ==
    ASSUME NEW I \in SUBSET Nat, I # {}
    PROVE  \E i \in I : \A j \in I : i <= j
<1>1. Before = OpToRel(<, Nat)
  BY Zenon DEF OpToRel, Before
<1>2. IsWellFoundedOn(Before, Nat)
  BY <1>1, NatLessThanWellFounded, Zenon
<1>3. \E x \in I : \A y \in I : ~ (<<y, x>> \in Before)
  BY <1>2, WFMin, Zenon
<1>4. PICK x \in I : \A y \in I : ~ (<<y, x>> \in Before)
  BY <1>3, Zenon
<1>5. \A y \in I : ~ (y < x)
  BY <1>4 DEF Before
<1> QED BY <1>5

(* List.Find returns an element of the list that passes the test, or null  *)
(* when no element does.                                                   *)
LEMMA GroupForFinds ==
    ASSUME NEW p, groups \in Seq(Group), Null \notin Group
    PROVE  \/ GroupFor(p) = Null /\ \A g \in Registered : info[g].p # p
           \/ GroupFor(p) \in Registered /\ info[GroupFor(p)].p = p
<1> DEFINE I == {i \in 1..Len(groups) : info[groups[i]].p = p}
<1>1. I \in SUBSET Nat /\ DOMAIN groups = 1..Len(groups)
  OBVIOUS
<1>2. I # {} => Min(I) \in I
  BY <1>1, Least DEF Min
<1>3. GroupFor(p) = IF I = {} THEN Null ELSE groups[Min(I)]
  <2>1. CASE I = {}
    BY <2>1 DEF GroupFor, SelectInSeq
  <2>2. CASE I # {}
    <3>1. Min(I) # 0
      BY <1>2, <2>2
    <3> QED BY <2>2, <3>1 DEF GroupFor, SelectInSeq
  <2> QED BY <2>1, <2>2
<1>4. CASE I = {}
  BY <1>1, <1>3, <1>4 DEF Registered, Range
<1>5. CASE I # {}
  BY <1>1, <1>2, <1>3, <1>5 DEF Registered, Range
<1> QED BY <1>4, <1>5

(* A sequence without repetitions.                                         *)
Distinct(s) == \A i, j \in DOMAIN s : s[i] = s[j] => i = j

(* List.Remove takes one element out, and only that one.                   *)
LEMMA RemoveFirstProperties ==
    ASSUME NEW S, NEW s \in Seq(S), NEW e
    PROVE  /\ RemoveFirst(s, e) \in Seq(S)
           /\ Distinct(s) => /\ Distinct(RemoveFirst(s, e))
                             /\ Range(RemoveFirst(s, e)) = Range(s) \ {e}
<1>1. CASE ~ \E i \in 1..Len(s) : s[i] = e
  BY <1>1 DEF RemoveFirst, Range
<1>2. CASE \E i \in 1..Len(s) : s[i] = e
  <2> DEFINE I == {i \in 1..Len(s) : s[i] = e}
             k == Min(I)
             r == RemoveAt(s, k)
  <2>1. I \in SUBSET Nat /\ I # {}
    BY <1>2
  <2>2. k \in I
    BY <2>1, Least DEF Min
  <2>3. RemoveFirst(s, e) = r
    BY <1>2, <2>1 DEF RemoveFirst, SelectInSeq
  <2>4. k \in 1..Len(s) /\ s[k] = e
    BY <2>2
  <2> HIDE DEF k, I
  <2> DEFINE a == SubSeq(s, 1, k - 1)
             b == SubSeq(s, k + 1, Len(s))
  <2>5. /\ a \in Seq(S) /\ Len(a) = k - 1
        /\ \A i \in 1..(k - 1) : a[i] = s[i]
    BY <2>4
  <2>6. /\ b \in Seq(S) /\ Len(b) = Len(s) - k
        /\ \A i \in 1..(Len(s) - k) : b[i] = s[i + k]
    BY <2>4
  <2>7. /\ r \in Seq(S) /\ Len(r) = Len(s) - 1
        /\ \A i \in 1..(Len(s) - 1) : r[i] = IF i < k THEN s[i] ELSE s[i + 1]
    <3> HIDE DEF a, b
    <3>1. r = a \o b
      BY DEF r, RemoveAt, a, b
    <3> HIDE DEF r
    <3>2. /\ r \in Seq(S) /\ Len(r) = Len(a) + Len(b)
          /\ \A i \in 1..(Len(a) + Len(b)) :
                r[i] = IF i <= Len(a) THEN a[i] ELSE b[i - Len(a)]
      BY <2>5, <2>6, <3>1, ConcatProperties
    <3>3. ASSUME NEW i \in 1..(Len(s) - 1)
          PROVE  r[i] = IF i < k THEN s[i] ELSE s[i + 1]
      <4>1. CASE i < k
        BY <2>4, <2>5, <2>6, <3>2, <4>1
      <4>2. CASE i >= k
        <5>1. i - Len(a) \in 1..(Len(s) - k) /\ r[i] = b[i - Len(a)]
          BY <2>4, <2>5, <2>6, <3>2, <4>2
        <5> QED BY <2>4, <2>5, <2>6, <4>2, <5>1
      <4> QED BY <2>4, <4>1, <4>2
    <3> QED BY <2>4, <2>5, <2>6, <3>2, <3>3
  <2> HIDE DEF r
  <2>8. Distinct(s) => Distinct(r)
    <3>1. DOMAIN r = 1..(Len(s) - 1) /\ DOMAIN s = 1..Len(s)
      BY <2>7
    <3> SUFFICES ASSUME Distinct(s), NEW i \in 1..(Len(s) - 1), NEW j \in 1..(Len(s) - 1),
                        r[i] = r[j]
                 PROVE  i = j
      BY <3>1 DEF Distinct
    <3> DEFINE at(n) == IF n < k THEN n ELSE n + 1
    <3>2. r[i] = s[at(i)] /\ r[j] = s[at(j)]
      BY <2>4, <2>7
    <3>3. at(i) \in 1..Len(s) /\ at(j) \in 1..Len(s)
      BY <2>4
    <3>4. at(i) = at(j)
      BY <3>1, <3>2, <3>3 DEF Distinct
    <3> QED BY <2>4, <3>4
  <2>9. Distinct(s) => Range(r) \subseteq Range(s) \ {e}
    <3> SUFFICES ASSUME Distinct(s), NEW i \in 1..(Len(s) - 1)
                 PROVE  r[i] \in Range(s) \ {e}
      BY <2>7 DEF Range
    <3> DEFINE n == IF i < k THEN i ELSE i + 1
    <3>1. n \in 1..Len(s) /\ n # k /\ r[i] = s[n]
      BY <2>4, <2>7
    <3> QED BY <2>4, <3>1 DEF Distinct, Range
  <2>10. ASSUME NEW j \in 1..Len(s), s[j] # e  PROVE s[j] \in Range(r)
    <3>1. CASE j < k
      BY <2>4, <2>7, <2>10, <3>1 DEF Range
    <3>2. CASE j > k
      <4>1. j - 1 \in 1..(Len(s) - 1) /\ r[j - 1] = s[j]
        BY <2>4, <2>7, <3>2
      <4> QED BY <2>7, <4>1 DEF Range
    <3> QED BY <2>4, <2>10, <3>1, <3>2
  <2>11. Range(s) \ {e} \subseteq Range(r)
    BY <2>10 DEF Range
  <2> QED BY <2>3, <2>7, <2>8, <2>9, <2>11
<1> QED BY <1>1, <1>2

(* List.Add of a group that is not in the list.                            *)
LEMMA AppendNew ==
    ASSUME NEW S, NEW s \in Seq(S), NEW e \in S, Distinct(s), e \notin Range(s)
    PROVE  /\ Append(s, e) \in Seq(S)
           /\ Distinct(Append(s, e))
           /\ Range(Append(s, e)) = Range(s) \cup {e}
<1> DEFINE r == Append(s, e)
<1>1. /\ r \in Seq(S) /\ Len(r) = Len(s) + 1 /\ r[Len(s) + 1] = e
      /\ \A i \in 1..Len(s) : r[i] = s[i]
  OBVIOUS
<1>2. Distinct(r)
  BY <1>1 DEF Distinct, Range
<1>3. Range(r) = Range(s) \cup {e}
  BY <1>1 DEF Range
<1> QED BY <1>1, <1>2, <1>3

-----------------------------------------------------------------------------
(* The type invariant.                                                     *)

(* Steps at which a request works on a group it was given or has built.    *)
OnGroup == {"indexer", "add", "launch_miner"} \cup (StopSteps \ {"find"})

(* A request in progress has a group exactly at these steps, and past the  *)
(* miner a Stop is not a StopMiner.                                        *)
Legal(step, r) ==
    /\ step \in Step
    /\ r \in Request \cup {Null}
    /\ step = "idle" <=> r = Null
    /\ step \in OnGroup => r.g \in Group
    /\ step \notin OnGroup \cup {"idle"} => r.g = Null
    /\ step \in StopSteps \ {"find", "check_miner", "kill_miner"} => r.op # "stopMiner"
    /\ step = "find_unmine" => r.op = "stopMiner"
    /\ step = "find" => r.op \notin {"start", "startMiner", "stopMiner"}
    /\ step \in {"check_miner", "kill_miner"} => r.op \notin {"start", "startMiner"}

Control ==
    /\ pc \in [Thread -> Step]
    /\ req \in [Thread -> Request \cup {Null}]
    /\ \A t \in Thread : Legal(pc[t], req[t])

Data ==
    /\ row \in [Project -> Cfg \cup {Null}]
    /\ groups \in Seq(Group)
    /\ info \in [Group -> Info \cup {Null}]
    /\ proc \in [Group -> [Role -> PState]]
    /\ leaked \subseteq Group
    /\ faults \in 0..MaxFaults

TypeInv == Data /\ Control

LEMMA TypeInvImpliesTypeOK == TypeInv => TypeOK
  BY DEF TypeInv, Data, Control, TypeOK

LEMMA TypeInit == Init => TypeInv
  BY ConstantsAssumption, NullAssumption
  DEF Init, TypeInv, Data, Control, Legal, Step, PState, OnGroup, StopSteps, StartSteps

(* A request moves to another step: the others are where they were.        *)
LEMMA MoveControl ==
    ASSUME Control, NEW t \in Thread, NEW step, NEW r, Legal(step, r),
           pc' = [pc EXCEPT ![t] = step], req' = [req EXCEPT ![t] = r]
    PROVE  Control'
<1>1. \A u \in Thread : /\ pc'[u] = IF u = t THEN step ELSE pc[u]
                        /\ req'[u] = IF u = t THEN r ELSE req[u]
  BY DEF Control
<1>2. \A u \in Thread : Legal(pc'[u], req'[u])
  BY <1>1 DEF Control
<1>3. pc' \in [Thread -> Step] /\ req' \in [Thread -> Request \cup {Null}]
  BY DEF Control, Legal
<1> QED BY <1>2, <1>3 DEF Control, Legal

LEMMA FinishControl ==
    ASSUME Control, NEW t \in Thread, Finish(t)
    PROVE  Control'
<1>1. Legal("idle", Null)
  BY DEF Legal, Step, OnGroup, StopSteps, StartSteps
<1> QED BY <1>1, MoveControl DEF Finish, Goto

LEMMA GotoControl ==
    ASSUME Control, NEW t \in Thread, NEW step, Legal(step, req[t]),
           Goto(t, step), UNCHANGED req
    PROVE  Control'
<1>1. req' = [req EXCEPT ![t] = req[t]]
  BY DEF Control
<1> QED BY <1>1, MoveControl DEF Goto

LEMMA HoldControl ==
    ASSUME Control, NEW t \in Thread, NEW step, NEW g,
           Legal(step, [req[t] EXCEPT !.g = g]), Goto(t, step), Hold(t, g)
    PROVE  Control'
<1>1. req' = [req EXCEPT ![t] = [req[t] EXCEPT !.g = g]]
  BY DEF Hold
<1> QED BY <1>1, MoveControl DEF Goto

(* A legal request that takes a group, or lets it go.                      *)
LEMMA WithGroup ==
    ASSUME NEW r \in Request, NEW g \in Group \cup {Null}
    PROVE  /\ [r EXCEPT !.g = g] \in Request
           /\ [r EXCEPT !.g = g] # Null
           /\ [r EXCEPT !.g = g].g = g
           /\ [r EXCEPT !.g = g].op = r.op
           /\ [r EXCEPT !.g = g].p = r.p
           /\ [r EXCEPT !.g = g].cfg = r.cfg
  BY NullAssumption DEF Request

LEMMA InProgress ==
    ASSUME Control, NEW t \in Thread, pc[t] # "idle"
    PROVE  req[t] \in Request /\ req[t].op \in Op /\ req[t].p \in Project /\ req[t].cfg \in Cfg
  BY NullAssumption DEF Control, Legal, Request

LEMMA AfterStopControl ==
    ASSUME Control, NEW t \in Thread, pc[t] \in {"find", "remove"}, AfterStop(t)
    PROVE  Control'
<1> DEFINE o == req[t].op
           r == [req[t] EXCEPT !.g = Null]
<1>1. r \in Request /\ r # Null /\ r.g = Null /\ r.op = o
  BY InProgress, WithGroup
<1> HIDE DEF r
<1>2. CASE Finish(t)
  BY <1>2, FinishControl
<1>3. CASE o = "restart" /\ Goto(t, "lookup") /\ Hold(t, Null)
  <2>1. Legal("lookup", r)
    BY <1>1 DEF Legal, Step, OnGroup, StopSteps, StartSteps
  <2> QED BY <1>3, <2>1, HoldControl DEF r
<1>4. CASE o \in {"reset", "delete"} /\ Goto(t, "reset") /\ Hold(t, Null)
  <2>1. Legal("reset", r)
    BY <1>1 DEF Legal, Step, OnGroup, StopSteps, StartSteps
  <2> QED BY <1>4, <2>1, HoldControl DEF r
<1>5. CASE o = "edit" /\ Goto(t, "save") /\ Hold(t, Null)
  <2>1. Legal("save", r)
    BY <1>1 DEF Legal, Step, OnGroup, StopSteps, StartSteps
  <2> QED BY <1>5, <2>1, HoldControl DEF r
<1> QED BY <1>2, <1>3, <1>4, <1>5 DEF AfterStop

LEMMA StoppedControl ==
    ASSUME Control, NEW t \in Thread, NEW r \in Role,
           pc[t] = CheckStep[r] \/ pc[t] = KillStep[r], Stopped(t, r)
    PROVE  Control'
<1>1. pc[t] \in {"check_miner", "kill_miner", "check_indexer", "kill_indexer",
                "check_node", "kill_node"}
  BY DEF CheckStep, KillStep, Role
<1>2. req[t] \in Request /\ req[t].g \in Group
  BY <1>1, InProgress DEF Control, Legal, OnGroup, StopSteps
<1>3. CASE Finish(t)
  BY <1>3, FinishControl
<1>4. ASSUME NEW step \in {"check_indexer", "check_node", "remove"},
             Goto(t, step), UNCHANGED req, req[t].op # "stopMiner"
      PROVE  Control'
  <2>1. Legal(step, req[t])
    BY <1>2, <1>4, NullAssumption DEF Legal, Step, OnGroup, StopSteps, StartSteps
  <2> QED BY <1>4, <2>1, GotoControl
<1>5. r # "miner" => req[t].op # "stopMiner"
  BY DEF Control, Legal, CheckStep, KillStep, Role, StopSteps
<1> QED BY <1>3, <1>4, <1>5 DEF Stopped

(* Every step keeps the control state well formed ...                      *)
LEMMA ControlStep == TypeInv /\ [Next]_vars => Control'
<1> SUFFICES ASSUME TypeInv, [Next]_vars PROVE Control'
  OBVIOUS
<1>0. Control /\ Data
  BY DEF TypeInv
<1> USE <1>0
<1>1. ASSUME NEW t \in Thread, Begin(t) PROVE Control'
  <2>1. PICK o \in Op, p \in Project, c \in Cfg :
               /\ Goto(t, EntryOf[o])
               /\ req' = [req EXCEPT ![t] = [op |-> o, p |-> p, cfg |-> c, g |-> Null]]
    BY <1>1 DEF Begin
  <2> DEFINE r == [op |-> o, p |-> p, cfg |-> c, g |-> Null]
  <2>2. r \in Request /\ r # Null
    BY NullAssumption DEF Request
  <2>3. Legal(EntryOf[o], r)
    BY <2>2 DEF EntryOf, Op, Legal, Step, OnGroup, StopSteps, StartSteps
  <2> QED BY <2>1, <2>3, MoveControl DEF Goto
<1>2. ASSUME NEW t \in Thread, StartLookup(t) PROVE Control'
  <2>1. Legal("ports", req[t])
    BY <1>2 DEF StartLookup, Control, Legal, Step, OnGroup, StopSteps, StartSteps
  <2> QED BY <1>2, <2>1, FinishControl, GotoControl DEF StartLookup
<1>3. ASSUME NEW t \in Thread, StartCheckPorts(t) PROVE Control'
  <2>1. Legal("node", req[t])
    BY <1>3 DEF StartCheckPorts, Control, Legal, Step, OnGroup, StopSteps, StartSteps
  <2> QED BY <1>3, <2>1, FinishControl, GotoControl DEF StartCheckPorts
<1>4. ASSUME NEW t \in Thread, StartNode(t) PROVE Control'
  <2>1. PICK g \in Group : Hold(t, g) /\ Goto(t, "indexer")
    BY <1>4 DEF StartNode
  <2>2. Legal("indexer", [req[t] EXCEPT !.g = g])
    BY <1>4, InProgress, WithGroup DEF StartNode, Legal, Step, OnGroup, StopSteps, StartSteps
  <2> QED BY <2>1, <2>2, HoldControl
<1>5. ASSUME NEW t \in Thread, StartIndexer(t) PROVE Control'
  <2>1. Legal("add", req[t])
    BY <1>5 DEF StartIndexer, Control, Legal, Step, OnGroup, StopSteps, StartSteps
  <2> QED BY <1>5, <2>1, FinishControl, GotoControl DEF StartIndexer
<1>6. ASSUME NEW t \in Thread, StartAdd(t) PROVE Control'
  BY <1>6, FinishControl DEF StartAdd
<1>7. ASSUME NEW t \in Thread, StartFails(t) PROVE Control'
  BY <1>7, FinishControl DEF StartFails
<1>8. ASSUME NEW t \in Thread, StopFind(t) PROVE Control'
  <2> DEFINE g == GroupFor(req[t].p)
  <2>1. CASE AfterStop(t)
    BY <1>8, <2>1, AfterStopControl DEF StopFind
  <2>2. CASE Goto(t, "check_miner") /\ Hold(t, g) /\ g # Null
    <3>1. g \in Group
      BY <2>2, GroupForFinds, NullAssumption, RangeOfSeq DEF Data, Registered
    <3>2. req[t] \in Request /\ req[t].op \notin {"start", "startMiner"}
      BY <1>8, InProgress DEF StopFind, Control, Legal
    <3>3. Legal("check_miner", [req[t] EXCEPT !.g = g])
      BY <3>1, <3>2, WithGroup DEF Legal, Step, OnGroup, StopSteps, StartSteps
    <3> QED BY <2>2, <3>3, HoldControl
  <2> QED BY <1>8, <2>1, <2>2 DEF StopFind
<1>9. ASSUME NEW t \in Thread, StartMinerFind(t) PROVE Control'
  <2> DEFINE g == GroupFor(req[t].p)
  <2>1. CASE Finish(t)
    BY <1>9, <2>1, FinishControl DEF StartMinerFind
  <2>2. CASE Goto(t, "launch_miner") /\ Hold(t, g) /\ g # Null
    <3>1. g \in Group
      BY <2>2, GroupForFinds, NullAssumption, RangeOfSeq DEF Data, Registered
    <3>2. req[t] \in Request /\ req[t].op \notin {}
      BY <1>9, InProgress DEF StartMinerFind, Control, Legal
    <3>3. Legal("launch_miner", [req[t] EXCEPT !.g = g])
      BY <3>1, <3>2, WithGroup DEF Legal, Step, OnGroup, StopSteps, StartSteps
    <3> QED BY <2>2, <3>3, HoldControl
  <2> QED BY <1>9, <2>1, <2>2 DEF StartMinerFind
<1>10. ASSUME NEW t \in Thread, StopMinerFind(t) PROVE Control'
  <2> DEFINE g == GroupFor(req[t].p)
  <2>1. CASE Finish(t)
    BY <1>10, <2>1, FinishControl DEF StopMinerFind
  <2>2. CASE Goto(t, "check_miner") /\ Hold(t, g) /\ g # Null
    <3>1. g \in Group
      BY <2>2, GroupForFinds, NullAssumption, RangeOfSeq DEF Data, Registered
    <3>2. req[t] \in Request /\ req[t].op \notin {"start", "startMiner"}
      BY <1>10, InProgress DEF StopMinerFind, Control, Legal
    <3>3. Legal("check_miner", [req[t] EXCEPT !.g = g])
      BY <3>1, <3>2, WithGroup DEF Legal, Step, OnGroup, StopSteps, StartSteps
    <3> QED BY <2>2, <3>3, HoldControl
  <2> QED BY <1>10, <2>1, <2>2 DEF StopMinerFind
<1>11. ASSUME NEW t \in Thread, StopRemove(t) PROVE Control'
  BY <1>11, AfterStopControl DEF StopRemove
<1>12. ASSUME NEW t \in Thread, NEW r \in Role, StopCheck(t, r) PROVE Control'
  <2>1. CASE Stopped(t, r)
    BY <1>12, <2>1, StoppedControl DEF StopCheck
  <2>2. CASE Goto(t, KillStep[r]) /\ UNCHANGED req
    <3>1. Legal(KillStep[r], req[t])
      BY <1>12 DEF StopCheck, CheckStep, KillStep, Role, Control, Legal, Step, OnGroup, StopSteps, StartSteps
    <3> QED BY <2>2, <3>1, GotoControl
  <2> QED BY <1>12, <2>1, <2>2 DEF StopCheck
<1>13. ASSUME NEW t \in Thread, NEW r \in Role, StopKill(t, r) PROVE Control'
  BY <1>13, StoppedControl DEF StopKill
<1>14. ASSUME NEW t \in Thread, NEW r \in Role, StopKillNull(t, r) PROVE Control'
  BY <1>14, FinishControl DEF StopKillNull
<1>15. ASSUME NEW t \in Thread, ResetData(t) PROVE Control'
  <2>1. Legal("save", req[t])
    BY <1>15 DEF ResetData, Control, Legal, Step, OnGroup, StopSteps, StartSteps
  <2> QED BY <1>15, <2>1, FinishControl, GotoControl DEF ResetData
<1>16. ASSUME NEW t \in Thread, SaveRow(t) PROVE Control'
  BY <1>16, FinishControl DEF SaveRow
<1>17. ASSUME NEW t \in Thread, LaunchMiner(t) PROVE Control'
  BY <1>17, FinishControl DEF LaunchMiner
<1>18. ASSUME NEW t \in Thread, NEW u \in Thread, StartAddOverwritten(t, u) PROVE Control'
  <2>1. Legal("idle", Null)
    BY DEF Legal, Step, OnGroup, StopSteps, StartSteps
  <2> QED BY <1>18, <2>1 DEF StartAddOverwritten, Control, Legal
<1>19. CASE Crash \/ AppExit
  <2>1. Legal("idle", Null)
    BY DEF Legal, Step, OnGroup, StopSteps, StartSteps
  <2> QED BY <1>19, <2>1 DEF Crash, AppExit, Leak, Control, Legal
<1>20. CASE UNCHANGED <<pc, req>>
  BY <1>20 DEF Control
<1> QED
  BY <1>1, <1>2, <1>3, <1>4, <1>5, <1>6, <1>7, <1>8, <1>9, <1>10, <1>11,
     <1>12, <1>13, <1>14, <1>15, <1>16, <1>17, <1>18, <1>19, <1>20
  DEF Next, Continue, StartStep, StopStep, Bind, Die, vars

(* ... and the data well typed.                                            *)
LEMMA DataStep == TypeInv /\ [Next]_vars => Data'
<1> SUFFICES ASSUME TypeInv, [Next]_vars PROVE Data'
  OBVIOUS
<1>0. Control /\ Data
  BY DEF TypeInv
<1> USE <1>0 DEF Data
<1>1. ASSUME NEW t \in Thread, UNCHANGED <<row, groups, info, proc, leaked, faults>>
      PROVE  Data'
  BY <1>1
<1>2. ASSUME NEW t \in Thread, StartNode(t) PROVE Data'
  <2>1. PICK g \in Group :
           /\ info' = [info EXCEPT ![g] = [p |-> req[t].p, cfg |-> req[t].cfg]]
           /\ proc' = [proc EXCEPT ![g] =
                          [r \in Role |-> IF r = "node" THEN "started" ELSE "null"]]
           /\ leaked' = leaked \ {g}
           /\ UNCHANGED <<row, groups, faults>>
    BY <1>2 DEF StartNode
  <2>2. [p |-> req[t].p, cfg |-> req[t].cfg] \in Info
    BY <1>2, InProgress DEF StartNode, Info
  <2>3. [r \in Role |-> IF r = "node" THEN "started" ELSE "null"] \in [Role -> PState]
    BY DEF PState
  <2> QED BY <2>1, <2>2, <2>3
<1>3. ASSUME NEW t \in Thread, StartIndexer(t) PROVE Data'
  BY <1>3 DEF StartIndexer, PState
<1>4. ASSUME NEW t \in Thread, StartFails(t) PROVE Data'
  <2>1. pc[t] = "indexer" => req[t].g \in Group
    BY DEF Control, Legal, OnGroup
  <2> QED BY <1>4, <2>1, ConstantsAssumption DEF StartFails
<1>5. ASSUME NEW t \in Thread, StartAdd(t) PROVE Data'
  <2>1. req[t].g \in Group
    BY <1>5 DEF StartAdd, Control, Legal, OnGroup
  <2> QED BY <1>5, <2>1 DEF StartAdd
<1>6. ASSUME NEW t \in Thread, NEW u \in Thread, StartAddOverwritten(t, u) PROVE Data'
  <2>1. req[t].g \in Group /\ req[u].g \in Group
    BY <1>6 DEF StartAddOverwritten, Control, Legal, OnGroup
  <2> QED BY <1>6, <2>1, ConstantsAssumption DEF StartAddOverwritten
<1>7. ASSUME NEW t \in Thread, NEW r \in Role, StopKill(t, r) PROVE Data'
  BY <1>7 DEF StopKill, PState
<1>8. ASSUME NEW t \in Thread, StopRemove(t) PROVE Data'
  <2>1. RemoveFirst(groups, req[t].g) \in Seq(Group)
    BY RemoveFirstProperties
  <2> QED BY <1>8, <2>1 DEF StopRemove
<1>9. ASSUME NEW t \in Thread, SaveRow(t) PROVE Data'
  BY <1>9, InProgress DEF SaveRow
<1>10. ASSUME NEW t \in Thread, LaunchMiner(t) PROVE Data'
  BY <1>10 DEF LaunchMiner, PState
<1>11. ASSUME NEW g \in Group, NEW r \in Role, Die(g, r) PROVE Data'
  BY <1>11 DEF Die, PState
<1>12. ASSUME NEW g \in Group, NEW r \in {"node", "indexer"}, Bind(g, r) PROVE Data'
  BY <1>12 DEF Bind, PState
<1>13. ASSUME NEW S \in SUBSET Group, Leak(S) PROVE Data'
  BY <1>13, ConstantsAssumption DEF Leak, PState
<1>14. CASE Crash \/ AppExit
  BY <1>13, <1>14 DEF Crash, AppExit
<1>15. CASE UNCHANGED vars
  BY <1>15 DEF vars
<1> QED
  BY <1>1, <1>2, <1>3, <1>4, <1>5, <1>6, <1>7, <1>8, <1>9, <1>10, <1>11, <1>12,
     <1>14, <1>15
  DEF Next, Continue, StartStep, StopStep, Begin, StartLookup, StartCheckPorts,
      StopFind, StopCheck, StopKillNull, ResetData, StartMinerFind, StopMinerFind

LEMMA TypeInvariance == Spec => []TypeInv
<1>1. TypeInv /\ [Next]_vars => TypeInv'
  BY ControlStep, DataStep DEF TypeInv
<1> QED BY <1>1, TypeInit, PTL DEF Spec

(* Every variable keeps its type.                                          *)
THEOREM TypeCorrect == Spec => []TypeOK
  BY TypeInvariance, TypeInvImpliesTypeOK, PTL

-----------------------------------------------------------------------------
(* The safety of the children, whatever requests overlap.                  *)

(* The steps of a Stop at which the indexer has been dealt with.           *)
PastIndexer == {"check_node", "kill_node", "remove"}

(* The list has no repetitions and no leaked group; a group in the hands   *)
(* of a request is not leaked; one that is being started is not listed and *)
(* in no other request's hands.                                            *)
Own ==
    /\ Distinct(groups)
    /\ Registered \cap leaked = {}
    /\ \A t \in Thread : pc[t] \in OnGroup => req[t].g \notin leaked
    /\ \A t, u \in Thread :
          /\ pc[t] \in {"indexer", "add"} => req[t].g \notin Registered
          /\ pc[t] \in {"indexer", "add"} /\ pc[u] \in OnGroup /\ req[t].g = req[u].g => t = u

(* What a Start or a Stop has already done to its group stays done: this   *)
(* is what the next steps of the same request rely on.                     *)
Done ==
    \A t \in Thread :
        /\ pc[t] \in {"indexer", "add"} => proc[req[t].g]["node"] # "null"
        /\ pc[t] = "add" => proc[req[t].g]["indexer"] # "null"
        /\ pc[t] \in PastIndexer => proc[req[t].g]["indexer"] = "null"
        /\ pc[t] = "remove" => proc[req[t].g]["node"] = "null"

(* RegisteredIsStarted with the step at which the request in its middle    *)
(* must be: a second Stop that fails on a cleared field leaves the first.  *)
Attended ==
    \A g \in Registered :
        /\ proc[g]["indexer"] = "null" =>
              \E t \in Thread : pc[t] \in PastIndexer /\ req[t].g = g
        /\ proc[g]["node"] = "null" =>
              \E t \in Thread : pc[t] = "remove" /\ req[t].g = g

ChildInv == Own /\ Done /\ Attended /\ NoLostChild
IInv == TypeInv /\ ChildInv

LEMMA AttendedImpliesRegisteredIsStarted == TypeInv /\ Attended => RegisteredIsStarted
  BY DEF TypeInv, Control, Legal, Attended, RegisteredIsStarted, Stopping, StopSteps,
         PastIndexer

LEMMA ChildInit == Init => ChildInv
  BY ConstantsAssumption
  DEF Init, ChildInv, Own, Done, Attended, NoLostChild, Distinct, Registered, Range,
      Alive, Role, PastIndexer, OnGroup, StopSteps

(* How a step of one request changes the control state.                    *)
Others(t) == \A u \in Thread \ {t} : pc'[u] = pc[u] /\ req'[u] = req[u]
Leaves(t) == Others(t) /\ pc'[t] \notin OnGroup
Takes(t, g) == Others(t) /\ pc[t] \notin OnGroup /\ req'[t].g = g
Stays(t) == Others(t) /\ req' = req

LEMMA FinishLeaves ==
    ASSUME Control, NEW t \in Thread, Finish(t) PROVE Leaves(t)
  BY DEF Control, Finish, Goto, Leaves, Others, OnGroup, StopSteps

LEMMA GotoMoves ==
    ASSUME Control, NEW t \in Thread, NEW step, Goto(t, step), UNCHANGED req
    PROVE  Stays(t) /\ pc'[t] = step
  BY DEF Control, Goto, Stays, Others

LEMMA HoldMoves ==
    ASSUME Control, NEW t \in Thread, NEW step, NEW g \in Group \cup {Null},
           pc[t] # "idle", Goto(t, step), Hold(t, g)
    PROVE  Others(t) /\ pc'[t] = step /\ req'[t].g = g
<1>1. req[t] \in Request
  BY InProgress
<1>2. req'[t] = [req[t] EXCEPT !.g = g]
  BY DEF Control, Hold
<1> QED BY <1>1, <1>2, WithGroup DEF Control, Goto, Hold, Others

LEMMA AfterStopLeaves ==
    ASSUME Control, NEW t \in Thread, pc[t] \in {"find", "remove"}, AfterStop(t)
    PROVE  Leaves(t)
<1>1. CASE Finish(t)
  BY <1>1, FinishLeaves
<1>2. ASSUME NEW step \in {"lookup", "reset", "save"}, Goto(t, step), Hold(t, Null)
      PROVE  Leaves(t)
  BY <1>2, HoldMoves DEF Leaves, OnGroup, StopSteps
<1> QED BY <1>1, <1>2 DEF AfterStop

LEMMA StoppedMoves ==
    ASSUME Control, NEW t \in Thread, NEW r \in Role, Stopped(t, r)
    PROVE  \/ r = "miner" /\ Leaves(t)
           \/ r = "miner" /\ Stays(t) /\ pc'[t] = "check_indexer"
           \/ r = "indexer" /\ Stays(t) /\ pc'[t] = "check_node"
           \/ r = "node" /\ Stays(t) /\ pc'[t] = "remove"
  BY FinishLeaves, GotoMoves DEF Stopped

(* The listed groups and the requests that attend them are left alone.     *)
LEMMA KeepAttended ==
    ASSUME Attended, Registered' \subseteq Registered,
           \A g \in Registered : proc'[g] = proc[g],
           \A t \in Thread : pc[t] \in PastIndexer => pc'[t] = pc[t] /\ req'[t] = req[t]
    PROVE  Attended'
<1> SUFFICES ASSUME NEW g \in Registered
             PROVE  /\ proc[g]["indexer"] = "null" =>
                         \E t \in Thread : pc'[t] \in PastIndexer /\ req'[t].g = g
                    /\ proc[g]["node"] = "null" =>
                         \E t \in Thread : pc'[t] = "remove" /\ req'[t].g = g
  BY DEF Attended
<1> QED BY DEF Attended, PastIndexer

(* A request that lets go of its group, or had none.  One that gives up in *)
(* the middle of a Stop does so because another has killed the node.       *)
LEMMA LeaveQuietly ==
    ASSUME TypeInv, ChildInv, NEW t \in Thread, Leaves(t),
           UNCHANGED <<groups, proc, leaked>>,
           pc[t] \notin {"indexer", "add", "remove"},
           pc[t] \in PastIndexer => proc[req[t].g]["node"] = "null"
    PROVE  ChildInv'
<1> USE DEF TypeInv, ChildInv, Leaves, Others
<1>1. Own'
  BY DEF Own, Registered, OnGroup
<1>2. Done'
  BY DEF Done, OnGroup, PastIndexer, StopSteps
<1>3. Attended'
  <2> SUFFICES ASSUME NEW g \in Registered
               PROVE  /\ proc[g]["indexer"] = "null" =>
                           \E u \in Thread : pc'[u] \in PastIndexer /\ req'[u].g = g
                      /\ proc[g]["node"] = "null" =>
                           \E u \in Thread : pc'[u] = "remove" /\ req'[u].g = g
    BY DEF Attended, Registered
  <2>1. ASSUME proc[g]["node"] = "null"
        PROVE  \E u \in Thread : pc'[u] = "remove" /\ req'[u].g = g
    BY <2>1 DEF Attended
  <2>2. ASSUME proc[g]["indexer"] = "null"
        PROVE  \E u \in Thread : pc'[u] \in PastIndexer /\ req'[u].g = g
    <3>1. PICK u \in Thread : pc[u] \in PastIndexer /\ req[u].g = g
      BY <2>2 DEF Attended
    <3>2. CASE u = t
      BY <2>1, <3>1, <3>2 DEF PastIndexer
    <3>3. CASE u # t
      BY <3>1, <3>3
    <3> QED BY <3>2, <3>3
  <2> QED BY <2>1, <2>2
<1>4. NoLostChild'
  BY DEF NoLostChild, Alive, Registered, Starting
<1> QED BY <1>1, <1>2, <1>3, <1>4

(* A request that takes a listed group in hand.                            *)
LEMMA TakeQuietly ==
    ASSUME TypeInv, ChildInv, NEW t \in Thread, NEW g \in Registered, Takes(t, g),
           pc'[t] \in {"check_miner", "launch_miner"},
           UNCHANGED <<groups, proc, leaked>>
    PROVE  ChildInv'
<1> USE DEF TypeInv, ChildInv, Takes, Others
<1>1. Own'
  BY DEF Own, Registered, OnGroup
<1>2. Done'
  BY DEF Done, PastIndexer
<1>3. Attended'
  BY DEF Attended, Registered, OnGroup, PastIndexer, StopSteps
<1>4. NoLostChild'
  BY DEF NoLostChild, Alive, Registered, Starting, OnGroup
<1> QED BY <1>1, <1>2, <1>3, <1>4

(* A Stop that goes on to the next process, or to kill the one it tested.  *)
LEMMA StayQuietly ==
    ASSUME TypeInv, ChildInv, NEW t \in Thread, Stays(t),
           pc[t] \in StopSteps \ {"find", "remove"}, pc'[t] \in StopSteps \ {"find"},
           pc[t] \in PastIndexer => pc'[t] \in PastIndexer,
           pc'[t] \in PastIndexer => proc[req[t].g]["indexer"] = "null",
           pc'[t] = "remove" => proc[req[t].g]["node"] = "null",
           UNCHANGED <<groups, proc, leaked>>
    PROVE  ChildInv'
<1> USE DEF TypeInv, ChildInv, Stays, Others
<1>1. Own'
  BY DEF Own, Registered, OnGroup, StopSteps
<1>2. Done'
  BY DEF Done, StopSteps
<1>3. Attended'
  BY DEF Attended, Registered
<1>4. NoLostChild'
  BY DEF NoLostChild, Alive, Registered, Starting, StopSteps
<1> QED BY <1>1, <1>2, <1>3, <1>4

(* The steps that change a process, the list or the leaked groups.         *)
LEMMA StartNodeStep ==
    ASSUME IInv, NEW t \in Thread, StartNode(t) PROVE ChildInv'
<1> USE DEF IInv, TypeInv, ChildInv
<1>1. PICK g \in Group :
         /\ pc[t] = "node" /\ Fresh(g)
         /\ proc' = [proc EXCEPT ![g] =
                        [r \in Role |-> IF r = "node" THEN "started" ELSE "null"]]
         /\ leaked' = leaked \ {g}
         /\ Hold(t, g) /\ Goto(t, "indexer")
         /\ UNCHANGED groups
  BY DEF StartNode
<1>2. Others(t) /\ pc'[t] = "indexer" /\ req'[t].g = g
  BY <1>1, HoldMoves
<1>3. g \notin Registered /\ \A u \in Thread : pc[u] \in OnGroup => req[u].g # g
  BY <1>1 DEF Fresh, Holds, OnGroup, StopSteps
<1>4. /\ proc'[g]["node"] = "started"
      /\ \A h \in Group \ {g} : proc'[h] = proc[h]
  BY <1>1 DEF Data, Role
<1> HIDE DEF TypeInv
<1>5. Own'
  BY <1>1, <1>2, <1>3 DEF Own, Others, Registered, OnGroup
<1>6. Done'
  BY <1>2, <1>3, <1>4 DEF TypeInv, Control, Legal, Done, Others, OnGroup, PastIndexer, StopSteps
<1>7. Attended'
  <2>1. Registered' = Registered /\ Registered \subseteq Group \ {g}
    BY <1>1, <1>3, RangeOfSeq DEF TypeInv, Data, Registered
  <2> QED BY <1>1, <1>2, <1>4, <2>1, KeepAttended DEF Others, PastIndexer
<1>8. NoLostChild'
  BY <1>1, <1>2, <1>3, <1>4 DEF NoLostChild, Alive, Others, Registered, Starting
<1> QED BY <1>5, <1>6, <1>7, <1>8

(* A request that gives up while its group is in nobody else's hands.      *)
LEMMA StartFailsStep ==
    ASSUME IInv, NEW t \in Thread, StartFails(t) PROVE ChildInv'
<1> USE DEF IInv, TypeInv
<1>1. Leaves(t)
  BY FinishLeaves DEF StartFails
<1>2. CASE pc[t] = "node"
  BY <1>1, <1>2, LeaveQuietly DEF StartFails, PastIndexer
<1>3. CASE pc[t] = "indexer"
  <2> USE DEF ChildInv
  <2>1. leaked' = leaked \cup {req[t].g} /\ UNCHANGED <<groups, proc>>
    BY <1>3 DEF StartFails
  <2>2. Own'
    BY <1>1, <1>3, <2>1 DEF Own, Leaves, Others, Registered, OnGroup
  <2>3. Done'
    BY <1>1, <2>1 DEF Done, Leaves, Others, OnGroup, PastIndexer, StopSteps
  <2>4. Attended'
    BY <1>1, <1>3, <2>1 DEF Attended, Leaves, Others, Registered, PastIndexer
  <2>5. NoLostChild'
    BY <1>1, <1>3, <2>1 DEF NoLostChild, Alive, Leaves, Others, Registered, Starting
  <2> QED BY <2>2, <2>3, <2>4, <2>5
<1> QED BY <1>2, <1>3 DEF StartFails

LEMMA StartIndexerStep ==
    ASSUME IInv, NEW t \in Thread, StartIndexer(t) PROVE ChildInv'
<1> DEFINE g == req[t].g
<1>1. Control /\ Data /\ ChildInv /\ pc[t] = "indexer"
  BY DEF IInv, TypeInv, StartIndexer
<1>2. g \in Group /\ g \notin Registered
  BY <1>1 DEF Control, Legal, OnGroup, ChildInv, Own
<1>3. /\ proc'[g]["indexer"] = "started" /\ proc'[g]["node"] = proc[g]["node"]
      /\ \A h \in Group \ {g} : proc'[h] = proc[h]
  BY <1>1, <1>2 DEF Data, StartIndexer, Role
<1>4. Others(t) /\ req' = req /\ pc'[t] = "add" /\ UNCHANGED <<groups, leaked>>
  BY <1>1, GotoMoves DEF StartIndexer, Stays
<1> USE <1>1 DEF ChildInv
<1>5. Own'
  BY <1>4 DEF Own, Others, Registered, OnGroup
<1>6. Done'
  BY <1>3, <1>4 DEF Control, Legal, Own, Done, Others, OnGroup, PastIndexer, StopSteps
<1>7. Attended'
  <2>1. Registered' = Registered /\ Registered \subseteq Group \ {g}
    BY <1>2, <1>4, RangeOfSeq DEF Data, Registered
  <2> QED BY <1>3, <1>4, <2>1, KeepAttended DEF Others, PastIndexer
<1>8. NoLostChild'
  BY <1>3, <1>4 DEF NoLostChild, Alive, Others, Registered, Starting
<1> QED BY <1>5, <1>6, <1>7, <1>8

LEMMA StartAddStep ==
    ASSUME IInv, NEW t \in Thread, StartAdd(t) PROVE ChildInv'
<1> DEFINE g == req[t].g
<1>1. Control /\ Data /\ ChildInv /\ pc[t] = "add"
  BY DEF IInv, TypeInv, StartAdd
<1>2. g \in Group /\ g \notin Registered /\ g \notin leaked
  BY <1>1 DEF Control, Legal, OnGroup, ChildInv, Own
<1>3. /\ Distinct(groups') /\ Registered' = Registered \cup {g}
      /\ UNCHANGED <<proc, leaked>> /\ Leaves(t)
  BY <1>1, <1>2, AppendNew, FinishLeaves DEF StartAdd, Registered, Data, ChildInv, Own
<1> USE <1>1 DEF ChildInv
<1>4. Own'
  BY <1>2, <1>3 DEF Own, Leaves, Others, OnGroup
<1>5. Done'
  BY <1>3 DEF Done, Leaves, Others, OnGroup, PastIndexer, StopSteps
<1>6. Attended'
  BY <1>1, <1>3 DEF Done, Attended, Leaves, Others, PastIndexer
<1>7. NoLostChild'
  BY <1>3 DEF NoLostChild, Alive, Leaves, Others, Starting
<1> QED BY <1>4, <1>5, <1>6, <1>7

LEMMA StartAddOverwrittenStep ==
    ASSUME IInv, NEW t \in Thread, NEW u \in Thread, StartAddOverwritten(t, u)
    PROVE  ChildInv'
<1> DEFINE g == req[t].g
           h == req[u].g
<1>1. Control /\ Data /\ ChildInv /\ pc[t] = "add" /\ pc[u] = "add" /\ t # u
  BY DEF IInv, TypeInv, StartAddOverwritten
<1>2. g # h /\ {g, h} \subseteq Group \ (Registered \cup leaked)
  BY <1>1 DEF Control, Legal, OnGroup, ChildInv, Own
<1>3. /\ Distinct(groups') /\ Registered' = Registered \cup {h}
      /\ leaked' = leaked \cup {g} /\ UNCHANGED proc
  BY <1>1, <1>2, AppendNew DEF StartAddOverwritten, Registered, Data, ChildInv, Own
<1>4. \A x \in Thread : IF x \in {t, u} THEN pc'[x] = "idle"
                                       ELSE pc'[x] = pc[x] /\ req'[x] = req[x]
  BY <1>1 DEF StartAddOverwritten, Control
<1> USE <1>1 DEF ChildInv
<1>5. Own'
  BY <1>2, <1>3, <1>4 DEF Own, OnGroup, StopSteps
<1>6. Done'
  BY <1>3, <1>4 DEF Done, PastIndexer
<1>7. Attended'
  BY <1>3, <1>4 DEF Done, Attended, PastIndexer
<1>8. NoLostChild'
  BY <1>3, <1>4 DEF NoLostChild, Alive, Starting
<1> QED BY <1>5, <1>6, <1>7, <1>8

LEMMA StopKillStep ==
    ASSUME IInv, NEW t \in Thread, NEW r \in Role, StopKill(t, r) PROVE ChildInv'
<1> DEFINE g == req[t].g
<1>1. /\ Control /\ Data /\ ChildInv /\ pc[t] = KillStep[r]
      /\ UNCHANGED <<groups, leaked>>
  BY DEF IInv, TypeInv, StopKill
<1>2. pc[t] \in {"kill_miner", "kill_indexer", "kill_node"} /\ g \in Group
  BY <1>1 DEF Control, Legal, KillStep, Role, OnGroup, StopSteps
<1>3. /\ proc'[g][r] = "null"
      /\ \A x \in Role \ {r} : proc'[g][x] = proc[g][x]
      /\ \A h \in Group \ {g} : proc'[h] = proc[h]
  BY <1>1, <1>2 DEF Data, StopKill
<1>4. \/ r = "miner" /\ Leaves(t)
      \/ r = "miner" /\ Stays(t) /\ pc'[t] = "check_indexer"
      \/ r = "indexer" /\ Stays(t) /\ pc'[t] = "check_node"
      \/ r = "node" /\ Stays(t) /\ pc'[t] = "remove"
  BY <1>1, StoppedMoves DEF StopKill
<1>5. Others(t) /\ (pc'[t] \in OnGroup => req'[t] = req[t] /\ pc'[t] \notin {"indexer", "add"})
  BY <1>4 DEF Leaves, Stays, OnGroup, StopSteps
<1>6. \A u \in Thread : pc[u] \in {"indexer", "add"} => req[u].g \in Group \ {g}
  BY <1>1, <1>2 DEF Control, Legal, ChildInv, Own, OnGroup, StopSteps
<1>7. \A u \in Thread : pc[u] \in PastIndexer => req[u].g \in Group
  BY <1>1 DEF Control, Legal, PastIndexer, OnGroup, StopSteps
<1> USE <1>1 DEF ChildInv
<1>8. Own'
  BY <1>2, <1>5 DEF Own, Others, Registered, OnGroup, StopSteps
<1>9. Done'
  <2>1. ASSUME NEW u \in Thread \ {t}
        PROVE  /\ pc[u] \in {"indexer", "add"} => proc'[req[u].g] = proc[req[u].g]
               /\ pc[u] \in PastIndexer => \A x \in Role :
                     proc[req[u].g][x] = "null" => proc'[req[u].g][x] = "null"
    BY <1>3, <1>6, <1>7
  <2>2. pc'[t] \in PastIndexer => proc'[g]["indexer"] = "null"
    BY <1>2, <1>3, <1>4 DEF Done, Leaves, OnGroup, PastIndexer, StopSteps, KillStep, Role
  <2>3. pc'[t] = "remove" => proc'[g]["node"] = "null"
    BY <1>3, <1>4 DEF Leaves, OnGroup, StopSteps
  <2>4. pc'[t] \notin {"indexer", "add"}
    BY <1>5 DEF OnGroup
  <2>5. "indexer" \in Role /\ "node" \in Role
    BY DEF Role
  <2> QED BY <1>5, <2>1, <2>2, <2>3, <2>4, <2>5
          DEF Done, Others, OnGroup, PastIndexer, StopSteps
<1>10. Attended'
  <2> SUFFICES ASSUME NEW h \in Registered
               PROVE  /\ proc'[h]["indexer"] = "null" =>
                           \E u \in Thread : pc'[u] \in PastIndexer /\ req'[u].g = h
                      /\ proc'[h]["node"] = "null" =>
                           \E u \in Thread : pc'[u] = "remove" /\ req'[u].g = h
    BY DEF Attended, Registered
  <2>1. h \in Group
    BY RangeOfSeq DEF Data, Registered
  <2>2. \A u \in Thread : pc[u] \in PastIndexer /\ req[u].g = h
           => /\ pc'[u] \in PastIndexer /\ req'[u].g = h
              /\ pc[u] = "remove" => pc'[u] = "remove"
    BY <1>1, <1>2, <1>4, <1>5 DEF Others, Stays, PastIndexer, KillStep, Role
  <2>3. CASE h # g
    BY <1>3, <2>1, <2>2, <2>3 DEF Attended, PastIndexer
  <2>4. CASE h = g /\ r = "node"
    <3>1. pc'[t] = "remove" /\ req'[t].g = h
      BY <1>4, <2>4 DEF Stays
    <3> QED BY <3>1 DEF PastIndexer
  <2>5. CASE h = g /\ r = "indexer"
    <3>1. pc'[t] = "check_node" /\ req'[t].g = h /\ proc'[h]["node"] = proc[h]["node"]
      BY <1>3, <1>4, <2>5 DEF Stays, Role
    <3> QED BY <2>2, <3>1 DEF Attended, PastIndexer
  <2>6. CASE h = g /\ r = "miner"
    <3>1. proc'[h]["node"] = proc[h]["node"] /\ proc'[h]["indexer"] = proc[h]["indexer"]
      BY <1>3, <2>6 DEF Role
    <3> QED BY <2>2, <3>1 DEF Attended, PastIndexer
  <2> QED BY <2>3, <2>4, <2>5, <2>6 DEF Role
<1>11. NoLostChild'
  <2>1. \A h \in Group, x \in Role : Alive(h, x)' => Alive(h, x)
    BY <1>3 DEF Alive
  <2>2. \A u \in Thread, h \in Group : Starting(u, h) => Starting(u, h)'
    BY <1>2, <1>5 DEF Starting, Others
  <2> QED BY <2>1, <2>2 DEF NoLostChild, Registered, Role
<1> QED BY <1>8, <1>9, <1>10, <1>11

LEMMA StopRemoveStep ==
    ASSUME IInv, NEW t \in Thread, StopRemove(t) PROVE ChildInv'
<1> DEFINE g == req[t].g
<1>1. Control /\ Data /\ ChildInv /\ pc[t] = "remove"
  BY DEF IInv, TypeInv, StopRemove
<1>2. /\ Distinct(groups') /\ Registered' = Registered \ {g}
      /\ UNCHANGED <<proc, leaked>> /\ Leaves(t)
  BY <1>1, RemoveFirstProperties, AfterStopLeaves
  DEF StopRemove, Registered, Data, ChildInv, Own
<1>3. proc[g]["node"] = "null" /\ proc[g]["indexer"] = "null"
  BY <1>1 DEF ChildInv, Done, PastIndexer
<1> USE <1>1 DEF ChildInv
<1>4. Own'
  BY <1>2 DEF Own, Leaves, Others, OnGroup
<1>5. Done'
  BY <1>2 DEF Done, Leaves, Others, OnGroup, PastIndexer, StopSteps
<1>6. Attended'
  <2> SUFFICES ASSUME NEW h \in Registered \ {g}
               PROVE  /\ proc[h]["indexer"] = "null" =>
                           \E u \in Thread : pc'[u] \in PastIndexer /\ req'[u].g = h
                      /\ proc[h]["node"] = "null" =>
                           \E u \in Thread : pc'[u] = "remove" /\ req'[u].g = h
    BY <1>2 DEF Attended
  <2>1. \A u \in Thread : req[u].g = h => pc'[u] = pc[u] /\ req'[u] = req[u]
    BY <1>2 DEF Leaves, Others
  <2> QED BY <2>1 DEF Attended
<1>7. NoLostChild'
  BY <1>2, <1>3 DEF NoLostChild, Alive, Leaves, Others, Starting
<1> QED BY <1>4, <1>5, <1>6, <1>7

LEMMA LaunchMinerStep ==
    ASSUME IInv, NEW t \in Thread, LaunchMiner(t) PROVE ChildInv'
<1>1. Control /\ Data /\ ChildInv /\ pc[t] = "launch_miner"
  BY DEF IInv, TypeInv, LaunchMiner
<1>2. Leaves(t) /\ UNCHANGED <<groups, leaked>>
  BY <1>1, FinishLeaves DEF LaunchMiner
<1>3. \A g \in Group, r \in {"node", "indexer"} : proc'[g][r] = proc[g][r]
  BY <1>1 DEF LaunchMiner, Data, Role
<1>4. \A u \in Thread : pc[u] \in OnGroup => req[u].g \in Group
  BY <1>1 DEF Control, Legal
<1>5. Registered \subseteq Group
  BY <1>1, RangeOfSeq DEF Data, Registered
<1> USE <1>1 DEF ChildInv
<1>6. Own'
  BY <1>2 DEF Own, Leaves, Others, Registered, OnGroup
<1>7. Done'
  BY <1>2, <1>3, <1>4 DEF Done, Leaves, Others, OnGroup, PastIndexer, StopSteps
<1>8. Attended'
  BY <1>2, <1>3, <1>5 DEF Attended, Leaves, Others, Registered, PastIndexer
<1>9. NoLostChild'
  BY <1>2, <1>3 DEF NoLostChild, Alive, Leaves, Others, Registered, Starting
<1> QED BY <1>6, <1>7, <1>8, <1>9

(* A child process that opens its port or exits.                           *)
LEMMA ChildStep ==
    ASSUME IInv, NEW g \in Group, NEW r \in Role, Bind(g, r) \/ Die(g, r)
    PROVE  ChildInv'
<1>1. Control /\ Data /\ ChildInv /\ Alive(g, r)
  BY DEF IInv, TypeInv, Bind, Die, Alive
<1>2. /\ UNCHANGED <<groups, leaked, pc, req>>
      /\ \A h \in Group, x \in Role :
            /\ Alive(h, x)' => Alive(h, x)
            /\ proc[h][x] = "null" => proc'[h][x] = "null"
            /\ proc[h][x] # "null" /\ h \notin leaked => proc'[h][x] # "null"
  BY <1>1 DEF Data, Bind, Die, Alive
<1>3. \A u \in Thread : pc[u] \in OnGroup => req[u].g \in Group
  BY <1>1 DEF Control, Legal
<1>4. Registered \subseteq Group /\ "node" \in Role /\ "indexer" \in Role
  BY <1>1, RangeOfSeq DEF Data, Registered, Role
<1> USE <1>1, <1>2 DEF ChildInv
<1>5. Own'
  BY DEF Own, Registered
<1>6. Done'
  BY <1>3, <1>4 DEF Own, Done, OnGroup, PastIndexer, StopSteps
<1>7. Attended'
  <2>1. \A h \in Registered : h \in Group /\ h \notin leaked
    BY <1>4 DEF Own
  <2> QED BY <1>4, <2>1 DEF Attended, Registered
<1>8. NoLostChild'
  BY <1>4 DEF NoLostChild, Registered, Starting
<1> QED BY <1>5, <1>6, <1>7, <1>8

(* The application's end: only leaked groups are left.                     *)
LEMMA LeakStep ==
    ASSUME IInv, NEW S \in SUBSET Group, Leak(S) PROVE ChildInv'
<1>1. /\ groups' = <<>> /\ leaked' = S
      /\ proc' = [g \in Group |-> [r \in Role |->
                     IF g \in S /\ Alive(g, r) THEN proc[g][r] ELSE "null"]]
      /\ \A t \in Thread : pc'[t] = "idle"
  BY DEF Leak
<1>2. Registered' = {} /\ Distinct(groups')
  BY <1>1 DEF Registered, Range, Distinct
<1>3. \A g \in Group, r \in Role : Alive(g, r)' => g \in S
  BY <1>1 DEF Alive
<1> QED BY <1>1, <1>2, <1>3
        DEF ChildInv, Own, Done, Attended, NoLostChild, OnGroup, PastIndexer, StopSteps, Role

LEMMA ChildInvStep == IInv /\ [Next]_vars => ChildInv'
<1> SUFFICES ASSUME IInv, [Next]_vars PROVE ChildInv'
  OBVIOUS
<1>0. TypeInv /\ ChildInv /\ Control /\ Data
  BY DEF IInv, TypeInv
<1> USE <1>0
<1>1. ASSUME NEW t \in Thread, Begin(t) PROVE ChildInv'
  <2>1. PICK o \in Op, r \in Request :
           pc[t] = "idle" /\ Goto(t, EntryOf[o]) /\ req' = [req EXCEPT ![t] = r]
    BY <1>1, NullAssumption DEF Begin, Request
  <2>2. EntryOf[o] \in {"lookup", "find_miner", "find_unmine", "find"}
    BY DEF EntryOf
  <2>3. Leaves(t)
    BY <2>1, <2>2 DEF Control, Goto, Leaves, Others, OnGroup, StopSteps
  <2> QED BY <1>1, <2>1, <2>3, LeaveQuietly DEF Begin, PastIndexer
<1>2. ASSUME NEW t \in Thread, StartLookup(t) \/ StartCheckPorts(t) \/ ResetData(t)
      PROVE  ChildInv'
  <2>1. Leaves(t)
    BY <1>2, FinishLeaves, GotoMoves
    DEF StartLookup, StartCheckPorts, ResetData, Stays, Leaves, OnGroup, StopSteps
  <2> QED BY <1>2, <2>1, LeaveQuietly
          DEF StartLookup, StartCheckPorts, ResetData, PastIndexer
<1>3. ASSUME NEW t \in Thread, SaveRow(t) PROVE ChildInv'
  BY <1>3, FinishLeaves, LeaveQuietly DEF SaveRow, PastIndexer
<1>4. ASSUME NEW t \in Thread, StopFind(t) \/ StartMinerFind(t) \/ StopMinerFind(t)
      PROVE  ChildInv'
  <2> DEFINE g == GroupFor(req[t].p)
  <2>1. /\ pc[t] \in {"find", "find_miner", "find_unmine"}
        /\ UNCHANGED <<groups, proc, leaked>>
    BY <1>4 DEF StopFind, StartMinerFind, StopMinerFind
  <2>2. CASE Leaves(t)
    BY <2>1, <2>2, LeaveQuietly DEF PastIndexer
  <2>3. CASE g # Null /\ Hold(t, g)
             /\ (Goto(t, "check_miner") \/ Goto(t, "launch_miner"))
    <3>1. g \in Registered
      BY <2>3, GroupForFinds, NullAssumption DEF Data
    <3>2. g \in Group
      BY <3>1, RangeOfSeq DEF Data, Registered
    <3>3. Takes(t, g) /\ pc'[t] \in {"check_miner", "launch_miner"}
      BY <2>1, <2>3, <3>2, HoldMoves DEF Takes, OnGroup, StopSteps
    <3> QED BY <2>1, <3>1, <3>3, TakeQuietly
  <2> QED BY <1>4, <2>1, <2>2, <2>3, FinishLeaves, AfterStopLeaves
          DEF StopFind, StartMinerFind, StopMinerFind
<1>5. ASSUME NEW t \in Thread, NEW r \in Role, StopCheck(t, r) PROVE ChildInv'
  <2> DEFINE g == req[t].g
  <2>1. pc[t] = CheckStep[r] /\ UNCHANGED <<groups, proc, leaked>>
    BY <1>5 DEF StopCheck
  <2>2. r = "node" => proc[g]["indexer"] = "null"
    BY <2>1 DEF CheckStep, ChildInv, Done, PastIndexer
  <2>3. CASE proc[g][r] = "null" /\ Stopped(t, r)
    <3>1. CASE r = "miner" /\ Leaves(t)
      BY <2>1, <3>1, LeaveQuietly DEF CheckStep, PastIndexer
    <3>2. CASE r = "miner" /\ Stays(t) /\ pc'[t] = "check_indexer"
      BY <2>1, <3>2, StayQuietly DEF CheckStep, PastIndexer, StopSteps
    <3>3. CASE r = "indexer" /\ Stays(t) /\ pc'[t] = "check_node"
      BY <2>1, <2>3, <3>3, StayQuietly DEF CheckStep, PastIndexer, StopSteps
    <3>4. CASE r = "node" /\ Stays(t) /\ pc'[t] = "remove"
      BY <2>1, <2>2, <2>3, <3>4, StayQuietly DEF CheckStep, PastIndexer, StopSteps
    <3> QED BY <2>3, <3>1, <3>2, <3>3, <3>4, StoppedMoves
  <2>4. CASE Goto(t, KillStep[r]) /\ UNCHANGED req
    <3>1. Stays(t) /\ pc'[t] = KillStep[r]
      BY <2>4, GotoMoves
    <3> QED BY <2>1, <2>2, <3>1, StayQuietly
            DEF CheckStep, KillStep, PastIndexer, StopSteps, Role
  <2> QED BY <1>5, <2>3, <2>4 DEF StopCheck
<1>6. ASSUME NEW t \in Thread, NEW r \in Role, StopKillNull(t, r) PROVE ChildInv'
  BY <1>6, FinishLeaves, LeaveQuietly DEF StopKillNull, KillStep, PastIndexer, Role
<1>7. ASSUME NEW S \in SUBSET Group, Leak(S) PROVE ChildInv'
  BY <1>7, LeakStep
<1>8. CASE UNCHANGED vars
  BY <1>8
  DEF vars, ChildInv, Own, Done, Attended, NoLostChild, Registered, Alive, Starting
<1>9. "node" \in Role /\ "indexer" \in Role
  BY DEF Role
<1> QED
  BY <1>1, <1>2, <1>3, <1>4, <1>5, <1>6, <1>7, <1>8, <1>9, StartNodeStep, StartFailsStep,
     StartIndexerStep, StartAddStep, StartAddOverwrittenStep, StopKillStep, StopRemoveStep,
     LaunchMinerStep, ChildStep
  DEF Next, Continue, StartStep, StopStep, Crash, AppExit

LEMMA ChildInvariance == Spec => []IInv
<1>1. Init => IInv
  BY TypeInit, ChildInit DEF IInv
<1>2. IInv /\ [Next]_vars => IInv'
  BY ControlStep, DataStep, ChildInvStep DEF IInv, TypeInv
<1> QED BY <1>1, <1>2, PTL DEF Spec

(* However many requests overlap, a listed chain has its node and its      *)
(* indexer, unless a request is in the middle of stopping it.              *)
THEOREM RegisteredAreStarted == Spec => []RegisteredIsStarted
<1>1. IInv => RegisteredIsStarted
  BY AttendedImpliesRegisteredIsStarted DEF IInv, ChildInv
<1> QED BY <1>1, ChildInvariance, PTL

(* However many requests overlap, a live node or indexer is listed, or is  *)
(* being started, or was leaked by one of the four faults.                 *)
THEOREM ChildrenAreNotLost == Spec => []NoLostChild
<1>1. IInv => NoLostChild
  BY DEF IInv, ChildInv
<1> QED BY <1>1, ChildInvariance, PTL

(* However many requests overlap, a group leaves the list only when its    *)
(* node and its indexer are gone.                                          *)
THEOREM GroupsLeaveDown == Spec => LeavesListDown
<1> DEFINE A == \A g \in Registered :
                   g \notin Range(groups') /\ faults' = faults
                       => proc'[g]["node"] = "null" /\ proc'[g]["indexer"] = "null"
<1>1. ASSUME IInv, [Next]_vars PROVE A
  <2>0. Data /\ ChildInv
    BY <1>1 DEF IInv, TypeInv
  <2>1. CASE Range(groups) \subseteq Range(groups')
    BY <2>1 DEF Registered
  <2>2. ASSUME NEW t \in Thread, StopRemove(t) PROVE A
    <3>1. Range(groups') = Registered \ {req[t].g} /\ proc' = proc
      BY <2>0, <2>2, RemoveFirstProperties DEF StopRemove, Registered, Data, ChildInv, Own
    <3>2. proc[req[t].g]["node"] = "null" /\ proc[req[t].g]["indexer"] = "null"
      BY <2>0, <2>2 DEF StopRemove, ChildInv, Done, PastIndexer
    <3> QED BY <3>1, <3>2
  <2>3. ASSUME NEW t \in Thread, StartAdd(t) PROVE Range(groups) \subseteq Range(groups')
    <3>1. req[t].g \in Group /\ req[t].g \notin Range(groups)
      BY <1>1, <2>3
      DEF IInv, TypeInv, Control, Legal, OnGroup, ChildInv, Own, StartAdd, Registered
    <3> QED BY <2>0, <2>3, <3>1, AppendNew DEF StartAdd, Data, ChildInv, Own
  <2>4. CASE faults' # faults
    BY <2>4
  <2>5. faults' = faults + 1 => faults' # faults
    BY <2>0, ConstantsAssumption DEF Data
  <2> QED
    BY <1>1, <2>1, <2>2, <2>3, <2>4, <2>5
    DEF Next, vars, Continue, StartStep, StopStep, Begin, StartLookup, StartCheckPorts,
        StartNode, StartIndexer, StartFails, StartAddOverwritten, StopFind, StopCheck,
        StopKill, StopKillNull, ResetData, SaveRow, StartMinerFind, LaunchMiner,
        StopMinerFind, Bind, Die, Crash, AppExit, Leak
<1>2. IInv /\ [Next]_vars => [A]_vars
  BY <1>1
<1> QED BY <1>2, ChildInvariance, PTL DEF Spec, LeavesListDown

-----------------------------------------------------------------------------
(* One request at a time.                                                  *)

Sequential == \A t, u \in Thread : t = u

(* What the request in progress knows of its project and of its group.     *)
Solo(t) ==
    /\ pc[t] # "idle" => /\ row[req[t].p] # Null
                         /\ req[t].op # "edit" => req[t].cfg = row[req[t].p]
    /\ pc[t] \in StartSteps => req[t].op \in {"start", "restart"}
    /\ pc[t] \in {"ports", "node", "indexer", "add", "reset", "save"} =>
          \A g \in Registered : info[g].p # req[t].p
    /\ pc[t] \in {"indexer", "add"} =>
          info[req[t].g] = [p |-> req[t].p, cfg |-> req[t].cfg]
    /\ pc[t] \in OnGroup \ {"indexer", "add"} =>
          req[t].g \in Registered /\ info[req[t].g].p = req[t].p
    /\ pc[t] \in {"check_indexer", "kill_indexer"} \cup PastIndexer =>
          proc[req[t].g]["miner"] = "null"

(* A listed group is its project's only one, and has its settings.         *)
Listed ==
    /\ \A g \in Registered : info[g] \in Info /\ row[info[g].p] = info[g].cfg
    /\ \A g, h \in Registered : info[g].p = info[h].p => g = h

SoloInv == Listed /\ NoOrphan /\ \A t \in Thread : Solo(t)

LEMMA SoloImplies ==
    ASSUME Sequential, IInv, SoloInv
    PROVE  UniqueGroup /\ RowAgrees /\ NoOrphan /\ ResetWhileStopped
<1>1. UniqueGroup
  BY DEF IInv, ChildInv, Own, Distinct, SoloInv, Listed, UniqueGroup, Registered, Range
<1>2. RowAgrees
  BY DEF SoloInv, Listed, RowAgrees
<1>3. ResetWhileStopped
  BY DEF Sequential, SoloInv, Solo, NoOrphan, ResetWhileStopped, Starting
<1> QED BY <1>1, <1>2, <1>3 DEF SoloInv

LEMMA SoloInit == Init => SoloInv
  BY ConstantsAssumption
  DEF Init, SoloInv, Listed, Solo, NoOrphan, SomeAlive, Alive, Role, Registered, Range,
      OnGroup, StopSteps, StartSteps, PastIndexer

(* The only request moves on without changing anything else.               *)
LEMMA SoloMove ==
    ASSUME Sequential, SoloInv, NEW t \in Thread, Solo(t)',
           UNCHANGED <<row, groups, info, proc, leaked>>,
           pc[t] \notin {"indexer", "add"}
    PROVE  SoloInv'
<1>1. \A u \in Thread : Solo(u)'
  BY DEF Sequential
<1>2. Listed'
  BY DEF SoloInv, Listed, Registered
<1>3. NoOrphan'
  BY DEF Sequential, SoloInv, NoOrphan, SomeAlive, Alive, Registered, Starting
<1> QED BY <1>1, <1>2, <1>3 DEF SoloInv

LEMMA SoloIdle ==
    ASSUME NEW t \in Thread, pc'[t] = "idle" PROVE Solo(t)'
  BY DEF Solo, OnGroup, StopSteps, StartSteps, PastIndexer

LEMMA FinishIdle ==
    ASSUME Control, NEW t \in Thread, Finish(t) PROVE pc'[t] = "idle"
  BY DEF Control, Finish, Goto

(* The same request with another group in hand.                            *)
LEMMA HoldKeeps ==
    ASSUME Control, NEW t \in Thread, NEW g \in Group \cup {Null}, pc[t] # "idle", Hold(t, g)
    PROVE  /\ req'[t].op = req[t].op /\ req'[t].p = req[t].p
           /\ req'[t].cfg = req[t].cfg /\ req'[t].g = g
<1>1. req[t] \in Request
  BY InProgress
<1>2. req'[t] = [req[t] EXCEPT !.g = g]
  BY DEF Control, Hold
<1> QED BY <1>1, <1>2, WithGroup

(* A Stop whose project has no group left in the list hands over.          *)
LEMMA SoloAfterStop ==
    ASSUME Control, NEW t \in Thread, pc[t] \in {"find", "remove"}, Solo(t),
           \A g \in Registered' : info'[g].p # req[t].p,
           UNCHANGED row, AfterStop(t)
    PROVE  Solo(t)'
<1>1. CASE Finish(t)
  BY <1>1, FinishIdle, SoloIdle
<1>2. ASSUME NEW step \in {"lookup", "reset", "save"}, Goto(t, step), Hold(t, Null),
             step = "lookup" => req[t].op = "restart"
      PROVE  Solo(t)'
  <2>1. /\ pc'[t] = step /\ req'[t].op = req[t].op /\ req'[t].p = req[t].p
        /\ req'[t].cfg = req[t].cfg
    BY <1>2, HoldKeeps DEF Control, Goto
  <2> QED BY <1>2, <2>1 DEF Solo, OnGroup, StopSteps, StartSteps, PastIndexer
<1> QED BY <1>1, <1>2 DEF AfterStop

LEMMA SoloStep == Sequential /\ IInv /\ SoloInv /\ [Next]_vars => SoloInv'
<1> SUFFICES ASSUME Sequential, IInv, SoloInv, [Next]_vars PROVE SoloInv'
  OBVIOUS
<1>0. Control /\ Data /\ ChildInv /\ Registered \subseteq Group
  BY RangeOfSeq DEF IInv, TypeInv, Data, Registered
<1>s. \A t \in Thread : Solo(t) /\ (pc[t] # "idle" => req[t] \in Request)
  BY <1>0, InProgress DEF SoloInv
<1> USE <1>0
<1>1. ASSUME NEW t \in Thread, Begin(t) PROVE SoloInv'
  <2>1. PICK o \in Op, p \in Project, c \in Cfg :
           /\ pc[t] = "idle" /\ row[p] # Null /\ (o # "edit" => c = row[p])
           /\ Goto(t, EntryOf[o])
           /\ req' = [req EXCEPT ![t] = [op |-> o, p |-> p, cfg |-> c, g |-> Null]]
    BY <1>1 DEF Begin
  <2>2. /\ pc'[t] = EntryOf[o] /\ row' = row
        /\ req'[t] = [op |-> o, p |-> p, cfg |-> c, g |-> Null]
    BY <1>1, <2>1 DEF Control, Goto, Begin
  <2>3. /\ EntryOf[o] \in {"lookup", "find_miner", "find_unmine", "find"}
        /\ EntryOf[o] = "lookup" => o = "start"
    BY DEF EntryOf, Op
  <2>4. Solo(t)'
    BY <2>1, <2>2, <2>3 DEF Solo, OnGroup, StopSteps, StartSteps, PastIndexer
  <2> QED BY <1>1, <2>1, <2>4, SoloMove DEF Begin
<1>2. ASSUME NEW t \in Thread,
             StartLookup(t) \/ StartCheckPorts(t) \/ ResetData(t) PROVE SoloInv'
  <2>1. CASE Finish(t)
    BY <1>2, <2>1, FinishIdle, SoloIdle, SoloMove
    DEF StartLookup, StartCheckPorts, ResetData
  <2>2. ASSUME NEW step \in {"ports", "node", "save"}, Goto(t, step), UNCHANGED req,
               \A g \in Registered : info[g].p # req[t].p,
               step # "save" => pc[t] \in StartSteps, pc[t] # "idle",
               UNCHANGED <<row, groups, info>>
        PROVE  Solo(t)'
    <3>1. pc'[t] = step
      BY <2>2 DEF Control, Goto
    <3> QED BY <1>s, <2>2, <3>1
            DEF Solo, Registered, OnGroup, StopSteps, StartSteps, PastIndexer
  <2>3. ASSUME StartLookup(t), ~Finish(t) PROVE Solo(t)'
    <3>1. \A g \in Registered : info[g].p # req[t].p
      BY <2>3, GroupForFinds, NullAssumption DEF StartLookup, Data
    <3> QED BY <2>2, <2>3, <3>1 DEF StartLookup, StartSteps
  <2>4. ASSUME StartCheckPorts(t) \/ ResetData(t), ~Finish(t) PROVE Solo(t)'
    <3>1. \A g \in Registered : info[g].p # req[t].p
      BY <1>s, <2>4 DEF StartCheckPorts, ResetData, Solo
    <3> QED BY <2>2, <2>4, <3>1 DEF StartCheckPorts, ResetData, StartSteps
  <2> QED BY <1>2, <2>1, <2>3, <2>4, SoloMove DEF StartLookup, StartCheckPorts, ResetData
<1>3. ASSUME NEW t \in Thread, StopFind(t) \/ StartMinerFind(t) \/ StopMinerFind(t)
      PROVE  SoloInv'
  <2> DEFINE g == GroupFor(req[t].p)
  <2>1. /\ pc[t] \in {"find", "find_miner", "find_unmine"}
        /\ UNCHANGED <<row, groups, info, proc, leaked>>
    BY <1>3 DEF StopFind, StartMinerFind, StopMinerFind
  <2>2. CASE Finish(t)
    BY <2>1, <2>2, FinishIdle, SoloIdle, SoloMove
  <2>3. CASE g # Null /\ Hold(t, g)
             /\ (Goto(t, "check_miner") \/ Goto(t, "launch_miner"))
    <3>1. g \in Registered /\ info[g].p = req[t].p
      BY <2>3, GroupForFinds, NullAssumption DEF Data
    <3>2. /\ req'[t].op = req[t].op /\ req'[t].p = req[t].p
          /\ req'[t].cfg = req[t].cfg /\ req'[t].g = g
      BY <2>1, <2>3, <3>1, HoldKeeps
    <3>3. pc'[t] \in {"check_miner", "launch_miner"}
      BY <2>3 DEF Control, Goto
    <3>4. Solo(t)'
      BY <1>s, <2>1, <3>1, <3>2, <3>3
      DEF Solo, Registered, OnGroup, StopSteps, StartSteps, PastIndexer
    <3> QED BY <2>1, <3>4, SoloMove
  <2>4. CASE StopFind(t) /\ g = Null /\ AfterStop(t)
    <3>1. \A h \in Registered' : info'[h].p # req[t].p
      BY <2>1, <2>4, GroupForFinds, NullAssumption DEF Data, Registered
    <3>2. Solo(t)'
      BY <1>s, <2>1, <2>4, <3>1, SoloAfterStop DEF StopFind
    <3> QED BY <2>1, <3>2, SoloMove
  <2> QED BY <1>3, <2>2, <2>3, <2>4 DEF StopFind, StartMinerFind, StopMinerFind
<1>4. ASSUME NEW t \in Thread, NEW r \in Role, StopCheck(t, r) \/ StopKill(t, r)
      PROVE  SoloInv'
  <2> DEFINE g == req[t].g
  <2>1. /\ UNCHANGED <<row, groups, info, leaked>>
        /\ pc[t] \in {CheckStep[r], KillStep[r]}
    BY <1>4 DEF StopCheck, StopKill
  <2>2. /\ pc[t] \in OnGroup \ {"indexer", "add"} /\ pc[t] \in StopSteps \ {"find", "remove"}
        /\ g \in Group
    BY <2>1 DEF CheckStep, KillStep, Role, OnGroup, StopSteps, Control, Legal
  <2>3. \A h \in Group, x \in Role : proc'[h][x] \in {proc[h][x], "null"}
    BY <1>4, <2>2 DEF StopCheck, StopKill, Data
  <2>4. Stopped(t, r) => proc'[g][r] = "null"
    BY <1>4, <2>1, <2>2
    DEF StopCheck, StopKill, Data, Stopped, CheckStep, KillStep, Role, Control, Goto, Finish
  <2>5. Listed' /\ NoOrphan'
    <3>1. Listed'
      BY <2>1 DEF SoloInv, Listed, Registered
    <3>2. \A h \in Group, x \in Role : Alive(h, x)' => Alive(h, x)
      BY <2>3 DEF Alive
    <3>3. \A u \in Thread, h \in Group : ~Starting(u, h)
      BY <2>2 DEF Sequential, Starting, StopSteps
    <3> QED BY <2>1, <3>1, <3>2, <3>3 DEF SoloInv, NoOrphan, SomeAlive, Registered
  <2>6. Solo(t)'
    <3>1. CASE pc'[t] = "idle"
      BY <3>1, SoloIdle
    <3>2. CASE Goto(t, KillStep[r]) /\ UNCHANGED <<req, proc>> /\ pc[t] = CheckStep[r]
      <4>1. pc'[t] = KillStep[r]
        BY <3>2 DEF Control, Goto
      <4> QED BY <1>s, <2>1, <3>2, <4>1
              DEF Solo, Registered, CheckStep, KillStep, Role, OnGroup, StopSteps,
                  StartSteps, PastIndexer
    <3>3. CASE Stopped(t, r) /\ pc'[t] # "idle"
      <4>1. /\ req' = req /\ pc'[t] \in {"check_indexer", "check_node", "remove"}
            /\ r = "miner" <=> pc'[t] = "check_indexer"
        BY <3>3, FinishIdle DEF Stopped, Control, Goto
      <4>2. r # "miner" => proc[g]["miner"] = "null"
        <5>1. r # "miner" => pc[t] \in {"check_indexer", "kill_indexer"} \cup PastIndexer
          BY <2>1 DEF CheckStep, KillStep, PastIndexer, Role
        <5> QED BY <1>s, <5>1 DEF Solo
      <4>3. proc'[g]["miner"] = "null"
        BY <2>2, <2>3, <2>4, <3>3, <4>2 DEF Role
      <4> QED BY <1>s, <2>1, <2>2, <4>1, <4>3
              DEF Solo, Registered, OnGroup, StopSteps, StartSteps, PastIndexer
    <3> QED BY <1>4, <3>1, <3>2, <3>3 DEF StopCheck, StopKill
  <2> QED BY <2>5, <2>6 DEF Sequential, SoloInv
<1>5. ASSUME NEW t \in Thread, NEW r \in Role, StopKillNull(t, r) PROVE SoloInv'
  BY <1>5, FinishIdle, SoloIdle, SoloMove DEF StopKillNull, KillStep, Role
<1>6. ASSUME NEW t \in Thread, StopRemove(t) PROVE SoloInv'
  <2> DEFINE g == req[t].g
  <2>1. /\ pc[t] = "remove" /\ Registered' = Registered \ {g} /\ AfterStop(t)
        /\ UNCHANGED <<row, proc, leaked>>
        /\ info' = info \/ info' = [info EXCEPT ![g] = Null]
    BY <1>6, RemoveFirstProperties DEF StopRemove, Registered, Data, ChildInv, Own
  <2>2. /\ g \in Registered /\ info[g].p = req[t].p /\ proc[g]["miner"] = "null"
        /\ proc[g]["node"] = "null" /\ proc[g]["indexer"] = "null"
    BY <1>s, <2>1 DEF Solo, OnGroup, StopSteps, PastIndexer, ChildInv, Done
  <2>3. \A h \in Registered \ {g} : info'[h] = info[h]
    BY <2>1 DEF Data
  <2>4. Listed'
    BY <2>1, <2>3 DEF SoloInv, Listed
  <2>5. \A h \in Registered' : info'[h].p # req[t].p
    BY <2>1, <2>2, <2>3 DEF SoloInv, Listed
  <2>6. Solo(t)'
    BY <1>s, <2>1, <2>5, SoloAfterStop
  <2>7. NoOrphan'
    BY <2>1, <2>2 DEF Sequential, SoloInv, NoOrphan, SomeAlive, Alive, Role, Starting
  <2> QED BY <2>4, <2>6, <2>7 DEF Sequential, SoloInv
<1>7. ASSUME NEW t \in Thread, SaveRow(t) PROVE SoloInv'
  <2> DEFINE p == req[t].p
  <2>1. /\ pc[t] = "save" /\ pc'[t] = "idle" /\ UNCHANGED <<groups, info, proc, leaked>>
        /\ \A q \in Project \ {p} : row'[q] = row[q]
    BY <1>7, FinishIdle DEF SaveRow, Data
  <2>2. \A g \in Registered : info[g].p # p
    BY <1>s, <2>1 DEF Solo
  <2>3. Listed'
    BY <2>1, <2>2 DEF SoloInv, Listed, Registered, Info
  <2>4. NoOrphan'
    BY <2>1 DEF Sequential, SoloInv, NoOrphan, SomeAlive, Alive, Registered, Starting
  <2> QED BY <2>1, <2>3, <2>4, SoloIdle DEF Sequential, SoloInv
<1>8. ASSUME NEW t \in Thread, StartNode(t) PROVE SoloInv'
  <2>1. PICK g \in Group :
           /\ pc[t] = "node" /\ Fresh(g)
           /\ info' = [info EXCEPT ![g] = [p |-> req[t].p, cfg |-> req[t].cfg]]
           /\ proc' = [proc EXCEPT ![g] =
                          [r \in Role |-> IF r = "node" THEN "started" ELSE "null"]]
           /\ leaked' = leaked \ {g}
           /\ Hold(t, g) /\ Goto(t, "indexer")
           /\ UNCHANGED <<row, groups>>
    BY <1>8 DEF StartNode
  <2>2. /\ req'[t].op = req[t].op /\ req'[t].p = req[t].p
        /\ req'[t].cfg = req[t].cfg /\ req'[t].g = g /\ pc'[t] = "indexer"
    BY <2>1, HoldKeeps DEF Control, Goto
  <2>3. /\ g \notin Registered /\ Registered' = Registered
        /\ info'[g] = [p |-> req[t].p, cfg |-> req[t].cfg]
        /\ \A h \in Group \ {g} : info'[h] = info[h] /\ proc'[h] = proc[h]
    BY <2>1 DEF Fresh, Registered, Data
  <2>4. Listed'
    BY <2>1, <2>3 DEF SoloInv, Listed
  <2>5. Solo(t)'
    BY <1>s, <2>1, <2>2, <2>3 DEF Solo, OnGroup, StopSteps, StartSteps, PastIndexer
  <2>6. NoOrphan'
    <3> SUFFICES ASSUME NEW h \in Group, SomeAlive(h)', h # g
                 PROVE  h \in Registered' \cup leaked'
      BY <2>2 DEF NoOrphan, Starting
    <3>1. SomeAlive(h)
      BY <2>3 DEF SomeAlive, Alive
    <3>2. \A u \in Thread : ~Starting(u, h)
      BY <2>1 DEF Sequential, Starting
    <3> QED BY <2>1, <2>3, <3>1, <3>2 DEF SoloInv, NoOrphan
  <2> QED BY <2>4, <2>5, <2>6 DEF Sequential, SoloInv
<1>9. ASSUME NEW t \in Thread, StartIndexer(t) PROVE SoloInv'
  <2> DEFINE g == req[t].g
  <2>1. /\ pc[t] = "indexer" /\ pc'[t] = "add" /\ req' = req /\ g \in Group
        /\ UNCHANGED <<row, groups, info, leaked>>
    BY <1>9 DEF StartIndexer, Control, Goto, Legal, OnGroup
  <2>2. \A h \in Group \ {g} : proc'[h] = proc[h]
    BY <1>9 DEF StartIndexer, Data
  <2>3. Listed'
    BY <2>1 DEF SoloInv, Listed, Registered
  <2>4. Solo(t)'
    BY <1>s, <2>1 DEF Solo, Registered, OnGroup, StopSteps, StartSteps, PastIndexer
  <2>5. NoOrphan'
    BY <2>1, <2>2
    DEF Sequential, SoloInv, NoOrphan, SomeAlive, Alive, Registered, Starting
  <2> QED BY <2>3, <2>4, <2>5 DEF Sequential, SoloInv
<1>10. ASSUME NEW t \in Thread, StartAdd(t) PROVE SoloInv'
  <2> DEFINE g == req[t].g
  <2>1. /\ pc[t] = "add" /\ pc'[t] = "idle" /\ g \in Group /\ g \notin Registered
        /\ UNCHANGED <<row, info, proc, leaked>>
    BY <1>10, FinishIdle
    DEF StartAdd, Control, Legal, OnGroup, ChildInv, Own
  <2>2. Registered' = Registered \cup {g}
    BY <1>10, <2>1, AppendNew DEF StartAdd, Data, Registered, ChildInv, Own
  <2>3. /\ info[g] = [p |-> req[t].p, cfg |-> req[t].cfg] /\ row[req[t].p] = req[t].cfg
        /\ \A h \in Registered : info[h].p # req[t].p
    BY <1>s, <2>1 DEF Solo, StartSteps
  <2>4. info[g] \in Info
    BY <2>1, <2>3, InProgress DEF Info
  <2>5. Listed'
    BY <2>1, <2>2, <2>3, <2>4 DEF SoloInv, Listed
  <2>6. NoOrphan'
    BY <2>1, <2>2 DEF Sequential, SoloInv, NoOrphan, SomeAlive, Alive, Starting
  <2> QED BY <2>1, <2>5, <2>6, SoloIdle DEF Sequential, SoloInv
<1>11. ASSUME NEW t \in Thread, StartFails(t) PROVE SoloInv'
  <2>1. /\ pc'[t] = "idle" /\ pc[t] \in {"node", "indexer"}
        /\ UNCHANGED <<row, groups, info, proc>>
        /\ leaked' = IF pc[t] = "indexer" THEN leaked \cup {req[t].g} ELSE leaked
    BY <1>11, FinishIdle DEF StartFails
  <2>2. Listed'
    BY <2>1 DEF SoloInv, Listed, Registered
  <2>3. NoOrphan'
    BY <2>1 DEF Sequential, SoloInv, NoOrphan, SomeAlive, Alive, Registered, Starting
  <2> QED BY <2>1, <2>2, <2>3, SoloIdle DEF Sequential, SoloInv
<1>12. ASSUME NEW t \in Thread, LaunchMiner(t) PROVE SoloInv'
  <2> DEFINE g == req[t].g
  <2>1. /\ pc[t] = "launch_miner" /\ pc'[t] = "idle"
        /\ UNCHANGED <<row, groups, info, leaked>>
        /\ \A h \in Group \ {g} : proc'[h] = proc[h]
    BY <1>12, FinishIdle DEF LaunchMiner, Data
  <2>2. g \in Registered
    BY <1>s, <2>1 DEF Solo, OnGroup
  <2>3. Listed'
    BY <2>1 DEF SoloInv, Listed, Registered
  <2>4. NoOrphan'
    BY <2>1, <2>2
    DEF Sequential, SoloInv, NoOrphan, SomeAlive, Alive, Registered, Starting
  <2> QED BY <2>1, <2>3, <2>4, SoloIdle DEF Sequential, SoloInv
<1>13. ASSUME NEW g \in Group, NEW r \in Role, Bind(g, r) \/ Die(g, r) PROVE SoloInv'
  <2>1. UNCHANGED <<row, groups, info, pc, req, leaked>>
    BY <1>13 DEF Bind, Die
  <2>2. \A h \in Group, x \in Role :
           /\ Alive(h, x)' => Alive(h, x)
           /\ proc[h][x] = "null" => proc'[h][x] = "null"
    BY <1>13 DEF Data, Bind, Die, Alive
  <2>3. Listed'
    BY <2>1 DEF SoloInv, Listed, Registered
  <2>4. \A t \in Thread : Solo(t)'
    <3> TAKE t \in Thread
    <3>1. pc[t] \in {"check_indexer", "kill_indexer"} \cup PastIndexer =>
             req[t].g \in Group /\ "miner" \in Role
      BY DEF Control, Legal, OnGroup, PastIndexer, StopSteps, Role
    <3> QED BY <1>s, <2>1, <2>2, <3>1 DEF Solo, Registered
  <2>5. NoOrphan'
    BY <2>1, <2>2 DEF SoloInv, NoOrphan, SomeAlive, Registered, Starting
  <2> QED BY <2>3, <2>4, <2>5 DEF SoloInv
<1>14. ASSUME NEW S \in SUBSET Group, Leak(S) PROVE SoloInv'
  <2>1. /\ groups' = <<>> /\ leaked' = S
        /\ \A g \in Group, r \in Role : Alive(g, r)' => g \in S
        /\ \A t \in Thread : pc'[t] = "idle"
    BY <1>14 DEF Leak, Alive
  <2> QED BY <2>1, SoloIdle DEF SoloInv, Listed, NoOrphan, SomeAlive, Registered, Range
<1>15. CASE UNCHANGED vars
  BY <1>15
  DEF vars, SoloInv, Listed, Solo, NoOrphan, SomeAlive, Alive, Registered, Starting
<1>16. \A t, u \in Thread : ~StartAddOverwritten(t, u)
  BY DEF Sequential, StartAddOverwritten
<1>17. {"node", "indexer"} \subseteq Role
  BY DEF Role
<1> QED
  BY <1>1, <1>2, <1>3, <1>4, <1>5, <1>6, <1>7, <1>8, <1>9, <1>10, <1>11, <1>12, <1>13,
     <1>14, <1>15, <1>16, <1>17
  DEF Next, Continue, StartStep, StopStep, Crash, AppExit

(* One request at a time: a project has one group, with the settings of    *)
(* its row; a child process that is not leaked is listed or being started; *)
(* and data is reset only while no child of the chain lives.               *)
THEOREM OneRequestAtATime ==
    ASSUME Sequential
    PROVE  Spec => [](UniqueGroup /\ RowAgrees /\ NoOrphan /\ ResetWhileStopped)
<1>1. Spec => []SoloInv
  <2>1. IInv /\ SoloInv /\ [Next]_vars => SoloInv'
    BY SoloStep
  <2> QED BY <2>1, SoloInit, ChildInvariance, PTL DEF Spec
<1>2. IInv /\ SoloInv => UniqueGroup /\ RowAgrees /\ NoOrphan /\ ResetWhileStopped
  BY SoloImplies
<1> QED BY <1>1, <1>2, ChildInvariance, PTL

(* If requests come one at a time no chain is in the list of groups twice
   (ProcessManager.Start tests IsRunning before it adds). *)
THEOREM ChainsAreListedOnce ==
    ASSUME Sequential
    PROVE  Spec => []UniqueGroup
BY OneRequestAtATime, PTL

(* If requests come one at a time a running chain has the settings its row
   has: an edit stops the chain before it saves (EditModel). *)
THEOREM ChainsAgreeWithRows ==
    ASSUME Sequential
    PROVE  Spec => []RowAgrees
BY OneRequestAtATime, PTL

(* If requests come one at a time the data of a chain is deleted only while
   no child of it runs (ProcessManager.ResetData). *)
THEOREM ResetsAreOfStoppedChains ==
    ASSUME Sequential
    PROVE  Spec => []ResetWhileStopped
BY OneRequestAtATime, PTL
=============================================================================
