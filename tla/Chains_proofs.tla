---------------------------- MODULE Chains_proofs ----------------------------
(***************************************************************************)
(* ProcessManager implements Chains as long as requests come one at a      *)
(* time, for any number of projects, groups, settings and faults.          *)
(***************************************************************************)
EXTENDS ProcessManager_proofs

-----------------------------------------------------------------------------
(* Invariants the step simulation rests on.                                *)

LEMMA SoloInvariance == ASSUME Sequential PROVE Spec => []SoloInv
<1>1. IInv /\ SoloInv /\ [Next]_vars => SoloInv'
  BY SoloStep
<1> QED BY <1>1, SoloInit, ChildInvariance, PTL DEF Spec

(* Only a chain of type Dev is about to get a miner.                       *)
DevOnly == \A t \in Thread : pc[t] = "launch_miner" => req[t].p \in DevChain

LEMMA DevOther ==
    ASSUME DevOnly, NEW t \in Thread, Others(t), pc'[t] # "launch_miner"
    PROVE  DevOnly'
  BY DEF DevOnly, Others

LEMMA DevStep == TypeInv /\ DevOnly /\ [Next]_vars => DevOnly'
<1> SUFFICES ASSUME TypeInv, DevOnly, [Next]_vars PROVE DevOnly'
  OBVIOUS
<1>0. Control /\ Data
  BY DEF TypeInv
<1> USE <1>0
<1>1. ASSUME NEW t \in Thread, Finish(t) PROVE DevOnly'
  BY <1>1, FinishLeaves, DevOther DEF Leaves, OnGroup
<1>2. ASSUME NEW t \in Thread, NEW step, Goto(t, step), UNCHANGED req, step # "launch_miner"
      PROVE  DevOnly'
  BY <1>2, GotoMoves, DevOther DEF Stays
<1>3. ASSUME NEW t \in Thread, NEW step, NEW g \in Group \cup {Null}, pc[t] # "idle",
             Goto(t, step), Hold(t, g), step # "launch_miner"
      PROVE  DevOnly'
  BY <1>3, HoldMoves, DevOther
<1>4. ASSUME NEW t \in Thread, pc[t] \in {"find", "remove"}, AfterStop(t) PROVE DevOnly'
  BY <1>4, AfterStopLeaves, DevOther DEF Leaves, OnGroup
<1>5. ASSUME NEW t \in Thread, NEW r \in Role, Stopped(t, r) PROVE DevOnly'
  BY <1>5, <1>1, <1>2 DEF Stopped
<1>6. ASSUME NEW t \in Thread, Begin(t) PROVE DevOnly'
  <2>1. PICK o \in Op : Goto(t, EntryOf[o])
    BY <1>6 DEF Begin
  <2>2. EntryOf[o] # "launch_miner"
    BY DEF EntryOf, Op
  <2>3. Others(t) /\ pc'[t] # "launch_miner"
    BY <1>6, <2>1, <2>2 DEF Begin, Goto, Control, Others
  <2> QED BY <2>3, DevOther
<1>7. ASSUME NEW t \in Thread, StartStep(t) PROVE DevOnly'
  <2>1. CASE StartNode(t)
    BY <1>3, <2>1 DEF StartNode
  <2> QED BY <1>1, <1>2, <1>7, <2>1
          DEF StartStep, StartLookup, StartCheckPorts, StartIndexer, StartAdd
<1>8. \A p \in Project : GroupFor(p) \in Group \cup {Null}
  BY GroupForFinds, NullAssumption, RangeOfSeq DEF Data, Registered
<1>9. ASSUME NEW t \in Thread, StopStep(t) PROVE DevOnly'
  <2>1. CASE StopFind(t)
    BY <1>3, <1>4, <1>8, <2>1, InProgress DEF StopFind
  <2>2. ASSUME NEW r \in Role, StopCheck(t, r) PROVE DevOnly'
    BY <1>2, <1>5, <2>2 DEF StopCheck, KillStep, Role
  <2> QED BY <1>1, <1>4, <1>5, <1>9, <2>1, <2>2
          DEF StopStep, StopKill, StopKillNull, StopRemove
<1>10. ASSUME NEW t \in Thread, StartMinerFind(t) PROVE DevOnly'
  <2>1. CASE Finish(t)
    BY <1>1, <2>1
  <2>2. CASE req[t].p \in DevChain /\ Hold(t, GroupFor(req[t].p)) /\ Goto(t, "launch_miner")
    <3>1. pc[t] # "idle" /\ GroupFor(req[t].p) \in Group \cup {Null}
      BY <1>8, <1>10, InProgress DEF StartMinerFind
    <3>2. Others(t) /\ req'[t].p = req[t].p
      BY <2>2, <3>1, HoldMoves, HoldKeeps
    <3> QED BY <2>2, <3>2 DEF DevOnly, Others
  <2> QED BY <1>10, <2>1, <2>2 DEF StartMinerFind
<1>11. ASSUME NEW t \in Thread, StopMinerFind(t) PROVE DevOnly'
  BY <1>1, <1>3, <1>8, <1>11, InProgress DEF StopMinerFind
<1>12. ASSUME NEW t \in Thread,
              ResetData(t) \/ SaveRow(t) \/ LaunchMiner(t) \/ StartFails(t) PROVE DevOnly'
  BY <1>1, <1>2, <1>12 DEF ResetData, SaveRow, LaunchMiner, StartFails
<1>13. ASSUME NEW t \in Thread, NEW u \in Thread, StartAddOverwritten(t, u) PROVE DevOnly'
  BY <1>13 DEF StartAddOverwritten, DevOnly, Control
<1>14. ASSUME UNCHANGED <<pc, req>> PROVE DevOnly'
  BY <1>14 DEF DevOnly
<1>15. ASSUME NEW S, Leak(S) PROVE DevOnly'
  BY <1>15 DEF Leak, DevOnly
<1> QED
  BY <1>6, <1>7, <1>9, <1>10, <1>11, <1>12, <1>13, <1>14, <1>15
  DEF Next, Continue, Bind, Die, Crash, AppExit, vars

LEMMA DevInvariance == Spec => []DevOnly
<1>1. Init => DevOnly
  BY DEF Init, DevOnly
<1> QED BY <1>1, DevStep, TypeInvariance, PTL DEF Spec

-----------------------------------------------------------------------------
(* The abstract state, and which groups stand behind it.                   *)

Live == [p \in Project |-> LiveChildren(p)]

(* The group of a living child that is not leaked is listed, or is being   *)
(* started by the only request; and it is its project's only such group.   *)
LEMMA LiveGroups ==
    ASSUME Sequential, IInv, SoloInv, NEW g \in Group \ leaked, SomeAlive(g)
    PROVE  /\ info[g] \in Info
           /\ \/ g \in Registered
              \/ \E t \in Thread : Starting(t, g) /\ info[g].p = req[t].p
           /\ \A h \in Group \ leaked : SomeAlive(h) /\ info[h].p = info[g].p => g = h
<1>0. Control /\ Data
  BY DEF IInv, TypeInv
<1>1. ASSUME NEW h \in Group \ leaked, SomeAlive(h), h \notin Registered
      PROVE  \E t \in Thread : /\ Starting(t, h) /\ info[h] \in Info
                               /\ info[h].p = req[t].p
                               /\ \A x \in Registered : info[x].p # req[t].p
  <2>1. PICK t \in Thread : Starting(t, h)
    BY <1>1 DEF SoloInv, NoOrphan
  <2>2. /\ info[h] = [p |-> req[t].p, cfg |-> req[t].cfg]
        /\ \A x \in Registered : info[x].p # req[t].p
    BY <2>1 DEF SoloInv, Solo, Starting
  <2>3. req[t].p \in Project /\ req[t].cfg \in Cfg
    BY <1>0, <2>1, InProgress DEF Starting
  <2> QED BY <2>1, <2>2, <2>3 DEF Info
<1>2. info[g] \in Info
  BY <1>1 DEF SoloInv, Listed
<1>3. ASSUME NEW h \in Group \ leaked, SomeAlive(h), info[h].p = info[g].p
      PROVE  g = h
  <2>1. CASE g \in Registered /\ h \in Registered
    BY <1>3, <2>1 DEF SoloInv, Listed
  <2>2. CASE g \notin Registered
    BY <1>1, <1>3, <2>2 DEF Sequential, Starting
  <2>3. CASE h \notin Registered
    BY <1>1, <1>3, <2>3 DEF Sequential, Starting
  <2> QED BY <2>1, <2>2, <2>3
<1> QED BY <1>1, <1>2, <1>3

(* A step that touches one project's children only.                        *)
LEMMA LiveChange ==
    ASSUME NEW q \in Project, NEW kids,
           \A p \in Project \ {q} : LiveChildren(p)' = LiveChildren(p),
           LiveChildren(q)' = kids
    PROVE  Live' = [Live EXCEPT ![q] = kids]
  BY DEF Live

LEMMA LiveStutter ==
    ASSUME UNCHANGED <<info, proc, leaked>>
    PROVE  Live' = Live
  BY DEF Live, LiveChildren, Alive

LEMMA UpStutter ==
    ASSUME UNCHANGED <<info, groups>>
    PROVE  UpChains' = UpChains
  BY DEF UpChains, Registered

Stutters == row' = row /\ UpChains' = UpChains /\ Live' = Live

-----------------------------------------------------------------------------
(* The steps, one lemma for each that the abstraction sees.                *)

(* A child of one group changes its state, and does not come to life.      *)
LEMMA ChildEndsStep ==
    ASSUME Sequential, IInv, SoloInv, NEW g \in Group, NEW r \in Role, NEW v \in PState,
           proc' = [proc EXCEPT ![g][r] = v], v \in {"started", "up"} => Alive(g, r),
           UNCHANGED <<row, groups, info, leaked>>
    PROVE  Stutters \/ \E q \in Project : Promise!ChildEnds(q, r)
<1>0. Data
  BY DEF IInv, TypeInv
<1>1. /\ \A h \in Group, x \in Role : <<h, x>> # <<g, r>> => Alive(h, x)' = Alive(h, x)
      /\ Alive(g, r)' <=> v \in {"started", "up"}
  BY <1>0 DEF Alive, Data
<1>2. UpChains' = UpChains
  BY UpStutter
<1>3. CASE (Alive(g, r) /\ v \in {"started", "up"}) \/ ~Alive(g, r) \/ g \in leaked
  <2>1. \A p : LiveChildren(p)' = LiveChildren(p)
    BY <1>1, <1>3 DEF LiveChildren
  <2> QED BY <1>2, <2>1 DEF Live, Stutters
<1>4. CASE Alive(g, r) /\ v \notin {"started", "up"} /\ g \notin leaked
  <2> DEFINE q == info[g].p
  <2>1. SomeAlive(g)
    BY <1>4 DEF SomeAlive
  <2>2. q \in Project
    BY <1>4, <2>1, LiveGroups DEF Info
  <2>3. \A h \in Group \ leaked : SomeAlive(h) /\ info[h].p = q => g = h
    BY <1>4, <2>1, LiveGroups
  <2>4. \A p \in Project \ {q} : LiveChildren(p)' = LiveChildren(p)
    BY <1>1 DEF LiveChildren
  <2>5. LiveChildren(q)' = LiveChildren(q) \ {r}
    BY <1>1, <1>4, <2>3 DEF LiveChildren, SomeAlive
  <2>6. Live' = [Live EXCEPT ![q] = LiveChildren(q) \ {r}] /\ Live[q] = LiveChildren(q)
    BY <2>2, <2>4, <2>5, LiveChange DEF Live
  <2> QED BY <1>2, <2>2, <2>6 DEF Promise!ChildEnds, Live
<1> QED BY <1>3, <1>4

LEMMA NodeStartsStep ==
    ASSUME Sequential, IInv, SoloInv, NEW t \in Thread, StartNode(t)
    PROVE  \E q \in Project : Promise!NodeStarts(q)
<1>0. Control /\ Data /\ Solo(t)
  BY DEF IInv, TypeInv, SoloInv
<1>q. PICK q : q = req[t].p
  OBVIOUS
<1>1. PICK g \in Group :
        /\ pc[t] = "node" /\ Fresh(g)
        /\ info' = [info EXCEPT ![g] = [p |-> q, cfg |-> req[t].cfg]]
        /\ proc' = [proc EXCEPT ![g] = [r \in Role |-> IF r = "node" THEN "started" ELSE "null"]]
        /\ leaked' = leaked \ {g}
        /\ UNCHANGED <<row, groups>>
  BY <1>q DEF StartNode
<1>2. /\ q \in Project /\ row[q] # Null
      /\ \A h \in Registered : info[h].p # q
  BY <1>q, <1>0, <1>1, InProgress DEF Solo
<1>3. q \notin UpChains
  BY <1>2 DEF UpChains
<1>4. /\ \A h \in Group \ {g} : info'[h] = info[h] /\ \A r \in Role : Alive(h, r)' = Alive(h, r)
      /\ info'[g].p = q
      /\ \A r \in Role : Alive(g, r)' <=> r = "node"
      /\ \A r \in Role : ~Alive(g, r)
  BY <1>0, <1>1 DEF Data, Alive, Fresh, SomeAlive
<1>5. LiveChildren(q) = {}
  BY <1>1, <1>2, LiveGroups DEF LiveChildren, SomeAlive, Starting, Sequential
<1>6. LiveChildren(q)' = {"node"}
  <2>1. \A h \in Group \ leaked', r \in Role :
           Alive(h, r)' /\ info'[h].p = q => h = g /\ r = "node"
    BY <1>1, <1>4, <1>5 DEF LiveChildren
  <2>2. g \in Group \ leaked' /\ "node" \in Role
    BY <1>1 DEF Role
  <2> QED BY <1>4, <2>1, <2>2 DEF LiveChildren
<1>7. \A p \in Project \ {q} : LiveChildren(p)' = LiveChildren(p)
  BY <1>1, <1>4 DEF LiveChildren
<1>8. Live' = [Live EXCEPT ![q] = {"node"}] /\ Live[q] = {}
  BY <1>2, <1>5, <1>6, <1>7, LiveChange DEF Live
<1>9. UpChains' = UpChains
  BY <1>1, <1>4 DEF UpChains, Registered, Fresh
<1> QED BY <1>1, <1>2, <1>3, <1>8, <1>9 DEF Promise!NodeStarts, Live

LEMMA IndexerStartsStep ==
    ASSUME Sequential, IInv, SoloInv, NEW t \in Thread, StartIndexer(t)
    PROVE  \E q \in Project : Promise!IndexerStarts(q)
<1>0. Control /\ Data /\ Solo(t) /\ Own
  BY DEF IInv, TypeInv, SoloInv, ChildInv
<1>1. PICK q, g : q = req[t].p /\ g = req[t].g
  OBVIOUS
<1>2. /\ pc[t] = "indexer" /\ g \in Group /\ g \notin leaked
      /\ q \in Project /\ info[g].p = q
      /\ \A h \in Registered : info[h].p # q
  BY <1>0, <1>1, InProgress DEF StartIndexer, Control, Legal, OnGroup, Own, Solo
<1>3. /\ Alive(g, "indexer")'
      /\ \A h \in Group, r \in Role : h # g \/ r # "indexer" => Alive(h, r)' = Alive(h, r)
  BY <1>0, <1>1, <1>2 DEF StartIndexer, Data, Alive, Role
<1>4. UNCHANGED <<row, groups, info, leaked>>
  BY DEF StartIndexer
<1>5. LiveChildren(q)' = LiveChildren(q) \cup {"indexer"}
  BY <1>2, <1>3, <1>4 DEF LiveChildren, Role
<1>6. \A p \in Project \ {q} : LiveChildren(p)' = LiveChildren(p)
  BY <1>2, <1>3, <1>4 DEF LiveChildren
<1>7. Live' = [Live EXCEPT ![q] = LiveChildren(q) \cup {"indexer"}] /\ Live[q] = LiveChildren(q)
  BY <1>2, <1>5, <1>6, LiveChange DEF Live
<1>8. UpChains' = UpChains /\ q \notin UpChains
  BY <1>2, <1>4, UpStutter DEF UpChains
<1> QED BY <1>2, <1>4, <1>7, <1>8 DEF Promise!IndexerStarts, Live

LEMMA GoesUpStep ==
    ASSUME Sequential, IInv, SoloInv, NEW t \in Thread, StartAdd(t)
    PROVE  \E q \in Project : Promise!GoesUp(q)
<1>0. Control /\ Data /\ Solo(t) /\ Own
  BY DEF IInv, TypeInv, SoloInv, ChildInv
<1>1. PICK q, g : q = req[t].p /\ g = req[t].g
  OBVIOUS
<1>2. /\ pc[t] = "add" /\ g \in Group /\ g \notin Registered
      /\ q \in Project /\ info[g].p = q
      /\ \A h \in Registered : info[h].p # q
  BY <1>0, <1>1, InProgress DEF StartAdd, Control, Legal, OnGroup, Own, Solo
<1>3. Registered' = Registered \cup {g}
  BY <1>0, <1>1, <1>2, AppendNew DEF StartAdd, Data, Own, Registered
<1>4. UpChains' = UpChains \cup {q} /\ q \notin UpChains
  BY <1>2, <1>3 DEF UpChains, StartAdd
<1>5. Live' = Live
  BY LiveStutter DEF StartAdd
<1> QED BY <1>2, <1>4, <1>5 DEF Promise!GoesUp, Live, StartAdd

LEMMA MinerStartsStep ==
    ASSUME Sequential, IInv, SoloInv, DevOnly, NEW t \in Thread, LaunchMiner(t)
    PROVE  \E q \in Project : Promise!MinerStarts(q)
<1>0. Control /\ Data /\ Solo(t) /\ Own
  BY DEF IInv, TypeInv, SoloInv, ChildInv
<1>1. PICK q, g : q = req[t].p /\ g = req[t].g
  OBVIOUS
<1>2. /\ g \in Group /\ g \notin leaked /\ g \in Registered
      /\ q \in Project /\ q \in DevChain /\ info[g].p = q
  BY <1>0, <1>1, InProgress DEF LaunchMiner, Control, Legal, OnGroup, Own, Solo, DevOnly
<1>3. /\ Alive(g, "miner")'
      /\ \A h \in Group, r \in Role : h # g \/ r # "miner" => Alive(h, r)' = Alive(h, r)
  BY <1>0, <1>1, <1>2 DEF LaunchMiner, Data, Alive, Role
<1>4. UNCHANGED <<row, groups, info, leaked>>
  BY DEF LaunchMiner
<1>5. LiveChildren(q)' = LiveChildren(q) \cup {"miner"}
  BY <1>2, <1>3, <1>4 DEF LiveChildren, Role
<1>6. \A p \in Project \ {q} : LiveChildren(p)' = LiveChildren(p)
  BY <1>2, <1>3, <1>4 DEF LiveChildren
<1>7. Live' = [Live EXCEPT ![q] = LiveChildren(q) \cup {"miner"}] /\ Live[q] = LiveChildren(q)
  BY <1>2, <1>5, <1>6, LiveChange DEF Live
<1>8. UpChains' = UpChains /\ q \in UpChains
  BY <1>2, <1>4, UpStutter DEF UpChains
<1> QED BY <1>2, <1>4, <1>7, <1>8 DEF Promise!MinerStarts, Live

LEMMA GoesDownStep ==
    ASSUME Sequential, IInv, SoloInv, NEW t \in Thread, StopRemove(t)
    PROVE  \E q \in Project : Promise!GoesDown(q)
<1>0. Control /\ Data /\ Solo(t) /\ Own /\ Done /\ Listed
  BY DEF IInv, TypeInv, SoloInv, ChildInv
<1>1. PICK q, g : q = req[t].p /\ g = req[t].g
  OBVIOUS
<1>2. /\ pc[t] = "remove" /\ g \in Group /\ g \in Registered
      /\ q \in Project /\ info[g].p = q
  BY <1>0, <1>1, InProgress DEF StopRemove, Control, Legal, OnGroup, StopSteps, Own, Solo
<1>3. ~SomeAlive(g)
  <2>1. proc[g]["indexer"] = "null" /\ proc[g]["node"] = "null" /\ proc[g]["miner"] = "null"
    BY <1>0, <1>1, <1>2 DEF Done, Solo, PastIndexer
  <2> QED BY <2>1 DEF SomeAlive, Alive, Role
<1>4. Registered' = Registered \ {g}
  BY <1>0, <1>1, RemoveFirstProperties DEF StopRemove, Data, Own, Registered
<1>5. /\ \A h \in Group \ {g} : info'[h] = info[h]
      /\ UNCHANGED <<row, proc, leaked>>
  BY <1>0, <1>1 DEF StopRemove, Data
<1>6. \A h \in Registered : info[h].p = q => h = g
  BY <1>0, <1>2 DEF Listed
<1>7. UpChains' = UpChains \ {q} /\ q \in UpChains
  <2>1. Registered \subseteq Group
    BY <1>0, RangeOfSeq DEF Data, Registered
  <2>2. \A h \in Registered' : info'[h] = info[h] /\ h \in Registered /\ info[h].p # q
    BY <1>4, <1>5, <1>6, <2>1
  <2>3. \A h \in Registered : h \in Registered' \/ info[h].p = q
    BY <1>2, <1>4
  <2> QED BY <1>2, <2>2, <2>3 DEF UpChains
<1>8. LiveChildren(q) = {}
  <2> SUFFICES ASSUME NEW h \in Group \ leaked, SomeAlive(h), info[h].p = q PROVE FALSE
    BY DEF LiveChildren, SomeAlive
  <2>1. h \in Registered
    BY <1>2, LiveGroups DEF Starting, Sequential
  <2> QED BY <1>3, <1>6, <2>1
<1>9. Live' = Live
  <2>1. \A p : LiveChildren(p)' = LiveChildren(p)
    BY <1>3, <1>5 DEF LiveChildren, SomeAlive, Alive
  <2> QED BY <2>1 DEF Live
<1> QED BY <1>2, <1>5, <1>7, <1>8, <1>9 DEF Promise!GoesDown, Live

LEMMA ChangesStep ==
    ASSUME Sequential, IInv, SoloInv, NEW t \in Thread, SaveRow(t)
    PROVE  \E q \in Project : Promise!Changes(q)
<1>0. Control /\ Data /\ Solo(t)
  BY DEF IInv, TypeInv, SoloInv
<1>1. PICK q : q = req[t].p
  OBVIOUS
<1>2. /\ pc[t] = "save" /\ q \in Project /\ req[t].cfg \in Cfg
      /\ \A h \in Registered : info[h].p # q
  BY <1>0, <1>1, InProgress DEF SaveRow, Solo
<1>3. \E c \in Cfg \cup {Null} : row' = [row EXCEPT ![q] = c]
  BY <1>0, <1>1, <1>2 DEF SaveRow, Data
<1>4. LiveChildren(q) = {}
  BY <1>2, LiveGroups DEF LiveChildren, SomeAlive, Starting, Sequential
<1>5. UpChains' = UpChains /\ q \notin UpChains /\ Live' = Live
  BY <1>2, UpStutter, LiveStutter DEF UpChains, SaveRow
<1> QED BY <1>2, <1>3, <1>4, <1>5 DEF Promise!Changes, Live

LEMMA LosesStep ==
    ASSUME Sequential, IInv, SoloInv, NEW t \in Thread, StartFails(t)
    PROVE  Stutters \/ \E q \in Project : Promise!Loses(q)
<1>0. Control /\ Data /\ Solo(t)
  BY DEF IInv, TypeInv, SoloInv
<1>1. PICK q, g : q = req[t].p /\ g = req[t].g
  OBVIOUS
<1>2. UNCHANGED <<row, groups, info, proc>> /\ UpChains' = UpChains
  BY UpStutter DEF StartFails
<1>3. CASE pc[t] = "node"
  BY <1>2, <1>3, LiveStutter DEF StartFails, Stutters
<1>4. CASE pc[t] = "indexer"
  <2>1. /\ g \in Group /\ q \in Project /\ info[g].p = q
        /\ \A h \in Registered : info[h].p # q
        /\ leaked' = leaked \cup {g}
    BY <1>0, <1>1, <1>4, InProgress DEF StartFails, Control, Legal, OnGroup, Solo
  <2>2. LiveChildren(q)' = {}
    BY <1>1, <1>2, <1>4, <2>1, LiveGroups
    DEF LiveChildren, SomeAlive, Starting, Sequential, Alive
  <2>3. \A p \in Project \ {q} : LiveChildren(p)' = LiveChildren(p)
    BY <1>2, <2>1 DEF LiveChildren, Alive
  <2>4. Live' = [Live EXCEPT ![q] = {}] /\ q \notin UpChains
    BY <2>1, <2>2, <2>3, LiveChange DEF UpChains
  <2> QED BY <1>2, <2>1, <2>4 DEF Promise!Loses, Live
<1> QED BY <1>3, <1>4 DEF StartFails

LEMMA EndsStep ==
    ASSUME IInv, NEW S \in SUBSET Group, Leak(S)
    PROVE  Promise!Ends
<1>0. Data
  BY DEF IInv, TypeInv
<1>1. groups' = <<>> /\ leaked' = S /\ row' = row
  BY DEF Leak
<1>2. \A g \in Group, r \in Role : Alive(g, r)' => g \in S
  BY DEF Leak, Alive
<1>3. UpChains' = {}
  BY <1>1 DEF UpChains, Registered, Range
<1>4. \A p : LiveChildren(p)' = {}
  BY <1>1, <1>2 DEF LiveChildren
<1> QED BY <1>1, <1>3, <1>4 DEF Promise!Ends

-----------------------------------------------------------------------------
(* Every step of ProcessManager is a step of Chains or a stutter.          *)

LEMMA StepSimulation ==
    ASSUME Sequential
    PROVE  IInv /\ SoloInv /\ DevOnly /\ [Next]_vars => [Promise!ChainsNext]_(Promise!chainVars)
<1> SUFFICES ASSUME IInv, SoloInv, DevOnly, [Next]_vars
             PROVE  Promise!ChainsNext \/ Stutters
  BY DEF Promise!chainVars, Stutters, Live
<1>0. Control /\ Data
  BY DEF IInv, TypeInv
<1>1. ASSUME UNCHANGED <<row, groups, info, proc, leaked>> PROVE Stutters
  BY <1>1, UpStutter, LiveStutter DEF Stutters
<1>2. ASSUME NEW t \in Thread, Begin(t) PROVE Stutters
  BY <1>1, <1>2 DEF Begin
<1>3. ASSUME NEW t \in Thread, StartStep(t) PROVE Promise!ChainsNext \/ Stutters
  BY <1>1, <1>3, NodeStartsStep, IndexerStartsStep, GoesUpStep
  DEF StartStep, StartLookup, StartCheckPorts, Promise!ChainsNext
<1>4. ASSUME NEW t \in Thread, StopStep(t) PROVE Promise!ChainsNext \/ Stutters
  <2>1. ASSUME NEW r \in Role, StopKill(t, r) PROVE Promise!ChainsNext \/ Stutters
    <3>1. /\ req[t].g \in Group /\ "null" \in PState /\ r \in Promise!Child
          /\ proc' = [proc EXCEPT ![req[t].g][r] = "null"]
          /\ UNCHANGED <<row, groups, info, leaked>>
      BY <1>0, <2>1 DEF StopKill, KillStep, Role, Control, Legal, OnGroup, StopSteps, PState, Promise!Child
    <3> QED BY <3>1, ChildEndsStep DEF Promise!ChainsNext
  <2> QED BY <1>1, <1>4, <2>1, GoesDownStep
          DEF StopStep, StopFind, StopCheck, StopKillNull, Promise!ChainsNext
<1>5. ASSUME NEW t \in Thread,
             ResetData(t) \/ StartMinerFind(t) \/ StopMinerFind(t) PROVE Stutters
  BY <1>1, <1>5 DEF ResetData, StartMinerFind, StopMinerFind
<1>6. ASSUME NEW t \in Thread, SaveRow(t) \/ LaunchMiner(t) \/ StartFails(t)
      PROVE  Promise!ChainsNext \/ Stutters
  BY <1>6, ChangesStep, MinerStartsStep, LosesStep DEF Promise!ChainsNext
<1>7. ASSUME NEW g \in Group, NEW r \in Role, Bind(g, r) \/ Die(g, r)
      PROVE  Promise!ChainsNext \/ Stutters
  <2>1. PICK v \in PState :
           /\ proc' = [proc EXCEPT ![g][r] = v]
           /\ v \in {"started", "up"} => Alive(g, r)
           /\ UNCHANGED <<row, groups, info, leaked>>
    BY <1>7 DEF Bind, Die, Alive, PState
  <2>2. r \in Promise!Child
    BY DEF Role, Promise!Child
  <2>3. Stutters \/ \E q \in Project : Promise!ChildEnds(q, r)
    BY <2>1, ChildEndsStep
  <2> QED BY <2>2, <2>3 DEF Promise!ChainsNext
<1>8. ASSUME NEW S \in SUBSET Group, Leak(S) PROVE Promise!ChainsNext
  BY <1>8, EndsStep DEF Promise!ChainsNext
<1>9. CASE UNCHANGED vars
  BY <1>1, <1>9 DEF vars
<1>10. \A t, u \in Thread : ~StartAddOverwritten(t, u)
  BY DEF Sequential, StartAddOverwritten
<1>11. {"node", "indexer"} \subseteq Role
  BY DEF Role
<1> QED BY <1>2, <1>3, <1>4, <1>5, <1>6, <1>7, <1>8, <1>9, <1>10, <1>11
        DEF Next, Continue, Crash, AppExit

LEMMA InitSimulation == Init => Promise!ChainsInit
<1> SUFFICES ASSUME Init PROVE Promise!ChainsInit
  OBVIOUS
<1>1. UpChains = {} /\ \A p : LiveChildren(p) = {}
  BY DEF Init, UpChains, LiveChildren, Registered, Range, Alive, Role
<1> QED BY <1>1 DEF Init, Promise!ChainsInit

(* One request at a time, the controller is a set of chains that are up or *)
(* down: every step of a request, a child or the application is a step of  *)
(* Chains or changes nothing there, so that no chain gets a second node,   *)
(* goes down with a child alive or has its row changed under it.           *)
THEOREM ChainsAreImplemented ==
    ASSUME Sequential
    PROVE  Spec => ImplementsChains
<1>1. IInv /\ SoloInv /\ DevOnly /\ [Next]_vars => [Promise!ChainsNext]_(Promise!chainVars)
  BY StepSimulation
<1> QED BY <1>1, InitSimulation, ChildInvariance, SoloInvariance, DevInvariance, PTL
        DEF Spec, ImplementsChains, Promise!ChainsSpec
=============================================================================
