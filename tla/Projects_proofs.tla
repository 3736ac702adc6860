---------------------------- MODULE Projects_proofs ----------------------------
(***************************************************************************)
(* Theorems about Projects, for any number of projects and of requests     *)
(* that overlap.                                                           *)
(***************************************************************************)
EXTENDS Projects, TLAPS, WellFoundedInduction

-----------------------------------------------------------------------------
(* The first of a set of projects.                                         *)

LEMMA Least ==
    ASSUME NEW S \in SUBSET Nat, S # {}
    PROVE  \E i \in S : \A j \in S : i <= j
<1> DEFINE R == OpToRel(<, Nat)
<1>1. IsWellFoundedOn(R, Nat)
  BY NatLessThanWellFounded
<1>2. \A x \in Nat, y \in Nat : <<y, x>> \in R <=> y < x
  BY DEF OpToRel
<1> HIDE DEF R
<1>3. \E x \in S : \A y \in S : ~(<<y, x>> \in R)
  BY <1>1, WFMin
<1>4. PICK x \in S : \A y \in S : ~(<<y, x>> \in R)
  BY <1>3
<1>5. \A y \in S : x <= y
  <2> SUFFICES ASSUME NEW y \in S  PROVE x <= y
    OBVIOUS
  <2>1. x \in Nat /\ y \in Nat
    OBVIOUS
  <2>2. ~(y < x)
    BY <1>2, <1>4, <2>1
  <2> QED BY <2>1, <2>2
<1> QED BY <1>5

LEMMA FirstLeast ==
    ASSUME NEW S \in SUBSET Id, S # {}
    PROVE  First(S) \in S /\ \A j \in S : First(S) <= j
<1>1. S \in SUBSET Nat
  BY ConstantsAssumption DEF Id
<1>2. \E i \in S : \A j \in S : i <= j
  BY <1>1, Least
<1> QED BY <1>2 DEF First

LEMMA FirstIs ==
    ASSUME NEW S \in SUBSET Id, NEW i \in S, \A j \in S : i <= j
    PROVE  First(S) = i
<1>1. First(S) \in S /\ First(S) <= i
  BY FirstLeast
<1>2. i <= First(S)
  BY <1>1
<1>3. i \in Id /\ First(S) \in Id
  BY <1>1
<1>4. \A j \in Id : j \in Int
  BY ConstantsAssumption DEF Id
<1> QED BY <1>1, <1>2, <1>3, <1>4

(* The active project is one of the projects, if there are any.            *)
LEMMA ActiveProjectListed ==
    ASSUME NEW v \in Table, Listed(v) # {}
    PROVE  ActiveProject(v) \in Listed(v)
<1>1. Listed(v) \in SUBSET Id /\ Active(v) \in SUBSET Listed(v)
  BY DEF Listed, Active
<1> QED BY <1>1, FirstLeast DEF ActiveProject

-----------------------------------------------------------------------------
(* Types.                                                                  *)

(* A request in progress has what its operation uses.                      *)
Formed(t) ==
    /\ pc[t] # "idle" => req[t] \in Request /\ (req[t].op \in Creating => req[t].id = Null)
    /\ pc[t] = "form" => req[t].op = "create" /\ req[t].ports \in Ports
    /\ pc[t] = "refresh" =>
          /\ req[t].op \in Activating
          /\ req[t].op = "quick_start" => req[t].ports \in Ports
    /\ pc[t] = "save" => (req[t].op \in Creating => req[t].ports \in Ports)
    /\ pc[t] \in {"refresh", "save"} => (req[t].op = "set_active" => req[t].id \in Id)
    /\ pc[t] = "save" =>
          /\ req[t].op \in {"delete", "edit"} \cup Denying => req[t].id \in Id
          /\ req[t].op = "edit" => view[t][req[t].id] \in Row /\ req[t].ports \in Ports
          /\ req[t].op \in Denying => req[t].item \in Deniable
          /\ req[t].op = "set_active" => view[t][req[t].id] # Null

TypeInv == TypeOK /\ nextId >= 1 /\ \A t \in Thread : Formed(t)

LEMMA NullIsNoRow == \A r \in Row : r # Null
BY ConstantsAssumption

LEMMA RowFields ==
    \A r \in Row : /\ r.ports \in Ports /\ r.active \in BOOLEAN
                   /\ \A b \in BOOLEAN : [r EXCEPT !.active = b] \in Row
                   /\ \A q \in Ports : [r EXCEPT !.ports = q] \in Row
BY DEF Row

LEMMA ViewType ==
    ASSUME NEW v \in Table
    PROVE  /\ \A i \in Listed(v) : v[i] \in Row
           /\ Listed(v) \subseteq Id /\ Active(v) \subseteq Listed(v)
BY DEF Table, Listed, Active

LEMMA OfferType ==
    ASSUME NEW v \in Table, NEW q \in Offer(v)
    PROVE  q \in Ports
<1>1. CASE Listed(v) = {}
  BY <1>1 DEF Offer, FirstPorts, Ports, Kind
<1>2. CASE Listed(v) # {}
  <2>1. PICK top \in [Kind -> Listed(v)] : q = [k \in Kind |-> v[top[k]].ports[k] + 3]
    BY <1>2 DEF Offer
  <2>2. \A k \in Kind : v[top[k]].ports[k] \in Nat
    BY <2>1, ViewType, RowFields DEF Ports
  <2> QED BY <2>1, <2>2 DEF Ports
<1> QED BY <1>1, <1>2

LEMMA TypeInit == Init => TypeInv
<1> SUFFICES ASSUME Init  PROVE TypeInv
  OBVIOUS
<1>1. Empty \in Table
  BY DEF Empty, Table
<1>2. row \in Table /\ nextId = 1 /\ \A i \in Id : row[i] = Null
  BY <1>1 DEF Init, Empty
<1>3. pc \in [Thread -> Step] /\ \A t \in Thread : pc[t] = "idle"
  BY DEF Init, Step
<1>4. denied \in [Deniable -> Id \cup {Null}] /\ req \in [Thread -> Request \cup {Null}]
  BY DEF Init
<1>5. view \in [Thread -> Table] /\ stale \subseteq Thread
      /\ raced \in BOOLEAN /\ edited \in BOOLEAN
  BY <1>1 DEF Init
<1>6. \A t \in Thread : Formed(t)
  BY <1>3 DEF Formed
<1> QED BY <1>2, <1>3, <1>4, <1>5, <1>6 DEF TypeInv, TypeOK

(* What the control operators leave as it should be.                       *)
LEMMA FinishType ==
    ASSUME TypeInv, NEW t \in Thread, Finish(t)
    PROVE  /\ pc' \in [Thread -> Step] /\ req' \in [Thread -> Request \cup {Null}]
           /\ view' \in [Thread -> Table]
           /\ \A u \in Thread : Formed(u)'
<1>1. Empty \in Table
  BY DEF Empty, Table
<1>2. pc' = [pc EXCEPT ![t] = "idle"] /\ req' = [req EXCEPT ![t] = Null]
      /\ view' = [view EXCEPT ![t] = Empty]
  BY DEF Finish, Goto
<1>3. pc' \in [Thread -> Step] /\ req' \in [Thread -> Request \cup {Null}]
      /\ view' \in [Thread -> Table]
  BY <1>1, <1>2 DEF TypeInv, TypeOK, Step
<1>4. ASSUME NEW u \in Thread  PROVE Formed(u)'
  <2>1. CASE u = t
    BY <1>2, <2>1 DEF Formed, TypeInv, TypeOK
  <2>2. CASE u # t
    <3>1. pc'[u] = pc[u] /\ req'[u] = req[u] /\ view'[u] = view[u]
      BY <1>2, <2>2 DEF TypeInv, TypeOK
    <3> QED BY <3>1 DEF Formed, TypeInv
  <2> QED BY <2>1, <2>2
<1> QED BY <1>3, <1>4

LEMMA AskType ==
    ASSUME TypeInv, NEW t \in Thread, NEW r \in Request, NEW v \in Table, NEW step \in Step,
           req' = [req EXCEPT ![t] = r], view' = [view EXCEPT ![t] = v], Goto(t, step),
           UNCHANGED <<db, stale, raced>>, edited' \in BOOLEAN,
           step = "form" => r.op = "create" /\ r.ports \in Ports,
           step = "refresh" => r.op \in Activating
                                /\ (r.op = "quick_start" => r.ports \in Ports),
           step = "save" => /\ r.op \in Creating => r.ports \in Ports
                            /\ r.op \in {"delete", "edit"} \cup Denying => r.id \in Id
                            /\ r.op = "edit" => v[r.id] \in Row /\ r.ports \in Ports
                            /\ r.op \in Denying => r.item \in Deniable
                            /\ r.op = "set_active" => v[r.id] # Null,
           r.op = "set_active" => r.id \in Id,
           r.op \in Creating => r.id = Null
    PROVE  TypeInv'
<1>1. pc' = [pc EXCEPT ![t] = step]
  BY DEF Goto
<1>2. pc' \in [Thread -> Step] /\ req' \in [Thread -> Request \cup {Null}]
      /\ view' \in [Thread -> Table]
  BY <1>1 DEF TypeInv, TypeOK
<1>3. ASSUME NEW u \in Thread  PROVE Formed(u)'
  <2>1. CASE u = t
    <3>1. pc'[u] = step /\ req'[u] = r /\ view'[u] = v
      BY <1>1, <2>1 DEF TypeInv, TypeOK
    <3> QED BY <3>1 DEF Formed
  <2>2. CASE u # t
    <3>1. pc'[u] = pc[u] /\ req'[u] = req[u] /\ view'[u] = view[u]
      BY <1>1, <2>2 DEF TypeInv, TypeOK
    <3> QED BY <3>1 DEF Formed, TypeInv
  <2> QED BY <2>1, <2>2
<1> QED BY <1>2, <1>3 DEF TypeInv, TypeOK, db

(* A request ends that has, or has not, changed the tables.                *)
LEMMA SaveType ==
    ASSUME TypeInv, NEW t \in Thread, Finish(t),
           row' \in Table, nextId' \in Nat, nextId' >= nextId,
           \A i \in Id : i >= nextId' => row'[i] = Null,
           denied' \in [Deniable -> Id \cup {Null}],
           Outdate(t) \/ stale' = stale \ {t},
           raced' \in BOOLEAN, edited' \in BOOLEAN
    PROVE  TypeInv'
<1>1. stale' \subseteq Thread
  BY DEF Outdate, TypeInv, TypeOK
<1>2. nextId' >= 1
  BY DEF TypeInv, TypeOK
<1> QED BY <1>1, <1>2, FinishType DEF TypeInv, TypeOK

LEMMA RereadType ==
    ASSUME TypeInv, NEW t \in Thread
    PROVE  Reread(t) \in Table
<1>1. row \in Table /\ view[t] \in Table
  BY DEF TypeInv, TypeOK
<1> QED BY <1>1 DEF Reread, Table

LEMMA ArriveType == \A t \in Thread : TypeInv /\ Arrive(t) => TypeInv'
<1> SUFFICES ASSUME NEW t \in Thread, TypeInv, Arrive(t)  PROVE TypeInv'
  OBVIOUS
<1> USE DEF Ask
<1>1. row \in Table /\ edited \in BOOLEAN /\ Empty \in Table
  BY DEF TypeInv, TypeOK, Empty, Table
<1>2. CASE CreateChain(t)
  <2>1. [op |-> "create_chain", id |-> Null, ports |-> Null, item |-> Null] \in Request
    BY DEF Request, Op, Activating
  <2> QED BY <1>1, <1>2, <2>1, AskType DEF CreateChain, Step, Activating, Creating
<1>3. CASE QuickStart(t)
  <2>1. PICK q \in Offer(row) : Ask(t, "quick_start", Null, q, Null, row, "refresh")
    BY <1>3 DEF QuickStart
  <2>2. q \in Ports
    BY <1>1, OfferType
  <2>3. [op |-> "quick_start", id |-> Null, ports |-> q, item |-> Null] \in Request
    BY <2>2 DEF Request, Op, Activating
  <2> QED BY <1>1, <2>1, <2>2, <2>3, AskType DEF Step, Activating, Creating
<1>4. CASE OpenForm(t)
  <2>1. PICK q \in Offer(row) : Ask(t, "create", Null, q, Null, Empty, "form")
    BY <1>4 DEF OpenForm
  <2>2. q \in Ports
    BY <1>1, OfferType
  <2>3. [op |-> "create", id |-> Null, ports |-> q, item |-> Null] \in Request
    BY <2>2 DEF Request, Op, Creating
  <2> QED BY <1>1, <2>1, <2>2, <2>3, AskType DEF Step
<1>5. CASE SetActive(t)
  <2>1. PICK i \in Id : Ask(t, "set_active", i, Null, Null, row, "refresh")
    BY <1>5 DEF SetActive
  <2>2. [op |-> "set_active", id |-> i, ports |-> Null, item |-> Null] \in Request
    BY DEF Request, Op, Activating
  <2> QED BY <1>1, <2>1, <2>2, AskType DEF Step, Activating, Creating
<1>6. CASE Delete(t)
  <2>1. PICK i \in Listed(row) : Ask(t, "delete", i, Null, Null, Empty, "save")
    BY <1>6 DEF Delete
  <2>2. i \in Id
    BY DEF Listed
  <2>3. [op |-> "delete", id |-> i, ports |-> Null, item |-> Null] \in Request
    BY <2>2 DEF Request, Op
  <2> QED BY <1>1, <2>1, <2>2, <2>3, AskType DEF Step, Creating, Denying
<1>7. CASE Edit(t)
  <2>1. PICK i \in Listed(row), q \in EditPorts :
            Ask(t, "edit", i, q, Null, [Empty EXCEPT ![i] = row[i]], "save")
    BY <1>7 DEF Edit
  <2>2. i \in Id /\ row[i] \in Row /\ q \in Ports
    BY <1>1, ViewType, ConstantsAssumption
  <2>3. [op |-> "edit", id |-> i, ports |-> q, item |-> Null] \in Request
    BY <2>2 DEF Request, Op
  <2>4. [Empty EXCEPT ![i] = row[i]] \in Table /\ [Empty EXCEPT ![i] = row[i]][i] = row[i]
    BY <1>1, <2>2 DEF Table
  <2> QED BY <1>1, <2>1, <2>2, <2>3, <2>4, AskType DEF Step, Creating, Denying
<1>8. CASE Deny(t)
  <2>1. PICK o \in Denying, x \in Deniable :
            Listed(row) # {} /\ Ask(t, o, ActiveProject(row), Null, x, Empty, "save")
    BY <1>8 DEF Deny
  <2>2. ActiveProject(row) \in Id
    BY <1>1, <2>1, ActiveProjectListed, ViewType
  <2>3. [op |-> o, id |-> ActiveProject(row), ports |-> Null, item |-> x] \in Request
    BY <2>2 DEF Request, Op
  <2> QED BY <1>1, <2>1, <2>2, <2>3, AskType DEF Step, Creating, Denying
<1> QED BY <1>2, <1>3, <1>4, <1>5, <1>6, <1>7, <1>8 DEF Arrive

LEMMA BetweenType ==
    \A t \in Thread : TypeInv /\ (Post(t) \/ Refresh(t) \/ NotFound(t)) => TypeInv'
<1> SUFFICES ASSUME NEW t \in Thread, TypeInv, Post(t) \/ Refresh(t) \/ NotFound(t)
             PROVE  TypeInv'
  OBVIOUS
<1>1. CASE Post(t)
  <2>1. PICK q \in EditPorts \cup {req[t].ports} :
            req' = [req EXCEPT ![t].ports = q] /\ edited' = (edited \/ q # req[t].ports)
    BY <1>1 DEF Post
  <2>2. req[t] \in Request /\ req[t].op = "create" /\ req[t].id = Null /\ q \in Ports
    BY <1>1, <2>1, ConstantsAssumption DEF Post, TypeInv, Formed, Creating
  <2> DEFINE r == [req[t] EXCEPT !.ports = q]
  <2>3. r \in Request /\ r.op = "create" /\ r.id = Null /\ r.ports = q
    BY <2>2 DEF Request
  <2>4. req' = [req EXCEPT ![t] = r]
    BY <2>1 DEF TypeInv, TypeOK
  <2>5. view' = [view EXCEPT ![t] = row] /\ row \in Table /\ edited' \in BOOLEAN
    BY <1>1, <2>1 DEF Post, TypeInv, TypeOK
  <2>6. Goto(t, "save") /\ UNCHANGED <<db, stale, raced>>
    BY <1>1 DEF Post
  <2> HIDE DEF r
  <2> QED BY <2>2, <2>3, <2>4, <2>5, <2>6, AskType DEF Step, Creating, Denying
<1>2. CASE Refresh(t)
  <2>1. /\ req[t] \in Request /\ req[t].op \in Activating
        /\ req[t].op = "quick_start" => req[t].ports \in Ports
        /\ req[t].op = "set_active" => req[t].id \in Id
        /\ req[t].op \in Creating => req[t].id = Null
    BY <1>2 DEF Refresh, TypeInv, Formed
  <2>2. Reread(t) \in Table
    BY RereadType
  <2>3. view' = [view EXCEPT ![t] = Reread(t)] /\ edited' \in BOOLEAN
        /\ Goto(t, "save") /\ UNCHANGED <<db, stale, raced>>
    BY <1>2 DEF Refresh, TypeInv, TypeOK
  <2>4. CASE req[t].op = "create_chain"
    <3>1. PICK q \in Offer(Reread(t)) : req' = [req EXCEPT ![t].ports = q]
      BY <1>2, <2>4 DEF Refresh
    <3> DEFINE r == [req[t] EXCEPT !.ports = q]
    <3>2. q \in Ports
      BY <2>2, OfferType
    <3>3. r \in Request /\ r.op = "create_chain" /\ r.id = Null /\ r.ports = q
      BY <2>1, <2>4, <3>2 DEF Request, Creating
    <3>4. req' = [req EXCEPT ![t] = r]
      BY <3>1 DEF TypeInv, TypeOK
    <3> HIDE DEF r
    <3> QED BY <2>2, <2>3, <3>2, <3>3, <3>4, AskType DEF Step, Creating, Denying
  <2>5. CASE req[t].op # "create_chain"
    <3>1. req' = [req EXCEPT ![t] = req[t]]
      BY <1>2, <2>5 DEF Refresh, TypeInv, TypeOK
    <3>2. req[t].op = "set_active" => Reread(t)[req[t].id] # Null
      BY <1>2 DEF Refresh
    <3> QED BY <2>1, <2>2, <2>3, <2>5, <3>1, <3>2, AskType
            DEF Step, Activating, Creating, Denying
  <2> QED BY <2>4, <2>5
<1>3. CASE NotFound(t)
  <2>1. Finish(t) /\ stale' = stale \ {t} /\ UNCHANGED <<row, nextId, denied, raced, edited>>
    BY <1>3 DEF NotFound, db
  <2> QED BY <2>1, SaveType DEF TypeInv, TypeOK
<1> QED BY <1>1, <1>2, <1>3

(* What a save does to the projects: it inserts one, or it updates and     *)
(* deletes some that exist.                                                *)
LEMMA ActivationRows ==
    ASSUME TypeInv, NEW t \in Thread, SaveActivation(t)
    PROVE  /\ row' \in Table
           /\ \A j \in Id : row'[j] = Null <=> row[j] = Null
           /\ \A j \in Listed(row) : row'[j].ports = row[j].ports
<1>1. CASE UNCHANGED row
  BY <1>1, ViewType DEF TypeInv, TypeOK
<1>2. CASE row' # row
  <2> DEFINE changed == Deactivated(t) \cup ({req[t].id} \ Active(view[t]))
  <2>1. /\ \A i \in changed : row[i] # Null
        /\ row' = [j \in Id |-> IF j \in changed THEN [row[j] EXCEPT !.active = (j = req[t].id)]
                                ELSE row[j]]
    BY <1>2 DEF SaveActivation, Throws
  <2> HIDE DEF changed
  <2>2. \A j \in Id : row[j] # Null => row[j] \in Row
    BY DEF TypeInv, TypeOK, Table
  <2>3. \A j \in Id : j \in changed =>
            /\ row'[j] \in Row /\ row[j] # Null
            /\ row'[j].ports = row[j].ports
    <3> SUFFICES ASSUME NEW j \in Id, j \in changed
                 PROVE  row'[j] \in Row /\ row[j] # Null /\ row'[j].ports = row[j].ports
      OBVIOUS
    <3>1. row[j] \in Row /\ row[j] # Null
      BY <2>1, <2>2
    <3>2. row'[j] = [row[j] EXCEPT !.active = (j = req[t].id)]
      BY <2>1
    <3> QED BY <3>1, <3>2 DEF Row
  <2>4. \A j \in Id : j \notin changed => row'[j] = row[j]
    BY <2>1
  <2>5. row' \in Table
    BY <2>1, <2>2, <2>3, <2>4 DEF Table
  <2> QED BY <2>3, <2>4, <2>5, NullIsNoRow DEF Listed
<1> QED BY <1>1, <1>2

LEMMA ChainRows ==
    ASSUME TypeInv, NEW t \in Thread, SaveChain(t), row' # row
    PROVE  /\ row' \in Table /\ nextId \in Id
           /\ row'[nextId] = [ports |-> req[t].ports, active |-> TRUE]
           /\ row[nextId] = Null
           /\ \A j \in Id \ {nextId} : row'[j] = Null <=> row[j] = Null
           /\ \A j \in Listed(row) : row'[j].ports = row[j].ports
<1>1. /\ \A i \in Deactivated(t) : row[i] # Null
      /\ nextId \in Id
      /\ row' = [j \in Id |->
             IF j = nextId THEN [ports |-> req[t].ports, active |-> TRUE]
             ELSE IF j \in Deactivated(t) THEN [row[j] EXCEPT !.active = FALSE] ELSE row[j]]
  BY DEF SaveChain, Throws
<1>2. req[t].ports \in Ports
  BY DEF SaveChain, TypeInv, Formed, Creating
<1>3. row'[nextId] = [ports |-> req[t].ports, active |-> TRUE] /\ row'[nextId] \in Row
  BY <1>1, <1>2 DEF Row
<1>4. \A j \in Id : row[j] # Null => row[j] \in Row
  BY DEF TypeInv, TypeOK, Table
<1>5. row[nextId] = Null
  <2>1. nextId \in Nat
    BY DEF TypeInv, TypeOK
  <2> QED BY <1>1, <2>1 DEF TypeInv, TypeOK
<1>6. \A j \in Id : j # nextId /\ j \in Deactivated(t) =>
          row'[j] \in Row /\ row[j] # Null /\ row'[j].ports = row[j].ports
  <2> SUFFICES ASSUME NEW j \in Id, j # nextId, j \in Deactivated(t)
               PROVE  row'[j] \in Row /\ row[j] # Null /\ row'[j].ports = row[j].ports
    OBVIOUS
  <2>1. row[j] \in Row /\ row[j] # Null
    BY <1>1, <1>4
  <2>2. row'[j] = [row[j] EXCEPT !.active = FALSE]
    BY <1>1
  <2> QED BY <2>1, <2>2 DEF Row
<1>7. \A j \in Id : j # nextId /\ j \notin Deactivated(t) => row'[j] = row[j]
  BY <1>1
<1>8. row' \in Table
  <2>1. \A j \in Id : row'[j] \in Row \cup {Null}
    BY <1>3, <1>4, <1>6, <1>7
  <2> QED BY <1>1, <2>1 DEF Table
<1> QED BY <1>1, <1>3, <1>5, <1>6, <1>7, <1>8, NullIsNoRow DEF Listed

LEMMA PageRows ==
    ASSUME TypeInv, NEW t \in Thread, SavePage(t)
    PROVE  /\ row' \in Table /\ nextId \in Id
           /\ row'[nextId] = [ports |-> req[t].ports, active |-> Active(view[t]) = {}]
           /\ row[nextId] = Null
           /\ \A j \in Id \ {nextId} : row'[j] = row[j]
<1>1. /\ nextId \in Id /\ row \in Table
      /\ row' = [row EXCEPT ![nextId] = [ports |-> req[t].ports,
                                         active |-> Active(view[t]) = {}]]
  BY DEF SavePage, TypeInv, TypeOK
<1>2. req[t].ports \in Ports
  BY DEF SavePage, TypeInv, Formed, Creating
<1>3. [ports |-> req[t].ports, active |-> Active(view[t]) = {}] \in Row
  BY <1>2 DEF Row
<1>4. row[nextId] = Null
  <2>1. nextId \in Nat
    BY DEF TypeInv, TypeOK
  <2> QED BY <1>1, <2>1 DEF TypeInv, TypeOK
<1> QED BY <1>1, <1>3, <1>4 DEF Table

LEMMA EditRows ==
    ASSUME TypeInv, NEW t \in Thread, SaveEdit(t)
    PROVE  /\ row' \in Table
           /\ \A j \in Id : row'[j] = Null <=> row[j] = Null
           /\ \A j \in Listed(row) : row'[j].active = row[j].active
<1>1. CASE UNCHANGED row
  BY <1>1, ViewType DEF TypeInv, TypeOK
<1>2. CASE row' # row
  <2> DEFINE i == req[t].id
             old == view[t][i].ports
             new == req[t].ports
             q == [k \in Kind |-> IF new[k] # old[k] THEN new[k] ELSE row[i].ports[k]]
  <2>1. i \in Id /\ row \in Table /\ new \in Ports
    BY DEF SaveEdit, TypeInv, TypeOK, Formed
  <2>2. row[i] \in Row
    BY <1>2, <2>1 DEF SaveEdit, Table
  <2>3. row' = [row EXCEPT ![i] = [row[i] EXCEPT !.ports = q]]
    BY <1>2 DEF SaveEdit
  <2>4. q \in Ports
    BY <2>1, <2>2 DEF Row, Ports
  <2> HIDE DEF q, i
  <2>5. row'[i] = [row[i] EXCEPT !.ports = q] /\ \A j \in Id : j # i => row'[j] = row[j]
    BY <2>1, <2>3 DEF Table
  <2>6. row'[i] \in Row /\ row'[i].active = row[i].active
    BY <2>2, <2>4, <2>5 DEF Row
  <2>7. row' \in Table
    BY <2>1, <2>3, <2>5, <2>6 DEF Table
  <2> QED BY <2>2, <2>5, <2>6, <2>7, NullIsNoRow DEF Listed
<1> QED BY <1>1, <1>2

LEMMA DeleteRows ==
    ASSUME TypeInv, NEW t \in Thread, SaveDelete(t)
    PROVE  /\ row' \in Table
           /\ denied' \in [Deniable -> Id \cup {Null}]
           /\ \A j \in Id : row'[j] # Null => row'[j] = row[j]
<1>1. row \in Table /\ denied \in [Deniable -> Id \cup {Null}]
  BY DEF TypeInv, TypeOK
<1>2. CASE UNCHANGED <<row, denied>>
  BY <1>1, <1>2
<1>3. CASE /\ row' = [row EXCEPT ![req[t].id] = Null]
           /\ denied' = [x \in Deniable |-> IF denied[x] = req[t].id THEN Null ELSE denied[x]]
  BY <1>1, <1>3 DEF Table
<1> QED BY <1>2, <1>3 DEF SaveDelete

LEMMA SaveStepType == \A t \in Thread : TypeInv /\ Save(t) => TypeInv'
<1> SUFFICES ASSUME NEW t \in Thread, TypeInv, Save(t)  PROVE TypeInv'
  OBVIOUS
<1>1. /\ row \in Table /\ nextId \in Nat /\ \A i \in Id : i >= nextId => row[i] = Null
      /\ denied \in [Deniable -> Id \cup {Null}]
      /\ raced \in BOOLEAN /\ edited \in BOOLEAN
  BY DEF TypeInv, TypeOK
<1>2. \A i \in Id : i \in Int
  BY ConstantsAssumption DEF Id
<1>3. CASE SaveActivation(t)
  <2>1. /\ Finish(t) /\ UNCHANGED <<nextId, denied, edited>>
        /\ Outdate(t) \/ stale' = stale \ {t}
        /\ raced' \in BOOLEAN
    BY <1>3 DEF SaveActivation
  <2> QED BY <1>1, <1>3, <2>1, ActivationRows, SaveType
<1>4. CASE SaveChain(t)
  <2>1. /\ Finish(t) /\ UNCHANGED <<denied, edited>>
        /\ Outdate(t) \/ stale' = stale \ {t}
        /\ raced' \in BOOLEAN
    BY <1>4 DEF SaveChain
  <2>2. UNCHANGED <<row, nextId>> \/ nextId' = nextId + 1
    BY <1>4 DEF SaveChain
  <2>3. row' \in Table /\ nextId' \in Nat /\ nextId' >= nextId
        /\ \A i \in Id : i >= nextId' => row'[i] = Null
    <3>1. CASE row' = row
      BY <1>1, <1>2, <2>2, <3>1
    <3>2. CASE row' # row
      <4>1. nextId' = nextId + 1 /\ row' \in Table
            /\ \A j \in Id \ {nextId} : row'[j] = Null <=> row[j] = Null
        BY <1>4, <2>2, <3>2, ChainRows
      <4> QED BY <1>1, <1>2, <4>1
    <3> QED BY <3>1, <3>2
  <2> QED BY <1>1, <2>1, <2>3, SaveType
<1>5. CASE SavePage(t)
  <2>1. /\ Finish(t) /\ UNCHANGED <<denied, edited>> /\ Outdate(t)
        /\ raced' \in BOOLEAN /\ nextId' = nextId + 1
    BY <1>5 DEF SavePage
  <2>2. row' \in Table /\ \A j \in Id \ {nextId} : row'[j] = row[j]
    BY <1>5, PageRows
  <2>3. nextId' \in Nat /\ nextId' >= nextId /\ \A i \in Id : i >= nextId' => row'[i] = Null
    BY <1>1, <1>2, <2>1, <2>2
  <2> QED BY <1>1, <2>1, <2>2, <2>3, SaveType
<1>6. CASE SaveDelete(t)
  <2>1. /\ Finish(t) /\ UNCHANGED <<nextId, raced, edited>>
        /\ Outdate(t) \/ stale' = stale \ {t}
    BY <1>6 DEF SaveDelete
  <2>2. \A i \in Id : i >= nextId' => row'[i] = Null
    BY <1>1, <1>6, <2>1, DeleteRows
  <2> QED BY <1>1, <1>6, <2>1, <2>2, DeleteRows, SaveType
<1>7. CASE SaveEdit(t)
  <2>1. /\ Finish(t) /\ UNCHANGED <<nextId, denied, raced>> /\ edited' = TRUE
        /\ Outdate(t) \/ stale' = stale \ {t}
    BY <1>7 DEF SaveEdit
  <2> QED BY <1>1, <1>7, <2>1, EditRows, SaveType
<1>8. CASE SaveBan(t)
  <2>1. req[t].id \in Id
    BY <1>8 DEF SaveBan, TypeInv, Formed, Denying
  <2>2. /\ Finish(t) /\ UNCHANGED <<row, nextId, raced, edited>> /\ stale' = stale \ {t}
        /\ denied' \in [Deniable -> Id \cup {Null}]
    BY <1>1, <1>8, <2>1 DEF SaveBan
  <2> QED BY <1>1, <2>2, SaveType
<1>9. CASE SaveUnban(t)
  <2>1. /\ Finish(t) /\ UNCHANGED <<row, nextId, raced, edited>> /\ stale' = stale \ {t}
        /\ denied' \in [Deniable -> Id \cup {Null}]
    BY <1>1, <1>9 DEF SaveUnban
  <2> QED BY <1>1, <2>1, SaveType
<1> QED BY <1>3, <1>4, <1>5, <1>6, <1>7, <1>8, <1>9 DEF Save

LEMMA TypeStep == TypeInv /\ [Next]_vars => TypeInv'
<1> SUFFICES ASSUME TypeInv, [Next]_vars  PROVE TypeInv'
  OBVIOUS
<1>1. CASE UNCHANGED vars
  BY <1>1 DEF vars, db, TypeInv, TypeOK, Formed
<1>2. CASE Next
  BY <1>2, ArriveType, BetweenType, SaveStepType DEF Next
<1> QED BY <1>1, <1>2

LEMMA TypeInvariant == Spec => []TypeInv
BY TypeInit, TypeStep, PTL DEF Spec

(* The tables, the requests and what they have read keep their types.      *)
THEOREM TypeCorrect == Spec => []TypeOK
<1>1. TypeInv => TypeOK
  BY DEF TypeInv
<1> QED BY <1>1, TypeInvariant, PTL

-----------------------------------------------------------------------------
(* The denylist.                                                           *)

LEMMA DeniedStep == TypeInv /\ DeniedOwned /\ [Next]_vars => DeniedOwned'
<1> SUFFICES ASSUME TypeInv, DeniedOwned, [Next]_vars, NEW x \in Deniable, denied'[x] # Null
             PROVE  row'[denied'[x]] # Null
  BY DEF DeniedOwned
<1>1. denied \in [Deniable -> Id \cup {Null}] /\ row \in Table
  BY DEF TypeInv, TypeOK
<1>2. denied[x] # Null => denied[x] \in Id /\ row[denied[x]] # Null
  BY <1>1 DEF DeniedOwned
<1>3. ASSUME UNCHANGED denied, \A j \in Id : row[j] # Null => row'[j] # Null
      PROVE  row'[denied'[x]] # Null
  BY <1>2, <1>3
<1>4. CASE UNCHANGED <<row, denied>>
  BY <1>2, <1>4
<1>5. ASSUME NEW t \in Thread, Save(t)  PROVE row'[denied'[x]] # Null
  <2>1. CASE SaveActivation(t)
    BY <1>3, <2>1, ActivationRows DEF SaveActivation
  <2>2. CASE SaveChain(t)
    <3>1. UNCHANGED denied
      BY <2>2 DEF SaveChain
    <3>2. CASE row' = row
      BY <1>2, <3>1, <3>2
    <3>3. CASE row' # row
      BY <1>3, <2>2, <3>1, <3>3, ChainRows
    <3> QED BY <3>2, <3>3
  <2>3. CASE SavePage(t)
    <3>1. UNCHANGED denied
      BY <2>3 DEF SavePage
    <3> QED BY <1>3, <2>3, <3>1, PageRows
  <2>4. CASE SaveDelete(t)
    <3>1. CASE UNCHANGED <<row, denied>>
      BY <1>2, <3>1
    <3>2. CASE /\ row' = [row EXCEPT ![req[t].id] = Null]
               /\ denied' = [y \in Deniable |->
                      IF denied[y] = req[t].id THEN Null ELSE denied[y]]
      <4>1. denied[x] # req[t].id /\ denied'[x] = denied[x]
        BY <3>2
      <4> QED BY <1>1, <1>2, <3>2, <4>1 DEF Table
    <3> QED BY <2>4, <3>1, <3>2 DEF SaveDelete
  <2>5. CASE SaveEdit(t)
    BY <1>3, <2>5, EditRows DEF SaveEdit
  <2>6. CASE SaveBan(t)
    <3>1. UNCHANGED row /\ denied' = [denied EXCEPT ![req[t].item] =
              IF @ = Null /\ row[req[t].id] # Null THEN req[t].id ELSE @]
      BY <2>6 DEF SaveBan
    <3>2. denied'[x] = denied[x] \/ (denied'[x] = req[t].id /\ row[req[t].id] # Null)
      BY <1>1, <3>1
    <3> QED BY <1>2, <3>1, <3>2
  <2>7. CASE SaveUnban(t)
    <3>1. UNCHANGED row /\ denied' = [denied EXCEPT ![req[t].item] = Null]
      BY <2>7 DEF SaveUnban
    <3> QED BY <1>1, <1>2, <3>1
  <2> QED BY <1>5, <2>1, <2>2, <2>3, <2>4, <2>5, <2>6, <2>7 DEF Save
<1>6. ASSUME NEW t \in Thread, Arrive(t) \/ Post(t) \/ Refresh(t) \/ NotFound(t)
      PROVE  UNCHANGED <<row, denied>>
  BY <1>6 DEF Arrive, CreateChain, QuickStart, OpenForm, SetActive, Delete, Edit, Deny, Ask,
              Post, Refresh, NotFound, db
<1>7. CASE UNCHANGED vars
  BY <1>4, <1>7 DEF vars, db
<1> QED BY <1>4, <1>5, <1>6, <1>7 DEF Next

(* Whatever is denied is denied by a project that exists: a ban and a      *)
(* delete that overlap leave no row behind.                                *)
THEOREM DenylistOwned == Spec => []DeniedOwned
<1>1. Init => DeniedOwned
  BY DEF Init, DeniedOwned
<1> QED BY <1>1, TypeInvariant, DeniedStep, PTL DEF Spec

-----------------------------------------------------------------------------
(* A view that no save has outdated is the table itself.                   *)

(* The ports of a request's new project have been offered to it.           *)
HasOffer(t) ==
    \/ pc[t] = "form"
    \/ pc[t] \in {"refresh", "save"} /\ req[t].op = "quick_start"
    \/ pc[t] = "save" /\ req[t].op \in {"create", "create_chain"}

Current(t) ==
    t \notin stale =>
        /\ pc[t] \in {"refresh", "save"} /\ req[t].op \in Activating \cup {"create"}
               => view[t] = row
        /\ HasOffer(t) => edited \/ req[t].ports \in Offer(row)

CurrentInv == \A t \in Thread : Current(t)

(* The other requests, after a step of t.                                  *)
LEMMA OthersCurrent ==
    ASSUME CurrentInv, NEW t \in Thread, NEW u \in Thread,
           pc'[u] = pc[u], req'[u] = req[u], view'[u] = view[u], u # t,
           edited => edited',
           \/ (UNCHANGED row /\ (u \in stale' <=> u \in stale))
           \/ Outdate(t)
    PROVE  Current(u)'
<1>1. CASE UNCHANGED row /\ (u \in stale' <=> u \in stale)
  BY <1>1 DEF CurrentInv, Current, HasOffer
<1>2. CASE Outdate(t) /\ pc[u] # "idle"
  BY <1>2 DEF Outdate, Current
<1>3. CASE pc[u] = "idle"
  BY <1>3 DEF Current, HasOffer
<1> QED BY <1>1, <1>2, <1>3

LEMMA SaveCurrent ==
    ASSUME TypeInv, CurrentInv, NEW t \in Thread, Finish(t), edited => edited',
           (UNCHANGED row /\ stale' = stale \ {t}) \/ Outdate(t)
    PROVE  CurrentInv'
<1> SUFFICES ASSUME NEW u \in Thread  PROVE Current(u)'
  BY DEF CurrentInv
<1>1. /\ pc' = [pc EXCEPT ![t] = "idle"] /\ req' = [req EXCEPT ![t] = Null]
      /\ view' = [view EXCEPT ![t] = Empty]
  BY DEF Finish, Goto
<1>2. CASE u = t
  <2>1. pc'[u] = "idle"
    BY <1>1, <1>2 DEF TypeInv, TypeOK
  <2> QED BY <2>1 DEF Current, HasOffer
<1>3. CASE u # t
  <2>1. pc'[u] = pc[u] /\ req'[u] = req[u] /\ view'[u] = view[u]
    BY <1>1, <1>3 DEF TypeInv, TypeOK
  <2>2. CASE UNCHANGED row /\ stale' = stale \ {t}
    <3>1. u \in stale' <=> u \in stale
      BY <1>3, <2>2
    <3> QED BY <1>3, <2>1, <2>2, <3>1, OthersCurrent
  <2>3. CASE Outdate(t)
    BY <1>3, <2>1, <2>3, OthersCurrent
  <2> QED BY <2>2, <2>3
<1> QED BY <1>2, <1>3

LEMMA AskCurrent ==
    ASSUME TypeInv, CurrentInv, NEW t \in Thread, NEW r, NEW v, NEW step,
           req' = [req EXCEPT ![t] = r], view' = [view EXCEPT ![t] = v], Goto(t, step),
           UNCHANGED <<db, stale>>, edited => edited',
           t \notin stale =>
               /\ step \in {"refresh", "save"} /\ r.op \in Activating \cup {"create"} => v = row
               /\ \/ step = "form"
                  \/ step \in {"refresh", "save"} /\ r.op = "quick_start"
                  \/ step = "save" /\ r.op \in {"create", "create_chain"}
                  => edited' \/ r.ports \in Offer(row)
    PROVE  CurrentInv'
<1> SUFFICES ASSUME NEW u \in Thread  PROVE Current(u)'
  BY DEF CurrentInv
<1>1. pc' = [pc EXCEPT ![t] = step] /\ UNCHANGED row
  BY DEF Goto, db
<1>2. CASE u = t
  <2>1. pc'[u] = step /\ req'[u] = r /\ view'[u] = v
    BY <1>1, <1>2 DEF TypeInv, TypeOK
  <2>2. Offer(row') = Offer(row)
    BY <1>1
  <2> QED BY <1>1, <1>2, <2>1, <2>2 DEF Current, HasOffer
<1>3. CASE u # t
  <2>1. pc'[u] = pc[u] /\ req'[u] = req[u] /\ view'[u] = view[u]
    BY <1>1, <1>3 DEF TypeInv, TypeOK
  <2> QED BY <1>1, <1>3, <2>1, OthersCurrent
<1> QED BY <1>2, <1>3

LEMMA ArrivalCurrent ==
    ASSUME TypeInv, CurrentInv, NEW t \in Thread,
           NEW o, NEW i, NEW q, NEW x, NEW v, NEW step, Ask(t, o, i, q, x, v, step),
           step \in {"refresh", "save"} /\ o \in Activating \cup {"create"} => v = row,
           step = "form" \/ o = "quick_start" => q \in Offer(row),
           ~(step = "save" /\ o \in {"create", "create_chain"})
    PROVE  CurrentInv'
<1> DEFINE r == [op |-> o, id |-> i, ports |-> q, item |-> x]
<1>1. r.op = o /\ r.ports = q
  OBVIOUS
<1>2. req' = [req EXCEPT ![t] = r] /\ view' = [view EXCEPT ![t] = v] /\ Goto(t, step)
      /\ UNCHANGED <<db, stale, edited>>
  BY DEF Ask
<1> HIDE DEF r
<1> QED BY <1>1, <1>2, AskCurrent

LEMMA ArriveCurrent == \A t \in Thread : TypeInv /\ CurrentInv /\ Arrive(t) => CurrentInv'
<1> SUFFICES ASSUME NEW t \in Thread, TypeInv, CurrentInv, Arrive(t)  PROVE CurrentInv'
  OBVIOUS
<1>1. CASE CreateChain(t)
  BY <1>1, ArrivalCurrent DEF CreateChain
<1>2. CASE QuickStart(t)
  BY <1>2, ArrivalCurrent DEF QuickStart
<1>3. CASE OpenForm(t)
  BY <1>3, ArrivalCurrent DEF OpenForm
<1>4. CASE SetActive(t)
  BY <1>4, ArrivalCurrent DEF SetActive
<1>5. CASE Delete(t)
  BY <1>5, ArrivalCurrent DEF Delete, Activating
<1>6. CASE Edit(t)
  BY <1>6, ArrivalCurrent DEF Edit, Activating
<1>7. CASE Deny(t)
  BY <1>7, ArrivalCurrent DEF Deny, Denying, Activating
<1> QED BY <1>1, <1>2, <1>3, <1>4, <1>5, <1>6, <1>7 DEF Arrive

LEMMA RereadCurrent ==
    ASSUME TypeInv, NEW t \in Thread, view[t] = row
    PROVE  Reread(t) = row
BY DEF Reread, TypeInv, TypeOK, Table

LEMMA BetweenCurrent ==
    \A t \in Thread :
        TypeInv /\ CurrentInv /\ (Post(t) \/ Refresh(t) \/ NotFound(t)) => CurrentInv'
<1> SUFFICES ASSUME NEW t \in Thread, TypeInv, CurrentInv, Post(t) \/ Refresh(t) \/ NotFound(t)
             PROVE  CurrentInv'
  OBVIOUS
<1>1. CASE Post(t)
  <2>1. PICK q \in EditPorts \cup {req[t].ports} :
            req' = [req EXCEPT ![t].ports = q] /\ edited' = (edited \/ q # req[t].ports)
    BY <1>1 DEF Post
  <2>2. req[t] \in Request /\ req[t].op = "create"
    BY <1>1 DEF Post, TypeInv, Formed
  <2> DEFINE r == [req[t] EXCEPT !.ports = q]
  <2>3. r.op = "create" /\ r.ports = q
    BY <2>2 DEF Request
  <2>4. req' = [req EXCEPT ![t] = r]
    BY <2>1 DEF TypeInv, TypeOK
  <2>5. t \notin stale => edited' \/ q \in Offer(row)
    BY <1>1, <2>1 DEF Post, CurrentInv, Current, HasOffer
  <2>6. view' = [view EXCEPT ![t] = row] /\ Goto(t, "save") /\ UNCHANGED <<db, stale>>
    BY <1>1 DEF Post
  <2> HIDE DEF r
  <2> QED BY <2>1, <2>3, <2>4, <2>5, <2>6, AskCurrent
<1>2. CASE Refresh(t)
  <2>1. req[t] \in Request /\ req[t].op \in Activating
    BY <1>2 DEF Refresh, TypeInv, Formed
  <2>2. t \notin stale => Reread(t) = row
    BY <1>2, <2>1, RereadCurrent DEF Refresh, CurrentInv, Current
  <2>3. view' = [view EXCEPT ![t] = Reread(t)] /\ Goto(t, "save")
        /\ UNCHANGED <<db, stale, edited>>
    BY <1>2 DEF Refresh
  <2>4. CASE req[t].op = "create_chain"
    <3>1. PICK q \in Offer(Reread(t)) : req' = [req EXCEPT ![t].ports = q]
      BY <1>2, <2>4 DEF Refresh
    <3> DEFINE r == [req[t] EXCEPT !.ports = q]
    <3>2. r.op = "create_chain" /\ r.ports = q
      BY <2>1, <2>4 DEF Request
    <3>3. req' = [req EXCEPT ![t] = r]
      BY <3>1 DEF TypeInv, TypeOK
    <3> HIDE DEF r
    <3> QED BY <2>2, <2>3, <3>1, <3>2, <3>3, AskCurrent
  <2>5. CASE req[t].op # "create_chain"
    <3>1. req' = [req EXCEPT ![t] = req[t]]
      BY <1>2, <2>5 DEF Refresh, TypeInv, TypeOK
    <3>2. t \notin stale /\ req[t].op = "quick_start" => edited \/ req[t].ports \in Offer(row)
      BY <1>2 DEF Refresh, CurrentInv, Current, HasOffer
    <3> QED BY <2>1, <2>2, <2>3, <2>5, <3>1, <3>2, AskCurrent DEF Activating
  <2> QED BY <2>4, <2>5
<1>3. CASE NotFound(t)
  BY <1>3, SaveCurrent DEF NotFound, db
<1> QED BY <1>1, <1>2, <1>3

LEMMA SaveStepCurrent == \A t \in Thread : TypeInv /\ CurrentInv /\ Save(t) => CurrentInv'
<1> SUFFICES ASSUME NEW t \in Thread, TypeInv, CurrentInv, Save(t)  PROVE CurrentInv'
  OBVIOUS
<1>1. Finish(t) /\ (edited => edited')
  BY DEF Save, SaveActivation, SaveChain, SavePage, SaveDelete, SaveEdit, SaveBan, SaveUnban
<1>2. (UNCHANGED row /\ stale' = stale \ {t}) \/ Outdate(t)
  BY DEF Save, SaveActivation, SaveChain, SavePage, SaveDelete, SaveEdit, SaveBan, SaveUnban
<1> QED BY <1>1, <1>2, SaveCurrent

LEMMA CurrentStep == TypeInv /\ CurrentInv /\ [Next]_vars => CurrentInv'
<1>1. TypeInv /\ CurrentInv /\ UNCHANGED vars => CurrentInv'
  BY DEF vars, db, CurrentInv, Current, HasOffer
<1> QED BY <1>1, ArriveCurrent, BetweenCurrent, SaveStepCurrent DEF Next

LEMMA CurrentInvariant == Spec => []CurrentInv
<1>1. Init => CurrentInv
  BY DEF Init, CurrentInv, Current, HasOffer
<1> QED BY <1>1, TypeInvariant, CurrentStep, PTL DEF Spec

-----------------------------------------------------------------------------
(* The active project.                                                     *)

LEMMA ActivationResult ==
    ASSUME TypeInv, CurrentInv, NEW t \in Thread, t \notin stale, SaveActivation(t)
    PROVE  Active(row') = {req[t].id}
<1> DEFINE i == req[t].id
           changed == Deactivated(t) \cup ({i} \ Active(view[t]))
<1>1. view[t] = row /\ i \in Id /\ row[i] # Null
  BY DEF SaveActivation, CurrentInv, Current, TypeInv, Formed, Activating
<1>2. row \in Table
  BY DEF TypeInv, TypeOK
<1>3. changed = (Active(row) \ {i}) \cup ({i} \ Active(row))
  BY <1>1 DEF Deactivated
<1>4. \A j \in changed : row[j] # Null
  BY <1>1, <1>2, <1>3, ViewType DEF Listed
<1>5. row' = [j \in Id |-> IF j \in changed THEN [row[j] EXCEPT !.active = (j = i)] ELSE row[j]]
  BY <1>4 DEF SaveActivation, Throws
<1> HIDE DEF changed, i
<1>6. \A j \in Id : row[j] # Null => row[j] \in Row
  BY <1>2 DEF Table
<1>7. \A j \in Id : j \in changed => row'[j] # Null /\ (row'[j].active <=> j = i)
  <2> SUFFICES ASSUME NEW j \in Id, j \in changed
               PROVE  row'[j] # Null /\ (row'[j].active <=> j = i)
    OBVIOUS
  <2>1. row[j] \in Row /\ row'[j] = [row[j] EXCEPT !.active = (j = i)]
    BY <1>4, <1>5, <1>6
  <2>2. row'[j] \in Row /\ (row'[j].active <=> j = i)
    BY <2>1 DEF Row
  <2> QED BY <2>2, NullIsNoRow
<1>8. \A j \in Id : j \notin changed => row'[j] = row[j] /\ (j \in Active(row) <=> j = i)
  BY <1>3, <1>5
<1>9. \A j \in Id : row'[j] # Null /\ row'[j].active <=> j = i
  BY <1>7, <1>8 DEF Active, Listed
<1> QED BY <1>1, <1>9 DEF Active, Listed, i

LEMMA ChainResult ==
    ASSUME TypeInv, CurrentInv, NEW t \in Thread, t \notin stale, SaveChain(t)
    PROVE  /\ Active(row') = {nextId} /\ row' # row
           /\ edited \/ req[t].ports \in Offer(row)
<1>1. view[t] = row /\ row \in Table /\ (edited \/ req[t].ports \in Offer(row))
  BY DEF SaveChain, CurrentInv, Current, HasOffer, TypeInv, TypeOK, Activating
<1>2. Deactivated(t) \subseteq Active(row) /\ \A j \in Deactivated(t) : row[j] # Null
  BY <1>1, ViewType DEF Deactivated, Listed
<1>3. /\ nextId \in Id
      /\ row' = [j \in Id |->
             IF j = nextId THEN [ports |-> req[t].ports, active |-> TRUE]
             ELSE IF j \in Deactivated(t) THEN [row[j] EXCEPT !.active = FALSE] ELSE row[j]]
  BY <1>2 DEF SaveChain, Throws
<1>4. row[nextId] = Null
  <2>1. nextId \in Nat
    BY DEF TypeInv, TypeOK
  <2> QED BY <1>3, <2>1 DEF TypeInv, TypeOK
<1>5. row'[nextId] # Null /\ row'[nextId].active
  <2>1. req[t].ports \in Ports
    BY DEF SaveChain, TypeInv, Formed, Creating
  <2>2. row'[nextId] = [ports |-> req[t].ports, active |-> TRUE]
    BY <1>3
  <2>3. row'[nextId] \in Row
    BY <2>1, <2>2 DEF Row
  <2>4. row'[nextId] # Null
    BY <2>3, NullIsNoRow
  <2>5. row'[nextId].active = TRUE
    BY <2>2
  <2> QED BY <2>4, <2>5
<1>6. nextId \notin Active(row)
  BY <1>4 DEF Active, Listed
<1>7. \A j \in Id : j # nextId => row'[j] = Null \/ ~row'[j].active
  <2> SUFFICES ASSUME NEW j \in Id, j # nextId, row'[j] # Null  PROVE ~row'[j].active
    OBVIOUS
  <2>1. CASE j \in Deactivated(t)
    <3>1. row[j] \in Row /\ row'[j] = [row[j] EXCEPT !.active = FALSE]
      BY <1>1, <1>2, <1>3, <2>1 DEF Table
    <3> QED BY <3>1 DEF Row
  <2>2. CASE j \notin Deactivated(t)
    <3>1. row'[j] = row[j]
      BY <1>3, <2>2
    <3>2. req[t].id \notin Active(row)
      <4>1. req[t].id = Null
        BY DEF SaveChain, TypeInv, Formed, Creating
      <4>2. \A k \in Active(row) : k \in Id
        BY DEF Active, Listed
      <4>3. Null \notin Id
        BY ConstantsAssumption
      <4> QED BY <4>1, <4>2, <4>3
    <3>3. j \notin Active(row)
      BY <1>1, <2>2, <3>2 DEF Deactivated
    <3> QED BY <3>1, <3>3 DEF Active, Listed
  <2> QED BY <2>1, <2>2
<1>8. Active(row') = {nextId}
  BY <1>3, <1>5, <1>7 DEF Active, Listed
<1> QED BY <1>1, <1>4, <1>5, <1>8

(* The saves that do not activate change no flag, but for a first project. *)
LEMMA PageActive ==
    ASSUME TypeInv, NEW t \in Thread, SavePage(t)
    PROVE  /\ nextId \in Id
           /\ Active(row') = IF Active(view[t]) = {} THEN Active(row) \cup {nextId}
                             ELSE Active(row)
<1>1. /\ row' \in Table /\ nextId \in Id
      /\ row'[nextId] = [ports |-> req[t].ports, active |-> Active(view[t]) = {}]
      /\ row[nextId] = Null
      /\ \A j \in Id \ {nextId} : row'[j] = row[j]
  BY PageRows
<1>2. row'[nextId] # Null /\ (row'[nextId].active <=> Active(view[t]) = {})
  <2>1. req[t].ports \in Ports
    BY DEF SavePage, TypeInv, Formed, Creating
  <2>2. row'[nextId] \in Row
    BY <1>1, <2>1 DEF Row
  <2>3. row'[nextId] # Null
    BY <2>2, NullIsNoRow
  <2>4. row'[nextId].active = (Active(view[t]) = {})
    BY <1>1
  <2> QED BY <2>3, <2>4
<1> QED BY <1>1, <1>2 DEF Active, Listed

LEMMA DeleteActive ==
    ASSUME TypeInv, NEW t \in Thread, SaveDelete(t)
    PROVE  \A i \in Id : i \in Active(row') <=> i \in Active(row) /\ row'[i] # Null
<1>1. \A j \in Id : row'[j] # Null => row'[j] = row[j]
  BY DeleteRows
<1> QED BY <1>1 DEF Active, Listed

LEMMA EditActive ==
    ASSUME TypeInv, NEW t \in Thread, SaveEdit(t)
    PROVE  Active(row') = Active(row)
BY EditRows DEF Active, Listed

(* How each step leaves the set of active projects.                        *)
LEMMA UniqueStep == TypeInv /\ CurrentInv /\ UniqueActive /\ [Next]_vars => UniqueActive'
<1> SUFFICES ASSUME TypeInv, CurrentInv, UniqueActive, [Next]_vars, ~raced'
             PROVE  \A i, j \in Active(row') : i = j
  BY DEF UniqueActive
<1>1. CASE UNCHANGED <<row, raced>>
  BY <1>1 DEF UniqueActive
<1>2. ASSUME NEW t \in Thread, Save(t)  PROVE \A i, j \in Active(row') : i = j
  <2>1. CASE SaveActivation(t)
    <3>1. t \notin stale
      BY <2>1 DEF SaveActivation
    <3> QED BY <2>1, <3>1, ActivationResult
  <2>2. CASE SaveChain(t)
    <3>1. t \notin stale
      BY <2>2 DEF SaveChain
    <3> QED BY <2>2, <3>1, ChainResult
  <2>3. CASE SavePage(t)
    <3>1. t \notin stale /\ ~raced
      BY <2>3 DEF SavePage
    <3>2. view[t] = row
      BY <2>3, <3>1 DEF SavePage, CurrentInv, Current
    <3>3. \A i, j \in Active(row) : i = j
      BY <3>1 DEF UniqueActive
    <3> QED BY <2>3, <3>2, <3>3, PageActive
  <2>4. CASE SaveDelete(t)
    <3>1. ~raced
      BY <2>4 DEF SaveDelete
    <3>2. Active(row') \subseteq Active(row)
      BY <2>4, DeleteActive DEF Active, Listed
    <3> QED BY <3>1, <3>2 DEF UniqueActive
  <2>5. CASE SaveEdit(t)
    BY <2>5, EditActive DEF SaveEdit, UniqueActive
  <2>6. CASE SaveBan(t) \/ SaveUnban(t)
    BY <1>1, <2>6 DEF SaveBan, SaveUnban
  <2> QED BY <1>2, <2>1, <2>2, <2>3, <2>4, <2>5, <2>6 DEF Save
<1>3. ASSUME NEW t \in Thread, Arrive(t) \/ Post(t) \/ Refresh(t) \/ NotFound(t)
      PROVE  UNCHANGED <<row, raced>>
  BY <1>3 DEF Arrive, CreateChain, QuickStart, OpenForm, SetActive, Delete, Edit, Deny, Ask,
              Post, Refresh, NotFound, db
<1>4. CASE UNCHANGED vars
  BY <1>1, <1>4 DEF vars, db
<1> QED BY <1>1, <1>2, <1>3, <1>4 DEF Next

(* However many requests overlap, no two projects are active unless one    *)
(* that activates or creates has saved on what another had outdated.       *)
THEOREM ActiveIsUnique == Spec => []UniqueActive
<1>1. Init => UniqueActive
  BY DEF Init, UniqueActive, Active, Listed, Empty
<1> QED BY <1>1, TypeInvariant, CurrentInvariant, UniqueStep, PTL DEF Spec

(* The thread that ends a request is the one that saves.                   *)
LEMMA EndIsSave ==
    ASSUME TypeInv, [Next]_vars, NEW t \in Thread, pc[t] = "save", pc'[t] = "idle"
    PROVE  Save(t)
<1>1. ~UNCHANGED vars
  BY DEF vars
<1>2. PICK u \in Thread : Arrive(u) \/ Post(u) \/ Refresh(u) \/ NotFound(u) \/ Save(u)
  BY <1>1 DEF Next
<1>3. \E s : pc' = [pc EXCEPT ![u] = s]
  BY <1>2 DEF Arrive, CreateChain, QuickStart, OpenForm, SetActive, Delete, Edit, Deny, Ask,
              Post, Refresh, NotFound, Finish, Goto, Save, SaveActivation, SaveChain, SavePage,
              SaveDelete, SaveEdit, SaveBan, SaveUnban
<1>4. u = t
  BY <1>3 DEF TypeInv, TypeOK
<1> QED BY <1>2, <1>4 DEF Arrive, CreateChain, QuickStart, OpenForm, SetActive, Delete, Edit,
              Deny, Ask, Post, Refresh, NotFound

(* A request that activates, and is not overtaken, leaves one project      *)
(* active and no other, also after earlier requests have left several.     *)
THEOREM ActivationIsExclusive == Spec => LoneActivation
<1>1. TypeInv /\ CurrentInv /\ [Next]_vars =>
          [\A t \in Thread :
              pc[t] = "save" /\ pc'[t] = "idle" /\ req[t].op \in Activating /\ t \notin stale
                  => Active(row') = {IF req[t].op = "set_active" THEN req[t].id
                                     ELSE nextId}]_vars
  <2> SUFFICES ASSUME TypeInv, CurrentInv, [Next]_vars, NEW t \in Thread,
                      pc[t] = "save", pc'[t] = "idle", req[t].op \in Activating, t \notin stale
               PROVE  Active(row') = {IF req[t].op = "set_active" THEN req[t].id ELSE nextId}
    OBVIOUS
  <2>1. Save(t)
    BY EndIsSave
  <2>2. SaveActivation(t) \/ SaveChain(t)
    BY <2>1 DEF Save, SavePage, SaveDelete, SaveEdit, SaveBan, SaveUnban, Activating
  <2>3. CASE SaveActivation(t)
    BY <2>3, ActivationResult DEF SaveActivation
  <2>4. CASE SaveChain(t)
    BY <2>4, ChainResult DEF SaveChain
  <2> QED BY <2>2, <2>3, <2>4
<1> QED BY <1>1, TypeInvariant, CurrentInvariant, PTL DEF Spec, LoneActivation

(* Every other request leaves the active project in its place, however old *)
(* what it has read.                                                       *)
THEOREM ActiveIsKept == Spec => ActiveStays
<1>1. TypeInv /\ [Next]_vars =>
          [\A t \in Thread :
              pc[t] = "save" /\ pc'[t] = "idle" /\ req[t].op \notin Activating
                  => \A i \in Active(row) :
                         ActiveProject(row) = i /\ row'[i] # Null => ActiveProject(row') = i]_vars
  <2> SUFFICES ASSUME TypeInv, [Next]_vars, NEW t \in Thread,
                      pc[t] = "save", pc'[t] = "idle", req[t].op \notin Activating,
                      NEW i \in Active(row), ActiveProject(row) = i, row'[i] # Null
               PROVE  ActiveProject(row') = i
    OBVIOUS
  <2>1. Save(t)
    BY EndIsSave
  <2>2. Active(row) \in SUBSET Id /\ Active(row') \in SUBSET Id
    BY DEF Active, Listed
  <2>3. i \in Id /\ \A j \in Active(row) : i <= j
    BY <2>2, FirstLeast DEF ActiveProject
  <2>4. \A j \in Active(row') : j \in Active(row) \/ j = nextId
    BY <2>1, <2>2, PageActive, DeleteActive, EditActive
       DEF Save, SaveActivation, SaveChain, SaveBan, SaveUnban, Activating
  <2>5. i \in Active(row')
    BY <2>1, <2>3, PageActive, DeleteActive, EditActive
       DEF Save, SaveActivation, SaveChain, SaveBan, SaveUnban, Activating
  <2>6. i <= nextId
    <3>1. row[i] # Null /\ nextId \in Nat
      BY DEF Active, Listed, TypeInv, TypeOK
    <3>2. ~(i >= nextId)
      BY <2>3, <3>1 DEF TypeInv, TypeOK
    <3>3. i \in Int
      BY <2>3, ConstantsAssumption DEF Id
    <3> QED BY <3>1, <3>2, <3>3
  <2>7. \A j \in Active(row') : i <= j
    BY <2>3, <2>4, <2>6
  <2> QED BY <2>2, <2>5, <2>7, FirstIs DEF ActiveProject
<1> QED BY <1>1, TypeInvariant, PTL DEF Spec, ActiveStays

-----------------------------------------------------------------------------
(* The ports.                                                              *)

(* The three ports of a project are consecutive, and no two projects'      *)
(* blocks of three touch.                                                  *)
Block(q) == q["net"] = q["rpc"] + 1 /\ q["indexer"] = q["rpc"] + 2

Spacing ==
    /\ \A i \in Listed(row) : Block(row[i].ports)
    /\ \A i, j \in Listed(row) :
           i # j => \/ row[i].ports["rpc"] + 3 <= row[j].ports["rpc"]
                    \/ row[j].ports["rpc"] + 3 <= row[i].ports["rpc"]

SpacingInv == raced \/ edited \/ Spacing

LEMMA PortsOfRows ==
    ASSUME TypeInv
    PROVE  \A i \in Listed(row) : \A k \in Kind : row[i].ports[k] \in Nat
BY ViewType, RowFields DEF TypeInv, TypeOK, Ports

LEMMA SpacingDistinct == TypeInv /\ SpacingInv => PortsDistinct
<1> SUFFICES ASSUME TypeInv, Spacing, NEW i \in Listed(row), NEW j \in Listed(row),
                    NEW k \in Kind, NEW l \in Kind, row[i].ports[k] = row[j].ports[l]
             PROVE  i = j /\ k = l
  BY DEF SpacingInv, PortsDistinct
<1>1. \A x \in {i, j} :
          /\ row[x].ports["rpc"] \in Nat
          /\ row[x].ports["net"] = row[x].ports["rpc"] + 1
          /\ row[x].ports["indexer"] = row[x].ports["rpc"] + 2
  BY PortsOfRows DEF Spacing, Block, Kind
<1>2. i = j
  <2> SUFFICES ASSUME i # j  PROVE FALSE
    OBVIOUS
  <2>1. \/ row[i].ports["rpc"] + 3 <= row[j].ports["rpc"]
        \/ row[j].ports["rpc"] + 3 <= row[i].ports["rpc"]
    BY DEF Spacing
  <2> QED BY <1>1, <2>1 DEF Kind
<1>3. k = l
  BY <1>1, <1>2 DEF Kind
<1> QED BY <1>2, <1>3

(* The ports offered are a block of their own, above all the others.       *)
LEMMA OfferAbove ==
    ASSUME TypeInv, Spacing, NEW q \in Offer(row)
    PROVE  /\ Block(q) /\ q["rpc"] \in Nat
           /\ \A j \in Listed(row) : row[j].ports["rpc"] + 3 <= q["rpc"]
<1>1. CASE Listed(row) = {}
  <2>1. q = FirstPorts
    BY <1>1 DEF Offer
  <2> QED BY <1>1, <2>1 DEF FirstPorts, Block
<1>2. CASE Listed(row) # {}
  <2>1. PICK top \in [Kind -> Listed(row)] :
            /\ \A k \in Kind : \A j \in Listed(row) :
                   row[j].ports[k] <= row[top[k]].ports[k]
            /\ q = [k \in Kind |-> row[top[k]].ports[k] + 3]
    BY <1>2 DEF Offer
  <2>2. /\ q["rpc"] = row[top["rpc"]].ports["rpc"] + 3
        /\ q["net"] = row[top["net"]].ports["net"] + 3
        /\ q["indexer"] = row[top["indexer"]].ports["indexer"] + 3
    BY <2>1 DEF Kind
  <2>3. top["rpc"] \in Listed(row) /\ top["net"] \in Listed(row) /\ top["indexer"] \in Listed(row)
    BY <2>1 DEF Kind
  <2>4. \A x \in Listed(row) :
            /\ row[x].ports["rpc"] \in Nat
            /\ row[x].ports["net"] = row[x].ports["rpc"] + 1
            /\ row[x].ports["indexer"] = row[x].ports["rpc"] + 2
    BY PortsOfRows DEF Spacing, Block, Kind
  <2>5. \A j \in Listed(row) :
            /\ row[j].ports["rpc"] <= row[top["rpc"]].ports["rpc"]
            /\ row[j].ports["net"] <= row[top["net"]].ports["net"]
            /\ row[j].ports["indexer"] <= row[top["indexer"]].ports["indexer"]
    BY <2>1 DEF Kind
  <2>6. /\ row[top["net"]].ports["rpc"] = row[top["rpc"]].ports["rpc"]
        /\ row[top["indexer"]].ports["rpc"] = row[top["rpc"]].ports["rpc"]
    <3>1. /\ row[top["net"]].ports["rpc"] <= row[top["rpc"]].ports["rpc"]
          /\ row[top["indexer"]].ports["rpc"] <= row[top["rpc"]].ports["rpc"]
          /\ row[top["rpc"]].ports["net"] <= row[top["net"]].ports["net"]
          /\ row[top["rpc"]].ports["indexer"] <= row[top["indexer"]].ports["indexer"]
      BY <2>3, <2>5
    <3> QED BY <2>3, <2>4, <3>1
  <2>7. Block(q) /\ q["rpc"] \in Nat
    BY <2>2, <2>3, <2>4, <2>6 DEF Block
  <2>8. \A j \in Listed(row) : row[j].ports["rpc"] + 3 <= q["rpc"]
    BY <2>2, <2>3, <2>4, <2>5
  <2> QED BY <2>7, <2>8
<1> QED BY <1>1, <1>2

(* A project is added with the ports offered.                              *)
LEMMA AddSpaced ==
    ASSUME TypeInv, Spacing, NEW n, NEW q \in Offer(row), row'[n].ports = q,
           \A i \in Listed(row') : i # n =>
               i \in Listed(row) /\ row'[i].ports = row[i].ports
    PROVE  Spacing'
<1>1. /\ Block(q) /\ q["rpc"] \in Nat
      /\ \A j \in Listed(row) : row[j].ports["rpc"] + 3 <= q["rpc"]
  BY OfferAbove
<1>2. \A i \in Listed(row') : Block(row'[i].ports)
  BY <1>1 DEF Spacing
<1>3. ASSUME NEW i \in Listed(row'), NEW j \in Listed(row'), i # j
      PROVE  \/ row'[i].ports["rpc"] + 3 <= row'[j].ports["rpc"]
             \/ row'[j].ports["rpc"] + 3 <= row'[i].ports["rpc"]
  <2>1. CASE i = n
    BY <1>1, <1>3, <2>1
  <2>2. CASE j = n
    BY <1>1, <1>3, <2>2
  <2>3. CASE i # n /\ j # n
    BY <1>3, <2>3 DEF Spacing
  <2> QED BY <2>1, <2>2, <2>3
<1> QED BY <1>2, <1>3 DEF Spacing

LEMMA HistoryGrows ==
    ASSUME NEW t \in Thread, Save(t)
    PROVE  (raced => raced') /\ (edited => edited')
<1>1. CASE SaveActivation(t) \/ SaveChain(t) \/ SavePage(t)
  <2>1. raced' = (raced \/ t \in stale) /\ edited' = edited
    BY <1>1 DEF SaveActivation, SaveChain, SavePage
  <2> QED BY <2>1
<1>2. CASE SaveEdit(t)
  BY <1>2 DEF SaveEdit
<1>3. CASE SaveDelete(t) \/ SaveBan(t) \/ SaveUnban(t)
  <2>1. raced' = raced /\ edited' = edited
    BY <1>3 DEF SaveDelete, SaveBan, SaveUnban
  <2> QED BY <2>1
<1> QED BY <1>1, <1>2, <1>3 DEF Save

LEMMA SpacingStep == TypeInv /\ CurrentInv /\ SpacingInv /\ [Next]_vars => SpacingInv'
<1> SUFFICES ASSUME TypeInv, CurrentInv, SpacingInv, [Next]_vars, ~raced', ~edited'
             PROVE  Spacing'
  BY DEF SpacingInv
<1>1. CASE UNCHANGED <<row, raced, edited>>
  BY <1>1 DEF SpacingInv, Spacing
<1>2. ASSUME NEW t \in Thread, Save(t)  PROVE Spacing'
  <2>1. ~raced /\ ~edited
    BY <1>2, HistoryGrows
  <2>2. Spacing
    BY <2>1 DEF SpacingInv
  <2>3. CASE SaveActivation(t)
    <3>1. Listed(row') = Listed(row)
      BY <2>3, ActivationRows DEF Listed
    <3>2. \A i \in Listed(row') : row'[i].ports = row[i].ports
      BY <2>3, <3>1, ActivationRows
    <3> QED BY <2>2, <3>1, <3>2 DEF Spacing
  <2>4. CASE SaveChain(t)
    <3>1. t \notin stale
      BY <2>4 DEF SaveChain
    <3>2. row' # row /\ req[t].ports \in Offer(row)
      BY <2>1, <2>4, <3>1, ChainResult
    <3>3. /\ row'[nextId] = [ports |-> req[t].ports, active |-> TRUE]
          /\ \A i \in Listed(row') : i # nextId =>
                 i \in Listed(row) /\ row'[i].ports = row[i].ports
      BY <2>4, <3>2, ChainRows DEF Listed
    <3> QED BY <2>2, <3>2, <3>3, AddSpaced
  <2>5. CASE SavePage(t)
    <3>1. t \notin stale
      BY <2>5 DEF SavePage
    <3>2. req[t].ports \in Offer(row)
      BY <2>1, <2>5, <3>1 DEF SavePage, CurrentInv, Current, HasOffer
    <3>3. /\ row'[nextId] = [ports |-> req[t].ports, active |-> Active(view[t]) = {}]
          /\ \A i \in Listed(row') : i # nextId =>
                 i \in Listed(row) /\ row'[i].ports = row[i].ports
      BY <2>5, PageRows DEF Listed
    <3> QED BY <2>2, <3>2, <3>3, AddSpaced
  <2>6. CASE SaveDelete(t)
    <3>1. \A i \in Listed(row') : i \in Listed(row) /\ row'[i] = row[i]
      BY <2>6, DeleteRows DEF Listed
    <3> QED BY <2>2, <3>1 DEF Spacing
  <2>7. CASE SaveEdit(t)
    BY <2>7 DEF SaveEdit
  <2>8. CASE SaveBan(t) \/ SaveUnban(t)
    BY <1>1, <2>8 DEF SaveBan, SaveUnban
  <2> QED BY <1>2, <2>3, <2>4, <2>5, <2>6, <2>7, <2>8 DEF Save
<1>3. ASSUME NEW t \in Thread, Arrive(t) \/ Post(t) \/ Refresh(t) \/ NotFound(t)
      PROVE  UNCHANGED <<row, raced>> /\ (edited => edited')
  <2>1. CASE Post(t)
    <3>1. edited => edited'
      BY <2>1 DEF Post
    <3> QED BY <2>1, <3>1 DEF Post, db
  <2>2. CASE Arrive(t) \/ Refresh(t) \/ NotFound(t)
    <3>1. UNCHANGED <<row, raced, edited>>
      BY <2>2 DEF Arrive, CreateChain, QuickStart, OpenForm, SetActive, Delete, Edit, Deny,
                  Ask, Refresh, NotFound, db
    <3> QED BY <3>1
  <2> QED BY <1>3, <2>1, <2>2
<1>4. CASE UNCHANGED <<row, raced>> /\ (edited => edited')
  BY <1>4 DEF SpacingInv, Spacing
<1>5. CASE UNCHANGED vars
  BY <1>1, <1>5 DEF vars, db
<1> QED BY <1>2, <1>3, <1>4, <1>5 DEF Next

(* Unless a user types in ports, or requests that create race, no port is  *)
(* given twice, to one project or to two.                                  *)
THEOREM PortsAreDistinct == Spec => []PortsDistinct
<1>1. Init => SpacingInv
  BY DEF Init, SpacingInv, Spacing, Listed, Empty
<1> QED BY <1>1, TypeInvariant, CurrentInvariant, SpacingStep, SpacingDistinct, PTL DEF Spec
=============================================================================
