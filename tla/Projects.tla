------------------------------- MODULE Projects -------------------------------
(***************************************************************************)
(* The projects of the database and the denylist: which project is the     *)
(* active one, which ports a new one gets, which transactions are denied.  *)
(* The operations are create_chain, set_active_chain, delete_chain,        *)
(* ban_transaction and unban_transaction of Tippy/Api/TippyRpc, and the    *)
(* pages QuickStart, SwitchProject, Projects/Create, Edit and Delete.      *)
(*                                                                         *)
(* A request reads the projects into its own Entity Framework context and  *)
(* later saves the columns it has changed there, in one transaction: what  *)
(* other requests save in between is neither seen nor checked, except that *)
(* an UPDATE or DELETE of a row that is gone fails and is rolled back.     *)
(***************************************************************************)
EXTENDS Integers

CONSTANTS
    MaxId,        \* bound on the projects ever created
    Thread,       \* requests in progress, and forms that users have open
    EditPorts,    \* port settings users type in
    Deniable,     \* a transaction hash with a deny type
    Null

Id == 1..MaxId
Kind == {"rpc", "net", "indexer"}
Ports == [Kind -> Nat]
Row == [ports : Ports, active : BOOLEAN]
Table == [Id -> Row \cup {Null}]

ASSUME ConstantsAssumption ==
    /\ MaxId \in Nat
    /\ EditPorts \subseteq Ports
    /\ Null \notin Row /\ Null \notin Ports /\ Null \notin Id

VARIABLES
    row,          \* the table Projects
    nextId,       \* its next key (AUTOINCREMENT: keys are not used again)
    denied,       \* the table DeniedTransactions: its unique index makes it a
                  \* function from what is denied to the project that denied it
    pc, req,      \* step and request of each thread
    view,         \* the projects each request has read, as it has read them,
                  \* as far as it is going to use them
    stale,        \* history: threads whose view another request's save outdated
    raced,        \* history: a request activated or created on such a view
    edited        \* history: a user has typed in ports

db == <<row, nextId, denied>>
vars == <<db, pc, req, view, stale, raced, edited>>

Activating == {"create_chain", "quick_start", "set_active"}
Creating == {"create_chain", "quick_start", "create"}
Denying == {"ban", "unban"}
Op == Activating \cup Creating \cup Denying \cup {"delete", "edit"}
Step == {"idle", "form", "refresh", "save"}
Request == [op : Op, id : Id \cup {Null}, ports : Ports \cup {Null}, item : Deniable \cup {Null}]

Empty == [i \in Id |-> Null]
Listed(v) == {i \in Id : v[i] # Null}
Active(v) == {i \in Listed(v) : v[i].active}

(* ActiveProjectFilter: the first active project, else the first project.  *)
First(S) == IF S = {} THEN Null ELSE CHOOSE i \in S : \A j \in S : i <= j
ActiveProject(v) == IF Active(v) # {} THEN First(Active(v)) ELSE First(Listed(v))

FirstPorts == [rpc |-> 8114, net |-> 8115, indexer |-> 8116]

(* Mutant: the ports of a new project are taken too close.                 *)
OfferTooClose(v) ==
    IF Listed(v) = {} THEN {FirstPorts}
    ELSE {[k \in Kind |-> v[top[k]].ports[k] + 2] : top \in
             {h \in [Kind -> Listed(v)] :
                 \A k \in Kind : \A j \in Listed(v) : v[j].ports[k] <= v[h[k]].ports[k]}}

(* The ports offered to a new project: of each kind, 3 above the highest.  *)
(* A set of one setting.                                                   *)
Offer(v) ==
    IF Listed(v) = {} THEN {FirstPorts}
    ELSE {[k \in Kind |-> v[top[k]].ports[k] + 3] : top \in
             {h \in [Kind -> Listed(v)] :
                 \A k \in Kind : \A j \in Listed(v) : v[j].ports[k] <= v[h[k]].ports[k]}}

Goto(t, step) == pc' = [pc EXCEPT ![t] = step]

(* The request ends, and its context with it.                              *)
Finish(t) ==
    /\ Goto(t, "idle")
    /\ req' = [req EXCEPT ![t] = Null]
    /\ view' = [view EXCEPT ![t] = Empty]

(* A request that reads the projects, and keeps v of them.                 *)
Ask(t, o, i, q, x, v, step) ==
    /\ pc[t] = "idle"
    /\ req' = [req EXCEPT ![t] = [op |-> o, id |-> i, ports |-> q, item |-> x]]
    /\ view' = [view EXCEPT ![t] = v]
    /\ Goto(t, step)
    /\ UNCHANGED <<db, stale, raced, edited>>

-----------------------------------------------------------------------------
(* Requests arrive, and read the projects.                                 *)

CreateChain(t) == Ask(t, "create_chain", Null, Null, Null, row, "refresh")

(* The page computes the ports before its handler reads again.             *)
QuickStart(t) == \E q \in Offer(row) : Ask(t, "quick_start", Null, q, Null, row, "refresh")

(* OnGet of the Create page: the offer goes into a form.                   *)
OpenForm(t) == \E q \in Offer(row) : Ask(t, "create", Null, q, Null, Empty, "form")

(* Also SwitchProject.                                                     *)
SetActive(t) == \E i \in Id : Ask(t, "set_active", i, Null, Null, row, "refresh")

Delete(t) == \E i \in Listed(row) : Ask(t, "delete", i, Null, Null, Empty, "save")

Edit(t) ==
    \E i \in Listed(row), q \in EditPorts :
        Ask(t, "edit", i, q, Null, [Empty EXCEPT ![i] = row[i]], "save")

(* Both deny for the active project, or throw if there is none.            *)
Deny(t) ==
    \E o \in Denying, x \in Deniable :
        /\ Listed(row) # {}
        /\ Ask(t, o, ActiveProject(row), Null, x, Empty, "save")

-----------------------------------------------------------------------------
(* The steps between.                                                      *)

(* The form comes back, with the ports as offered or as typed in.          *)
Post(t) ==
    /\ pc[t] = "form"
    /\ \E q \in EditPorts \cup {req[t].ports} :
          /\ req' = [req EXCEPT ![t].ports = q]
          /\ edited' = (edited \/ q # req[t].ports)
    /\ view' = [view EXCEPT ![t] = row]
    /\ Goto(t, "save")
    /\ UNCHANGED <<db, stale, raced>>

(* Projects.ToListAsync in a context that already holds what it has read:  *)
(* only new rows are taken as they are, and rows that are gone are left    *)
(* out (the one to be activated is held all the same).                     *)
Reread(t) ==
    [i \in Id |-> IF row[i] = Null /\ i # req[t].id THEN Null
                  ELSE IF view[t][i] # Null THEN view[t][i] ELSE row[i]]

(* Mutant: the ports of the new chain are left unset.                      *)
RefreshNoPorts(t) ==
    /\ pc[t] = "refresh"
    /\ Goto(t, "save")
    /\ view' = [view EXCEPT ![t] = Reread(t)]
    /\ UNCHANGED <<db, req, stale, raced, edited>>

(* create_chain computes its ports from what this second query returns.    *)
Refresh(t) ==
    /\ pc[t] = "refresh"
    /\ Goto(t, "save")
    /\ view' = [view EXCEPT ![t] = Reread(t)]
    /\ \/ /\ req[t].op = "create_chain"
          /\ \E q \in Offer(Reread(t)) : req' = [req EXCEPT ![t].ports = q]
       \/ req[t].op = "set_active" /\ Reread(t)[req[t].id] # Null /\ UNCHANGED req
       \/ req[t].op = "quick_start" /\ UNCHANGED req
    /\ UNCHANGED <<db, stale, raced, edited>>

(* The project to be activated does not exist.                             *)
NotFound(t) ==
    /\ pc[t] = "refresh" /\ req[t].op = "set_active"
    /\ Reread(t)[req[t].id] = Null
    /\ Finish(t)
    /\ stale' = stale \ {t}
    /\ UNCHANGED <<db, raced, edited>>

-----------------------------------------------------------------------------
(* SaveChangesAsync.                                                       *)

(* t has changed the projects: what the others have read is outdated.      *)
Outdate(t) == stale' = (stale \cup {u \in Thread : pc[u] # "idle"}) \ {t}

(* Mutant: only the project shown as active is deactivated.                *)
DeactivatedOne(t) == {i \in Active(view[t]) : i = ActiveProject(view[t]) /\ i # req[t].id}

(* The projects whose IsActive goes from true to false in the view.        *)
Deactivated(t) == {i \in Active(view[t]) : i # req[t].id}

(* The UPDATE of a row that is gone throws.                                *)
Throws(changed) == \E i \in changed : row[i] = Null

SaveActivation(t) ==
    LET i == req[t].id
        changed == Deactivated(t) \cup ({i} \ Active(view[t])) IN
    /\ pc[t] = "save" /\ req[t].op = "set_active"
    /\ \/ /\ Throws(changed) /\ UNCHANGED row /\ stale' = stale \ {t}
       \/ /\ ~Throws(changed)
          /\ row' = [j \in Id |-> IF j \in changed THEN [row[j] EXCEPT !.active = (j = i)]
                                  ELSE row[j]]
          /\ Outdate(t)
    /\ raced' = (raced \/ t \in stale)
    /\ Finish(t)
    /\ UNCHANGED <<nextId, denied, edited>>

SaveChain(t) ==
    /\ pc[t] = "save" /\ req[t].op \in {"create_chain", "quick_start"}
    /\ nextId \in Id
    /\ \/ /\ Throws(Deactivated(t)) /\ UNCHANGED <<row, nextId>> /\ stale' = stale \ {t}
       \/ /\ ~Throws(Deactivated(t))
          /\ row' = [j \in Id |->
                 IF j = nextId THEN [ports |-> req[t].ports, active |-> TRUE]
                 ELSE IF j \in Deactivated(t) THEN [row[j] EXCEPT !.active = FALSE] ELSE row[j]]
          /\ nextId' = nextId + 1
          /\ Outdate(t)
    /\ raced' = (raced \/ t \in stale)
    /\ Finish(t)
    /\ UNCHANGED <<denied, edited>>

(* Mutant: a new project is active, whatever the others are.               *)
SavePageActive(t) ==
    /\ pc[t] = "save" /\ req[t].op = "create"
    /\ nextId \in Id
    /\ row' = [row EXCEPT ![nextId] = [ports |-> req[t].ports, active |-> TRUE]]
    /\ nextId' = nextId + 1
    /\ Outdate(t)
    /\ raced' = (raced \/ t \in stale)
    /\ Finish(t)
    /\ UNCHANGED <<denied, edited>>

SavePage(t) ==
    /\ pc[t] = "save" /\ req[t].op = "create"
    /\ nextId \in Id
    /\ row' = [row EXCEPT ![nextId] = [ports |-> req[t].ports, active |-> Active(view[t]) = {}]]
    /\ nextId' = nextId + 1
    /\ Outdate(t)
    /\ raced' = (raced \/ t \in stale)
    /\ Finish(t)
    /\ UNCHANGED <<denied, edited>>

(* Mutant: the denylist of a deleted project is kept.                      *)
SaveDeleteOnly(t) ==
    LET i == req[t].id IN
    /\ pc[t] = "save" /\ req[t].op = "delete"
    /\ \/ row[i] = Null /\ UNCHANGED row /\ stale' = stale \ {t}
       \/ row[i] # Null /\ row' = [row EXCEPT ![i] = Null] /\ Outdate(t)
    /\ Finish(t)
    /\ UNCHANGED <<nextId, denied, raced, edited>>

(* What a project denies is deleted with it (DeleteBehavior.Cascade).      *)
SaveDelete(t) ==
    LET i == req[t].id IN
    /\ pc[t] = "save" /\ req[t].op = "delete"
    /\ \/ row[i] = Null /\ UNCHANGED <<row, denied>> /\ stale' = stale \ {t}
       \/ /\ row[i] # Null
          /\ row' = [row EXCEPT ![i] = Null]
          /\ denied' = [x \in Deniable |-> IF denied[x] = i THEN Null ELSE denied[x]]
          /\ Outdate(t)
    /\ Finish(t)
    /\ UNCHANGED <<nextId, raced, edited>>

(* Mutant: the whole row is written as it was read.                        *)
SaveEditWhole(t) ==
    LET i == req[t].id IN
    /\ pc[t] = "save" /\ req[t].op = "edit"
    /\ \/ row[i] = Null /\ UNCHANGED row /\ stale' = stale \ {t}
       \/ /\ row[i] # Null
          /\ row' = [row EXCEPT ![i] = [view[t][i] EXCEPT !.ports = req[t].ports]]
          /\ Outdate(t)
    /\ edited' = TRUE
    /\ Finish(t)
    /\ UNCHANGED <<nextId, denied, raced>>

(* Only the ports that differ from those the request has read are written. *)
SaveEdit(t) ==
    LET i == req[t].id
        old == view[t][i].ports
        new == req[t].ports IN
    /\ pc[t] = "save" /\ req[t].op = "edit"
    /\ \/ row[i] = Null /\ UNCHANGED row /\ stale' = stale \ {t}
       \/ /\ row[i] # Null
          /\ row' = [row EXCEPT ![i].ports =
                 [k \in Kind |-> IF new[k] # old[k] THEN new[k] ELSE @[k]]]
          /\ Outdate(t)
    /\ edited' = TRUE
    /\ Finish(t)
    /\ UNCHANGED <<nextId, denied, raced>>

(* The INSERT fails if the transaction is denied already, by whichever     *)
(* project, or if the project is gone; the handler swallows the exception  *)
(* and answers "Added to denylist.".                                       *)
SaveBan(t) ==
    LET x == req[t].item IN
    /\ pc[t] = "save" /\ req[t].op = "ban"
    /\ denied' = [denied EXCEPT ![x] = IF @ = Null /\ row[req[t].id] # Null THEN req[t].id ELSE @]
    /\ Finish(t)
    /\ stale' = stale \ {t}
    /\ UNCHANGED <<row, nextId, raced, edited>>

(* The query asks for the transaction alone, and not for the project.      *)
SaveUnban(t) ==
    /\ pc[t] = "save" /\ req[t].op = "unban"
    /\ denied' = [denied EXCEPT ![req[t].item] = Null]
    /\ Finish(t)
    /\ stale' = stale \ {t}
    /\ UNCHANGED <<row, nextId, raced, edited>>

-----------------------------------------------------------------------------
Init ==
    /\ row = Empty /\ nextId = 1
    /\ denied = [x \in Deniable |-> Null]
    /\ pc = [t \in Thread |-> "idle"]
    /\ req = [t \in Thread |-> Null]
    /\ view = [t \in Thread |-> Empty]
    /\ stale = {} /\ raced = FALSE /\ edited = FALSE

Arrive(t) ==
    \/ CreateChain(t) \/ QuickStart(t) \/ OpenForm(t) \/ SetActive(t)
    \/ Delete(t) \/ Edit(t) \/ Deny(t)

Save(t) ==
    \/ SaveActivation(t) \/ SaveChain(t) \/ SavePage(t)
    \/ SaveDelete(t) \/ SaveEdit(t) \/ SaveBan(t) \/ SaveUnban(t)

Next == \E t \in Thread : Arrive(t) \/ Post(t) \/ Refresh(t) \/ NotFound(t) \/ Save(t)

Spec == Init /\ [][Next]_vars
-----------------------------------------------------------------------------
(* Properties.                                                             *)

TypeOK ==
    /\ row \in Table
    /\ nextId \in Nat /\ \A i \in Id : i >= nextId => row[i] = Null
    /\ denied \in [Deniable -> Id \cup {Null}]
    /\ pc \in [Thread -> Step]
    /\ req \in [Thread -> Request \cup {Null}]
    /\ view \in [Thread -> Table]
    /\ stale \subseteq Thread
    /\ raced \in BOOLEAN /\ edited \in BOOLEAN

(* The pages and the API take one project as the current chain: there are  *)
(* no two, unless requests that create or activate have raced.             *)
UniqueActive == raced \/ \A i, j \in Active(row) : i = j

(* A request that activates a project, and that no other request's save    *)
(* came in between, leaves that one active and no other, whatever earlier  *)
(* races have left behind.                                                 *)
LoneActivation ==
    [][\A t \in Thread :
          pc[t] = "save" /\ pc'[t] = "idle" /\ req[t].op \in Activating /\ t \notin stale
              => Active(row') = {IF req[t].op = "set_active" THEN req[t].id ELSE nextId}]_vars

(* Deleting, editing or creating on the page, and denying, never take the  *)
(* active project's place, whatever requests they overlap with.            *)
ActiveStays ==
    [][\A t \in Thread :
          pc[t] = "save" /\ pc'[t] = "idle" /\ req[t].op \notin Activating
              => \A i \in Active(row) :
                     ActiveProject(row) = i /\ row'[i] # Null => ActiveProject(row') = i]_vars

(* All chains that were given the ports offered can run at the same time,  *)
(* unless requests that create have raced.                                 *)
PortsDistinct ==
    raced \/ edited \/
        \A i, j \in Listed(row), k, l \in Kind :
            row[i].ports[k] = row[j].ports[l] => i = j /\ k = l

(* The denylist names existing projects only, also when a project is       *)
(* deleted while a transaction is being denied for it.                     *)
DeniedOwned == \A x \in Deniable : denied[x] # Null => row[denied[x]] # Null

(* ban_transaction's answer, "Added to denylist.": the active project      *)
(* denies the transaction.                                                 *)
AnswerAdded ==
    [][\A t \in Thread :
          pc[t] = "save" /\ pc'[t] = "idle" /\ req[t].op = "ban"
              => denied'[req[t].item] = req[t].id]_vars
=============================================================================
