------------------------ MODULE AdvancedMining_proofs ------------------------
(***************************************************************************)
(* Theorems about AdvancedMining, for any number of request threads, pool  *)
(* threads, timers, transactions and blocks asked for.                     *)
(***************************************************************************)
EXTENDS AdvancedMining, FiniteSetTheorems, TLAPS

-----------------------------------------------------------------------------
(* Types.                                                                  *)

(* A request in progress has its parameters.                               *)
TypeInv == TypeOK /\ \A c \in Caller : pc[c] # "idle" => call[c] \in Call

LEMMA TypeInit == Init => TypeInv
<1> SUFFICES ASSUME Init  PROVE TypeInv
  OBVIOUS
<1>1. pc \in [Thread -> RequestSteps \cup HandlerSteps] /\ \A w \in Thread : pc[w] = "idle"
  BY DEF Init, RequestSteps
<1>2. /\ call \in [Thread -> Call \cup {Null}]
      /\ block \in [Thread -> Block \cup {Null}]
      /\ copy \in [Tick -> Int]
      /\ stage \in [Tx -> Stage]
      /\ barred \in [Tick -> SUBSET Deniable]
  BY DEF Init, Stage
<1>3. /\ overlapped \in BOOLEAN /\ crowded \in BOOLEAN /\ late \in BOOLEAN
      /\ denylist \subseteq Deniable /\ deny \in {Null}
  BY DEF Init
<1>4. /\ timer \in {Null} /\ enabled = {} /\ remaining \in Int
      /\ asked \in Int /\ mined \in Nat /\ lost \in Nat
      /\ node \in {"up", "gone", "removed"}
  BY DEF Init
<1> QED BY <1>1, <1>2, <1>3, <1>4 DEF TypeInv, TypeOK, Thread, RequestSteps, HandlerSteps

(* What the control operators do to the steps and the requests.            *)
LEMMA GotoControl ==
    ASSUME NEW w \in Thread, NEW step, TypeInv, Goto(w, step), UNCHANGED call,
           w \in Caller => step \in RequestSteps /\ (step # "idle" => pc[w] # "idle"),
           w \in Tick => step \in HandlerSteps
    PROVE  /\ pc' \in [Thread -> RequestSteps \cup HandlerSteps]
           /\ \A c \in Caller : pc'[c] \in RequestSteps
           /\ \A k \in Tick : pc'[k] \in HandlerSteps
           /\ call' \in [Thread -> Call \cup {Null}]
           /\ \A c \in Caller : pc'[c] # "idle" => call'[c] \in Call
BY DEF TypeInv, TypeOK, Goto, Thread

LEMMA FinishControl ==
    ASSUME NEW w \in Thread, TypeInv, Finish(w)
    PROVE  /\ pc' \in [Thread -> RequestSteps \cup HandlerSteps]
           /\ \A c \in Caller : pc'[c] \in RequestSteps
           /\ \A k \in Tick : pc'[k] \in HandlerSteps
           /\ call' \in [Thread -> Call \cup {Null}]
           /\ \A c \in Caller : pc'[c] # "idle" => call'[c] \in Call
BY DEF TypeInv, TypeOK, Finish, Goto, Thread, RequestSteps, HandlerSteps

LEMMA ReturnControl ==
    ASSUME NEW w \in Thread, TypeInv, Return(w)
    PROVE  /\ pc' \in [Thread -> RequestSteps \cup HandlerSteps]
           /\ \A c \in Caller : pc'[c] \in RequestSteps
           /\ \A k \in Tick : pc'[k] \in HandlerSteps
           /\ call' \in [Thread -> Call \cup {Null}]
           /\ \A c \in Caller : pc'[c] # "idle" => call'[c] \in Call
<1>1. CASE w \in Tick
  <2>1. w \notin Caller
    BY <1>1, ConstantsAssumption
  <2> QED BY <1>1, <2>1, GotoControl DEF Return, HandlerSteps
<1>2. CASE w \notin Tick
  BY <1>2, FinishControl DEF Return
<1> QED BY <1>1, <1>2

LEMMA TemplateType ==
    ASSUME TypeInv  PROVE Template \subseteq Item
BY DEF TypeInv, TypeOK, Template, Item

LEMMA NewTipType ==
    ASSUME TypeInv, NEW w, NEW items, NewTip(w, items)
    PROVE  stage' \in [Tx -> Stage] /\ block' \in [Thread -> Block \cup {Null}]
<1>1. stage' \in [Tx -> Stage]
  BY DEF TypeInv, TypeOK, NewTip, Apply, Stage
<1>2. \A v \in Thread : block[v] # Null => [block[v] EXCEPT !.fresh = FALSE] \in Block
  BY DEF TypeInv, TypeOK, Block
<1>3. block' \in [Thread -> Block \cup {Null}]
  BY <1>2 DEF TypeInv, TypeOK, NewTip
<1> QED BY <1>1, <1>3

LEMMA TypeStep == TypeInv /\ [Next]_vars => TypeInv'
<1> SUFFICES ASSUME TypeInv, [Next]_vars  PROVE TypeInv'
  OBVIOUS
<1> USE ConstantsAssumption
<1>1. ASSUME NEW c \in Caller, Load(c)  PROVE TypeInv'
  <2> PICK mode \in Mode, n \in Blocks \cup {1} :
        /\ call' = [call EXCEPT ![c] =
               [mode |-> mode, n |-> n, rows |-> IF mode = "default" THEN Null ELSE denylist]]
        /\ pc' = [pc EXCEPT ![c] = "assign"]
    BY <1>1 DEF Load, Goto
  <2>1. [mode |-> mode, n |-> n, rows |-> IF mode = "default" THEN Null ELSE denylist] \in Call
    BY DEF Call, TypeInv, TypeOK
  <2>2. crowded' \in BOOLEAN
    BY <1>1 DEF Load
  <2> QED BY <1>1, <2>1, <2>2
         DEF Load, TypeInv, TypeOK, Thread, RequestSteps, HandlerSteps
<1>2. ASSUME NEW c \in Caller, Assign(c)  PROVE TypeInv'
  <2>1. c \in Thread /\ c \notin Tick /\ call[c] \in Call
    BY <1>2 DEF Thread, TypeInv, Assign
  <2>2. call[c].rows \in (SUBSET Deniable) \cup {Null}
    BY <2>1 DEF Call
  <2>3. Finish(c) \/ (Goto(c, "guard") /\ UNCHANGED call) \/ (Goto(c, "check") /\ UNCHANGED call)
    BY <1>2 DEF Assign
  <2>4. /\ pc' \in [Thread -> RequestSteps \cup HandlerSteps]
        /\ \A d \in Caller : pc'[d] \in RequestSteps
        /\ \A k \in Tick : pc'[k] \in HandlerSteps
        /\ call' \in [Thread -> Call \cup {Null}]
        /\ \A d \in Caller : pc'[d] # "idle" => call'[d] \in Call
    BY <1>2, <2>1, <2>3, GotoControl, FinishControl DEF Assign, RequestSteps, MineSteps
  <2> QED BY <1>2, <2>2, <2>4 DEF Assign, TypeInv, TypeOK, history, clashes
<1>3. ASSUME NEW c \in Caller, Check(c)  PROVE TypeInv'
  <2>1. c \in Thread /\ c \notin Tick
    BY DEF Thread
  <2>2. /\ pc' \in [Thread -> RequestSteps \cup HandlerSteps]
        /\ \A d \in Caller : pc'[d] \in RequestSteps
        /\ \A k \in Tick : pc'[k] \in HandlerSteps
        /\ call' \in [Thread -> Call \cup {Null}]
        /\ \A d \in Caller : pc'[d] # "idle" => call'[d] \in Call
    BY <1>3, <2>1, GotoControl, FinishControl DEF Check, RequestSteps
  <2> QED BY <1>3, <2>2 DEF Check, TypeInv, TypeOK, history, clashes
<1>4. ASSUME NEW c \in Caller, Create(c)  PROVE TypeInv'
  <2>1. c \in Thread /\ call[c] \in Call
    BY <1>4 DEF Thread, TypeInv, Create
  <2>2. call[c].n \in Int
    <3>1. Blocks \cup {1} \subseteq Int
      BY ConstantsAssumption
    <3>2. call[c].n \in Blocks \cup {1}
      BY <2>1 DEF Call
    <3> QED BY <3>1, <3>2
  <2>3. (CHOOSE t \in Timer \ enabled : TRUE) \in Timer \ enabled
    BY <1>4, Zenon DEF Create
  <2>4. /\ pc' \in [Thread -> RequestSteps \cup HandlerSteps]
        /\ \A d \in Caller : pc'[d] \in RequestSteps
        /\ \A k \in Tick : pc'[k] \in HandlerSteps
        /\ call' \in [Thread -> Call \cup {Null}]
        /\ \A d \in Caller : pc'[d] # "idle" => call'[d] \in Call
    BY <1>4, <2>1, FinishControl DEF Create
  <2>5. timer' \in Timer /\ enabled' \subseteq Timer
    BY <1>4, <2>3 DEF Create, TypeInv, TypeOK
  <2>6. remaining' \in Int /\ asked' \in Int
    BY <1>4, <2>2 DEF Create, TypeInv, TypeOK
  <2>7. /\ UNCHANGED <<node, denylist, deny, copy, block, stage, mined, lost, barred>>
        /\ UNCHANGED <<overlapped, crowded>> /\ late' \in BOOLEAN
    BY <1>4 DEF Create
  <2>8. TypeOK'
    BY <2>4, <2>5, <2>6, <2>7 DEF TypeInv, TypeOK
  <2> QED BY <2>4, <2>8 DEF TypeInv
<1>5. ASSUME NEW w \in Thread, MineOneBlock(w)  PROVE TypeInv'
  <2>0. barred' \in [Tick -> SUBSET Deniable] \/ UNCHANGED barred
    <3>1. Unbar(w) => barred' \in [Tick -> SUBSET Deniable]
      BY DEF Unbar, TypeInv, TypeOK
    <3>2. Guard(w) => barred' \in [Tick -> SUBSET Deniable]
      BY <3>1 DEF Guard, TypeInv, TypeOK, clashes
    <3> QED BY <1>5, <3>1, <3>2
           DEF MineOneBlock, GetTemplate, NoTemplate, Submit, SubmitFails, history, clashes
  <2>00. Lose(w) => lost' \in Nat
    BY DEF Lose, TypeInv, TypeOK
  <2>1. CASE Guard(w)
    <3>1. \/ Return(w)
          \/ Goto(w, "template") /\ UNCHANGED call
      BY <2>1 DEF Guard
    <3>2. pc[w] = "guard"
      BY <2>1 DEF Guard
    <3>3. /\ pc' \in [Thread -> RequestSteps \cup HandlerSteps]
          /\ \A d \in Caller : pc'[d] \in RequestSteps
          /\ \A k \in Tick : pc'[k] \in HandlerSteps
          /\ call' \in [Thread -> Call \cup {Null}]
          /\ \A d \in Caller : pc'[d] # "idle" => call'[d] \in Call
      BY <3>1, <3>2, GotoControl, ReturnControl DEF RequestSteps, HandlerSteps, MineSteps
    <3> QED BY <2>0, <2>00, <2>1, <3>3 DEF Guard, TypeInv, TypeOK, clashes
  <2>2. CASE GetTemplate(w)
    <3>1. pc[w] = "template" /\ Goto(w, "submit") /\ UNCHANGED call
      BY <2>2 DEF GetTemplate
    <3>2. /\ pc' \in [Thread -> RequestSteps \cup HandlerSteps]
          /\ \A d \in Caller : pc'[d] \in RequestSteps
          /\ \A k \in Tick : pc'[k] \in HandlerSteps
          /\ call' \in [Thread -> Call \cup {Null}]
          /\ \A d \in Caller : pc'[d] # "idle" => call'[d] \in Call
      BY <3>1, GotoControl DEF RequestSteps, HandlerSteps, MineSteps
    <3>3. [items |-> Template \ deny, fresh |-> TRUE] \in Block
      BY TemplateType DEF Block
    <3>4. block' \in [Thread -> Block \cup {Null}]
      BY <2>2, <3>3 DEF GetTemplate, TypeInv, TypeOK
    <3> QED BY <2>2, <3>2, <3>4 DEF GetTemplate, TypeInv, TypeOK, history, clashes
  <2>3. CASE NoTemplate(w)
    <3>1. /\ pc' \in [Thread -> RequestSteps \cup HandlerSteps]
          /\ \A d \in Caller : pc'[d] \in RequestSteps
          /\ \A k \in Tick : pc'[k] \in HandlerSteps
          /\ call' \in [Thread -> Call \cup {Null}]
          /\ \A d \in Caller : pc'[d] # "idle" => call'[d] \in Call
      BY <2>3, FinishControl DEF NoTemplate
    <3> QED BY <2>0, <2>3, <3>1 DEF NoTemplate, TypeInv, TypeOK, clashes
  <2>4. CASE Submit(w)
    <3>1. /\ pc' \in [Thread -> RequestSteps \cup HandlerSteps]
          /\ \A d \in Caller : pc'[d] \in RequestSteps
          /\ \A k \in Tick : pc'[k] \in HandlerSteps
          /\ call' \in [Thread -> Call \cup {Null}]
          /\ \A d \in Caller : pc'[d] # "idle" => call'[d] \in Call
      BY <2>4, ReturnControl DEF Submit
    <3>2. stage' \in [Tx -> Stage] /\ block' \in [Thread -> Block \cup {Null}]
      <4>1. CASE Stale(w)
        BY <2>4, <4>1 DEF Submit, TypeInv, TypeOK, clashes
      <4>2. CASE ~Stale(w)
        BY <2>4, <4>2, NewTipType DEF Submit
      <4> QED BY <4>1, <4>2
    <3>3. mined' \in Nat /\ lost' \in Nat
      BY <2>00, <2>4 DEF Submit, TypeInv, TypeOK, clashes
    <3> QED BY <2>0, <2>4, <3>1, <3>2, <3>3 DEF Submit, TypeInv, TypeOK, clashes
  <2>5. CASE SubmitFails(w)
    <3>1. /\ pc' \in [Thread -> RequestSteps \cup HandlerSteps]
          /\ \A d \in Caller : pc'[d] \in RequestSteps
          /\ \A k \in Tick : pc'[k] \in HandlerSteps
          /\ call' \in [Thread -> Call \cup {Null}]
          /\ \A d \in Caller : pc'[d] # "idle" => call'[d] \in Call
      BY <2>5, ReturnControl DEF SubmitFails
    <3> QED BY <2>0, <2>00, <2>5, <3>1 DEF SubmitFails, TypeInv, TypeOK, clashes
  <2> QED BY <1>5, <2>1, <2>2, <2>3, <2>4, <2>5 DEF MineOneBlock
<1>6. ASSUME NEW k \in Tick, Elapsed(k)  PROVE TypeInv'
  <2>1. overlapped' \in BOOLEAN
    BY <1>6 DEF Elapsed
  <2> QED
    BY <1>6, <2>1 DEF Elapsed, Goto, TypeInv, TypeOK, Thread, HandlerSteps, RequestSteps, MineSteps
<1>7. ASSUME NEW k \in Tick, Read(k)  PROVE TypeInv'
  BY <1>7 DEF Read, Goto, TypeInv, TypeOK, Thread, HandlerSteps, history, clashes
<1>8. ASSUME NEW k \in Tick, Write(k)  PROVE TypeInv'
  BY <1>8 DEF Write, Goto, TypeInv, TypeOK, Thread, HandlerSteps, history, clashes
<1>9. ASSUME NEW k \in Tick, Test(k) \/ StopAdvancedMining(k)  PROVE TypeInv'
  <2>1. \E step \in {"idle", "stop", "dispose", "forget"} : pc' = [pc EXCEPT ![k] = step]
    BY <1>9 DEF Test, StopAdvancedMining, Halt, Forget, Goto
  <2>2. timer' \in Timer \cup {Null} /\ enabled' \subseteq Timer
    BY <1>9 DEF Test, StopAdvancedMining, Halt, Forget, TypeInv, TypeOK
  <2>3. UNCHANGED <<node, denylist, deny, remaining, call, copy, block, stage, history>>
    BY <1>9 DEF Test, StopAdvancedMining, Halt, Forget
  <2> QED
    BY <2>1, <2>2, <2>3
       DEF TypeInv, TypeOK, Thread, HandlerSteps, StopSteps, history, clashes
<1>10. ASSUME NEW i \in Deniable, Ban(i) \/ Unban(i)  PROVE TypeInv'
  BY <1>10 DEF Ban, Unban, TypeInv, TypeOK, history, clashes
<1>11. CASE OtherBlock
  BY <1>11, NewTipType DEF OtherBlock, TypeInv, TypeOK, history, clashes
<1>12. CASE NodeGone
  BY <1>12 DEF NodeGone, TypeInv, TypeOK, history, clashes
<1>13. CASE UNCHANGED vars
  BY <1>13 DEF vars, TypeInv, TypeOK, history, clashes
<1> QED
  BY <1>1, <1>2, <1>3, <1>4, <1>5, <1>6, <1>7, <1>8, <1>9, <1>10, <1>11, <1>12, <1>13
     DEF Next, OnMiningNextBlock, Thread

(* The state is well typed, whatever handlers and requests overlap: of the *)
(* steps in particular, those of the timer's handler are only its own.     *)
THEOREM TypeCorrect == Spec => []TypeOK
<1>1. TypeInv => TypeOK
  BY DEF TypeInv
<1> QED BY <1>1, TypeInit, TypeStep, PTL DEF Spec

-----------------------------------------------------------------------------
(* What has clashed once stays on record.                                  *)
LEMMA ClashesStay ==
    ASSUME [Next]_vars
    PROVE  /\ overlapped => overlapped'
           /\ crowded => crowded'
           /\ late => late'
<1>1. ASSUME NEW c \in Caller, Load(c) \/ Create(c)
      PROVE  (overlapped => overlapped') /\ (crowded => crowded') /\ (late => late')
  <2>1. CASE Load(c)
    <3>1. UNCHANGED <<overlapped, late>>
      BY <2>1 DEF Load
    <3>2. crowded' = (crowded \/ \E d \in Caller \ {c} : pc[d] # "idle")
      BY <2>1 DEF Load
    <3> QED BY <3>1, <3>2
  <2>2. CASE Create(c)
    <3>1. UNCHANGED <<overlapped, crowded>>
      BY <2>2 DEF Create
    <3>2. late' = (late \/ \E k \in Tick : pc[k] # "idle")
      BY <2>2 DEF Create
    <3> QED BY <3>1, <3>2
  <2> QED BY <1>1, <2>1, <2>2
<1>2. ASSUME NEW k \in Tick, Elapsed(k)
      PROVE  (overlapped => overlapped') /\ (crowded => crowded') /\ (late => late')
  BY <1>2 DEF Elapsed
<1>3. ASSUME NEW c \in Caller, Assign(c) \/ Check(c)  PROVE UNCHANGED clashes
  BY <1>3 DEF Assign, Check, history
<1>4. ASSUME NEW w \in Thread, MineOneBlock(w)  PROVE UNCHANGED clashes
  BY <1>4 DEF MineOneBlock, Guard, GetTemplate, NoTemplate, Submit, SubmitFails, history
<1>5. ASSUME NEW k \in Tick, Read(k) \/ Write(k) \/ Test(k) \/ StopAdvancedMining(k)
      PROVE  UNCHANGED clashes
  BY <1>5 DEF Read, Write, Test, StopAdvancedMining, Halt, Forget, history
<1>6. CASE \/ \E i \in Deniable : Ban(i) \/ Unban(i)
          \/ OtherBlock \/ NodeGone \/ UNCHANGED vars
  <2>1. UNCHANGED history \/ UNCHANGED clashes
    BY <1>6 DEF Ban, Unban, OtherBlock, NodeGone, vars
  <2> QED BY <2>1 DEF history, clashes
<1>7. UNCHANGED clashes => UNCHANGED <<overlapped, crowded, late>>
  BY DEF clashes
<1> QED
  BY <1>1, <1>2, <1>3, <1>4, <1>5, <1>6, <1>7 DEF Next, OnMiningNextBlock, Thread

-----------------------------------------------------------------------------
(* Counting, as long as no two handlers and no two requests have run at    *)
(* once: the one timer, the count and the blocks mined agree.              *)

OneHandler == \A j, k \in Tick : pc[j] # "idle" /\ pc[k] # "idle" => j = k
OneRequest == \A c, d \in Caller : pc[c] # "idle" /\ pc[d] # "idle" => c = d

(* The field is the only timer there is.  A handler runs for it, and a     *)
(* request that has found it null finds it null when it sets it.           *)
TheTimer ==
    /\ timer = Null => enabled = {}
    /\ enabled \subseteq {timer}
    /\ \A k \in Tick : pc[k] # "idle" => timer # Null
    /\ \A k \in Tick : pc[k] \in {"dispose", "forget"} => enabled = {}
    /\ \A c \in Caller : pc[c] = "create" => timer = Null

(* Between its block and the decrement a handler is one block ahead.       *)
Ahead(k) == pc[k] \in {"read", "write"}

TheCount ==
    /\ timer = Null => mined + lost = asked
    /\ timer # Null /\ (\A k \in Tick : ~Ahead(k)) => mined + lost + remaining = asked
    /\ timer # Null /\ (\A k \in Tick : pc[k] \notin {"test"} \cup StopSteps) => remaining >= 1
    /\ \A k \in Tick :
          /\ Ahead(k) => mined + lost + remaining = asked + 1
          /\ pc[k] = "write" => copy[k] = remaining
          /\ pc[k] = "test" => remaining >= 0
          /\ pc[k] \in StopSteps => remaining = 0

Solo == OneHandler /\ OneRequest /\ TheTimer /\ TheCount
SoloInv == TypeInv /\ (overlapped \/ crowded \/ Solo)

LEMMA SoloInit == Init => SoloInv
<1> SUFFICES ASSUME Init  PROVE SoloInv
  OBVIOUS
<1>1. /\ \A w \in Thread : pc[w] = "idle"
      /\ timer = Null /\ enabled = {} /\ mined = 0 /\ lost = 0 /\ asked = 0
  BY DEF Init
<1>2. OneHandler /\ OneRequest /\ TheTimer /\ TheCount
  BY <1>1 DEF OneHandler, OneRequest, TheTimer, TheCount, Ahead, StopSteps, Thread
<1> QED BY <1>2, TypeInit DEF SoloInv, Solo

(* Steps that leave the timer, the counts and the handlers alone.          *)
LEMMA SoloQuiet ==
    ASSUME TypeInv, Solo, OneRequest',
           UNCHANGED <<timer, enabled, remaining, copy, asked, mined, lost>>,
           \A k \in Tick : pc'[k] = pc[k],
           \A c \in Caller : pc'[c] = "create" => pc[c] = "create" \/ timer = Null
    PROVE  Solo'
BY DEF Solo, OneHandler, TheTimer, TheCount, Ahead, StopSteps

(* A step of the only request, which changes no other thread.              *)
LEMMA RequestStaysAlone ==
    ASSUME OneRequest, NEW c \in Caller, pc[c] # "idle",
           \A d \in Caller \ {c} : pc'[d] = pc[d]
    PROVE  OneRequest'
BY DEF OneRequest
LEMMA HandlerStaysAlone ==
    ASSUME OneHandler, NEW k \in Tick, pc[k] # "idle",
           \A j \in Tick \ {k} : pc'[j] = pc[j]
    PROVE  OneHandler' /\ \A j \in Tick \ {k} : pc[j] = "idle" /\ pc'[j] = "idle"
BY DEF OneHandler

LEMMA OtherCallers ==
    ASSUME TypeInv, NEW w \in Thread, NEW step, pc' = [pc EXCEPT ![w] = step]
    PROVE  pc'[w] = step /\ \A d \in Thread \ {w} : pc'[d] = pc[d]
BY DEF TypeInv, TypeOK

(* MineOneBlock for a request changes neither the timer nor the counts.    *)
LEMMA SoloMineByHand ==
    ASSUME TypeInv, Solo, NEW c \in Caller, MineOneBlock(c)
    PROVE  Solo'
<1> USE ConstantsAssumption
<1>1. c \in Thread /\ c \notin Tick
  BY DEF Thread
<1>2. /\ pc[c] \in MineSteps
      /\ UNCHANGED <<timer, enabled, remaining, copy, asked, mined, lost>>
  BY <1>1 DEF MineOneBlock, Guard, GetTemplate, NoTemplate, Submit, SubmitFails, Lose,
             MineSteps, history, clashes
<1>3. PICK step \in {"idle", "template", "submit"} : pc' = [pc EXCEPT ![c] = step]
  BY <1>1 DEF MineOneBlock, Guard, GetTemplate, NoTemplate, Submit, SubmitFails, Return, Finish,
             Goto
<1>4. /\ \A d \in Caller \ {c} : pc'[d] = pc[d]
      /\ \A k \in Tick : pc'[k] = pc[k]
      /\ pc'[c] # "create" /\ pc[c] # "idle"
  BY <1>1, <1>2, <1>3 DEF TypeInv, TypeOK, Thread, MineSteps
<1>5. OneRequest'
  BY <1>4, RequestStaysAlone DEF Solo
<1> QED BY <1>2, <1>4, <1>5, SoloQuiet

(* MineOneBlock for the timer's handler: a block more, or one lost, takes  *)
(* it to the decrement; an exception ends the handler with neither.        *)
LEMMA SoloMineByTimer ==
    ASSUME TypeInv, Solo, NEW k \in Tick, MineOneBlock(k)
    PROVE  Solo'
<1> USE ConstantsAssumption
<1>1. k \in Thread /\ k \notin Caller
  BY DEF Thread
<1>2. /\ pc[k] \in MineSteps
      /\ UNCHANGED <<timer, enabled, remaining, copy, asked>>
  BY DEF MineOneBlock, Guard, GetTemplate, NoTemplate, Submit, SubmitFails, MineSteps, history
<1>3. /\ mined \in Nat /\ lost \in Nat /\ remaining \in Int /\ asked \in Int
  BY DEF TypeInv, TypeOK
<1>4. \/ /\ pc' = [pc EXCEPT ![k] = "read"]
         /\ mined' + lost' = mined + lost + 1
      \/ /\ \E step \in {"idle", "template", "submit"} : pc' = [pc EXCEPT ![k] = step]
         /\ UNCHANGED <<mined, lost>>
  <2>1. CASE Guard(k)
    BY <2>1, <1>3 DEF Guard, Return, Goto, Lose
  <2>2. CASE GetTemplate(k) \/ NoTemplate(k)
    BY <2>2 DEF GetTemplate, NoTemplate, Finish, Goto, history, clashes
  <2>3. CASE Submit(k) \/ SubmitFails(k)
    BY <2>3, <1>3 DEF Submit, SubmitFails, Return, Goto, Lose
  <2> QED BY <2>1, <2>2, <2>3 DEF MineOneBlock
<1>5. /\ \A j \in Thread \ {k} : pc'[j] = pc[j]
      /\ pc'[k] \in {"idle", "template", "submit", "read"}
      /\ pc'[k] = "read" => mined' + lost' = mined + lost + 1
      /\ pc'[k] # "read" => mined' = mined /\ lost' = lost
      /\ pc[k] # "idle" /\ pc[k] # "test" /\ ~Ahead(k)
  BY <1>1, <1>2, <1>4 DEF TypeInv, TypeOK, MineSteps, Ahead
<1>6. OneHandler' /\ \A j \in Tick \ {k} : pc[j] = "idle" /\ pc'[j] = "idle"
  BY <1>5, HandlerStaysAlone DEF Solo, Thread
<1>7. OneRequest' /\ TheTimer'
  BY <1>1, <1>2, <1>5, <1>6 DEF Solo, OneRequest, TheTimer, Thread
<1>8. timer # Null /\ mined + lost + remaining = asked /\ remaining >= 1
  BY <1>2, <1>5, <1>6 DEF Solo, TheTimer, TheCount, Ahead, StopSteps, MineSteps
<1>9. TheCount'
  <2>1. timer' # Null /\ remaining' = remaining /\ asked' = asked
    BY <1>2, <1>8
  <2>2. CASE pc'[k] = "read"
    BY <1>3, <1>5, <1>6, <1>8, <2>1, <2>2 DEF TheCount, Ahead, StopSteps
  <2>3. CASE pc'[k] # "read"
    BY <1>3, <1>5, <1>6, <1>8, <2>1, <2>3 DEF TheCount, Ahead, StopSteps
  <2> QED BY <2>2, <2>3
<1> QED BY <1>6, <1>7, <1>9 DEF Solo

LEMMA SoloStep ==
    ASSUME Blocks \subseteq Nat \ {0}
    PROVE  SoloInv /\ [Next]_vars => SoloInv'
<1> SUFFICES ASSUME SoloInv, [Next]_vars  PROVE overlapped' \/ crowded' \/ Solo'
  BY TypeStep DEF SoloInv
<1> USE ConstantsAssumption
<1>0. TypeInv /\ TypeInv'
  BY TypeStep DEF SoloInv
<1>1. CASE overlapped \/ crowded
  BY <1>1, ClashesStay
<1>2. CASE Solo
  <2> USE <1>0
  <2>1. ASSUME NEW c \in Caller, Load(c), ~crowded'  PROVE Solo'
    <3>1. /\ pc' = [pc EXCEPT ![c] = "assign"]
          /\ \A d \in Caller \ {c} : pc[d] = "idle"
          /\ UNCHANGED <<timer, enabled, remaining, copy, asked, mined, lost>>
      BY <2>1 DEF Load, Goto
    <3>2. OneRequest'
      BY <3>1 DEF OneRequest, TypeInv, TypeOK, Thread
    <3> QED BY <1>2, <3>1, <3>2, SoloQuiet DEF TypeInv, TypeOK, Thread
  <2>2. ASSUME NEW c \in Caller, Assign(c) \/ Check(c)  PROVE Solo'
    <3>1. /\ pc[c] # "idle" /\ UNCHANGED <<timer, enabled, remaining, copy, asked, mined, lost>>
          /\ \E step \in RequestSteps : /\ pc' = [pc EXCEPT ![c] = step]
                                        /\ step = "create" => timer = Null
      BY <2>2 DEF Assign, Check, Goto, Finish, RequestSteps, MineSteps, history, clashes
    <3>2. PICK step \in RequestSteps :
            /\ pc' = [pc EXCEPT ![c] = step]
            /\ step = "create" => timer = Null
      BY <3>1
    <3>3. /\ \A d \in Caller \ {c} : pc'[d] = pc[d]
          /\ \A k \in Tick : pc'[k] = pc[k]
          /\ pc'[c] = "create" => timer = Null
      <4>1. pc \in [Thread -> RequestSteps \cup HandlerSteps] /\ c \in Thread /\ c \notin Tick
        BY DEF TypeInv, TypeOK, Thread
      <4> QED BY <3>2, <4>1 DEF Thread
    <3>4. OneRequest'
      BY <1>2, <3>1, <3>3, RequestStaysAlone DEF Solo
    <3> QED BY <1>2, <3>1, <3>3, <3>4, SoloQuiet
  <2>3. ASSUME NEW c \in Caller, Create(c)  PROVE Solo'
    <3>1. /\ pc[c] = "create" /\ pc' = [pc EXCEPT ![c] = "idle"]
          /\ UNCHANGED <<mined, lost, copy>>
          /\ remaining' = call[c].n /\ asked' = asked + call[c].n
      BY <2>3 DEF Create, Finish, Goto
    <3>2. /\ \A w \in Thread \ {c} : pc'[w] = pc[w]
          /\ pc'[c] = "idle" /\ c \notin Tick
      BY <3>1 DEF TypeInv, TypeOK
    <3>3. timer = Null /\ enabled = {} /\ mined + lost = asked /\ \A k \in Tick : pc[k] = "idle"
      BY <1>2, <3>1 DEF Solo, TheTimer, TheCount
    <3>4. timer' \in Timer /\ enabled' = {timer'}
      <4>1. (CHOOSE t \in Timer \ enabled : TRUE) \in Timer
        BY <2>3, Zenon DEF Create
      <4> QED BY <2>3, <3>3, <4>1 DEF Create
    <3>5. call[c].n \in Nat \ {0}
      <4>1. call[c] \in Call
        BY <3>1 DEF TypeInv
      <4>2. call[c].n \in Blocks \cup {1}
        BY <4>1 DEF Call
      <4>3. \A n \in Blocks \cup {1} : n \in Nat \ {0}
        OBVIOUS
      <4> QED BY <4>2, <4>3
    <3>6. OneHandler' /\ OneRequest'
      BY <1>2, <3>1, <3>2 DEF Solo, OneHandler, OneRequest, Thread
    <3>7. TheTimer'
      <4>1. \A d \in Caller : pc'[d] # "create"
        BY <1>2, <3>1, <3>2 DEF Solo, OneRequest, Thread
      <4> QED BY <3>2, <3>3, <3>4, <4>1 DEF TheTimer, Thread
    <3>8. TheCount'
      <4>1. mined \in Nat /\ lost \in Nat /\ asked \in Int
        BY DEF TypeInv, TypeOK
      <4>2. \A k \in Tick : pc'[k] = "idle"
        BY <3>2, <3>3 DEF Thread
      <4> QED BY <3>1, <3>3, <3>4, <3>5, <4>1, <4>2 DEF TheCount, Ahead, StopSteps
    <3> QED BY <3>6, <3>7, <3>8 DEF Solo
  <2>4. ASSUME NEW k \in Tick, Elapsed(k), ~overlapped'  PROVE Solo'
    <3>1. /\ pc[k] = "idle" /\ pc' = [pc EXCEPT ![k] = "guard"]
          /\ \A j \in Tick \ {k} : pc[j] = "idle"
          /\ enabled # {}
          /\ UNCHANGED <<timer, enabled, remaining, copy, asked, mined, lost>>
      BY <2>4 DEF Elapsed, Goto
    <3>2. /\ \A w \in Thread \ {k} : pc'[w] = pc[w]
          /\ pc'[k] = "guard" /\ k \notin Caller
      BY <3>1 DEF TypeInv, TypeOK, Thread
    <3>3. timer # Null
      BY <1>2, <3>1 DEF Solo, TheTimer
    <3>4. OneHandler' /\ OneRequest'
      BY <1>2, <3>1, <3>2 DEF Solo, OneHandler, OneRequest, Thread
    <3>5. TheTimer'
      BY <1>2, <3>1, <3>2, <3>3 DEF Solo, TheTimer, Thread
    <3>6. TheCount'
      <4>1. /\ \A j \in Tick : pc[j] = "idle"
            /\ \A j \in Tick : pc'[j] \in {"idle", "guard"}
        BY <3>1, <3>2 DEF Thread
      <4> QED BY <1>2, <3>1, <3>3, <4>1 DEF Solo, TheCount, Ahead, StopSteps
    <3> QED BY <3>4, <3>5, <3>6 DEF Solo
  <2>5. ASSUME NEW k \in Tick, Read(k) \/ Write(k)  PROVE Solo'
    <3>1. /\ pc[k] = "read" => remaining' = remaining /\ copy' = [copy EXCEPT ![k] = remaining]
          /\ pc[k] = "write" => remaining' = copy[k] - 1
          /\ pc[k] \in {"read", "write"}
          /\ pc' = [pc EXCEPT ![k] = IF pc[k] = "read" THEN "write" ELSE "test"]
          /\ UNCHANGED <<timer, enabled, asked, mined, lost>>
      BY <2>5 DEF Read, Write, Goto, history, clashes
    <3>2. /\ \A w \in Thread \ {k} : pc'[w] = pc[w]
          /\ pc'[k] = (IF pc[k] = "read" THEN "write" ELSE "test") /\ k \notin Caller
      BY <3>1 DEF TypeInv, TypeOK, Thread
    <3>3. OneHandler' /\ \A j \in Tick \ {k} : pc[j] = "idle" /\ pc'[j] = "idle"
      BY <1>2, <3>1, <3>2, HandlerStaysAlone DEF Solo, Thread
    <3>4. OneRequest' /\ TheTimer'
      BY <1>2, <3>1, <3>2, <3>3 DEF Solo, OneRequest, TheTimer, Thread
    <3>5. /\ timer # Null /\ mined + lost + remaining = asked + 1 /\ remaining >= 1
          /\ pc[k] = "write" => copy[k] = remaining
      BY <1>2, <3>1, <3>3 DEF Solo, TheTimer, TheCount, Ahead, StopSteps
    <3>6. mined \in Nat /\ lost \in Nat /\ asked \in Int /\ remaining \in Int
      BY DEF TypeInv, TypeOK
    <3>7. CASE pc[k] = "read"
      <4>1. copy'[k] = remaining
        BY <3>1, <3>7 DEF TypeInv, TypeOK
      <4>2. TheCount'
        BY <3>1, <3>2, <3>3, <3>5, <3>6, <3>7, <4>1 DEF TheCount, Ahead, StopSteps
      <4> QED BY <3>3, <3>4, <4>2 DEF Solo
    <3>8. CASE pc[k] = "write"
      <4>1. TheCount'
        BY <3>1, <3>2, <3>3, <3>5, <3>6, <3>8 DEF TheCount, Ahead, StopSteps
      <4> QED BY <3>3, <3>4, <4>1 DEF Solo
    <3> QED BY <3>1, <3>7, <3>8
  <2>6. ASSUME NEW k \in Tick, Test(k) \/ StopAdvancedMining(k)  PROVE Solo'
    <3>1. /\ pc[k] \in {"test"} \cup StopSteps
          /\ \E step \in {"idle"} \cup StopSteps : pc' = [pc EXCEPT ![k] = step]
          /\ UNCHANGED <<remaining, copy, asked, mined, lost>>
      BY <2>6 DEF Test, StopAdvancedMining, Halt, Forget, Goto, StopSteps, history
    <3>2. /\ \A w \in Thread \ {k} : pc'[w] = pc[w]
          /\ pc'[k] \in {"idle"} \cup StopSteps /\ k \notin Caller /\ pc[k] # "idle"
      BY <3>1 DEF TypeInv, TypeOK, Thread, StopSteps
    <3>3. OneHandler' /\ \A j \in Tick \ {k} : pc[j] = "idle" /\ pc'[j] = "idle"
      BY <1>2, <3>2, HandlerStaysAlone DEF Solo, Thread
    <3>4. /\ timer # Null /\ enabled \subseteq {timer} /\ mined + lost + remaining = asked
          /\ remaining >= 0 /\ (pc[k] \in StopSteps => remaining = 0)
      BY <1>2, <3>1, <3>3 DEF Solo, TheTimer, TheCount, Ahead, StopSteps
    <3>5. mined \in Nat /\ lost \in Nat /\ asked \in Int /\ remaining \in Int
      BY DEF TypeInv, TypeOK
    <3>6. \/ /\ UNCHANGED <<timer, enabled>>
             /\ pc'[k] = "idle" => remaining # 0 /\ pc[k] = "test"
             /\ pc'[k] # "idle" => remaining = 0 /\ pc'[k] = "stop"
          \/ /\ timer' = timer /\ enabled' = {}
             /\ pc'[k] # "idle" /\ pc[k] \in StopSteps
          \/ timer' = Null /\ enabled' = {} /\ pc[k] \in StopSteps /\ pc'[k] = "idle"
      <4>1. CASE Test(k)
        BY <4>1 DEF Test, Goto, TypeInv, TypeOK, Thread
      <4>2. CASE Halt(k)
        BY <3>4, <4>2 DEF Halt, Goto, StopSteps, TypeInv, TypeOK, Thread
      <4>3. CASE Forget(k)
        <5>1. enabled = {}
          BY <1>2, <4>3 DEF Forget, Solo, TheTimer
        <5> QED BY <4>3, <5>1 DEF Forget, Goto, StopSteps, TypeInv, TypeOK, Thread
      <4> QED BY <2>6, <4>1, <4>2, <4>3 DEF StopAdvancedMining
    <3>7. OneRequest' /\ TheTimer'
      BY <1>2, <3>2, <3>3, <3>4, <3>6 DEF Solo, OneRequest, TheTimer, Thread
    <3>8. TheCount'
      BY <3>1, <3>2, <3>3, <3>4, <3>5, <3>6 DEF TheCount, Ahead, StopSteps
    <3> QED BY <3>3, <3>7, <3>8 DEF Solo
  <2>7. CASE \/ \E i \in Deniable : Ban(i) \/ Unban(i)
            \/ OtherBlock \/ NodeGone \/ UNCHANGED vars
    <3>1. UNCHANGED <<timer, enabled, remaining, copy, asked, mined, lost, pc>>
      BY <2>7 DEF Ban, Unban, OtherBlock, NodeGone, vars, history, clashes
    <3> QED BY <1>2, <3>1 DEF Solo, OneHandler, OneRequest, TheTimer, TheCount, Ahead, StopSteps
  <2> QED
    BY <1>2, <2>1, <2>2, <2>3, <2>4, <2>5, <2>6, <2>7, SoloMineByHand, SoloMineByTimer
       DEF Next, OnMiningNextBlock
<1> QED BY <1>1, <1>2 DEF SoloInv

(* No block is mined that was not asked for.                               *)
LEMMA SoloCounts ==
    ASSUME SoloInv, ~overlapped, ~crowded
    PROVE  mined + lost <= asked
<1>1. Solo /\ mined \in Nat /\ lost \in Nat /\ asked \in Int /\ remaining \in Int
  BY DEF SoloInv, TypeInv, TypeOK
<1>2. CASE timer = Null
  BY <1>1, <1>2 DEF Solo, TheCount
<1>3. CASE timer # Null /\ \E k \in Tick : Ahead(k)
  <2> PICK k \in Tick : Ahead(k)
    BY <1>3
  <2>1. \A j \in Tick : pc[j] \notin {"test"} \cup StopSteps
    BY <1>1 DEF Solo, OneHandler, Ahead, StopSteps
  <2> QED BY <1>1, <1>3, <2>1 DEF Solo, TheCount
<1>4. CASE timer # Null /\ \A k \in Tick : ~Ahead(k)
  <2>1. remaining >= 0
    BY <1>1, <1>4 DEF Solo, OneHandler, TheCount, StopSteps
  <2> QED BY <1>1, <1>4, <2>1 DEF Solo, TheCount
<1> QED BY <1>2, <1>3, <1>4

-----------------------------------------------------------------------------
(* Counting, however many handlers run at once, as long as requests come   *)
(* one at a time and every mining starts when no handler runs: the count   *)
(* may be too high, never too low.                                         *)

(* The timer of the field is the only one, and is stopped when a handler   *)
(* has come past Stop.                                                     *)
OneTimer ==
    /\ OneRequest
    /\ enabled \subseteq {timer}
    /\ \A k \in Tick : pc[k] \in {"dispose", "forget"} => enabled = {}
    /\ \A c \in Caller : pc[c] = "create" => timer = Null

(* Handlers that have mined, or lost, a block and not counted it down.     *)
AheadSet == {k \in Tick : Ahead(k)}

(* A count of v leaves no block unaccounted for.                           *)
Covers(v) == v + mined + lost >= asked + Cardinality(AheadSet)

NeverShort ==
    /\ timer = Null => mined + lost >= asked
    /\ \A k \in Tick : pc[k] \in StopSteps => mined + lost >= asked
    /\ Covers(remaining)
    /\ \A k \in Tick : pc[k] = "write" => Covers(copy[k])

LongInv == TypeInv /\ (crowded \/ late \/ (OneTimer /\ NeverShort))

LEMMA AheadType == IsFiniteSet(AheadSet) /\ Cardinality(AheadSet) \in Nat
BY ConstantsAssumption, FS_Subset, FS_CardinalityType DEF AheadSet

LEMMA LongInit == Init => LongInv
<1> SUFFICES ASSUME Init  PROVE LongInv
  OBVIOUS
<1>1. /\ \A w \in Thread : pc[w] = "idle"
      /\ timer = Null /\ enabled = {} /\ mined = 0 /\ lost = 0 /\ asked = 0 /\ remaining = 0
  BY DEF Init
<1>2. AheadSet = {}
  BY <1>1 DEF AheadSet, Ahead, Thread
<1>3. Cardinality(AheadSet) = 0
  BY <1>2, FS_EmptySet
<1>4. OneTimer /\ NeverShort
  BY <1>1, <1>3 DEF OneTimer, OneRequest, NeverShort, Covers, StopSteps, Thread
<1> QED BY <1>4, TypeInit DEF LongInv

(* Steps that leave the timers, the counts and the handlers alone.         *)
LEMMA LongQuiet ==
    ASSUME OneTimer, NeverShort, OneRequest',
           UNCHANGED <<timer, enabled, remaining, copy, asked, mined, lost>>,
           \A k \in Tick : pc'[k] = pc[k],
           \A c \in Caller : pc'[c] = "create" => pc[c] = "create" \/ timer = Null
    PROVE  OneTimer' /\ NeverShort'
<1>1. AheadSet' = AheadSet
  BY DEF AheadSet, Ahead
<1> QED BY <1>1 DEF OneTimer, NeverShort, Covers

(* MineOneBlock of a handler: a block more, or one lost, puts it ahead.    *)
LEMMA LongMineByTimer ==
    ASSUME TypeInv, OneTimer, NeverShort, NEW k \in Tick, MineOneBlock(k)
    PROVE  OneTimer' /\ NeverShort'
<1> USE ConstantsAssumption
<1>1. k \in Thread /\ k \notin Caller
  BY DEF Thread
<1>2. /\ pc[k] \in MineSteps
      /\ UNCHANGED <<timer, enabled, remaining, copy, asked>>
  BY DEF MineOneBlock, Guard, GetTemplate, NoTemplate, Submit, SubmitFails, MineSteps, history,
         clashes
<1>3. /\ mined \in Nat /\ lost \in Nat /\ remaining \in Int /\ asked \in Int
      /\ copy \in [Tick -> Int]
  BY DEF TypeInv, TypeOK
<1>4. \/ /\ pc' = [pc EXCEPT ![k] = "read"]
         /\ mined' + lost' = mined + lost + 1
      \/ /\ \E step \in {"idle", "template", "submit"} : pc' = [pc EXCEPT ![k] = step]
         /\ UNCHANGED <<mined, lost>>
  <2>1. CASE Guard(k)
    BY <2>1, <1>3 DEF Guard, Return, Goto, Lose
  <2>2. CASE GetTemplate(k) \/ NoTemplate(k)
    BY <2>2 DEF GetTemplate, NoTemplate, Finish, Goto, history
  <2>3. CASE Submit(k) \/ SubmitFails(k)
    BY <2>3, <1>3 DEF Submit, SubmitFails, Return, Goto, Lose
  <2> QED BY <2>1, <2>2, <2>3 DEF MineOneBlock
<1>5. /\ \A j \in Thread \ {k} : pc'[j] = pc[j]
      /\ pc'[k] \in {"idle", "template", "submit", "read"}
      /\ pc'[k] = "read" => mined' + lost' = mined + lost + 1
      /\ pc'[k] # "read" => mined' = mined /\ lost' = lost
      /\ ~Ahead(k)
  BY <1>1, <1>2, <1>4 DEF TypeInv, TypeOK, MineSteps, Ahead
<1>60. mined' \in Nat /\ lost' \in Nat
  BY TypeStep DEF TypeInv, TypeOK, Next, OnMiningNextBlock
<1>6. mined' + lost' + Cardinality(AheadSet) = mined + lost + Cardinality(AheadSet')
  <2>2. CASE pc'[k] = "read"
    <3>1. AheadSet' = AheadSet \cup {k} /\ k \notin AheadSet
      BY <1>5, <2>2 DEF AheadSet, Ahead, Thread
    <3>2. Cardinality(AheadSet') = Cardinality(AheadSet) + 1
      BY <3>1, AheadType, FS_AddElement
    <3>3. PICK m \in Nat, l \in Nat : m = mined' /\ l = lost'
      BY <1>60
    <3>4. m + l = mined + lost + 1
      BY <1>5, <2>2, <3>3
    <3>5. Cardinality(AheadSet) \in Nat /\ Cardinality(AheadSet') \in Nat
      BY FS_Subset, FS_CardinalityType DEF AheadSet
    <3>6. m + l + Cardinality(AheadSet) = mined + lost + Cardinality(AheadSet')
      BY <1>3, <3>2, <3>4, <3>5
    <3> QED BY <3>3, <3>6
  <2>3. CASE pc'[k] # "read"
    <3>1. AheadSet' = AheadSet
      BY <1>5, <2>3 DEF AheadSet, Ahead, Thread
    <3> QED BY <1>3, <1>5, <1>60, <2>3, <3>1, AheadType
  <2> QED BY <2>2, <2>3
<1>7. mined + lost >= asked => mined' + lost' >= asked'
  BY <1>2, <1>3, <1>5, <1>60
<1>8. Cardinality(AheadSet) \in Nat /\ Cardinality(AheadSet') \in Nat
  BY FS_Subset, FS_CardinalityType DEF AheadSet
<1>9. ASSUME NEW v \in Int, Covers(v)  PROVE v + mined' + lost' >= asked' + Cardinality(AheadSet')
  BY <1>2, <1>3, <1>6, <1>60, <1>8, <1>9 DEF Covers
<1>10. OneTimer'
  BY <1>1, <1>2, <1>5 DEF OneTimer, OneRequest, Thread
<1>11. NeverShort'
  <2>1. remaining + mined' + lost' >= asked' + Cardinality(AheadSet')
    BY <1>3, <1>9 DEF NeverShort
  <2>2. ASSUME NEW j \in Tick, pc'[j] = "write"
        PROVE  copy[j] + mined' + lost' >= asked' + Cardinality(AheadSet')
    <3>1. pc[j] = "write"
      BY <1>5, <2>2 DEF Thread
    <3>2. copy[j] \in Int /\ Covers(copy[j])
      BY <1>3, <3>1 DEF NeverShort
    <3> QED BY <1>9, <3>2
  <2>3. timer' = Null => mined' + lost' >= asked'
    BY <1>2, <1>7 DEF NeverShort
  <2>4. ASSUME NEW j \in Tick, pc'[j] \in StopSteps  PROVE mined' + lost' >= asked'
    <3>1. pc[j] \in StopSteps
      BY <1>5, <2>4 DEF Thread, StopSteps
    <3> QED BY <1>7, <3>1 DEF NeverShort
  <2> QED BY <1>2, <2>1, <2>2, <2>3, <2>4 DEF NeverShort, Covers
<1> QED BY <1>10, <1>11

(* The decrement: what two handlers lose of it keeps the count too high.   *)
LEMMA LongDecrement ==
    ASSUME TypeInv, OneTimer, NeverShort, NEW k \in Tick, Read(k) \/ Write(k)
    PROVE  OneTimer' /\ NeverShort'
<1> USE ConstantsAssumption
<1>1. /\ pc[k] = "read" => /\ remaining' = remaining /\ copy' = [copy EXCEPT ![k] = remaining]
                           /\ pc' = [pc EXCEPT ![k] = "write"]
      /\ pc[k] = "write" => /\ remaining' = copy[k] - 1 /\ copy' = [copy EXCEPT ![k] = 0]
                            /\ pc' = [pc EXCEPT ![k] = "test"]
      /\ pc[k] \in {"read", "write"}
      /\ UNCHANGED <<timer, enabled, asked, mined, lost>>
  BY DEF Read, Write, Goto, history
<1>2. /\ mined \in Nat /\ lost \in Nat /\ remaining \in Int /\ asked \in Int
      /\ copy \in [Tick -> Int]
  BY DEF TypeInv, TypeOK
<1>3. /\ \A j \in Thread \ {k} : pc'[j] = pc[j]
      /\ \A j \in Tick \ {k} : pc'[j] = pc[j] /\ copy'[j] = copy[j]
      /\ pc'[k] = (IF pc[k] = "read" THEN "write" ELSE "test") /\ k \notin Caller
  BY <1>1 DEF TypeInv, TypeOK, Thread
<1>4. OneTimer'
  BY <1>1, <1>3 DEF OneTimer, OneRequest, Thread
<1>5. CASE pc[k] = "read"
  <2>1. AheadSet' = AheadSet
    BY <1>3, <1>5 DEF AheadSet, Ahead
  <2>2. copy'[k] = remaining
    BY <1>1, <1>2, <1>5
  <2>3. NeverShort'
    BY <1>1, <1>3, <1>5, <2>1, <2>2 DEF NeverShort, Covers, StopSteps
  <2> QED BY <1>4, <2>3
<1>6. CASE pc[k] = "write"
  <2>1. AheadSet' = AheadSet \ {k} /\ k \in AheadSet
    BY <1>3, <1>6 DEF AheadSet, Ahead
  <2>2. Cardinality(AheadSet') = Cardinality(AheadSet) - 1
    BY <2>1, AheadType, FS_RemoveElement
  <2>3. Covers(remaining)'
    BY <1>1, <1>2, <1>6, <2>2, AheadType DEF NeverShort, Covers
  <2>4. ASSUME NEW j \in Tick, pc'[j] = "write"  PROVE Covers(copy[j])'
    BY <1>1, <1>2, <1>3, <1>6, <2>2, <2>4, AheadType DEF NeverShort, Covers
  <2>5. NeverShort'
    BY <1>1, <1>3, <1>6, <2>3, <2>4 DEF NeverShort, StopSteps
  <2> QED BY <1>4, <2>5
<1> QED BY <1>1, <1>5, <1>6

(* The test of the count and StopAdvancedMining.                           *)
LEMMA LongStop ==
    ASSUME TypeInv, OneTimer, NeverShort, NEW k \in Tick, Test(k) \/ StopAdvancedMining(k)
    PROVE  OneTimer' /\ NeverShort'
<1> USE ConstantsAssumption
<1>1. /\ UNCHANGED <<remaining, copy, asked, mined, lost>>
      /\ pc[k] \in {"test"} \cup StopSteps
      /\ \E step \in {"idle"} \cup StopSteps : pc' = [pc EXCEPT ![k] = step]
  BY DEF Test, StopAdvancedMining, Halt, Forget, Goto, StopSteps, history
<1>2. /\ mined \in Nat /\ lost \in Nat /\ remaining \in Int /\ asked \in Int
      /\ enabled \subseteq Timer
  BY DEF TypeInv, TypeOK
<1>3. /\ \A j \in Thread \ {k} : pc'[j] = pc[j]
      /\ \A j \in Tick \ {k} : pc'[j] = pc[j]
      /\ pc'[k] \in {"idle"} \cup StopSteps /\ k \notin Caller
  BY <1>1 DEF TypeInv, TypeOK, Thread
<1>4. AheadSet' = AheadSet
  BY <1>1, <1>3 DEF AheadSet, Ahead, StopSteps
<1>5. /\ timer' \in {timer, Null} /\ enabled' \subseteq enabled /\ enabled' \subseteq {timer'}
      /\ pc'[k] \in {"dispose", "forget"} => enabled' = {}
      /\ timer' # timer => pc[k] \in StopSteps
      /\ pc'[k] \in StopSteps => pc[k] \in StopSteps \/ remaining = 0
  <2>1. CASE Test(k)
    BY <2>1 DEF Test, Goto, TypeInv, TypeOK, Thread, OneTimer, StopSteps
  <2>2. CASE Halt(k)
    BY <2>2 DEF Halt, Goto, StopSteps, OneTimer
  <2>3. CASE Forget(k)
    <3>1. enabled = {}
      BY <2>3 DEF Forget, OneTimer
    <3> QED BY <2>3, <3>1, <1>1 DEF Forget, Goto, StopSteps, TypeInv, TypeOK, Thread
  <2> QED BY <2>1, <2>2, <2>3 DEF StopAdvancedMining
<1>6. OneTimer'
  BY <1>3, <1>5 DEF OneTimer, OneRequest, Thread
<1>7. remaining = 0 => mined + lost >= asked
  BY <1>2, AheadType DEF NeverShort, Covers
<1>8. NeverShort'
  BY <1>1, <1>3, <1>4, <1>5, <1>7 DEF NeverShort, Covers, StopSteps
<1> QED BY <1>6, <1>8

LEMMA LongStep == LongInv /\ [Next]_vars => LongInv'
<1> SUFFICES ASSUME LongInv, [Next]_vars, ~crowded', ~late'
             PROVE  OneTimer' /\ NeverShort'
  BY TypeStep DEF LongInv
<1> USE ConstantsAssumption
<1>0. TypeInv /\ OneTimer /\ NeverShort
  BY ClashesStay DEF LongInv
<1>1. ASSUME NEW c \in Caller, Load(c)  PROVE OneTimer' /\ NeverShort'
  <2>1. /\ pc' = [pc EXCEPT ![c] = "assign"]
        /\ \A d \in Caller \ {c} : pc[d] = "idle"
        /\ UNCHANGED <<timer, enabled, remaining, copy, asked, mined, lost>>
    BY <1>1 DEF Load, Goto
  <2>2. /\ \A d \in Caller \ {c} : pc'[d] = "idle"
        /\ pc'[c] = "assign" /\ \A k \in Tick : pc'[k] = pc[k]
    BY <1>0, <2>1 DEF TypeInv, TypeOK, Thread
  <2>3. OneRequest'
    BY <2>2 DEF OneRequest
  <2> QED BY <1>0, <2>1, <2>2, <2>3, LongQuiet
<1>2. ASSUME NEW c \in Caller, Assign(c) \/ Check(c)  PROVE OneTimer' /\ NeverShort'
  <2>1. /\ pc[c] # "idle" /\ UNCHANGED <<timer, enabled, remaining, copy, asked, mined, lost>>
        /\ \E step \in RequestSteps : /\ pc' = [pc EXCEPT ![c] = step]
                                      /\ step = "create" => timer = Null
    BY <1>2 DEF Assign, Check, Goto, Finish, RequestSteps, MineSteps, history
  <2>2. /\ \A d \in Caller \ {c} : pc'[d] = pc[d]
        /\ \A k \in Tick : pc'[k] = pc[k]
        /\ pc'[c] = "create" => timer = Null
    BY <1>0, <2>1 DEF TypeInv, TypeOK, Thread
  <2>3. OneRequest'
    BY <1>0, <2>1, <2>2, RequestStaysAlone DEF OneTimer
  <2>4. \A d \in Caller : pc'[d] = "create" => pc[d] = "create" \/ timer = Null
    BY <2>2
  <2> QED BY <1>0, <2>1, <2>2, <2>3, <2>4, LongQuiet
<1>3. ASSUME NEW c \in Caller, Create(c)  PROVE OneTimer' /\ NeverShort'
  <2>1. /\ pc[c] = "create" /\ pc' = [pc EXCEPT ![c] = "idle"]
        /\ UNCHANGED <<mined, lost, copy>>
        /\ remaining' = call[c].n /\ asked' = asked + call[c].n
        /\ \A k \in Tick : pc[k] = "idle"
    BY <1>3 DEF Create, Finish, Goto
  <2>2. /\ \A w \in Thread \ {c} : pc'[w] = pc[w]
        /\ pc'[c] = "idle" /\ c \notin Tick /\ c \in Thread
        /\ mined \in Nat /\ lost \in Nat /\ asked \in Int
    BY <1>0, <2>1 DEF TypeInv, TypeOK, Thread
  <2>3. timer = Null /\ mined + lost >= asked /\ enabled = {}
    BY <1>0, <2>1 DEF OneTimer, NeverShort, TypeInv, TypeOK
  <2>4. timer' \in Timer /\ enabled' = {timer'}
    <3>1. (CHOOSE t \in Timer \ enabled : TRUE) \in Timer
      BY <1>3, Zenon DEF Create
    <3> QED BY <1>3, <2>3, <3>1 DEF Create
  <2>5. call[c].n \in Int
    <3>1. Blocks \cup {1} \subseteq Int
      OBVIOUS
    <3>2. call[c] \in Call
      BY <1>0, <2>1 DEF TypeInv
    <3>3. call[c].n \in Blocks \cup {1}
      BY <3>2 DEF Call
    <3> QED BY <3>1, <3>3
  <2>6. \A k \in Tick : pc'[k] = "idle"
    BY <2>1, <2>2 DEF Thread
  <2>7. Cardinality(AheadSet') = 0
    <3>1. AheadSet' = {}
      BY <2>6 DEF AheadSet, Ahead
    <3> QED BY <3>1, FS_EmptySet
  <2>8. OneTimer'
    <3>1. \A d \in Caller \ {c} : pc'[d] = "idle"
      BY <1>0, <2>1, <2>2 DEF OneTimer, OneRequest, Thread
    <3> QED BY <2>2, <2>4, <2>6, <3>1 DEF OneTimer, OneRequest
  <2>9. NeverShort'
    BY <2>1, <2>2, <2>3, <2>4, <2>5, <2>6, <2>7 DEF NeverShort, Covers, StopSteps
  <2> QED BY <2>8, <2>9
<1>4. ASSUME NEW c \in Caller, MineOneBlock(c)  PROVE OneTimer' /\ NeverShort'
  <2>1. c \in Thread /\ c \notin Tick
    BY DEF Thread
  <2>2. /\ pc[c] \in MineSteps
        /\ UNCHANGED <<timer, enabled, remaining, copy, asked, mined, lost>>
    BY <1>4, <2>1 DEF MineOneBlock, Guard, GetTemplate, NoTemplate, Submit, SubmitFails, Lose,
               MineSteps, history
  <2>3. PICK step \in {"idle", "template", "submit"} : pc' = [pc EXCEPT ![c] = step]
    BY <1>4, <2>1 DEF MineOneBlock, Guard, GetTemplate, NoTemplate, Submit, SubmitFails, Return,
               Finish, Goto
  <2>4. /\ \A d \in Caller \ {c} : pc'[d] = pc[d]
        /\ \A k \in Tick : pc'[k] = pc[k]
        /\ pc'[c] # "create" /\ pc[c] # "idle"
    BY <1>0, <2>1, <2>2, <2>3 DEF TypeInv, TypeOK, Thread, MineSteps
  <2>5. OneRequest'
    BY <1>0, <2>4, RequestStaysAlone DEF OneTimer
  <2> QED BY <1>0, <2>2, <2>4, <2>5, LongQuiet
<1>5. ASSUME NEW k \in Tick, Elapsed(k)  PROVE OneTimer' /\ NeverShort'
  <2>1. /\ pc[k] = "idle" /\ pc' = [pc EXCEPT ![k] = "guard"]
        /\ UNCHANGED <<timer, enabled, remaining, copy, asked, mined, lost>>
    BY <1>5 DEF Elapsed, Goto
  <2>2. /\ \A w \in Thread \ {k} : pc'[w] = pc[w]
        /\ pc'[k] = "guard" /\ k \notin Caller
    BY <1>0, <2>1 DEF TypeInv, TypeOK, Thread
  <2>3. AheadSet' = AheadSet
    BY <2>1, <2>2 DEF AheadSet, Ahead, Thread
  <2>4. OneTimer'
    BY <1>0, <2>1, <2>2 DEF OneTimer, OneRequest, Thread
  <2>5. NeverShort'
    BY <1>0, <2>1, <2>2, <2>3 DEF NeverShort, Covers, StopSteps, Thread
  <2> QED BY <2>4, <2>5
<1>6. CASE \/ \E i \in Deniable : Ban(i) \/ Unban(i)
          \/ OtherBlock \/ NodeGone \/ UNCHANGED vars
  <2>1. UNCHANGED <<timer, enabled, remaining, copy, asked, mined, lost, pc>>
    BY <1>6 DEF Ban, Unban, OtherBlock, NodeGone, vars, history
  <2>2. OneRequest'
    BY <1>0, <2>1 DEF OneTimer, OneRequest
  <2> QED BY <1>0, <2>1, <2>2, LongQuiet
<1> QED
  BY <1>0, <1>1, <1>2, <1>3, <1>4, <1>5, <1>6, LongMineByTimer, LongDecrement, LongStop
     DEF Next, OnMiningNextBlock

(* Requests for positive numbers of blocks, that come one at a time and    *)
(* when no handler is left over, get at least what they ask for before     *)
(* their mining ends, however many handlers overlap and lose decrements,   *)
(* and not a block more as long as none overlap: whatever calls fail,      *)
(* templates go stale or exceptions end a handler, and also when the node  *)
(* exits (ProcessGroup.OnMiningNextBlock).                                 *)
THEOREM MiningIsCounted ==
    ASSUME Blocks \subseteq Nat \ {0}
    PROVE  Spec => []BlocksAccounted
<1>1. SoloInv /\ LongInv => BlocksAccounted
  BY SoloCounts DEF LongInv, NeverShort, BlocksAccounted
<1> QED BY <1>1, SoloInit, SoloStep, LongInit, LongStep, PTL DEF Spec

(* However handlers overlap on their way through StopAdvancedMining, the   *)
(* only timer that raises Elapsed is the one in the group's field, for     *)
(* any numbers of blocks asked for, positive or not.                       *)
THEOREM TimersAreNotLeaked == Spec => []NoLeakedTimer
<1>1. LongInv => NoLeakedTimer
  BY DEF LongInv, OneTimer, NoLeakedTimer
<1> QED BY <1>1, LongInit, LongStep, PTL DEF Spec

(* With no exception for what overlaps, whether handlers or requests: a    *)
(* mining does not stay at a count of zero with nobody about to stop it.   *)
(* When it goes on for ever, the count has gone past zero.                 *)
THEOREM ZeroIsAlwaysNoticed ==
    ASSUME Blocks \subseteq Nat \ {0}
    PROVE  Spec => []ZeroIsNoticed
<1> USE ConstantsAssumption
<1>1. Init => ZeroIsNoticed
  BY DEF Init, ZeroIsNoticed
<1>2. ASSUME TypeInv, ZeroIsNoticed, [Next]_vars  PROVE ZeroIsNoticed'
  <2>1. ASSUME NEW c \in Caller, Create(c)  PROVE ZeroIsNoticed'
    <3>1. pc[c] = "create" /\ remaining' = call[c].n
      BY <2>1 DEF Create
    <3>2. call[c] \in Call
      BY <1>2, <3>1 DEF TypeInv
    <3>3. call[c].n \in Blocks \cup {1}
      BY <3>2 DEF Call
    <3>4. \A n \in Blocks \cup {1} : n # 0
      OBVIOUS
    <3> QED BY <3>1, <3>3, <3>4 DEF ZeroIsNoticed
  <2>2. ASSUME NEW k \in Tick, Write(k)  PROVE ZeroIsNoticed'
    <3>1. pc'[k] = "test"
      BY <1>2, <2>2 DEF Write, Goto, TypeInv, TypeOK, Thread
    <3> QED BY <3>1 DEF ZeroIsNoticed
  <2>3. ASSUME NEW k \in Tick, Test(k) \/ Halt(k) \/ Forget(k), timer' # Null, remaining' = 0
        PROVE  pc'[k] \in StopSteps
    BY <1>2, <2>3 DEF Test, Halt, Forget, Goto, StopSteps, TypeInv, TypeOK, Thread
  <2>4. ASSUME NEW k \in Tick, Test(k) \/ Halt(k) \/ Forget(k)  PROVE ZeroIsNoticed'
    BY <2>3, <2>4 DEF ZeroIsNoticed
  <2>5. ASSUME UNCHANGED <<timer, remaining>>,
               \A k \in Tick : pc[k] \in {"test"} \cup StopSteps => pc'[k] = pc[k]
        PROVE  ZeroIsNoticed'
    BY <1>2, <2>5 DEF ZeroIsNoticed
  <2>6. ASSUME UNCHANGED <<timer, remaining>>, NEW w \in Thread, NEW step,
               pc' = [pc EXCEPT ![w] = step], w \in Tick => pc[w] \notin {"test"} \cup StopSteps
        PROVE  ZeroIsNoticed'
    <3>1. \A k \in Tick : pc[k] \in {"test"} \cup StopSteps => pc'[k] = pc[k]
      BY <1>2, <2>6, OtherCallers DEF Thread
    <3> QED BY <2>5, <2>6, <3>1
  <2>7. ASSUME NEW c \in Caller, Load(c) \/ Assign(c) \/ Check(c)  PROVE ZeroIsNoticed'
    <3>1. /\ UNCHANGED <<timer, remaining>> /\ c \in Thread /\ c \notin Tick
          /\ \E step : pc' = [pc EXCEPT ![c] = step]
      BY <2>7 DEF Load, Assign, Check, Goto, Finish, Thread
    <3> QED BY <2>6, <3>1
  <2>8. ASSUME NEW w \in Thread, MineOneBlock(w)  PROVE ZeroIsNoticed'
    <3>1. /\ UNCHANGED <<timer, remaining>> /\ pc[w] \in MineSteps
          /\ \E step : pc' = [pc EXCEPT ![w] = step]
      BY <2>8 DEF MineOneBlock, Guard, GetTemplate, NoTemplate, Submit, SubmitFails, Return,
                  Finish, Goto, MineSteps
    <3>2. pc[w] \notin {"test"} \cup StopSteps
      BY <3>1 DEF MineSteps, StopSteps
    <3> QED BY <2>6, <3>1, <3>2
  <2>9. ASSUME NEW k \in Tick, Elapsed(k) \/ Read(k)  PROVE ZeroIsNoticed'
    <3>1. /\ UNCHANGED <<timer, remaining>> /\ pc[k] \in {"idle", "read"} /\ k \in Thread
          /\ \E step : pc' = [pc EXCEPT ![k] = step]
      BY <2>9 DEF Elapsed, Read, Goto, Thread
    <3>2. pc[k] \notin {"test"} \cup StopSteps
      BY <3>1 DEF StopSteps
    <3> QED BY <2>6, <3>1, <3>2
  <2>10. CASE \/ \E i \in Deniable : Ban(i) \/ Unban(i)
              \/ OtherBlock \/ NodeGone \/ UNCHANGED vars
    <3>1. UNCHANGED <<timer, remaining, pc>>
      BY <2>10 DEF Ban, Unban, OtherBlock, NodeGone, vars
    <3> QED BY <2>5, <3>1
  <2> QED
    BY <1>2, <2>1, <2>2, <2>4, <2>7, <2>8, <2>9, <2>10
       DEF Next, OnMiningNextBlock, StopAdvancedMining, Thread
<1> QED BY <1>1, <1>2, TypeInit, TypeStep, PTL DEF Spec

-----------------------------------------------------------------------------
(* The denylist of a block mined by hand.                                  *)

(* A template holds what the chain can take next, as long as it is fresh.  *)
FreshTemplates ==
    \A w \in Thread : block[w] # Null /\ block[w].fresh => block[w].items \subseteq Template

(* The group's list is the one the request brought, and the template it is *)
(* going to submit was filtered by it.                                     *)
Honours(c) ==
    /\ pc[c] = "assign" /\ call[c].mode # "default" => call[c].rows \in SUBSET Deniable
    /\ pc[c] \in MineSteps => call[c].rows \in SUBSET Deniable /\ deny = call[c].rows
    /\ pc[c] = "submit" => /\ block[c] = Null => call[c].rows = {}
                           /\ block[c] # Null => block[c].items \cap call[c].rows = {}

HandDeny == \A c \in Caller : Honours(c)

DenyInv == TypeInv /\ FreshTemplates /\ (crowded \/ (OneRequest /\ HandDeny))

LEMMA DenyInit == Init => DenyInv
<1> SUFFICES ASSUME Init  PROVE DenyInv
  OBVIOUS
<1>1. \A w \in Thread : pc[w] = "idle" /\ block[w] = Null
  BY DEF Init
<1>2. FreshTemplates
  BY <1>1 DEF FreshTemplates
<1>3. OneRequest /\ HandDeny
  BY <1>1 DEF OneRequest, HandDeny, Honours, Thread, MineSteps
<1> QED BY <1>2, <1>3, TypeInit DEF DenyInv

(* Of what a new block leaves to the other threads nothing is fresh, and   *)
(* nothing changes but that.                                               *)
LEMMA NewTipBlocks ==
    ASSUME TypeInv, NEW w, NEW items, NewTip(w, items), NEW v \in Thread
    PROVE  /\ block'[v] # Null => block[v] # Null /\ ~block'[v].fresh
                                  /\ block'[v].items = block[v].items
           /\ v # w /\ block'[v] = Null => block[v] = Null
<1>1. block'[v] = IF v = w \/ block[v] = Null THEN Null ELSE [block[v] EXCEPT !.fresh = FALSE]
  BY DEF NewTip
<1>2. CASE v = w \/ block[v] = Null
  BY <1>1, <1>2
<1>3. CASE v # w /\ block[v] # Null
  <2>1. block[v] \in Block
    BY <1>3 DEF TypeInv, TypeOK
  <2> DEFINE b == [block[v] EXCEPT !.fresh = FALSE]
  <2>2. b \in Block /\ ~b.fresh /\ b.items = block[v].items
    BY <2>1 DEF Block
  <2>3. b # Null
    BY <2>2, NullAssumption
  <2> QED BY <1>1, <1>3, <2>2, <2>3
<1> QED BY <1>2, <1>3

(* A step that makes no template and no block keeps what templates are.    *)
LEMMA TemplatesKept ==
    ASSUME TypeInv, FreshTemplates, UNCHANGED stage,
           \A w \in Thread : block'[w] = block[w] \/ block'[w] = Null
    PROVE  FreshTemplates'
<1>1. Template' = Template
  BY DEF Template
<1> QED BY <1>1 DEF FreshTemplates

LEMMA TemplatesStep == TypeInv /\ FreshTemplates /\ [Next]_vars => FreshTemplates'
<1> SUFFICES ASSUME TypeInv, FreshTemplates, [Next]_vars  PROVE FreshTemplates'
  OBVIOUS
<1>1. ASSUME NEW w \in Thread, GetTemplate(w)  PROVE FreshTemplates'
  <2>1. Template' = Template
    BY <1>1 DEF GetTemplate, Template
  <2>2. \/ block' = [block EXCEPT ![w] = Null]
        \/ block' = [block EXCEPT ![w] = [items |-> Template \ deny, fresh |-> TRUE]]
    BY <1>1 DEF GetTemplate
  <2>3. block \in [Thread -> Block \cup {Null}]
    BY DEF TypeInv, TypeOK
  <2> QED BY <2>1, <2>2, <2>3 DEF FreshTemplates
<1>2. ASSUME NEW w, NEW items, NewTip(w, items)  PROVE FreshTemplates'
  <2>1. \A v \in Thread : block'[v] # Null => ~block'[v].fresh
    BY <1>2, NewTipBlocks
  <2> QED BY <2>1 DEF FreshTemplates
<1>3. ASSUME NEW w \in Thread, Submit(w)  PROVE FreshTemplates'
  <2>1. CASE Stale(w)
    <3>1. UNCHANGED stage /\ block' = [block EXCEPT ![w] = Null]
      BY <1>3, <2>1 DEF Submit
    <3>2. \A v \in Thread : block'[v] = block[v] \/ block'[v] = Null
      BY <3>1 DEF TypeInv, TypeOK
    <3> QED BY <3>1, <3>2, TemplatesKept
  <2>2. CASE ~Stale(w)
    BY <1>2, <1>3, <2>2 DEF Submit
  <2> QED BY <2>1, <2>2
<1>4. ASSUME NEW w \in Thread, Guard(w) \/ NoTemplate(w) \/ SubmitFails(w)
      PROVE  FreshTemplates'
  <2>1. UNCHANGED stage /\ (UNCHANGED block \/ block' = [block EXCEPT ![w] = Null])
    BY <1>4 DEF Guard, NoTemplate, SubmitFails
  <2>2. \A v \in Thread : block'[v] = block[v] \/ block'[v] = Null
    BY <2>1 DEF TypeInv, TypeOK
  <2> QED BY <2>1, <2>2, TemplatesKept
<1>5. ASSUME UNCHANGED <<stage, block>>  PROVE FreshTemplates'
  BY <1>5, TemplatesKept
<1>6. ASSUME NEW c \in Caller, Load(c) \/ Assign(c) \/ Check(c) \/ Create(c)
      PROVE  FreshTemplates'
  BY <1>5, <1>6 DEF Load, Assign, Check, Create
<1>7. ASSUME NEW k \in Tick, Elapsed(k) \/ Read(k) \/ Write(k) \/ Test(k) \/ StopAdvancedMining(k)
      PROVE  FreshTemplates'
  BY <1>5, <1>7 DEF Elapsed, Read, Write, Test, StopAdvancedMining, Halt, Forget
<1>8. ASSUME NEW w \in Thread, MineOneBlock(w)  PROVE FreshTemplates'
  BY <1>1, <1>3, <1>4, <1>8 DEF MineOneBlock
<1>9. ASSUME NEW i \in Deniable, Ban(i) \/ Unban(i)  PROVE FreshTemplates'
  BY <1>5, <1>9 DEF Ban, Unban
<1>10. CASE OtherBlock
  BY <1>2, <1>10 DEF OtherBlock
<1>11. CASE NodeGone \/ UNCHANGED vars
  BY <1>5, <1>11 DEF NodeGone, vars
<1> QED BY <1>6, <1>7, <1>8, <1>9, <1>10, <1>11 DEF Next, OnMiningNextBlock, Thread

(* A step of another thread leaves the requests and their templates alone. *)
LEMMA HandQuiet ==
    ASSUME TypeInv, HandDeny, deny' = deny,
           \A c \in Caller :
              /\ pc'[c] = pc[c] /\ call'[c] = call[c]
              /\ block'[c] # Null => block[c] # Null /\ block'[c].items = block[c].items
              /\ pc[c] = "submit" /\ block'[c] = Null => block[c] = Null
    PROVE  HandDeny'
BY DEF HandDeny, Honours

(* A step of the only request: all others are idle, before and after it.   *)
LEMMA HandAlone ==
    ASSUME OneRequest, NEW c \in Caller, pc[c] # "idle",
           \A d \in Caller \ {c} : pc'[d] = pc[d],
           Honours(c)'
    PROVE  HandDeny'
<1>1. \A d \in Caller \ {c} : pc'[d] = "idle"
  BY DEF OneRequest
<1>2. "idle" \notin MineSteps
  BY DEF MineSteps
<1>3. \A d \in Caller \ {c} : Honours(d)'
  BY <1>1, <1>2 DEF Honours
<1>4. \A d \in Caller : Honours(d)'
  BY <1>3
<1> QED BY <1>4 DEF HandDeny

(* MineOneBlock for a request: the template is filtered by the list the    *)
(* request brought, and the block goes no further than the node.           *)
LEMMA HandMine ==
    ASSUME TypeInv, FreshTemplates, OneRequest, HandDeny, NEW c \in Caller, MineOneBlock(c)
    PROVE  OneRequest' /\ HandDeny'
<1> USE ConstantsAssumption
<1>1. c \in Thread /\ c \notin Tick
  BY DEF Thread
<1>2. pc[c] \in MineSteps /\ pc[c] # "idle"
  BY DEF MineOneBlock, Guard, GetTemplate, NoTemplate, Submit, SubmitFails, MineSteps
<1>3. PICK step \in {"idle", "template", "submit"} : pc' = [pc EXCEPT ![c] = step]
  BY <1>1 DEF MineOneBlock, Guard, GetTemplate, NoTemplate, Submit, SubmitFails, Return, Finish,
             Goto
<1>4. pc'[c] = step /\ \A d \in Caller \ {c} : pc'[d] = pc[d]
  BY <1>1, <1>3, OtherCallers DEF Thread
<1>5. OneRequest'
  BY <1>2, <1>4, RequestStaysAlone
<1>7. deny' = deny
  BY DEF MineOneBlock, Guard, GetTemplate, NoTemplate, Submit, SubmitFails
<1>8. call[c].rows \in SUBSET Deniable /\ deny = call[c].rows
  BY <1>2 DEF HandDeny, Honours
<1>9. "idle" \notin MineSteps
  BY DEF MineSteps
<1>10. ASSUME step = "idle"  PROVE Honours(c)'
  BY <1>4, <1>9, <1>10 DEF Honours
<1>11. ASSUME step = "template"  PROVE Honours(c)'
  <2>1. call' = call
    BY <1>1, <1>3, <1>4, <1>11
       DEF MineOneBlock, Guard, GetTemplate, NoTemplate, Submit, SubmitFails, Return, Finish, Goto,
           TypeInv, TypeOK
  <2> QED BY <1>4, <1>7, <1>8, <1>11, <2>1 DEF Honours
<1>12. ASSUME step = "submit"  PROVE Honours(c)'
  <2>1. GetTemplate(c)
    BY <1>1, <1>3, <1>4, <1>12
       DEF MineOneBlock, Guard, NoTemplate, Submit, SubmitFails, Return, Finish, Goto, TypeInv,
           TypeOK
  <2>2. call' = call
    BY <2>1 DEF GetTemplate
  <2>3. CASE deny \in {Null, {}} /\ block' = [block EXCEPT ![c] = Null]
    <3>1. deny # Null
      BY <1>8, NullAssumption
    <3>2. call[c].rows = {} /\ block'[c] = Null
      BY <1>1, <1>8, <2>3, <3>1 DEF TypeInv, TypeOK
    <3> QED BY <1>7, <1>8, <2>2, <3>2 DEF Honours
  <2>4. CASE block' = [block EXCEPT ![c] = [items |-> Template \ deny, fresh |-> TRUE]]
    <3> DEFINE b == [items |-> Template \ deny, fresh |-> TRUE]
    <3>1. b \in Block
      BY TemplateType DEF Block
    <3>2. block'[c] # Null /\ block'[c].items = Template \ deny
      BY <1>1, <2>4, <3>1, NullAssumption DEF TypeInv, TypeOK
    <3>3. block'[c].items \cap call[c].rows = {}
      BY <1>8, <3>2
    <3> QED BY <1>7, <1>8, <2>2, <3>2, <3>3 DEF Honours
  <2> QED BY <2>1, <2>3, <2>4 DEF GetTemplate
<1>13. Honours(c)'
  BY <1>3, <1>10, <1>11, <1>12
<1> QED BY <1>2, <1>4, <1>5, <1>13, HandAlone

(* MineOneBlock for a handler of the timer leaves the requests alone: what *)
(* it submits only makes their templates stale.                            *)
LEMMA HandTick ==
    ASSUME TypeInv, OneRequest, HandDeny, NEW k \in Tick, MineOneBlock(k)
    PROVE  OneRequest' /\ HandDeny'
<1> USE ConstantsAssumption
<1>1. k \in Thread /\ \A c \in Caller : c \in Thread /\ c # k
  BY DEF Thread
<1>2. UNCHANGED deny
  BY DEF MineOneBlock, Guard, GetTemplate, NoTemplate, Submit, SubmitFails
<1>3. \E step : pc' = [pc EXCEPT ![k] = step]
  BY DEF MineOneBlock, Guard, GetTemplate, NoTemplate, Submit, SubmitFails, Return, Finish, Goto
<1>4. \A c \in Caller : pc'[c] = pc[c]
  BY <1>1, <1>3, OtherCallers
<1>5. UNCHANGED call \/ call' = [call EXCEPT ![k] = Null]
  BY DEF MineOneBlock, Guard, GetTemplate, NoTemplate, Submit, SubmitFails, Return, Finish
<1>6. \A c \in Caller : call'[c] = call[c]
  BY <1>1, <1>5 DEF TypeInv, TypeOK
<1>7. ASSUME NEW c \in Caller
      PROVE  /\ block'[c] # Null => block[c] # Null /\ block'[c].items = block[c].items
             /\ block'[c] = Null => block[c] = Null
  <2>1. CASE Submit(k) /\ ~Stale(k)
    <3>1. PICK items : NewTip(k, items)
      BY <2>1 DEF Submit
    <3> QED BY <1>1, <3>1, NewTipBlocks
  <2>2. CASE UNCHANGED block \/ \E b : block' = [block EXCEPT ![k] = b]
    <3>1. block'[c] = block[c]
      BY <1>1, <2>2 DEF TypeInv, TypeOK
    <3> QED BY <3>1
  <2> QED BY <2>1, <2>2
         DEF MineOneBlock, Guard, GetTemplate, NoTemplate, Submit, SubmitFails
<1>8. HandDeny'
  BY <1>2, <1>4, <1>6, <1>7, HandQuiet
<1> QED BY <1>4, <1>8 DEF OneRequest

(* Steps that leave the requests, their templates and the group's list.    *)
LEMMA HandStutter ==
    ASSUME TypeInv, OneRequest, HandDeny, UNCHANGED <<deny, call, block>>,
           \A c \in Caller : pc'[c] = pc[c]
    PROVE  OneRequest' /\ HandDeny'
<1>1. HandDeny'
  BY HandQuiet
<1> QED BY <1>1 DEF OneRequest

LEMMA DenyStep == DenyInv /\ [Next]_vars => DenyInv'
<1> SUFFICES ASSUME DenyInv, [Next]_vars  PROVE crowded' \/ (OneRequest' /\ HandDeny')
  BY TypeStep, TemplatesStep DEF DenyInv
<1> USE ConstantsAssumption
<1>0. TypeInv /\ FreshTemplates
  BY DEF DenyInv
<1>1. CASE crowded
  BY <1>1, ClashesStay
<1>2. CASE OneRequest /\ HandDeny
  <2>1. ASSUME NEW c \in Caller, Load(c), ~crowded'  PROVE OneRequest' /\ HandDeny'
    <3>1. PICK mode \in Mode, n \in Blocks \cup {1} :
            call' = [call EXCEPT ![c] =
               [mode |-> mode, n |-> n, rows |-> IF mode = "default" THEN Null ELSE denylist]]
      BY <2>1 DEF Load
    <3>2. /\ \A d \in Caller \ {c} : pc[d] = "idle"
          /\ pc' = [pc EXCEPT ![c] = "assign"]
      BY <2>1 DEF Load, Goto
    <3>3. c \in Thread /\ pc'[c] = "assign" /\ \A d \in Caller \ {c} : pc'[d] = "idle"
      BY <1>0, <3>2, OtherCallers DEF Thread
    <3>4. call'[c].mode # "default" => call'[c].rows \in SUBSET Deniable
      BY <1>0, <3>1, <3>3 DEF TypeInv, TypeOK
    <3>5. "idle" \notin MineSteps /\ "assign" \notin MineSteps
      BY DEF MineSteps
    <3>6. \A d \in Caller : Honours(d)'
      BY <3>3, <3>4, <3>5 DEF Honours
    <3> QED BY <3>3, <3>6 DEF OneRequest, HandDeny
  <2>2. ASSUME NEW c \in Caller, Assign(c) \/ Check(c) \/ Create(c)
        PROVE  OneRequest' /\ HandDeny'
    <3>1. pc[c] # "idle" /\ pc[c] \in {"assign", "check", "create"}
      BY <2>2 DEF Assign, Check, Create
    <3>2. PICK step \in {"idle", "check", "create", "guard"} : pc' = [pc EXCEPT ![c] = step]
      BY <2>2 DEF Assign, Check, Create, Goto, Finish
    <3>3. pc'[c] = step /\ \A d \in Caller \ {c} : pc'[d] = pc[d]
      BY <1>0, <3>2, OtherCallers DEF Thread
    <3>4. OneRequest'
      BY <1>2, <3>1, <3>3, RequestStaysAlone
    <3>5. Honours(c)'
      <4>1. CASE step = "guard"
        <5>1. /\ pc[c] = "assign" /\ call[c].mode = "single"
              /\ deny' = call[c].rows /\ UNCHANGED call
          BY <1>0, <2>2, <3>2, <3>3, <4>1
             DEF Assign, Check, Create, Goto, Finish, TypeInv, TypeOK, Thread
        <5>2. call[c].rows \in SUBSET Deniable
          BY <1>2, <5>1 DEF HandDeny, Honours
        <5> QED BY <3>3, <4>1, <5>1, <5>2 DEF Honours
      <4>2. CASE step # "guard"
        BY <3>2, <3>3, <4>2 DEF Honours, MineSteps
      <4> QED BY <4>1, <4>2
    <3> QED BY <1>2, <3>1, <3>3, <3>4, <3>5, HandAlone
  <2>3. ASSUME NEW c \in Caller, MineOneBlock(c)  PROVE OneRequest' /\ HandDeny'
    BY <1>0, <1>2, <2>3, HandMine
  <2>4. ASSUME NEW k \in Tick, MineOneBlock(k)  PROVE OneRequest' /\ HandDeny'
    BY <1>0, <1>2, <2>4, HandTick
  <2>5. ASSUME NEW k \in Tick, Elapsed(k) \/ Read(k) \/ Write(k) \/ Test(k) \/ StopAdvancedMining(k)
        PROVE  OneRequest' /\ HandDeny'
    <3>1. /\ UNCHANGED deny /\ UNCHANGED call /\ UNCHANGED block
          /\ \E step : pc' = [pc EXCEPT ![k] = step]
      BY <2>5 DEF Elapsed, Read, Write, Test, StopAdvancedMining, Halt, Forget, Goto
    <3>2. k \in Thread /\ \A c \in Caller : c \in Thread /\ c # k
      BY DEF Thread
    <3>3. \A c \in Caller : pc'[c] = pc[c]
      BY <1>0, <3>1, <3>2, OtherCallers
    <3> QED BY <1>0, <1>2, <3>1, <3>3, HandStutter
  <2>6. ASSUME NEW i \in Deniable, Ban(i) \/ Unban(i)  PROVE OneRequest' /\ HandDeny'
    BY <1>0, <1>2, <2>6, HandStutter DEF Ban, Unban
  <2>7. CASE OtherBlock
    <3>1. /\ UNCHANGED deny /\ UNCHANGED call /\ UNCHANGED pc /\ NewTip(Null, Template)
      BY <2>7 DEF OtherBlock
    <3>2. ASSUME NEW c \in Caller
          PROVE  block'[c] # Null => block[c] # Null /\ block'[c].items = block[c].items
      BY <1>0, <3>1, NewTipBlocks DEF Thread
    <3>3. ASSUME NEW c \in Caller, block'[c] = Null  PROVE block[c] = Null
      BY <1>0, <3>1, <3>3, NewTipBlocks, NullAssumption DEF Thread
    <3> QED BY <1>0, <1>2, <3>1, <3>2, <3>3, HandQuiet DEF OneRequest
  <2>8. CASE NodeGone
    BY <1>0, <1>2, <2>8, HandStutter DEF NodeGone
  <2>9. CASE UNCHANGED vars
    BY <1>0, <1>2, <2>9, HandStutter DEF vars
  <2> QED BY <2>1, <2>2, <2>3, <2>4, <2>5, <2>6, <2>7, <2>8, <2>9
         DEF Next, OnMiningNextBlock
<1> QED BY <1>1, <1>2 DEF DenyInv

(* What a fresh block brings on the chain is what it holds.                *)
LEMMA MovedByBlock ==
    ASSUME TypeInv, NEW items \in SUBSET Template, Apply(items)
    PROVE  Moved \subseteq items
<1> SUFFICES ASSUME NEW i \in Moved  PROVE i \in items
  OBVIOUS
<1>1. i \in Template /\ stage'[i[1]] # stage[i[1]]
  BY DEF Moved
<1>2. PICK x \in Tx : \/ i = <<x, "propose">> /\ stage[x] = "pending"
                      \/ i = <<x, "commit">> /\ stage[x] = "proposed"
  BY <1>1 DEF Template
<1>3. i[1] = x
  BY <1>2
<1>4. <<x, "propose">> \in items \/ <<x, "commit">> \in items
  BY <1>1, <1>3 DEF Apply
<1>5. <<x, "propose">> \in Template => stage[x] = "pending"
  BY DEF Template
<1>6. <<x, "commit">> \in Template => stage[x] = "proposed"
  BY DEF Template
<1>7. ~(stage[x] = "pending" /\ stage[x] = "proposed")
  OBVIOUS
<1> QED BY <1>2, <1>4, <1>5, <1>6, <1>7, Zenon

(* A block mined by hand carries nothing its request found denied, however *)
(* many handlers of the timer run meanwhile and at once, as long as no two *)
(* requests do (ProcessGroup.MineOneBlock and the denylist that            *)
(* ProcessManager.StartMiner hands to the group).                          *)
THEOREM SingleIsHonoured == Spec => SingleHonoursDenylist
<1> USE ConstantsAssumption
<1>1. ASSUME DenyInv, [Next]_vars, NEW c \in Caller, pc[c] = "submit", pc'[c] = "idle", ~crowded
      PROVE  Moved \cap call[c].rows = {}
  <2>1. TypeInv /\ FreshTemplates /\ Honours(c) /\ c \in Thread
    BY <1>1 DEF DenyInv, HandDeny, Thread
  <2>2. UNCHANGED stage => Moved = {}
    BY DEF Moved
  <2>3. CASE Submit(c) /\ ~Stale(c) /\ block[c] = Null
    BY <1>1, <2>1, <2>3 DEF Honours
  <2>4. CASE Submit(c) /\ ~Stale(c) /\ block[c] # Null
    <3>1. block[c].fresh /\ Apply(block[c].items)
      BY <2>4 DEF Submit, Stale, NewTip
    <3>2. block[c].items \subseteq Template
      BY <2>1, <2>4, <3>1 DEF FreshTemplates
    <3>3. Moved \subseteq block[c].items
      BY <2>1, <3>1, <3>2, MovedByBlock
    <3>4. block[c].items \cap call[c].rows = {}
      BY <1>1, <2>1, <2>4 DEF Honours
    <3> QED BY <3>3, <3>4
  <2>5. CASE Submit(c) /\ Stale(c)
    BY <2>2, <2>5 DEF Submit
  <2>6. CASE ~Submit(c)
    <3>1. UNCHANGED stage
      <4>1. ASSUME NEW w \in Thread, w # c, MineOneBlock(w)  PROVE FALSE
        <5>1. \E step : pc' = [pc EXCEPT ![w] = step]
          BY <4>1 DEF MineOneBlock, Guard, GetTemplate, NoTemplate, Submit, SubmitFails, Return,
                      Finish, Goto
        <5> QED BY <1>1, <2>1, <4>1, <5>1, OtherCallers
      <4>2. CASE OtherBlock
        BY <1>1, <4>2 DEF OtherBlock
      <4>3. ASSUME MineOneBlock(c)  PROVE UNCHANGED stage
        BY <2>6, <4>3 DEF MineOneBlock, Guard, GetTemplate, NoTemplate, SubmitFails
      <4>4. ASSUME NEW d \in Caller, Load(d) \/ Assign(d) \/ Check(d) \/ Create(d)
            PROVE  UNCHANGED stage
        BY <4>4 DEF Load, Assign, Check, Create
      <4>5. ASSUME NEW k \in Tick,
                   Elapsed(k) \/ Read(k) \/ Write(k) \/ Test(k) \/ StopAdvancedMining(k)
            PROVE  UNCHANGED stage
        BY <4>5 DEF Elapsed, Read, Write, Test, StopAdvancedMining, Halt, Forget
      <4>6. ASSUME NEW i \in Deniable, Ban(i) \/ Unban(i)  PROVE UNCHANGED stage
        BY <4>6 DEF Ban, Unban
      <4>7. CASE NodeGone \/ UNCHANGED vars
        BY <4>7 DEF NodeGone, vars
      <4> QED BY <1>1, <4>1, <4>2, <4>3, <4>4, <4>5, <4>6, <4>7
             DEF Next, OnMiningNextBlock, Thread
    <3> QED BY <2>2, <3>1
  <2> QED BY <2>3, <2>4, <2>5, <2>6
<1>2. DenyInv /\ [Next]_vars =>
        [\A c \in Caller :
            pc[c] = "submit" /\ pc'[c] = "idle" /\ ~crowded
                => Moved \cap call[c].rows = {}]_vars
  BY <1>1
<1> QED BY <1>2, DenyInit, DenyStep, PTL DEF Spec, SingleHonoursDenylist
=============================================================================
