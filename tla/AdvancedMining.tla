---------------------------- MODULE AdvancedMining ----------------------------
(***************************************************************************)
(* Mining by Tippy itself, on one running dev chain: the single block and  *)
(* the advanced mode of ProcessManager.StartMiner, that is MineOneBlock,   *)
(* StartAdvancedMining, OnMiningNextBlock and StopAdvancedMining of        *)
(* ProcessGroup, with the denylist each request hands to the group.        *)
(*                                                                         *)
(* The timer raises Elapsed on pool threads, without waiting for the last  *)
(* handler to return, and the handlers share the group's fields with the   *)
(* request threads; there is no lock.                                      *)
(***************************************************************************)
EXTENDS Integers, FiniteSets

CONSTANTS
    Tx,           \* transactions in the pool of the node
    Caller,       \* request threads
    Tick,         \* pool threads that run the Elapsed handler
    Timer,        \* Timer objects
    Deniable,     \* what users put on the denylist
    Blocks,       \* numbers of blocks asked of mine_blocks
    MaxAsked,     \* bound on the blocks asked for in all
    MaxBelow,     \* bound on how far the count of remaining blocks falls below zero
    Null

(* What a block does with a transaction, and what a row denies.            *)
Item == Tx \X {"propose", "commit"}

ASSUME ConstantsAssumption ==
    /\ Deniable \subseteq Item
    /\ Blocks \subseteq Int
    /\ MaxAsked \in Nat /\ MaxBelow \in Nat
    /\ Caller \cap Tick = {} /\ IsFiniteSet(Tick)
    /\ Null \notin Timer

VARIABLES
    node,         \* group.node: up, gone, or gone and the group unlisted
    denylist,     \* rows of DeniedTransactions
    deny,         \* group.deniedTransactions, loaded by the last request
    timer,        \* group.advancedMiningTimer
    enabled,      \* timers that raise Elapsed
    remaining,    \* group.remainingBlocksToMine
    pc, call,     \* step and request of each thread
    copy,         \* a handler's copy of remainingBlocksToMine
    block,        \* the template each thread is going to submit, or Null
    stage,        \* how far each transaction is on the node's chain
    asked, mined, lost, \* history: blocks asked for, mined, not mined by a tick
    barred,       \* history: what has been denied since each handler was raised
    overlapped,   \* history: two handlers ran at once
    crowded,      \* history: two requests ran at once
    late          \* history: a mining started while a handler ran

clashes == <<overlapped, crowded, late>>
history == <<asked, mined, lost, barred, clashes>>
vars == <<node, denylist, deny, timer, enabled, remaining, pc, call, copy, block,
          stage, history>>

Thread == Caller \cup Tick

Stage == {"pending", "proposed", "committed"}
Mode == {"default", "single", "advanced"}
MineSteps == {"guard", "template", "submit"}
RequestSteps == {"idle", "assign", "check", "create"} \cup MineSteps
StopSteps == {"stop", "dispose", "forget"}
HandlerSteps == {"idle", "read", "write", "test"} \cup MineSteps \cup StopSteps

(* A template made on an older tip is not fresh.                           *)
Block == [items : SUBSET Item, fresh : BOOLEAN]
Call == [mode : Mode, n : Blocks \cup {1}, rows : (SUBSET Deniable) \cup {Null}]

(* null is no thread, no template and no list.                             *)
ASSUME NullAssumption ==
    /\ Null \notin Thread
    /\ \A b \in Block : b # Null
    /\ \A rows \in SUBSET Deniable : rows # Null

Goto(w, step) == pc' = [pc EXCEPT ![w] = step]
Finish(w) == Goto(w, "idle") /\ call' = [call EXCEPT ![w] = Null]

(* Mutant: every block mined counts down, whoever asked for it.            *)
ReturnToHandler(w) == Goto(w, "read") /\ UNCHANGED call

(* MineOneBlock returns, to the handler of the timer or of the page.       *)
Return(w) == IF w \in Tick THEN Goto(w, "read") /\ UNCHANGED call ELSE Finish(w)

-----------------------------------------------------------------------------
(* The node (external): what a block may contain, and what it does.        *)

Template == {<<x, "propose">> : x \in {y \in Tx : stage[y] = "pending"}}
                \cup {<<x, "commit">> : x \in {y \in Tx : stage[y] = "proposed"}}

Apply(items) ==
    stage' = [x \in Tx |-> IF <<x, "propose">> \in items THEN "proposed"
                           ELSE IF <<x, "commit">> \in items THEN "committed" ELSE stage[x]]

(* w submits a block that is accepted: templates made before are stale.    *)
NewTip(w, items) ==
    /\ Apply(items)
    /\ block' = [v \in Thread |->
           IF v = w \/ block[v] = Null THEN Null ELSE [block[v] EXCEPT !.fresh = FALSE]]

-----------------------------------------------------------------------------
(* ProcessManager.StartMiner.                                              *)

(* The handler loads the denylist, except in Default mode.                 *)
Load(c) ==
    \E mode \in Mode, n \in Blocks \cup {1} :
        /\ pc[c] = "idle"
        /\ IF mode = "advanced" THEN n \in Blocks /\ asked + n <= MaxAsked ELSE n = 1
        /\ call' = [call EXCEPT ![c] =
               [mode |-> mode, n |-> n, rows |-> IF mode = "default" THEN Null ELSE denylist]]
        /\ Goto(c, "assign")
        /\ crowded' = (crowded \/ \E d \in Caller \ {c} : pc[d] # "idle")
        /\ UNCHANGED <<node, denylist, deny, timer, enabled, remaining, copy, block, stage,
                       barred, asked, mined, lost, overlapped, late>>

(* Mutant: a denylist the group already has is kept.                       *)
AssignOnce(c) ==
    /\ pc[c] = "assign"
    /\ \/ node = "removed" /\ Finish(c) /\ UNCHANGED deny
       \/ /\ node # "removed"
          /\ deny' = IF deny = Null THEN call[c].rows ELSE deny
          /\ \/ call[c].mode = "default" /\ Finish(c)
             \/ call[c].mode = "single" /\ Goto(c, "guard") /\ UNCHANGED call
             \/ call[c].mode = "advanced" /\ Goto(c, "check") /\ UNCHANGED call
    /\ UNCHANGED <<node, denylist, timer, enabled, remaining, copy, block, stage,
                   history>>

(* What StartMiner of the group does in Default mode is part of the module *)
(* ProcessManager.                                                         *)
Assign(c) ==
    /\ pc[c] = "assign"
    /\ \/ node = "removed" /\ Finish(c) /\ UNCHANGED deny
       \/ /\ node # "removed"
          /\ deny' = call[c].rows
          /\ \/ call[c].mode = "default" /\ Finish(c)
             \/ call[c].mode = "single" /\ Goto(c, "guard") /\ UNCHANGED call
             \/ call[c].mode = "advanced" /\ Goto(c, "check") /\ UNCHANGED call
    /\ UNCHANGED <<node, denylist, timer, enabled, remaining, copy, block, stage,
                   history>>

-----------------------------------------------------------------------------
(* StartAdvancedMining.                                                    *)

(* Mutant: advanced mining that goes on is not looked for.                 *)
CheckRunningOnly(c) ==
    /\ pc[c] = "check"
    /\ IF node = "up" THEN Goto(c, "create") /\ UNCHANGED call ELSE Finish(c)
    /\ UNCHANGED <<node, denylist, deny, timer, enabled, remaining, copy, block, stage,
                   history>>

Check(c) ==
    /\ pc[c] = "check"
    /\ IF node = "up" /\ timer = Null THEN Goto(c, "create") /\ UNCHANGED call ELSE Finish(c)
    /\ UNCHANGED <<node, denylist, deny, timer, enabled, remaining, copy, block, stage,
                   history>>

(* One step, as the first Elapsed is an interval away; handlers left over  *)
(* from the mining before come before or after it.                         *)
Create(c) ==
    LET new == CHOOSE t \in Timer \ enabled : TRUE IN
    /\ pc[c] = "create"
    /\ Timer \ enabled # {}
    /\ timer' = new
    /\ enabled' = enabled \cup {new}
    /\ remaining' = call[c].n
    /\ asked' = asked + call[c].n
    /\ Finish(c)
    /\ late' = (late \/ \E k \in Tick : pc[k] # "idle")
    /\ UNCHANGED <<node, denylist, deny, copy, block, stage, mined, lost, barred,
                   overlapped, crowded>>

-----------------------------------------------------------------------------
(* OnMiningNextBlock.                                                      *)

(* Bounded: nothing else ends a mining whose count has passed zero.        *)
Elapsed(k) ==
    /\ pc[k] = "idle"
    /\ enabled # {}
    /\ remaining >= -MaxBelow
    /\ Goto(k, "guard")
    /\ overlapped' = (overlapped \/ \E j \in Tick \ {k} : pc[j] # "idle")
    /\ UNCHANGED <<node, denylist, deny, timer, enabled, remaining, call, copy, block, stage,
                   barred, asked, mined, lost, crowded, late>>

Unbar(w) == barred' = [k \in Tick |-> IF k = w THEN {} ELSE barred[k]]

(* A tick that returns without a block of its own on the chain.            *)
Lose(w) == lost' = IF w \in Tick THEN lost + 1 ELSE lost

(* MineOneBlock, first its guard.                                          *)
Guard(w) ==
    /\ pc[w] = "guard"
    /\ \/ node = "up" /\ Goto(w, "template") /\ UNCHANGED <<call, lost>>
       \/ node # "up" /\ Return(w) /\ Lose(w)
    /\ IF w \in Tick /\ node = "up" THEN barred' = [barred EXCEPT ![w] = denylist] ELSE Unbar(w)
    /\ UNCHANGED <<node, denylist, deny, timer, enabled, remaining, copy, block, stage,
                   asked, mined, clashes>>

(* The denied items are taken out of a template of the node's; GenerateBlock *)
(* needs none.                                                             *)
GetTemplate(w) ==
    /\ pc[w] = "template"
    /\ Goto(w, "submit")
    /\ \/ /\ deny \in {Null, {}}
          /\ block' = [block EXCEPT ![w] = Null]
       \/ /\ deny \notin {Null, {}} /\ node = "up"
          /\ block' = [block EXCEPT ![w] =
                 [items |-> Template \ deny, fresh |-> TRUE]]
    /\ UNCHANGED <<node, denylist, deny, timer, enabled, remaining, call, copy, stage,
                   history>>

(* That call fails, and the template is null: the exception ends           *)
(* the request, or is swallowed by the timer before the count goes down.   *)
NoTemplate(w) ==
    /\ pc[w] = "template"
    /\ deny \notin {Null, {}}
    /\ Finish(w)
    /\ Unbar(w)
    /\ UNCHANGED <<node, denylist, deny, timer, enabled, remaining, copy, block, stage,
                   asked, mined, lost, clashes>>

Stale(w) == block[w] # Null /\ ~block[w].fresh

(* A block on an older tip is a fork the node does not switch to.          *)
Submit(w) ==
    /\ pc[w] = "submit" /\ node = "up"
    /\ Return(w)
    /\ \/ /\ ~Stale(w)
          /\ NewTip(w, IF block[w] = Null THEN Template ELSE block[w].items)
          /\ mined' = IF w \in Tick THEN mined + 1 ELSE mined
          /\ UNCHANGED lost
       \/ /\ Stale(w)
          /\ Lose(w)
          /\ block' = [block EXCEPT ![w] = Null]
          /\ UNCHANGED <<stage, mined>>
    /\ Unbar(w)
    /\ UNCHANGED <<node, denylist, deny, timer, enabled, remaining, copy, asked,
                   clashes>>

(* A call that fails, as it may at any time: BaseClient.Call turns every    *)
(* failure into null, so this goes unnoticed.                              *)
SubmitFails(w) ==
    /\ pc[w] = "submit"
    /\ Return(w)
    /\ Lose(w)
    /\ block' = [block EXCEPT ![w] = Null]
    /\ Unbar(w)
    /\ UNCHANGED <<node, denylist, deny, timer, enabled, remaining, copy, stage,
                   asked, mined, clashes>>

(* remainingBlocksToMine -= 1 is a read and a write, and the test another  *)
(* read.                                                                   *)
Read(k) ==
    /\ pc[k] = "read"
    /\ copy' = [copy EXCEPT ![k] = remaining]
    /\ Goto(k, "write")
    /\ UNCHANGED <<node, denylist, deny, timer, enabled, remaining, call, block, stage,
                   history>>

Write(k) ==
    /\ pc[k] = "write"
    /\ remaining' = copy[k] - 1
    /\ copy' = [copy EXCEPT ![k] = 0]
    /\ Goto(k, "test")
    /\ UNCHANGED <<node, denylist, deny, timer, enabled, call, block, stage,
                   history>>

(* Mutant: mining stops a block early.                                     *)
TestEarly(k) ==
    /\ pc[k] = "test"
    /\ Goto(k, IF remaining <= 1 THEN "stop" ELSE "idle")
    /\ UNCHANGED <<node, denylist, deny, timer, enabled, remaining, call, copy, block, stage,
                   history>>

Test(k) ==
    /\ pc[k] = "test"
    /\ Goto(k, IF remaining = 0 THEN "stop" ELSE "idle")
    /\ UNCHANGED <<node, denylist, deny, timer, enabled, remaining, call, copy, block, stage,
                   history>>

(* StopAdvancedMining: Stop and Dispose of the timer the field refers to.  *)
(* Another handler may have set it to null: before the test of it or, with *)
(* an exception that the timer swallows, after it.                         *)
Halt(k) ==
    /\ \/ pc[k] = "stop" /\ Goto(k, IF timer = Null THEN "idle" ELSE "dispose")
       \/ pc[k] = "dispose" /\ Goto(k, IF timer = Null THEN "idle" ELSE "forget")
    /\ enabled' = enabled \ {timer}
    /\ UNCHANGED <<node, denylist, deny, timer, remaining, call, copy, block, stage, history>>

(* Mutant: the stopped timer is not forgotten.                             *)
ForgetNothing(k) ==
    /\ pc[k] = "forget"
    /\ Goto(k, "idle")
    /\ UNCHANGED <<node, denylist, deny, timer, enabled, remaining, call, copy, block, stage,
                   history>>

Forget(k) ==
    /\ pc[k] = "forget"
    /\ timer' = Null
    /\ Goto(k, "idle")
    /\ UNCHANGED <<node, denylist, deny, enabled, remaining, call, copy, block, stage, history>>

-----------------------------------------------------------------------------
(* What goes on around the group.                                          *)

Ban(i) ==
    /\ i \notin denylist
    /\ denylist' = denylist \cup {i}
    /\ UNCHANGED <<node, deny, timer, enabled, remaining, pc, call, copy, block, stage,
                   history>>

Unban(i) ==
    /\ i \in denylist
    /\ denylist' = denylist \ {i}
    /\ barred' = [k \in Tick |-> barred[k] \ {i}]
    /\ UNCHANGED <<node, deny, timer, enabled, remaining, pc, call, copy, block, stage,
                   asked, mined, lost, clashes>>

(* The default miner finds a block, or a client has the node generate one. *)
OtherBlock ==
    /\ node = "up"
    /\ NewTip(Null, Template)
    /\ UNCHANGED <<node, denylist, deny, timer, enabled, remaining, pc, call, copy,
                   history>>

(* The node exits or is killed; ProcessManager.Stop unlists the group.     *)
NodeGone ==
    /\ \/ node = "up" /\ node' = "gone"
       \/ node = "gone" /\ node' = "removed"
    /\ UNCHANGED <<denylist, deny, timer, enabled, remaining, pc, call, copy, block, stage,
                   history>>

-----------------------------------------------------------------------------
Init ==
    /\ node = "up"
    /\ denylist \in SUBSET Deniable /\ deny = Null
    /\ timer = Null /\ enabled = {} /\ remaining = 0
    /\ pc = [w \in Thread |-> "idle"]
    /\ call = [w \in Thread |-> Null]
    /\ copy = [k \in Tick |-> 0]
    /\ block = [w \in Thread |-> Null]
    /\ stage = [x \in Tx |-> "pending"]
    /\ barred = [k \in Tick |-> {}]
    /\ asked = 0 /\ mined = 0 /\ lost = 0
    /\ overlapped = FALSE /\ crowded = FALSE /\ late = FALSE

MineOneBlock(w) ==
    Guard(w) \/ GetTemplate(w) \/ NoTemplate(w) \/ Submit(w) \/ SubmitFails(w)

StopAdvancedMining(k) == Halt(k) \/ Forget(k)

OnMiningNextBlock(k) ==
    \/ Elapsed(k) \/ MineOneBlock(k) \/ Read(k) \/ Write(k) \/ Test(k)
    \/ StopAdvancedMining(k)

Next ==
    \/ \E c \in Caller : \/ Load(c) \/ Assign(c) \/ Check(c) \/ Create(c)
                         \/ MineOneBlock(c)
    \/ \E k \in Tick : OnMiningNextBlock(k)
    \/ \E i \in Deniable : Ban(i) \/ Unban(i)
    \/ OtherBlock \/ NodeGone

Spec == Init /\ [][Next]_vars

(* An enabled timer raises Elapsed, and a handler that has begun ends: the *)
(* RPC calls in it return or time out.  A node that is up does not fail to *)
(* make a template for ever.                                               *)
Fairness == \A k \in Tick : WF_vars(OnMiningNextBlock(k)) /\ SF_vars(GetTemplate(k))

FairSpec == Spec /\ Fairness

-----------------------------------------------------------------------------
(* Properties.                                                             *)

TypeOK ==
    /\ node \in {"up", "gone", "removed"}
    /\ denylist \subseteq Deniable
    /\ deny \in (SUBSET Deniable) \cup {Null}
    /\ timer \in Timer \cup {Null}
    /\ enabled \subseteq Timer
    /\ remaining \in Int
    /\ pc \in [Thread -> RequestSteps \cup HandlerSteps]
    /\ \A c \in Caller : pc[c] \in RequestSteps
    /\ \A k \in Tick : pc[k] \in HandlerSteps
    /\ call \in [Thread -> Call \cup {Null}]
    /\ copy \in [Tick -> Int]
    /\ block \in [Thread -> Block \cup {Null}]
    /\ stage \in [Tx -> Stage]
    /\ barred \in [Tick -> SUBSET Deniable]
    /\ asked \in Int /\ mined \in Nat /\ lost \in Nat
    /\ overlapped \in BOOLEAN /\ crowded \in BOOLEAN /\ late \in BOOLEAN

(* mine_blocks mines no more blocks than it was asked for (the README's    *)
(* "Mine number_of_blocks blocks"), whatever happens to the node.          *)
NoMoreThanAsked == mined <= asked

(* The same, as far as it holds: for positive requests, one at a time.     *)
(* However handlers overlap, mining does not end before every block asked  *)
(* for has been mined, or a tick was lost to a node that was gone, to a    *)
(* failing call or to a template another miner had made stale: what two    *)
(* handlers lose of the decrements can only make it longer.  Only a handler *)
(* left over from the mining before can end it early.  And as long as      *)
(* handlers do not overlap, there is not a block more.                     *)
BlocksAccounted ==
    \/ crowded \/ late
    \/ /\ timer = Null => mined + lost >= asked
       /\ ~overlapped => mined + lost <= asked

(* No timer goes on that the group does not refer to (it could not be      *)
(* stopped any more), however handlers overlap in StopAdvancedMining:      *)
(* unless two requests ran at once, or one started a mining while a        *)
(* handler of the mining before was about to set the field to null.        *)
NoLeakedTimer == crowded \/ late \/ enabled \subseteq {timer}

(* A mining whose count is zero is being stopped: however handlers and     *)
(* requests overlap, the one that wrote the zero has yet to read the count. *)
ZeroIsNoticed ==
    timer # Null /\ remaining = 0 => \E k \in Tick : pc[k] \in {"test"} \cup StopSteps

(* Mining that was started comes to an end, and so can be started again,   *)
(* unless handlers or requests ran at once and took the count past zero,   *)
(* between the decrement of one handler and its test.                      *)
MiningEnds ==
    timer # Null ~> timer = Null \/ ((overlapped \/ crowded) /\ remaining < 0)

(* The items a step brings on the chain.                                   *)
Moved == {i \in Item : /\ i \in Template
                       /\ stage'[i[1]] # stage[i[1]]}

(* A block mined by hand carries nothing its request found denied, however *)
(* many ticks of advanced mining run meanwhile, unless another request ran. *)
SingleHonoursDenylist ==
    [][\A c \in Caller :
          pc[c] = "submit" /\ pc'[c] = "idle" /\ ~crowded
              => Moved \cap call[c].rows = {}]_vars

(* What the pool's page means by "Disallowed": what was denied before      *)
(* advanced mining began a block, and still is, is not in that block.      *)
DisallowedStaysOut ==
    [][\A k \in Tick :
          pc[k] = "submit" /\ pc'[k] # "submit" => Moved \cap barred[k] = {}]_vars
=============================================================================
