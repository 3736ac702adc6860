-------------------------- MODULE PageScripts_proofs --------------------------
(***************************************************************************)
(* Theorems about PageScripts, for any number of boxes, notifications,     *)
(* files and positions, any options a script gives and any sizes.          *)
(***************************************************************************)
EXTENDS PageScripts, SequenceTheorems, TLAPS

-----------------------------------------------------------------------------
(* Message boxes.                                                          *)

(* Only boxes that have been made wait for a callback.                     *)
PendingMade == \A b \in Box \ Made : pending[b] = <<>>

(* Of a box that has not called itself one call is under way at most, and  *)
(* it has then not reported yet.                                           *)
NestedOnce ==
    \A b \in Box : b \notin nested =>
        /\ UnderWay(b) => completed[b] = 0
        /\ \A i, j \in DOMAIN calls : calls[i] = b /\ calls[j] = b => i = j

BoxInv ==
    BoxTypeOK /\ PendingMade /\ BackdropMatchesBoxes /\ CompletesOnce /\ NestedOnce

(* What a step keeps that calls no setProgress.                            *)
ProgressOK ==
    /\ progress \in [Box -> 0..100] /\ completed \in [Box -> Nat]
    /\ calls \in Seq(Box) /\ Len(calls) =< MaxCalls /\ nested \subseteq Box
    /\ CompletesOnce /\ NestedOnce

LEMMA ProgressKept ==
    ASSUME BoxInv, UNCHANGED progressVars
    PROVE  ProgressOK'
<1>1. UNCHANGED <<progress, completed, calls, nested>>
  BY DEF progressVars
<1>2. ProgressOK
  BY DEF BoxInv, BoxTypeOK, ProgressOK
<1> QED BY <1>1, <1>2 DEF ProgressOK, CompletesOnce, NestedOnce, UnderWay

(* The options a box can have.                                             *)
BoxOption(o) ==
    /\ o.kind \in Kind /\ o.buttons \subseteq Answer
    /\ \A x \in DOMAIN BaseDefaults : o[x] \in BOOLEAN

LEMMA ProcessInputOption ==
    ASSUME NEW kind \in Kind, NEW given,
           DOMAIN given \subseteq Option("window"),
           \A x \in DOMAIN given : given[x] \in BOOLEAN
    PROVE  BoxOption(ProcessInput(kind, given))
<1> DEFINE own == [kind |-> kind, buttons |-> Buttons[kind]]
           base == Extend(BaseDefaults, own)
<1>1. Buttons[kind] \subseteq Answer
  BY DEF Buttons, Answer, Kind
<1>2. /\ DOMAIN BaseDefaults = {"modal", "closeOnEsc", "closeButton", "hideClass", "callback"}
      /\ \A x \in DOMAIN BaseDefaults : BaseDefaults[x] \in BOOLEAN
  <2>1. DOMAIN BaseDefaults = {"modal", "closeOnEsc", "closeButton", "hideClass", "callback"}
    BY DEF BaseDefaults
  <2>2. /\ BaseDefaults["modal"] \in BOOLEAN /\ BaseDefaults["closeOnEsc"] \in BOOLEAN
        /\ BaseDefaults["closeButton"] \in BOOLEAN /\ BaseDefaults["hideClass"] \in BOOLEAN
        /\ BaseDefaults["callback"] \in BOOLEAN
    BY DEF BaseDefaults
  <2> QED BY <2>1, <2>2
<1>3. DOMAIN own = {"kind", "buttons"} /\ own["kind"] = kind /\ own["buttons"] = Buttons[kind]
  OBVIOUS
<1> HIDE DEF own
<1>4. /\ DOMAIN base = DOMAIN BaseDefaults \cup {"kind", "buttons"}
      /\ base["kind"] = kind /\ base["buttons"] = Buttons[kind]
      /\ \A x \in DOMAIN BaseDefaults : base[x] \in BOOLEAN
  BY <1>2, <1>3 DEF Extend
<1>5. "kind" \notin DOMAIN given /\ "buttons" \notin DOMAIN given
  BY <1>2 DEF Option, WindowDefaults
<1> HIDE DEF base
<1> DEFINE o == Extend(base, given)
<1>6. o["kind"] = kind /\ o["buttons"] = Buttons[kind]
  BY <1>4, <1>5 DEF Extend
<1>7. \A x \in DOMAIN BaseDefaults : o[x] \in BOOLEAN
  BY <1>4 DEF Extend
<1>8. ProcessInput(kind, given) = o
  BY DEF ProcessInput, o, base, own
<1> HIDE DEF o
<1> QED BY <1>1, <1>6, <1>7, <1>8 DEF BoxOption

LEMMA BoxInitInv == BoxInit => BoxInv
<1> SUFFICES ASSUME BoxInit  PROVE BoxInv
  OBVIOUS
<1>1. Made = {}
  BY DEF BoxInit, Made
<1>2. \A b \in Box : Len(pending[b]) = 0
  BY DEF BoxInit
<1>3. pending \in [Box -> Seq({"hide", "destroy"})]
  BY DEF BoxInit
<1>4. /\ \A b \in Box : progress[b] = 0 /\ completed[b] = 0
      /\ progress \in [Box -> 0..100] /\ completed \in [Box -> Nat]
      /\ calls \in Seq(Box) /\ Len(calls) = 0 /\ nested = {}
  BY DEF BoxInit
<1>5. BoxTypeOK
  <2>1. \A b \in Box : Len(pending[b]) =< MaxTimers + 1
    <3>1. 0 =< MaxTimers + 1
      BY BoxAssumption
    <3> QED BY <1>2, <3>1, Zenon
  <2>2. /\ Made \subseteq Box /\ doc \subseteq Made /\ hidden \subseteq Made
        /\ unbound \subseteq Made /\ loading \subseteq Made /\ backdrop \in BOOLEAN
    BY <1>1 DEF BoxInit
  <2>3. Len(calls) =< MaxCalls
    BY <1>4, BoxAssumption
  <2> QED BY <1>1, <1>3, <1>4, <2>1, <2>2, <2>3 DEF BoxTypeOK
<1>6. BackdropMatchesBoxes
  BY DEF BoxInit, BackdropMatchesBoxes, Modals
<1>7. CompletesOnce /\ NestedOnce
  <2>1. calls = <<>> /\ DOMAIN calls = {}
    BY DEF BoxInit
  <2>2. \A b \in Box : ~UnderWay(b)
    BY <2>1 DEF UnderWay
  <2>3. 0 # 100 /\ ~(0 > 0) /\ ~(0 > 1)
    OBVIOUS
  <2>4. CompletesOnce
    BY <1>4, <2>3, Zenon DEF CompletesOnce
  <2>5. NestedOnce
    BY <2>1, <2>2 DEF NestedOnce
  <2> QED BY <2>4, <2>5
<1>8. PendingMade
  BY DEF BoxInit, PendingMade
<1> QED BY <1>5, <1>6, <1>7, <1>8 DEF BoxInv

(* A box that is made: its options are the only ones that change.          *)
LEMMA MadeInv ==
    ASSUME BoxInv, NEW b \in Box, NEW o, BoxOption(o), NEW showing, New(b, o, showing),
           loading' \subseteq Made \cup {b}
    PROVE  BoxInv'
<1>1. DOMAIN opt' = Made \cup {b} /\ b \notin Made
  BY DEF New
<1>2. opt'[b] = o /\ \A c \in Made : opt'[c] = opt[c]
  BY <1>1 DEF New
<1>3. /\ doc \subseteq Made /\ hidden \subseteq Made
      /\ doc' \subseteq doc \cup {b} /\ hidden' \subseteq hidden
      /\ UNCHANGED <<unbound, pending, progressVars>>
  BY DEF New, ShowBox, BoxInv, BoxTypeOK
<1>4. b \in doc' => doc' = doc \cup {b} /\ hidden' = hidden /\ (backdrop' <=> (backdrop \/ o.modal))
  BY <1>1, <1>3 DEF New, ShowBox
<1>5. b \notin doc' => doc' = doc /\ hidden' = hidden /\ (backdrop' <=> backdrop)
  BY <1>1, <1>3 DEF New, ShowBox
<1>6. o.modal \in BOOLEAN
  BY DEF BoxOption, BaseDefaults
<1>7. BoxTypeOK'
  <2>1. backdrop' \in BOOLEAN
    BY <1>6 DEF New, ShowBox, BoxInv, BoxTypeOK
  <2>2. \A c \in Made' : /\ opt'[c].kind \in Kind /\ opt'[c].buttons \subseteq Answer
                          /\ \A x \in DOMAIN BaseDefaults : opt'[c][x] \in BOOLEAN
    BY <1>1, <1>2 DEF Made, BoxOption, BoxInv, BoxTypeOK
  <2>3. /\ Made' \subseteq Box /\ doc' \subseteq Made' /\ hidden' \subseteq Made'
        /\ unbound' \subseteq Made' /\ loading' \subseteq Made'
    BY <1>1, <1>3 DEF Made, BoxInv, BoxTypeOK
  <2> QED BY <1>3, <2>1, <2>2, <2>3, ProgressKept DEF BoxInv, BoxTypeOK, ProgressOK
<1>8. BackdropMatchesBoxes'
  <2>1. CASE b \in doc'
    <3>1. backdrop \/ o.modal => \E c \in doc' : opt'[c].modal
      BY <1>2, <1>3, <1>4, <2>1 DEF BoxInv, BackdropMatchesBoxes, Modals
    <3>2. (\E c \in doc' \ hidden' : opt'[c].modal) => backdrop \/ o.modal
      BY <1>2, <1>3, <1>4, <2>1 DEF BoxInv, BackdropMatchesBoxes, Modals
    <3> QED BY <1>4, <2>1, <3>1, <3>2 DEF BackdropMatchesBoxes, Modals
  <2>2. CASE b \notin doc'
    BY <1>2, <1>3, <1>5, <2>2 DEF BoxInv, BackdropMatchesBoxes, Modals
  <2> QED BY <2>1, <2>2
<1>9. CompletesOnce' /\ NestedOnce'
  BY <1>3, ProgressKept DEF ProgressOK
<1>10. PendingMade'
  BY <1>1, <1>3 DEF BoxInv, PendingMade, Made
<1> QED BY <1>7, <1>8, <1>9, <1>10 DEF BoxInv

(* A box that is shown again.                                              *)
LEMMA ShowBoxInv ==
    ASSUME BoxInv, NEW b \in Made, ShowBox(b, opt[b].modal),
           loading' \subseteq loading, UNCHANGED <<opt, unbound, pending, progressVars>>
    PROVE  BoxInv'
<1>1. opt[b].modal \in BOOLEAN
  BY DEF BoxInv, BoxTypeOK, BaseDefaults
<1>2. BoxTypeOK'
  BY <1>1, ProgressKept DEF ShowBox, BoxInv, BoxTypeOK, ProgressOK, Made
<1>3. BackdropMatchesBoxes'
  BY <1>1 DEF ShowBox, BoxInv, BackdropMatchesBoxes, Modals
<1>4. CompletesOnce' /\ NestedOnce'
  BY ProgressKept DEF ProgressOK
<1>5. PendingMade'
  BY DEF BoxInv, PendingMade, Made
<1> QED BY <1>2, <1>3, <1>4, <1>5 DEF BoxInv

(* The callbacks of hide and destroy, whoever calls them.                  *)
LEMMA HideCallbackInv ==
    ASSUME BoxInv, NEW b \in Made, HideCallback(b), UNCHANGED <<opt, doc>>
    PROVE  /\ doc' \subseteq Made' /\ hidden' \subseteq Made' /\ backdrop' \in BOOLEAN
           /\ BackdropMatchesBoxes'
<1>1. doc' \subseteq Made' /\ hidden' \subseteq Made' /\ backdrop' \in BOOLEAN
  BY DEF HideCallback, BoxInv, BoxTypeOK, Made
<1>2. BackdropMatchesBoxes'
  BY DEF HideCallback, BoxInv, BoxTypeOK, BackdropMatchesBoxes, Modals
<1> QED BY <1>1, <1>2

LEMMA DestroyCallbackInv ==
    ASSUME BoxInv, NEW S, S \subseteq Made, DestroyCallback(S), UNCHANGED <<opt, hidden>>
    PROVE  /\ doc' \subseteq Made' /\ unbound' \subseteq Made' /\ backdrop' \in BOOLEAN
           /\ BackdropMatchesBoxes'
<1>1. doc' \subseteq Made' /\ unbound' \subseteq Made' /\ backdrop' \in BOOLEAN
  BY DEF DestroyCallback, BoxInv, BoxTypeOK, Made
<1>2. BackdropMatchesBoxes'
  BY DEF DestroyCallback, BoxInv, BoxTypeOK, BackdropMatchesBoxes, Modals
<1> QED BY <1>1, <1>2

(* Callbacks that begin to wait: two at most, and only for a box that may  *)
(* wait, so their number stays bounded.                                    *)
PendingOK ==
    /\ pending \in [Box -> Seq({"hide", "destroy"})]
    /\ \A b \in Box : Len(pending[b]) =< MaxTimers + 1
    /\ PendingMade

LEMMA WaitPending ==
    ASSUME PendingOK, UNCHANGED opt, NEW S, S \subseteq Made, \A b \in S : MayWait(b),
           NEW what \in Seq({"hide", "destroy"}), Len(what) =< 2, Wait(S, what)
    PROVE  PendingOK'
<1>1. ASSUME NEW b \in Box
      PROVE  /\ pending[b] \o what \in Seq({"hide", "destroy"})
             /\ Len(pending[b] \o what) = Len(pending[b]) + Len(what)
             /\ Len(pending[b]) \in Nat /\ Len(what) \in Nat
  BY ConcatProperties DEF PendingOK
<1>2. pending' \in [Box -> Seq({"hide", "destroy"})]
  BY <1>1 DEF Wait, PendingOK
<1>3. ASSUME NEW b \in Box  PROVE Len(pending'[b]) =< MaxTimers + 1
  <2>1. CASE b \in S
    <3>1. Len(pending[b]) < MaxTimers
      BY <2>1 DEF MayWait
    <3>2. pending'[b] = pending[b] \o what
      BY <2>1 DEF Wait
    <3>3. Len(pending'[b]) = Len(pending[b]) + Len(what)
      BY <1>1, <3>2
    <3>4. MaxTimers \in Nat
      BY BoxAssumption
    <3> QED BY <1>1, <3>1, <3>3, <3>4
  <2>2. CASE b \notin S
    BY <2>2 DEF Wait, PendingOK
  <2> QED BY <2>1, <2>2
<1>4. PendingMade'
  BY DEF Wait, PendingOK, PendingMade, Made
<1> QED BY <1>2, <1>3, <1>4 DEF PendingOK

LEMMA Callbacks ==
    /\ <<"hide">> \in Seq({"hide", "destroy"}) /\ Len(<<"hide">>) = 1
    /\ <<"destroy">> \in Seq({"hide", "destroy"}) /\ Len(<<"destroy">>) = 1
    /\ <<"destroy", "destroy">> \in Seq({"hide", "destroy"}) /\ Len(<<"destroy", "destroy">>) = 2
OBVIOUS

LEMMA HideBoxInv ==
    ASSUME BoxInv, NEW b \in Made, MayWait(b), HideBox(b),
           UNCHANGED <<opt, doc, unbound, loading, progressVars>>
    PROVE  BoxInv'
<1>1. PendingOK /\ Made' = Made
  BY DEF BoxInv, BoxTypeOK, PendingOK, PendingMade, Made
<1>2. CASE Wait({b}, <<"hide">>) /\ UNCHANGED <<hidden, backdrop>>
  <2>1. PendingOK'
    <3>1. /\ {b} \subseteq Made /\ \A c \in {b} : MayWait(c)
          /\ UNCHANGED opt /\ Wait({b}, <<"hide">>)
          /\ <<"hide">> \in Seq({"hide", "destroy"}) /\ Len(<<"hide">>) =< 2
      BY <1>2, Callbacks
    <3> QED BY <1>1, <3>1, WaitPending
  <2> QED BY <1>1, <1>2, <2>1, ProgressKept
         DEF BoxInv, BoxTypeOK, PendingOK, BackdropMatchesBoxes, Modals, ProgressOK
<1>3. CASE HideCallback(b) /\ UNCHANGED pending
  <2>1. doc' \subseteq Made' /\ hidden' \subseteq Made' /\ backdrop' \in BOOLEAN /\ BackdropMatchesBoxes'
    BY <1>3, HideCallbackInv
  <2> QED BY <1>1, <1>3, <2>1, ProgressKept DEF BoxInv, BoxTypeOK, PendingMade, ProgressOK
<1> QED BY <1>2, <1>3 DEF HideBox

LEMMA DestroyBoxesInv ==
    ASSUME BoxInv, NEW S, S \subseteq Made, \A b \in S : MayWait(b),
           NEW what \in {<<"destroy">>, <<"destroy", "destroy">>}, DestroyBoxes(S, what),
           UNCHANGED <<opt, hidden, loading, progressVars>>
    PROVE  BoxInv'
<1>1. PendingOK /\ Made' = Made
  BY DEF BoxInv, BoxTypeOK, PendingOK, PendingMade, Made
<1> PICK T : T \subseteq S /\ Wait(S \ T, what)
             /\ (UNCHANGED <<doc, unbound, backdrop>> \/ DestroyCallback(T))
  BY DEF DestroyBoxes
<1>2. PendingOK'
  <2>1. what \in Seq({"hide", "destroy"}) /\ Len(what) =< 2
    <3>1. CASE what = <<"destroy">>
      BY <3>1, Callbacks
    <3>2. CASE what = <<"destroy", "destroy">>
      BY <3>2, Callbacks
    <3> QED BY <3>1, <3>2
  <2> QED BY <1>1, <2>1, WaitPending
<1>3. CASE UNCHANGED <<doc, unbound, backdrop>>
  BY <1>1, <1>2, <1>3, ProgressKept
     DEF BoxInv, BoxTypeOK, PendingOK, BackdropMatchesBoxes, Modals, ProgressOK
<1>4. CASE DestroyCallback(T)
  BY <1>1, <1>2, <1>4, DestroyCallbackInv, ProgressKept
     DEF BoxInv, BoxTypeOK, PendingOK, ProgressOK
<1> QED BY <1>3, <1>4

LEMMA SetProgressInv ==
    ASSUME BoxInv, NEW b \in Box, NEW p \in Levels, SetProgress(b, p)
    PROVE  BoxInv'
<1>1. Clamp(p) \in 0..100 /\ MaxCalls \in Nat
  BY BoxAssumption DEF Clamp
<1>2. /\ calls \in Seq(Box) /\ Len(calls) < MaxCalls /\ calls' = <<b>> \o calls
      /\ completed \in [Box -> Nat] /\ progress \in [Box -> 0..100] /\ nested \subseteq Box
  BY DEF SetProgress, BoxInv, BoxTypeOK
<1>3. /\ calls' \in Seq(Box) /\ Len(calls') = Len(calls) + 1 /\ calls'[1] = b
      /\ \A i \in 1..Len(calls) : calls'[i + 1] = calls[i]
  <2>1. /\ <<b>> \in Seq(Box) /\ Len(<<b>>) = 1 /\ <<b>>[1] = b
    OBVIOUS
  <2> QED BY <1>2, <2>1, ConcatProperties
<1>4. BoxTypeOK'
  <2>1. Len(calls') =< MaxCalls
    BY <1>1, <1>2, <1>3
  <2>2. progress' \in [Box -> 0..100] /\ nested' \subseteq Box
    BY <1>1, <1>2 DEF SetProgress
  <2> QED BY <1>3, <2>1, <2>2 DEF SetProgress, BoxInv, BoxTypeOK, Made
<1>5. BackdropMatchesBoxes'
  BY DEF SetProgress, BoxInv, BackdropMatchesBoxes, Modals
<1>6. UnderWay(b)' /\ \A c \in Box \ {b} : UnderWay(c)' <=> UnderWay(c)
  <2>1. UnderWay(b)'
    BY <1>2, <1>3 DEF UnderWay
  <2>2. ASSUME NEW c \in Box \ {b}, UnderWay(c)  PROVE UnderWay(c)'
    <3>1. PICK i \in 1..Len(calls) : calls[i] = c
      BY <1>2, <2>2 DEF UnderWay
    <3>2. calls'[i + 1] = c /\ i + 1 \in 1..Len(calls')
      BY <1>2, <1>3, <3>1
    <3> QED BY <1>3, <3>2 DEF UnderWay
  <2>3. ASSUME NEW c \in Box \ {b}, UnderWay(c)'  PROVE UnderWay(c)
    <3>1. PICK i \in 1..Len(calls') : calls'[i] = c
      BY <1>3, <2>3 DEF UnderWay
    <3>2. i - 1 \in 1..Len(calls) /\ calls[i - 1] = c
      BY <1>2, <1>3, <3>1
    <3> QED BY <1>2, <3>2 DEF UnderWay
  <2> QED BY <2>1, <2>2, <2>3
<1>7. CompletesOnce'
  <2>1. completed[b] = 0
    BY <1>2 DEF SetProgress, BoxInv, CompletesOnce
  <2>2. /\ \A c \in Box \ {b} : progress'[c] = progress[c]
        /\ completed' = completed /\ nested \subseteq nested'
    BY <1>2 DEF SetProgress
  <2> QED BY <1>6, <2>1, <2>2 DEF BoxInv, CompletesOnce
<1>8. NestedOnce'
  <2> SUFFICES ASSUME NEW c \in Box, c \notin nested'
               PROVE  /\ UnderWay(c)' => completed'[c] = 0
                      /\ \A i, j \in DOMAIN calls' : calls'[i] = c /\ calls'[j] = c => i = j
    BY DEF NestedOnce
  <2>1. c \notin nested /\ (c = b => ~UnderWay(b)) /\ completed' = completed
    BY <1>2 DEF SetProgress
  <2>2. UnderWay(c)' => completed'[c] = 0
    <3>1. completed[b] = 0
      BY <1>2 DEF SetProgress, BoxInv, CompletesOnce
    <3> QED BY <1>6, <2>1, <3>1 DEF BoxInv, NestedOnce
  <2>3. ASSUME NEW i \in 1..Len(calls'), NEW j \in 1..Len(calls'), calls'[i] = c, calls'[j] = c
        PROVE  i = j
    <3>1. CASE c = b
      <4>1. \A k \in 1..Len(calls) : calls[k] # b
        BY <1>2, <2>1, <3>1 DEF UnderWay
      <4>2. \A k \in 1..Len(calls') : k # 1 => k - 1 \in 1..Len(calls) /\ calls'[k] = calls[k - 1]
        BY <1>2, <1>3
      <4> QED BY <2>3, <3>1, <4>1, <4>2
    <3>2. CASE c # b
      <4>1. i - 1 \in 1..Len(calls) /\ calls[i - 1] = c
        BY <1>2, <1>3, <2>3, <3>2
      <4>2. j - 1 \in 1..Len(calls) /\ calls[j - 1] = c
        BY <1>2, <1>3, <2>3, <3>2
      <4>3. i - 1 = j - 1
        BY <1>2, <2>1, <4>1, <4>2 DEF BoxInv, NestedOnce
      <4> QED BY <4>3
    <3> QED BY <3>1, <3>2
  <2> QED BY <1>3, <2>2, <2>3
<1>9. PendingMade'
  BY DEF SetProgress, BoxInv, PendingMade, Made
<1> QED BY <1>4, <1>5, <1>7, <1>8, <1>9 DEF BoxInv

LEMMA ProgressUpdatedInv ==
    ASSUME BoxInv, NEW b \in Box, ProgressUpdated(b)
    PROVE  BoxInv'
<1>1. /\ calls \in Seq(Box) /\ calls # <<>> /\ Len(calls) =< MaxCalls /\ calls' = Tail(calls)
      /\ b = Head(calls) /\ completed \in [Box -> Nat] /\ UNCHANGED <<progress, nested>>
  BY DEF ProgressUpdated, BoxInv, BoxTypeOK
<1>2. /\ calls' \in Seq(Box) /\ Len(calls') = Len(calls) - 1 /\ calls[1] = b
      /\ \A i \in 1..Len(calls') : calls'[i] = calls[i + 1]
      /\ Len(calls) \in Nat /\ 1 \in 1..Len(calls)
  <2>1. Len(calls) \in Nat /\ Len(calls) # 0
    BY <1>1
  <2> QED BY <1>1, <2>1, HeadTailProperties
<1>3. BoxTypeOK'
  <2>1. Len(calls') =< MaxCalls
    BY <1>1, <1>2, BoxAssumption
  <2>2. completed' \in [Box -> Nat]
    BY <1>1 DEF ProgressUpdated
  <2> QED BY <1>2, <2>1, <2>2 DEF ProgressUpdated, BoxInv, BoxTypeOK, Made
<1>4. BackdropMatchesBoxes'
  BY DEF ProgressUpdated, BoxInv, BackdropMatchesBoxes, Modals
<1>5. /\ UnderWay(b)
      /\ \A c \in Box : UnderWay(c)' => UnderWay(c)
      /\ \A c \in Box \ {b} : UnderWay(c) => UnderWay(c)'
      /\ b \notin nested => ~UnderWay(b)'
  <2>1. UnderWay(b)
    BY <1>1, <1>2 DEF UnderWay
  <2>2. ASSUME NEW i \in 1..Len(calls')  PROVE i + 1 \in 1..Len(calls) /\ calls[i + 1] = calls'[i]
    BY <1>2
  <2>3. ASSUME NEW c \in Box, UnderWay(c)'  PROVE UnderWay(c)
    <3>1. PICK i \in 1..Len(calls') : calls'[i] = c
      BY <1>2, <2>3 DEF UnderWay
    <3> QED BY <1>1, <2>2, <3>1 DEF UnderWay
  <2>4. ASSUME NEW c \in Box \ {b}, UnderWay(c)  PROVE UnderWay(c)'
    <3>1. PICK i \in 1..Len(calls) : calls[i] = c
      BY <1>1, <2>4 DEF UnderWay
    <3>2. i - 1 \in 1..Len(calls') /\ calls'[i - 1] = c
      BY <1>2, <3>1
    <3> QED BY <1>2, <3>2 DEF UnderWay
  <2>5. ASSUME b \notin nested, UnderWay(b)'  PROVE FALSE
    <3>1. PICK i \in 1..Len(calls') : calls'[i] = b
      BY <1>2, <2>5 DEF UnderWay
    <3>2. i + 1 = 1
      BY <1>1, <1>2, <2>2, <2>5, <3>1 DEF BoxInv, NestedOnce
    <3> QED BY <1>2, <3>2
  <2> QED BY <2>1, <2>3, <2>4, <2>5
<1>6. /\ completed'[b] = IF progress[b] = 100 THEN completed[b] + 1 ELSE completed[b]
      /\ \A c \in Box \ {b} : completed'[c] = completed[c]
  BY <1>1 DEF ProgressUpdated
<1>7. b \notin nested => completed[b] = 0
  BY <1>5 DEF BoxInv, NestedOnce
<1>8. CompletesOnce'
  <2>1. ASSUME NEW c \in Box \ {b}
        PROVE  /\ completed'[c] > 0 => progress'[c] = 100
               /\ progress'[c] = 100 /\ ~UnderWay(c)' => completed'[c] > 0
               /\ completed'[c] > 1 => c \in nested'
    BY <1>1, <1>5, <1>6 DEF BoxInv, CompletesOnce
  <2>2. /\ completed'[b] > 0 => progress'[b] = 100
        /\ progress'[b] = 100 => completed'[b] > 0
        /\ completed'[b] > 1 => b \in nested'
    BY <1>1, <1>6, <1>7 DEF BoxInv, CompletesOnce
  <2> QED BY <2>1, <2>2 DEF CompletesOnce
<1>9. NestedOnce'
  <2> SUFFICES ASSUME NEW c \in Box, c \notin nested'
               PROVE  /\ UnderWay(c)' => completed'[c] = 0
                      /\ \A i, j \in DOMAIN calls' : calls'[i] = c /\ calls'[j] = c => i = j
    BY DEF NestedOnce
  <2>1. UnderWay(c)' => completed'[c] = 0
    BY <1>1, <1>5, <1>6 DEF BoxInv, NestedOnce
  <2>2. ASSUME NEW i \in 1..Len(calls'), NEW j \in 1..Len(calls'), calls'[i] = c, calls'[j] = c
        PROVE  i = j
    <3>1. /\ i + 1 \in 1..Len(calls) /\ calls[i + 1] = c
          /\ j + 1 \in 1..Len(calls) /\ calls[j + 1] = c
      BY <1>2, <2>2
    <3>2. i + 1 = j + 1
      BY <1>1, <3>1 DEF BoxInv, NestedOnce
    <3> QED BY <3>2
  <2> QED BY <1>2, <2>1, <2>2
<1>10. PendingMade'
  BY DEF ProgressUpdated, BoxInv, PendingMade, Made
<1> QED BY <1>3, <1>4, <1>8, <1>9, <1>10 DEF BoxInv

LEMMA LoadedInv ==
    ASSUME BoxInv, NEW b \in Box, Loaded(b)  PROVE BoxInv'
<1>1. b \in Made
  BY DEF Loaded, BoxInv, BoxTypeOK
<1>2. CASE UNCHANGED <<hidden, doc, backdrop>>
  BY <1>2, ProgressKept
     DEF Loaded, BoxInv, BoxTypeOK, PendingMade, BackdropMatchesBoxes, Modals, ProgressOK, Made
<1>3. CASE ShowBox(b, opt[b].modal)
  BY <1>1, <1>3, ShowBoxInv DEF Loaded
<1> QED BY <1>2, <1>3 DEF Loaded

LEMMA TimerFiresInv ==
    ASSUME BoxInv, NEW b \in Box, TimerFires(b)  PROVE BoxInv'
<1>1. PendingOK /\ Made' = Made
  BY DEF BoxInv, BoxTypeOK, PendingOK, PendingMade, Made, TimerFires
<1>2. PendingOK'
  <2>1. /\ Tail(pending[b]) \in Seq({"hide", "destroy"})
        /\ Len(Tail(pending[b])) = Len(pending[b]) - 1 /\ Len(pending[b]) \in Nat
    BY <1>1, HeadTailProperties DEF PendingOK, TimerFires
  <2>2. pending' = [pending EXCEPT ![b] = Tail(pending[b])]
    BY DEF TimerFires
  <2>3. \A c \in Box : /\ pending'[c] \in Seq({"hide", "destroy"})
                       /\ Len(pending'[c]) =< MaxTimers + 1
    <3>1. pending'[b] = Tail(pending[b]) /\ \A c \in Box \ {b} : pending'[c] = pending[c]
      BY <1>1, <2>2 DEF PendingOK
    <3>2. Len(Tail(pending[b])) =< MaxTimers + 1
      BY <1>1, <2>1, BoxAssumption DEF PendingOK
    <3> QED BY <1>1, <2>1, <3>1, <3>2 DEF PendingOK
  <2>4. pending' \in [Box -> Seq({"hide", "destroy"})]
    BY <1>1, <2>1, <2>2 DEF PendingOK
  <2>5. PendingMade'
    BY <1>1, <2>2 DEF PendingOK, PendingMade, TimerFires
  <2> QED BY <2>3, <2>4, <2>5 DEF PendingOK
<1>3. b \in Made
  BY <1>1 DEF PendingOK, PendingMade, TimerFires
<1>4. CASE HideCallback(b) /\ UNCHANGED <<doc, unbound>>
  BY <1>1, <1>2, <1>3, <1>4, HideCallbackInv, ProgressKept
     DEF TimerFires, BoxInv, BoxTypeOK, PendingOK, ProgressOK
<1>5. CASE DestroyCallback({b}) /\ UNCHANGED hidden
  <2>1. {b} \subseteq Made /\ UNCHANGED <<opt, hidden>>
    BY <1>3, <1>5 DEF TimerFires
  <2> QED BY <1>1, <1>2, <1>5, <2>1, DestroyCallbackInv, ProgressKept
         DEF TimerFires, BoxInv, BoxTypeOK, PendingOK, ProgressOK
<1> QED BY <1>4, <1>5 DEF TimerFires

LEMMA DestroyInv ==
    ASSUME BoxInv, NEW b \in Made, MayWait(b),
           NEW what \in {<<"destroy">>, <<"destroy", "destroy">>}, DestroyBoxes({b}, what),
           UNCHANGED <<opt, hidden, loading, progressVars>>
    PROVE  BoxInv'
<1>1. {b} \subseteq Made /\ \A c \in {b} : MayWait(c)
  OBVIOUS
<1> QED BY <1>1, DestroyBoxesInv

LEMMA ClickButtonInv ==
    ASSUME BoxInv, NEW b \in Box, NEW answer, ClickButton(b, answer)  PROVE BoxInv'
<1>1. b \in Made /\ MayWait(b)
  BY DEF ClickButton, Clickable, BoxInv, BoxTypeOK
<1> QED BY <1>1, DestroyInv DEF ClickButton

LEMMA BoxEventsInv ==
    ASSUME BoxInv, BoxEvents \/ Timers  PROVE BoxInv'
<1>1. CASE EscKey
  <2> DEFINE S == {b \in Made : opt[b].closeOnEsc}
  <2>1. S \subseteq Made
    OBVIOUS
  <2>2. /\ \A b \in S : MayWait(b)
        /\ DestroyBoxes(S, <<"destroy">>)
        /\ UNCHANGED <<opt, hidden, loading, progressVars>>
    BY <1>1 DEF EscKey
  <2> HIDE DEF S
  <2> QED BY <2>1, <2>2, DestroyBoxesInv
<1>2. ASSUME NEW b \in Box, ClickClose(b)  PROVE BoxInv'
  <2>1. b \in Made /\ MayWait(b)
    BY <1>2 DEF ClickClose, Clickable, BoxInv, BoxTypeOK
  <2> QED BY <1>2, <2>1, DestroyInv DEF ClickClose
<1> QED BY <1>1, <1>2, LoadedInv, TimerFiresInv DEF BoxEvents, Timers

(* Confirm, on the upload page and elsewhere.                              *)
LEMMA ConfirmInv ==
    ASSUME BoxInv, NEW b \in Box, NEW given, Confirm(b, given),
           DOMAIN given \subseteq Option("window"),
           \A x \in DOMAIN given : given[x] \in BOOLEAN
    PROVE  BoxInv'
<1>1. BoxOption(ProcessInput("confirm", given))
  BY ProcessInputOption DEF Kind
<1>2. loading' \subseteq Made \cup {b}
  BY DEF Confirm, BoxInv, BoxTypeOK
<1> QED BY <1>1, <1>2, MadeInv DEF Confirm

LEMMA ScriptCallsInv ==
    ASSUME BoxInv, ScriptCalls  PROVE BoxInv'
<1>1. ASSUME NEW kind \in Kind, NEW given \in Options[kind]
      PROVE  DOMAIN given \subseteq Option("window") /\ \A x \in DOMAIN given : given[x] \in BOOLEAN
  BY OptionsAssumption DEF Option
<1>2. ASSUME NEW b \in Box, NEW kind \in Kind, NEW given \in Options[kind], NEW showing,
             New(b, ProcessInput(kind, given), showing), UNCHANGED loading
      PROVE  BoxInv'
  <2>1. BoxOption(ProcessInput(kind, given))
    BY <1>1, ProcessInputOption
  <2>2. loading' \subseteq Made \cup {b}
    BY <1>2 DEF BoxInv, BoxTypeOK
  <2> QED BY <1>2, <2>1, <2>2, MadeInv
<1>3. ASSUME NEW b \in Box, NEW given \in Options.window, WindowBox(b, given)
      PROVE  BoxInv'
  <2> DEFINE w == Extend(WindowDefaults, given)
             o == ProcessInput("window", w)
  <2>1. /\ DOMAIN given \subseteq Option("window")
        /\ \A x \in DOMAIN given : given[x] \in BOOLEAN
    BY <1>1 DEF Kind
  <2>2. DOMAIN w \subseteq Option("window") /\ \A x \in DOMAIN w : w[x] \in BOOLEAN
    <3>1. /\ DOMAIN WindowDefaults = {"url", "autoload", "showAfterLoad"}
          /\ WindowDefaults["url"] \in BOOLEAN /\ WindowDefaults["autoload"] \in BOOLEAN
          /\ WindowDefaults["showAfterLoad"] \in BOOLEAN
      BY DEF WindowDefaults
    <3> QED BY <2>1, <3>1 DEF Extend, Option
  <2> HIDE DEF w
  <2>3. BoxOption(o)
    BY <2>2, ProcessInputOption DEF Kind
  <2>4. New(b, o, Autoloads(o) => ~o.showAfterLoad)
    BY <1>3 DEF WindowBox, w
  <2>5. loading' \subseteq Made \cup {b}
    BY <1>3 DEF WindowBox, BoxInv, BoxTypeOK
  <2> HIDE DEF o
  <2> QED BY <2>3, <2>4, <2>5, MadeInv
<1>4. ASSUME NEW b \in Box, Show(b)  PROVE BoxInv'
  BY <1>4, ShowBoxInv DEF Show
<1>5. ASSUME NEW b \in Box, Hide(b)  PROVE BoxInv'
  BY <1>5, HideBoxInv DEF Hide
<1>6. ASSUME NEW b \in Box, Destroy(b)  PROVE BoxInv'
  BY <1>6, DestroyInv DEF Destroy
<1>7. ASSUME NEW b \in Box,
             \/ \E g \in Options.alert : Alert(b, g)
             \/ \E g \in Options.confirm : Confirm(b, g)
             \/ \E g \in Options.prompt : Prompt(b, g)
             \/ \E g \in Options.progress : Progress(b, g)
      PROVE  BoxInv'
  BY <1>2, <1>7 DEF Alert, Confirm, Prompt, Progress, Kind
<1> QED BY <1>3, <1>4, <1>5, <1>6, <1>7, SetProgressInv, ProgressUpdatedInv DEF ScriptCalls

-----------------------------------------------------------------------------
(* The upload page.                                                        *)

(* On the upload page no window asks for content, so a box in the document *)
(* asks about the file that is chosen, or "no" has cleared it, unless the  *)
(* file was changed behind the boxes; the box answered last was made.      *)
UploadInv ==
    /\ UploadTypeOK /\ UploadIsNamed
    /\ page # "upload" => upload = <<>>
    /\ page = "upload" =>
          /\ loading = {}
          /\ upload # <<>> => upload[1] \in Made
          /\ ~behind => \A b \in doc : file \in {named[b], NoFile}

LEMMA ChooseFileInv ==
    ASSUME BoxInv, UploadInv, page = "upload", UNCHANGED page, ChooseFile
    PROVE  BoxInv' /\ UploadInv'
<1> PICK f \in (File \cup {NoFile}) \ {file} :
        /\ file' = f
        /\ behind' = (behind \/ doc # {})
        /\ \/ f = NoFile /\ UNCHANGED <<named, boxVars>>
           \/ \E b \in Box :
                 /\ f # NoFile
                 /\ Confirm(b, [callback |-> TRUE])
                 /\ named' = [named EXCEPT ![b] = f]
        /\ UNCHANGED upload
  BY DEF ChooseFile
<1>1. CASE f = NoFile /\ UNCHANGED <<named, boxVars>>
  <2>1. UNCHANGED <<opt, doc, hidden, unbound, pending, backdrop, loading, progressVars>>
    BY <1>1 DEF boxVars
  <2>2. BoxInv'
    BY <2>1, ProgressKept
       DEF BoxInv, BoxTypeOK, PendingMade, BackdropMatchesBoxes, Modals, ProgressOK, Made
  <2>3. UploadTypeOK'
    BY <1>1 DEF UploadInv, UploadTypeOK
  <2>4. UploadIsNamed'
    BY <1>1 DEF UploadInv, UploadIsNamed
  <2> QED BY <1>1, <2>1, <2>2, <2>3, <2>4 DEF UploadInv, Made
<1>2. ASSUME NEW b \in Box, f # NoFile, Confirm(b, [callback |-> TRUE]),
             named' = [named EXCEPT ![b] = f]
      PROVE  BoxInv' /\ UploadInv'
  <2>1. BoxInv'
    <3>1. /\ DOMAIN [callback |-> TRUE] \subseteq Option("window")
          /\ \A x \in DOMAIN [callback |-> TRUE] : [callback |-> TRUE][x] \in BOOLEAN
      <4>1. "callback" \in DOMAIN BaseDefaults
        BY DEF BaseDefaults
      <4>2. DOMAIN [callback |-> TRUE] = {"callback"} /\ [callback |-> TRUE]["callback"] = TRUE
        OBVIOUS
      <4> QED BY <4>1, <4>2 DEF Option
    <3> QED BY <1>2, <3>1, ConfirmInv
  <2>2. b \notin Made /\ doc' \subseteq doc \cup {b} /\ Made' = Made \cup {b} /\ UNCHANGED loading
    BY <1>2 DEF Confirm, New, ShowBox, Made
  <2>3. named'[b] = f /\ \A c \in Box \ {b} : named'[c] = named[c]
    BY <1>2 DEF UploadInv, UploadTypeOK
  <2>4. UploadTypeOK'
    BY <1>2 DEF UploadInv, UploadTypeOK
  <2>5. UploadIsNamed'
    <3> SUFFICES ASSUME upload # <<>>, ~behind  PROVE upload[2] \in {named'[upload[1]], NoFile}
      BY DEF UploadIsNamed
    <3>1. upload[1] \in Made /\ upload[1] \in Box
      BY DEF UploadInv, UploadTypeOK
    <3> QED BY <2>2, <2>3, <3>1 DEF UploadInv, UploadIsNamed
  <2>6. ~behind' => \A c \in doc' : file' \in {named'[c], NoFile}
    BY <2>2, <2>3
  <2> QED BY <2>1, <2>2, <2>4, <2>5, <2>6 DEF UploadInv
<1> QED BY <1>1, <1>2

LEMMA AnswerBoxInv ==
    ASSUME BoxInv, UploadInv, page = "upload", UNCHANGED page,
           NEW b \in Box, NEW type \in Answer, AnswerBox(b, type)
    PROVE  BoxInv' /\ UploadInv'
<1>1. BoxInv'
  BY ClickButtonInv DEF AnswerBox
<1>2. b \in doc /\ doc' \subseteq doc /\ UNCHANGED <<opt, loading, named, behind>>
  BY DEF AnswerBox, ClickButton, Clickable, DestroyBoxes, DestroyCallback
<1>3. b \in Made /\ Made' = Made
  BY <1>2 DEF BoxInv, BoxTypeOK, Made
<1>4. CASE upload' = <<b, file>> /\ UNCHANGED file
  <2>1. upload'[1] = b /\ upload'[2] = file
    BY <1>4
  <2>2. UploadTypeOK'
    BY <1>2, <1>4 DEF UploadInv, UploadTypeOK
  <2>3. UploadIsNamed'
    BY <1>2, <2>1 DEF UploadInv, UploadIsNamed
  <2> QED BY <1>1, <1>2, <1>3, <1>4, <2>1, <2>2, <2>3 DEF UploadInv
<1>5. CASE file' = NoFile /\ UNCHANGED upload
  <2>1. UploadTypeOK'
    BY <1>2, <1>5 DEF UploadInv, UploadTypeOK
  <2>2. UploadIsNamed'
    BY <1>2, <1>5 DEF UploadInv, UploadIsNamed
  <2> QED BY <1>1, <1>2, <1>3, <1>5, <2>1, <2>2 DEF UploadInv
<1> QED BY <1>4, <1>5 DEF AnswerBox

LEMMA RedirectedInv ==
    ASSUME BoxInv, UploadInv, page = "upload", UNCHANGED page, Redirected
    PROVE  BoxInv' /\ UploadInv'
<1>1. /\ Made' = {} /\ doc' = {} /\ hidden' = {} /\ unbound' = {} /\ backdrop' = FALSE
      /\ UNCHANGED progressVars /\ loading' = {}
  BY DEF Redirected, Made, UploadInv
<1>2. pending' = [c \in Box |-> <<>>]
  BY DEF Redirected
<1>3. \A c \in Box : Len(pending'[c]) =< MaxTimers + 1
  <2>1. \A c \in Box : Len(pending'[c]) = 0
    BY <1>2
  <2>2. 0 =< MaxTimers + 1
    BY BoxAssumption
  <2> QED BY <2>1, <2>2, Zenon
<1>4. pending' \in [Box -> Seq({"hide", "destroy"})] /\ PendingMade'
  BY <1>2 DEF PendingMade
<1>5. BoxTypeOK'
  BY <1>1, <1>3, <1>4, ProgressKept DEF BoxTypeOK, ProgressOK
<1>6. BackdropMatchesBoxes' /\ CompletesOnce' /\ NestedOnce'
  BY <1>1, ProgressKept DEF BackdropMatchesBoxes, Modals, ProgressOK
<1>7. UploadTypeOK' /\ UploadIsNamed'
  BY DEF Redirected, UploadTypeOK, UploadIsNamed
<1>8. upload' = <<>>
  BY DEF Redirected
<1> QED BY <1>1, <1>4, <1>5, <1>6, <1>7, <1>8 DEF BoxInv, UploadInv

LEMMA UploadPageInv ==
    ASSUME BoxInv, UploadInv, page = "upload", UNCHANGED page, UploadNext
    PROVE  BoxInv' /\ UploadInv'
<1>1. CASE (BoxEvents \/ Timers) /\ UNCHANGED uploadVars
  <2>1. BoxInv'
    BY <1>1, BoxEventsInv
  <2>2. UNCHANGED <<file, named, upload, behind>>
    BY <1>1 DEF uploadVars
  <2>3. /\ Made' = Made /\ doc' \subseteq doc /\ loading' = loading
    <3>1. ASSUME NEW b \in Box  PROVE ~Loaded(b)
      BY DEF Loaded, UploadInv
    <3>2. CASE EscKey
      BY <3>2 DEF EscKey, DestroyBoxes, DestroyCallback, Made
    <3>3. ASSUME NEW b \in Box, ClickClose(b)
          PROVE  Made' = Made /\ doc' \subseteq doc /\ loading' = loading
      BY <3>3 DEF ClickClose, DestroyBoxes, DestroyCallback, Made
    <3>4. ASSUME NEW b \in Box, TimerFires(b)
          PROVE  Made' = Made /\ doc' \subseteq doc /\ loading' = loading
      BY <3>4 DEF TimerFires, HideCallback, DestroyCallback, Made
    <3> QED BY <1>1, <3>1, <3>2, <3>3, <3>4 DEF BoxEvents, Timers
  <2>4. UploadTypeOK' /\ UploadIsNamed'
    BY <2>2 DEF UploadInv, UploadTypeOK, UploadIsNamed
  <2> QED BY <2>1, <2>2, <2>3, <2>4 DEF UploadInv
<1> QED BY <1>1, ChooseFileInv, AnswerBoxInv, RedirectedInv DEF UploadNext

-----------------------------------------------------------------------------
(* Notifications.                                                          *)

(* Only what has been made is being removed, and the end of a delay is the *)
(* one removal nobody limits; it comes once.                               *)
RemovalsOK ==
    \A n \in Note :
        /\ n \notin DOMAIN note => removals[n] = 0
        /\ removals[n] =< MaxRemovals + (IF n \in ticking THEN 1 ELSE 2)

(* Each tab is that of a large notification of its position, and no        *)
(* notification has two.                                                   *)
TabsOK ==
    \A p \in Position :
        /\ \A i \in 1..Len(tabs[p]) :
              /\ tabs[p][i] \in DOMAIN note
              /\ note[tabs[p][i]].position = p /\ note[tabs[p][i]].size = "large"
        /\ \A i, j \in 1..Len(tabs[p]) : i # j => tabs[p][i] # tabs[p][j]

NoteInv == NoteTypeOK /\ RemovalsOK /\ TabsOK /\ TabStaysOpen

LEMMA NoteInitInv == NoteInit => NoteInv
<1> SUFFICES ASSUME NoteInit  PROVE NoteInv
  OBVIOUS
<1>1. /\ \A p \in Position : tabs[p] = <<>> /\ Len(tabs[p]) = 0
      /\ \A n \in Note : removals[n] = 0
      /\ DOMAIN note = {} /\ ticking = {} /\ MaxRemovals \in Nat
  BY NoteAssumption DEF NoteInit
<1>2. NoteTypeOK
  <2>1. removals \in [Note -> 0..MaxRemovals + 2]
    BY <1>1 DEF NoteInit
  <2>2. tabs \in [Position -> Seq(Note)] /\ active \in [Position -> Note \cup {NoNote}]
    BY DEF NoteInit
  <2> QED BY <1>1, <2>1, <2>2 DEF NoteInit, NoteTypeOK
<1>3. RemovalsOK
  BY <1>1 DEF RemovalsOK
<1>4. TabsOK
  BY <1>1 DEF TabsOK
<1>5. TabStaysOpen
  BY <1>1 DEF TabStaysOpen
<1> QED BY <1>2, <1>3, <1>4, <1>5 DEF NoteInv

(* What Range and Tab mean for the tabs of a position.                     *)
LEMMA TabProperties ==
    ASSUME NEW s \in Seq(Note), NEW n \in Range(s)
    PROVE  Tab(s, n) \in 1..Len(s) /\ s[Tab(s, n)] = n
<1>1. \E i \in DOMAIN s : s[i] = n
  BY DEF Range
<1>2. DOMAIN s = 1..Len(s)
  OBVIOUS
<1> QED BY <1>1, <1>2 DEF Tab

LEMMA RangeTabs ==
    ASSUME NEW s \in Seq(Note)
    PROVE  \A n : n \in Range(s) <=> \E i \in 1..Len(s) : s[i] = n
<1>1. DOMAIN s = 1..Len(s)
  OBVIOUS
<1> QED BY <1>1 DEF Range

LEMMA RemoveAtProperties ==
    ASSUME NEW s \in Seq(Note), NEW i \in 1..Len(s)
    PROVE  /\ RemoveAt(s, i) \in Seq(Note)
           /\ Len(RemoveAt(s, i)) = Len(s) - 1
           /\ \A k \in 1..Len(s) - 1 : RemoveAt(s, i)[k] = IF k < i THEN s[k] ELSE s[k + 1]
<1> DEFINE before == SubSeq(s, 1, i - 1)
           after == SubSeq(s, i + 1, Len(s))
<1>1. Len(s) \in Nat /\ i \in Int /\ 1 =< i /\ i =< Len(s) /\ \A k \in 1..Len(s) : s[k] \in Note
  OBVIOUS
<1>2. /\ before \in Seq(Note) /\ Len(before) = i - 1
      /\ \A k \in 1..i - 1 : before[k] = s[k]
  <2>1. \A k \in 1..i - 1 : s[k] \in Note
    BY <1>1
  <2>2. /\ SubSeq(s, 1, i - 1) \in Seq(Note)
        /\ Len(SubSeq(s, 1, i - 1)) = IF 1 =< i - 1 THEN i - 1 - 1 + 1 ELSE 0
        /\ \A k \in 1..i - 1 - 1 + 1 : SubSeq(s, 1, i - 1)[k] = s[1 + k - 1]
    BY <1>1, <2>1, SubSeqProperties
  <2> QED BY <1>1, <2>2
<1>3. /\ after \in Seq(Note) /\ Len(after) = Len(s) - i
      /\ \A k \in 1..Len(s) - i : after[k] = s[i + k]
  <2>1. \A k \in i + 1..Len(s) : s[k] \in Note
    BY <1>1
  <2>2. /\ SubSeq(s, i + 1, Len(s)) \in Seq(Note)
        /\ Len(SubSeq(s, i + 1, Len(s))) = IF i + 1 =< Len(s) THEN Len(s) - (i + 1) + 1 ELSE 0
        /\ \A k \in 1..Len(s) - (i + 1) + 1 : SubSeq(s, i + 1, Len(s))[k] = s[i + 1 + k - 1]
    BY <1>1, <2>1, SubSeqProperties
  <2> QED BY <1>1, <2>2
<1>4. RemoveAt(s, i) = before \o after
  BY DEF RemoveAt
<1> HIDE DEF before, after
<1>5. /\ before \o after \in Seq(Note)
      /\ Len(before \o after) = Len(s) - 1
      /\ \A k \in 1..Len(s) - 1 :
            (before \o after)[k] = IF k =< i - 1 THEN before[k] ELSE after[k - (i - 1)]
  <2>1. /\ before \o after \in Seq(Note)
        /\ Len(before \o after) = Len(before) + Len(after)
        /\ \A k \in 1..Len(before) + Len(after) :
              (before \o after)[k] = IF k =< Len(before) THEN before[k] ELSE after[k - Len(before)]
    BY <1>2, <1>3, ConcatProperties
  <2>2. Len(before) + Len(after) = Len(s) - 1
    BY <1>1, <1>2, <1>3
  <2> QED BY <1>2, <2>1, <2>2
<1>6. ASSUME NEW k \in 1..Len(s) - 1
      PROVE  (before \o after)[k] = IF k < i THEN s[k] ELSE s[k + 1]
  BY <1>1, <1>2, <1>3, <1>5
<1> QED BY <1>4, <1>5, <1>6

(* The tab that FindTabToActivate finds stays in the wrapper.              *)
LEMMA ActivatedStays ==
    ASSUME NEW s \in Seq(Note), NEW n \in Range(s)
    PROVE  /\ FindTabToActivate(s, n) \in Note \cup {NoNote}
           /\ RemoveAt(s, Tab(s, n)) # <<>> =>
                 FindTabToActivate(s, n) \in Range(RemoveAt(s, Tab(s, n)))
<1> DEFINE i == Tab(s, n)
           r == RemoveAt(s, i)
<1>1. i \in 1..Len(s) /\ Len(s) \in Nat
  BY TabProperties
<1>2. FindTabToActivate(s, n) = IF i > 1 THEN s[i - 1] ELSE IF i < Len(s) THEN s[i + 1] ELSE NoNote
  BY DEF FindTabToActivate
<1> HIDE DEF i
<1>3. /\ r \in Seq(Note) /\ Len(r) = Len(s) - 1
      /\ \A k \in 1..Len(s) - 1 : r[k] = IF k < i THEN s[k] ELSE s[k + 1]
  BY <1>1, RemoveAtProperties
<1> HIDE DEF r
<1>4. FindTabToActivate(s, n) \in Note \cup {NoNote}
  BY <1>1, <1>2
<1>5. ASSUME r # <<>>  PROVE FindTabToActivate(s, n) \in Range(r)
  <2>1. Len(s) > 1
    BY <1>1, <1>3, <1>5
  <2>2. CASE i > 1
    <3>1. i - 1 \in 1..Len(r) /\ r[i - 1] = s[i - 1]
      BY <1>1, <1>3, <2>2
    <3> QED BY <1>2, <1>3, <2>2, <3>1, RangeTabs
  <2>3. CASE i = 1
    <3>1. 1 \in 1..Len(r) /\ r[1] = s[2]
      BY <1>1, <1>3, <2>1, <2>3
    <3>2. FindTabToActivate(s, n) = s[2]
      BY <1>2, <2>1, <2>3
    <3> QED BY <1>3, <3>1, <3>2, RangeTabs
  <2> QED BY <1>1, <2>2, <2>3
<1> QED BY <1>4, <1>5 DEF r, i

LEMMA CallRemoveOK ==
    ASSUME NoteInv, NEW n \in DOMAIN note, NEW k \in {1, 2}, CallRemove(n, k),
           removals[n] + k =< MaxRemovals + (IF n \in ticking' THEN 1 ELSE 2),
           ticking' \subseteq ticking, UNCHANGED note
    PROVE  removals' \in [Note -> 0..MaxRemovals + 2] /\ RemovalsOK'
<1>1. MaxRemovals \in Nat /\ removals \in [Note -> 0..MaxRemovals + 2] /\ n \in Note
  BY NoteAssumption DEF NoteInv, NoteTypeOK
<1>2. removals' = [removals EXCEPT ![n] = @ + k] \/ removals' = removals
  BY DEF CallRemove
<1>3. removals[n] + k \in 0..MaxRemovals + 2
  BY <1>1
<1>4. \A m \in Note \ {n} : removals'[m] = removals[m]
  BY <1>1, <1>2
<1>5. removals'[n] \in {removals[n], removals[n] + k}
  BY <1>1, <1>2
<1>6. removals'[n] =< MaxRemovals + (IF n \in ticking' THEN 1 ELSE 2)
  BY <1>1, <1>5
<1>7. ASSUME NEW m \in Note \ {n}
      PROVE  /\ m \notin DOMAIN note => removals'[m] = 0
             /\ removals'[m] =< MaxRemovals + (IF m \in ticking' THEN 1 ELSE 2)
  BY <1>1, <1>4 DEF NoteInv, RemovalsOK
<1> QED BY <1>1, <1>2, <1>3, <1>6, <1>7 DEF RemovalsOK

(* A step that leaves the tabs and the notifications alone.                *)
LEMMA TabsUntouched ==
    ASSUME NoteInv, UNCHANGED <<bootstrap, note, tabs, active>>,
           shown' \subseteq shown, ticking' \subseteq ticking,
           removals' \in [Note -> 0..MaxRemovals + 2], RemovalsOK'
    PROVE  NoteInv'
<1>1. NoteTypeOK'
  BY DEF NoteInv, NoteTypeOK
<1>2. TabsOK'
  BY DEF NoteInv, TabsOK
<1>3. TabStaysOpen'
  BY DEF NoteInv, TabStaysOpen
<1> QED BY <1>1, <1>2, <1>3 DEF NoteInv

LEMMA NotifyInv ==
    ASSUME NoteInv, NEW n \in Note, NEW o \in NoteOption, Notify(n, o)  PROVE NoteInv'
<1>1. DOMAIN note' = DOMAIN note \cup {n} /\ n \notin DOMAIN note
  BY DEF Notify
<1>2. note'[n] = o /\ \A m \in DOMAIN note : note'[m] = note[m]
  BY <1>1 DEF Notify
<1>3. /\ shown' \subseteq shown \cup {n} /\ ticking' \subseteq ticking \cup {n}
      /\ UNCHANGED <<bootstrap, removals>>
  BY DEF Notify
<1>4. RemovalsOK'
  <2>1. MaxRemovals \in Nat /\ removals[n] = 0
    BY <1>1, NoteAssumption DEF NoteInv, RemovalsOK
  <2>2. \A m \in Note \ {n} : m \in ticking' => m \in ticking
    BY <1>3
  <2>3. \A m \in Note \ {n} : removals[m] =< MaxRemovals + (IF m \in ticking' THEN 1 ELSE 2)
    BY <2>1, <2>2 DEF NoteInv, NoteTypeOK, RemovalsOK
  <2>4. removals[n] =< MaxRemovals + (IF n \in ticking' THEN 1 ELSE 2)
    BY <2>1
  <2>5. \A m \in Note : m \notin DOMAIN note' => removals[m] = 0
    BY <1>1 DEF NoteInv, RemovalsOK
  <2> QED BY <1>3, <2>3, <2>4, <2>5 DEF RemovalsOK
<1>5. \A m \in DOMAIN note' : note'[m] \in NoteOption
  BY <1>1, <1>2 DEF NoteInv, NoteTypeOK
<1>6. CASE o.size # "large" /\ UNCHANGED <<tabs, active>>
  <2>1. NoteTypeOK'
    BY <1>1, <1>3, <1>5, <1>6 DEF NoteInv, NoteTypeOK
  <2>2. TabsOK'
    BY <1>1, <1>2, <1>6 DEF NoteInv, TabsOK
  <2>3. TabStaysOpen'
    BY <1>3, <1>6 DEF NoteInv, TabStaysOpen
  <2> QED BY <1>4, <2>1, <2>2, <2>3 DEF NoteInv
<1>7. CASE /\ o.size = "large"
           /\ tabs' = [tabs EXCEPT ![o.position] = Append(@, n)]
           /\ active' = IF bootstrap THEN [active EXCEPT ![o.position] = n] ELSE active
           /\ UNCHANGED <<shown, ticking>>
  <2> DEFINE p == o.position
             s == tabs[p]
             t == Append(s, n)
  <2>1. p \in Position /\ s \in Seq(Note) /\ Len(s) \in Nat
    BY DEF NoteOption, NoteInv, NoteTypeOK
  <2>2. /\ t \in Seq(Note) /\ Len(t) = Len(s) + 1 /\ t[Len(s) + 1] = n
        /\ \A i \in 1..Len(s) : t[i] = s[i]
    BY <2>1, AppendProperties
  <2>3. tabs'[p] = t /\ \A q \in Position \ {p} : tabs'[q] = tabs[q]
    BY <1>7, <2>1 DEF NoteInv, NoteTypeOK
  <2>4. NoteTypeOK'
    <3>1. tabs' \in [Position -> Seq(Note)] /\ active' \in [Position -> Note \cup {NoNote}]
      BY <1>7, <2>1, <2>2 DEF NoteInv, NoteTypeOK
    <3> QED BY <1>1, <1>3, <1>5, <1>7, <3>1 DEF NoteInv, NoteTypeOK
  <2> HIDE DEF t
  <2>5. \A i \in 1..Len(s) : s[i] \in DOMAIN note /\ note[s[i]].position = p /\ note[s[i]].size = "large"
    BY <2>1 DEF NoteInv, TabsOK
  <2>6. \A i, j \in 1..Len(s) : i # j => s[i] # s[j]
    BY <2>1 DEF NoteInv, TabsOK
  <2> HIDE DEF s
  <2>7. ASSUME NEW i \in 1..Len(t)
        PROVE  t[i] \in DOMAIN note' /\ note'[t[i]].position = p /\ note'[t[i]].size = "large"
    <3>1. i \in 1..Len(s) \/ i = Len(s) + 1
      BY <2>1, <2>2
    <3> QED BY <1>1, <1>2, <1>7, <2>2, <2>5, <3>1
  <2>8. ASSUME NEW i \in 1..Len(t), NEW j \in 1..Len(t), i # j  PROVE t[i] # t[j]
    <3>1. (i \in 1..Len(s) \/ i = Len(s) + 1) /\ (j \in 1..Len(s) \/ j = Len(s) + 1)
      BY <2>1, <2>2
    <3>2. \A k \in 1..Len(s) : t[k] = s[k] /\ t[k] # n
      BY <1>1, <2>2, <2>5
    <3> QED BY <2>2, <2>6, <2>8, <3>1, <3>2
  <2>9. TabsOK'
    BY <1>1, <1>2, <2>3, <2>7, <2>8 DEF NoteInv, TabsOK
  <2>10. TabStaysOpen'
    <3> SUFFICES ASSUME bootstrap, NEW q \in Position, tabs'[q] # <<>>
                 PROVE  active'[q] \in Range(tabs'[q])
      BY <1>3 DEF TabStaysOpen
    <3>1. CASE q = p
      <4>1. active'[q] = n
        BY <1>7, <2>1, <3>1 DEF NoteInv, NoteTypeOK
      <4>2. Len(s) + 1 \in 1..Len(t)
        BY <2>1, <2>2
      <4> QED BY <2>2, <2>3, <3>1, <4>1, <4>2, RangeTabs
    <3>2. CASE q # p
      <4>1. active'[q] = active[q]
        BY <1>7, <3>2 DEF NoteInv, NoteTypeOK
      <4> QED BY <2>3, <3>2, <4>1 DEF NoteInv, TabStaysOpen
    <3> QED BY <3>1, <3>2
  <2> QED BY <1>4, <2>4, <2>9, <2>10 DEF NoteInv
<1> QED BY <1>6, <1>7 DEF Notify

LEMMA CallsInv ==
    ASSUME NoteInv, NEW n \in Note, Close(n) \/ Click(n) \/ DelayEnds(n)  PROVE NoteInv'
<1>1. /\ MaxRemovals \in Nat /\ removals[n] \in Nat
      /\ removals[n] =< MaxRemovals + (IF n \in ticking THEN 1 ELSE 2)
  BY NoteAssumption DEF NoteInv, NoteTypeOK, RemovalsOK
<1>2. n \in DOMAIN note
  BY DEF Close, Click, DelayEnds, NoteInv, NoteTypeOK
<1>3. /\ UNCHANGED <<bootstrap, note, tabs, active>>
      /\ shown' \subseteq shown /\ ticking' \subseteq ticking
  BY DEF Close, Click, DelayEnds
<1>4. PICK k \in {1, 2} :
        CallRemove(n, k) /\ removals[n] + k =< MaxRemovals + (IF n \in ticking' THEN 1 ELSE 2)
  <2>1. CASE Close(n)
    <3>1. removals[n] < MaxRemovals /\ (CallRemove(n, 1) \/ CallRemove(n, 2))
      BY <2>1 DEF Close
    <3> QED BY <1>1, <3>1
  <2>2. CASE Click(n)
    BY <1>1, <2>2 DEF Click
  <2>3. CASE DelayEnds(n)
    BY <1>1, <2>3 DEF DelayEnds
  <2> QED BY <2>1, <2>2, <2>3
<1>5. removals' \in [Note -> 0..MaxRemovals + 2] /\ RemovalsOK'
  BY <1>2, <1>3, <1>4, CallRemoveOK
<1> QED BY <1>3, <1>5, TabsUntouched

LEMMA RemovalFiresInv ==
    ASSUME NoteInv, NEW n \in Note, RemovalFires(n)  PROVE NoteInv'
<1> DEFINE p == note[n].position
<1>1. n \in DOMAIN note /\ p \in Position
  BY DEF RemovalFires, NoteInv, NoteTypeOK, RemovalsOK, NoteOption
<1>2. /\ removals[n] > 0 /\ removals' = [removals EXCEPT ![n] = @ - 1]
      /\ UNCHANGED <<bootstrap, note, ticking>> /\ shown' \subseteq shown
  BY DEF RemovalFires
<1>3. removals' \in [Note -> 0..MaxRemovals + 2] /\ RemovalsOK'
  <2>1. MaxRemovals \in Nat /\ removals \in [Note -> 0..MaxRemovals + 2]
    BY NoteAssumption DEF NoteInv, NoteTypeOK
  <2>2. removals'[n] = removals[n] - 1 /\ \A m \in Note \ {n} : removals'[m] = removals[m]
    BY <1>2, <2>1
  <2>3. removals[n] - 1 \in 0..MaxRemovals + 2 /\ removals[n] - 1 =< MaxRemovals + 1
    BY <1>2, <2>1
  <2>4. removals' \in [Note -> 0..MaxRemovals + 2]
    BY <1>2, <2>1, <2>3
  <2>5. removals'[n] =< MaxRemovals + (IF n \in ticking' THEN 1 ELSE 2)
    BY <2>1, <2>2, <2>3
  <2> QED BY <1>1, <1>2, <2>2, <2>4, <2>5 DEF NoteInv, RemovalsOK
<1>4. CASE UNCHANGED <<tabs, active>>
  BY <1>2, <1>3, <1>4, TabsUntouched
<1>5. CASE /\ n \in Range(tabs[p])
           /\ active' = [active EXCEPT ![p] = FindTabToActivate(tabs[p], n)]
           /\ tabs' = [tabs EXCEPT ![p] = RemoveAt(@, Tab(@, n))]
  <2> DEFINE s == tabs[p]
             t == RemoveAt(s, Tab(s, n))
             a == FindTabToActivate(s, n)
  <2>1. s \in Seq(Note) /\ Len(s) \in Nat
    BY <1>1 DEF NoteInv, NoteTypeOK
  <2> PICK i \in 1..Len(s) : i = Tab(s, n)
    BY <1>5, <2>1, TabProperties
  <2>2. /\ t \in Seq(Note) /\ Len(t) = Len(s) - 1
        /\ \A k \in 1..Len(s) - 1 : t[k] = IF k < i THEN s[k] ELSE s[k + 1]
    BY <2>1, RemoveAtProperties
  <2>3. a \in Note \cup {NoNote} /\ (t # <<>> => a \in Range(t))
    BY <1>5, <2>1, ActivatedStays
  <2>4. /\ tabs'[p] = t /\ \A q \in Position \ {p} : tabs'[q] = tabs[q]
        /\ active'[p] = a /\ \A q \in Position \ {p} : active'[q] = active[q]
    BY <1>1, <1>5 DEF NoteInv, NoteTypeOK
  <2>5. tabs' \in [Position -> Seq(Note)] /\ active' \in [Position -> Note \cup {NoNote}]
    BY <1>1, <1>5, <2>2, <2>3 DEF NoteInv, NoteTypeOK
  <2>6. \A k \in 1..Len(s) : s[k] \in DOMAIN note /\ note[s[k]].position = p /\ note[s[k]].size = "large"
    BY <1>1 DEF NoteInv, TabsOK
  <2>7. \A k, l \in 1..Len(s) : k # l => s[k] # s[l]
    BY <1>1 DEF NoteInv, TabsOK
  <2> HIDE DEF s, t, a
  <2>8. NoteTypeOK'
    BY <1>2, <1>3, <2>5 DEF NoteInv, NoteTypeOK
  <2>9. ASSUME NEW k \in 1..Len(t)
        PROVE  t[k] \in DOMAIN note /\ note[t[k]].position = p /\ note[t[k]].size = "large"
    <3>1. k \in 1..Len(s) /\ k + 1 \in 1..Len(s) /\ k \in 1..Len(s) - 1
      BY <2>1, <2>2
    <3> QED BY <2>2, <2>6, <3>1
  <2>10. ASSUME NEW k \in 1..Len(t), NEW l \in 1..Len(t), k # l  PROVE t[k] # t[l]
    <3>1. PICK x \in 1..Len(s) : t[k] = s[x] /\ x = IF k < i THEN k ELSE k + 1
      BY <2>1, <2>2
    <3>2. PICK y \in 1..Len(s) : t[l] = s[y] /\ y = IF l < i THEN l ELSE l + 1
      BY <2>1, <2>2
    <3>3. x # y
      BY <2>1, <2>2, <2>10, <3>1, <3>2
    <3> QED BY <2>7, <3>1, <3>2, <3>3
  <2>11. TabsOK'
    BY <1>2, <2>4, <2>9, <2>10 DEF NoteInv, TabsOK
  <2>12. TabStaysOpen'
    <3> SUFFICES ASSUME bootstrap, NEW q \in Position, tabs'[q] # <<>>
                 PROVE  active'[q] \in Range(tabs'[q])
      BY <1>2 DEF TabStaysOpen
    <3>1. CASE q = p
      BY <2>3, <2>4, <3>1
    <3>2. CASE q # p
      BY <2>4, <3>2 DEF NoteInv, TabStaysOpen
    <3> QED BY <3>1, <3>2
  <2> QED BY <1>3, <2>8, <2>11, <2>12 DEF NoteInv
<1> QED BY <1>4, <1>5 DEF RemovalFires

LEMMA ChooseTabInv ==
    ASSUME NoteInv, ChooseTab  PROVE NoteInv'
<1> PICK p \in Position : \E n \in Range(tabs[p]) :
        /\ active' = [active EXCEPT ![p] = n]
        /\ UNCHANGED <<bootstrap, note, shown, ticking, removals, tabs>>
  BY DEF ChooseTab
<1> PICK n \in Range(tabs[p]) :
        /\ active' = [active EXCEPT ![p] = n]
        /\ UNCHANGED <<bootstrap, note, shown, ticking, removals, tabs>>
  OBVIOUS
<1>1. n \in Note
  BY RangeTabs DEF NoteInv, NoteTypeOK
<1>2. active'[p] = n /\ \A q \in Position \ {p} : active'[q] = active[q]
  BY DEF NoteInv, NoteTypeOK
<1>3. NoteTypeOK'
  BY <1>1 DEF NoteInv, NoteTypeOK
<1>4. RemovalsOK'
  BY DEF NoteInv, RemovalsOK
<1>5. TabsOK'
  BY DEF NoteInv, TabsOK
<1>6. TabStaysOpen'
  BY <1>2 DEF NoteInv, TabStaysOpen
<1> QED BY <1>3, <1>4, <1>5, <1>6 DEF NoteInv

LEMMA NoteStepInv ==
    ASSUME NoteInv, NoteNext  PROVE NoteInv'
BY NotifyInv, CallsInv, RemovalFiresInv, ChooseTabInv DEF NoteNext, NoteTimers

-----------------------------------------------------------------------------
(* The layout of a box.                                                    *)

(* What FitsWindow follows from: the size is computed to be no larger than *)
(* the window, and the place of a box that is centered from both.          *)
LayoutInv ==
    /\ LayoutTypeOK
    /\ sized => rect.w \in 0..win.w /\ rect.h \in 0..win.h
    /\ centered => rect.left2 = win.w - rect.w /\ rect.top2 = win.h - rect.h

Rect == [w : Int, h : Int, body : Nat, left2 : Int, top2 : Int]

LEMMA LayoutFits == LayoutInv => FitsWindow
BY LayoutAssumption DEF LayoutInv, LayoutTypeOK, FitsWindow

(* The size that is computed.                                              *)
LEMMA SizeComputed ==
    ASSUME win \in Window, NEW r \in Rect, NEW w \in Nat, NEW h \in Nat
    PROVE  LET s == WithHeight(WithWidth(r, w), h) IN
           /\ s \in Rect /\ s.w \in 0..win.w /\ s.h \in 0..win.h
<1>1. /\ win.w \in Nat /\ win.h \in Nat /\ win.w >= 2 * HorizontalOffset
      /\ HorizontalOffset \in Nat /\ Header \in Nat /\ Footer \in Nat
  BY LayoutAssumption
<1>2. CalculateWidth(w) \in 0..win.w
  BY <1>1 DEF CalculateWidth
<1>3. CalculateHeight(h) \in 0..win.h
  BY <1>1 DEF CalculateHeight
<1>4. Styled(CalculateBodyHeight(CalculateHeight(h))) \in Nat
  BY <1>1, <1>3 DEF CalculateBodyHeight, Styled
<1>5. CalculateWidth(w) \in Int /\ CalculateHeight(h) \in Int
  BY <1>1, <1>2, <1>3
<1> DEFINE s == WithHeight(WithWidth(r, w), h)
<1>6. s \in Rect /\ s.w = CalculateWidth(w) /\ s.h = CalculateHeight(h)
  BY <1>4, <1>5 DEF WithHeight, WithWidth, Rect
<1> QED BY <1>2, <1>3, <1>6

(* The place that is computed.                                             *)
LEMMA PlaceComputed ==
    ASSUME win \in Window, NEW r \in Rect, NEW where \in {"top", "center", "bottom"}
    PROVE  LET s == At(r, where) IN
           /\ s \in Rect /\ s.w = r.w /\ s.h = r.h
           /\ where = "center" => s.left2 = win.w - r.w /\ s.top2 = win.h - r.h
<1>1. win.w \in Int /\ win.h \in Int /\ r.w \in Int /\ r.h \in Int
  BY LayoutAssumption DEF Rect
<1> DEFINE c == CalculatePosition(r, where)
<1>2. /\ c.left2 = win.w - r.w /\ c.left2 \in Int
      /\ c.top2 \in Int /\ (where = "center" => c.top2 = win.h - r.h)
  BY <1>1 DEF CalculatePosition
<1> HIDE DEF c
<1>3. At(r, where) = [r EXCEPT !.left2 = c.left2, !.top2 = c.top2]
  BY DEF At, c
<1> QED BY <1>2, <1>3 DEF Rect

LEMMA PlaceInv ==
    ASSUME win \in Window, NEW w \in Nat, NEW h \in Nat, rect = Place(w, h),
           sized = TRUE, centered = TRUE
    PROVE  LayoutInv
<1> DEFINE s == WithHeight(WithWidth(NewBox, w), h)
<1>1. NewBox \in Rect
  BY DEF NewBox, Rect
<1>2. s \in Rect /\ s.w \in 0..win.w /\ s.h \in 0..win.h
  BY <1>1, SizeComputed
<1> HIDE DEF s
<1>3. /\ At(s, "center") \in Rect /\ At(s, "center").w = s.w /\ At(s, "center").h = s.h
      /\ At(s, "center").left2 = win.w - s.w /\ At(s, "center").top2 = win.h - s.h
  BY <1>2, PlaceComputed
<1>4. rect = At(s, "center")
  BY DEF Place, s
<1> QED BY <1>2, <1>3, <1>4 DEF LayoutInv, LayoutTypeOK, Rect

LEMMA LayoutInitInv == LayoutInit => LayoutInv
BY PlaceInv, LayoutAssumption DEF LayoutInit

LEMMA LayoutStepInv ==
    ASSUME LayoutInv, LayoutNext  PROVE LayoutInv'
<1> USE LayoutAssumption
<1>1. win \in Window /\ rect \in Rect
  BY DEF LayoutInv, LayoutTypeOK, Rect
<1>2. CASE Resize
  BY <1>2 DEF Resize, LayoutInv, LayoutTypeOK
<1>3. ASSUME NEW w \in Size, NEW h \in Size, rect' = WithHeight(WithWidth(rect, w), h),
             sized' = TRUE, centered' = FALSE, UNCHANGED win
      PROVE  LayoutInv'
  <2>1. rect' \in Rect /\ rect'.w \in 0..win.w /\ rect'.h \in 0..win.h
    BY <1>1, <1>3, SizeComputed
  <2> QED BY <1>1, <1>3, <2>1 DEF LayoutInv, LayoutTypeOK, Rect
<1>4. ASSUME NEW where \in {"top", "center", "bottom"}, rect' = At(rect, where),
             centered' = (where = "center"), UNCHANGED <<win, sized>>
      PROVE  LayoutInv'
  <2>1. /\ rect' \in Rect /\ rect'.w = rect.w /\ rect'.h = rect.h
        /\ where = "center" => rect'.left2 = win.w - rect'.w /\ rect'.top2 = win.h - rect'.h
    BY <1>1, <1>4, PlaceComputed
  <2> QED BY <1>1, <1>4, <2>1 DEF LayoutInv, LayoutTypeOK, Rect
<1>5. ASSUME NEW left \in Coordinate, NEW top \in Coordinate, centered' = FALSE,
             rect' = [rect EXCEPT !.left2 = 2 * left, !.top2 = 2 * top], UNCHANGED <<win, sized>>
      PROVE  LayoutInv'
  <2>1. 2 * left \in Int /\ 2 * top \in Int
    OBVIOUS
  <2>2. rect' \in Rect /\ rect'.w = rect.w /\ rect'.h = rect.h
    BY <1>1, <1>5, <2>1 DEF Rect
  <2> QED BY <1>1, <1>5, <2>2 DEF LayoutInv, LayoutTypeOK, Rect
<1> QED BY <1>2, <1>3, <1>4, <1>5 DEF LayoutNext, SetSize, SetPosition

-----------------------------------------------------------------------------
(* The page.                                                               *)

PageInv == BoxInv /\ UploadInv /\ NoteInv /\ LayoutInv

(* The script that does not run leaves its part as it is.                  *)
LEMMA PartsUntouched ==
    ASSUME PageInv, UNCHANGED page
    PROVE  /\ UNCHANGED boxVars => BoxInv'
           /\ UNCHANGED <<boxVars, uploadVars>> => UploadInv'
           /\ UNCHANGED noteVars => NoteInv'
           /\ UNCHANGED layoutVars => LayoutInv'
<1>1. ASSUME UNCHANGED boxVars  PROVE BoxInv'
  <2>1. UNCHANGED <<opt, doc, hidden, unbound, pending, backdrop, loading, progressVars>>
    BY <1>1 DEF boxVars
  <2> QED BY <2>1, ProgressKept
         DEF PageInv, BoxInv, BoxTypeOK, PendingMade, BackdropMatchesBoxes, Modals,
                      ProgressOK, Made
<1>2. ASSUME UNCHANGED <<boxVars, uploadVars>>  PROVE UploadInv'
  <2>1. UNCHANGED <<opt, doc, loading, file, named, upload, behind>>
    BY <1>2 DEF boxVars, uploadVars
  <2> QED BY <2>1 DEF PageInv, UploadInv, UploadTypeOK, UploadIsNamed, Made
<1>3. ASSUME UNCHANGED noteVars  PROVE NoteInv'
  <2>1. UNCHANGED <<bootstrap, note, shown, ticking, removals, tabs, active>>
    BY <1>3 DEF noteVars
  <2> QED BY <2>1 DEF PageInv, NoteInv, NoteTypeOK, RemovalsOK, TabsOK, TabStaysOpen
<1>4. ASSUME UNCHANGED layoutVars  PROVE LayoutInv'
  <2>1. UNCHANGED <<win, rect, sized, centered>>
    BY <1>4 DEF layoutVars
  <2> QED BY <2>1 DEF PageInv, LayoutInv, LayoutTypeOK
<1> QED BY <1>1, <1>2, <1>3, <1>4

LEMMA PageInitInv == PageInit => PageInv
<1> SUFFICES ASSUME PageInit  PROVE PageInv
  OBVIOUS
<1>1. BoxInv /\ NoteInv /\ LayoutInv
  BY BoxInitInv, NoteInitInv, LayoutInitInv DEF PageInit
<1>2. loading = {} /\ doc = {}
  BY DEF PageInit, BoxInit
<1>3. upload = <<>> /\ file = NoFile /\ behind = FALSE /\ named \in [Box -> File \cup {NoFile}]
  BY DEF PageInit, UploadInit
<1>4. UploadInv
  BY <1>2, <1>3 DEF UploadInv, UploadTypeOK, UploadIsNamed
<1> QED BY <1>1, <1>4 DEF PageInv

LEMMA PageStepInv == PageInv /\ [PageNext]_pageScriptVars => PageInv'
<1> SUFFICES ASSUME PageInv, [PageNext]_pageScriptVars  PROVE PageInv'
  OBVIOUS
<1>1. UNCHANGED page
  BY DEF PageNext, OnUploadPage, OnBoxPage, OnNotePage, OnLayoutPage, pageScriptVars
<1>2. CASE OnUploadPage
  <2>1. BoxInv' /\ UploadInv'
    BY <1>1, <1>2, UploadPageInv DEF OnUploadPage, PageInv
  <2> QED BY <1>1, <1>2, <2>1, PartsUntouched DEF OnUploadPage, PageInv
<1>3. CASE OnBoxPage
  <2>1. BoxInv'
    BY <1>3, ScriptCallsInv, BoxEventsInv, ClickButtonInv DEF OnBoxPage, PageInv, ClickAnswer
  <2>2. UploadInv'
    <3>1. page = "boxes" /\ UNCHANGED <<file, named, upload, behind>>
      BY <1>3 DEF OnBoxPage, uploadVars
    <3>2. UploadTypeOK' /\ UploadIsNamed'
      BY <3>1 DEF PageInv, UploadInv, UploadTypeOK, UploadIsNamed
    <3> QED BY <1>1, <3>1, <3>2 DEF PageInv, UploadInv
  <2> QED BY <1>1, <1>3, <2>1, <2>2, PartsUntouched DEF OnBoxPage, PageInv
<1>4. CASE OnNotePage
  BY <1>1, <1>4, NoteStepInv, PartsUntouched DEF OnNotePage, PageInv
<1>5. CASE OnLayoutPage
  BY <1>1, <1>5, LayoutStepInv, PartsUntouched DEF OnLayoutPage, PageInv
<1>6. CASE UNCHANGED pageScriptVars
  <2>1. UNCHANGED <<page, boxVars, uploadVars, noteVars, layoutVars>>
    BY <1>6 DEF pageScriptVars
  <2> QED BY <2>1, PartsUntouched DEF PageInv
<1> QED BY <1>2, <1>3, <1>4, <1>5, <1>6 DEF PageNext

LEMMA PageAlways == PageSpec => []PageInv
BY PageInitInv, PageStepInv, PTL DEF PageSpec

(* In every state of a page, whatever its scripts, timers and users do,    *)
(* the objects of js/lobibox.js and of the upload page have their types,   *)
(* and no more callbacks wait than one click can add to the bound.         *)
THEOREM PageType == PageSpec => []PageTypeOK
<1>1. PageInv => PageTypeOK
  BY DEF PageInv, PageTypeOK, BoxInv, UploadInv, NoteInv, LayoutInv
<1> QED BY <1>1, PageAlways, PTL

(* hide, destroy and show of any boxes in any order, each with a callback  *)
(* that nothing cancels, keep the backdrop exactly behind modal boxes.     *)
THEOREM BackdropAlways == PageSpec => []BackdropMatchesBoxes
<1>1. PageInv => BackdropMatchesBoxes
  BY DEF PageInv, BoxInv
<1> QED BY <1>1, PageAlways, PTL

(* setProgress triggers progressCompleted at 100 % only, and then has      *)
(* triggered it when its calls have returned, however deep progressUpdated *)
(* calls setProgress again; it triggers it once for a box of which no call *)
(* was made within another.                                                *)
THEOREM CompletesOnceAlways == PageSpec => []CompletesOnce
<1>1. PageInv => CompletesOnce
  BY DEF PageInv, BoxInv
<1> QED BY <1>1, PageAlways, PTL

(* The upload page sends the file its confirm box asked about, or none,    *)
(* unless the file was changed behind an open box.                         *)
THEOREM UploadNamedAlways == PageSpec => []UploadIsNamed
<1>1. PageInv => UploadIsNamed
  BY DEF PageInv, UploadInv
<1> QED BY <1>1, PageAlways, PTL

(* However removals of large notifications overlap, one of those left at a *)
(* position is open.                                                       *)
THEOREM TabAlwaysOpen == PageSpec => []TabStaysOpen
<1>1. PageInv => TabStaysOpen
  BY DEF PageInv, NoteInv
<1> QED BY <1>1, PageAlways, PTL

(* A box sized and centered in the present window lies in it, for windows  *)
(* and sizes of any number of pixels.                                      *)
THEOREM FitsAlways == PageSpec => []FitsWindow
<1>1. PageInv => FitsWindow
  BY LayoutFits DEF PageInv
<1> QED BY <1>1, PageAlways, PTL
-----------------------------------------------------------------------------
(* What BackdropGoes and NotesGo rest on: the timers that are to take an   *)
(* element away are not lost.                                              *)

(* A box in the document is taken out of it, or goes on being destroyed.   *)
StaysDestroyed(b) == b \in doc /\ Destroyed(b) => b \notin doc' \/ Destroyed(b)'

(* More callbacks wait behind those that did.                              *)
LEMMA WaitStays ==
    ASSUME BoxInv, NEW S, NEW what \in Seq({"hide", "destroy"}), Wait(S, what),
           NEW b \in Box, Destroyed(b)
    PROVE  Destroyed(b)'
<1>1. pending[b] \in Seq({"hide", "destroy"})
  BY DEF BoxInv, BoxTypeOK
<1>2. PICK i \in 1..Len(pending[b]) : pending[b][i] = "destroy"
  BY <1>1 DEF Destroyed
<1>3. CASE b \in S
  <2>1. pending'[b] = pending[b] \o what
    BY <1>3 DEF Wait
  <2>2. i \in DOMAIN (pending[b] \o what) /\ (pending[b] \o what)[i] = pending[b][i]
    BY <1>1, <1>2, ConcatProperties
  <2> QED BY <1>2, <2>1, <2>2 DEF Destroyed
<1>4. CASE b \notin S
  BY <1>4 DEF Wait, Destroyed
<1> QED BY <1>3, <1>4

LEMMA DestroyBoxesStays ==
    ASSUME BoxInv, NEW S, NEW what \in {<<"destroy">>, <<"destroy", "destroy">>},
           DestroyBoxes(S, what), NEW b \in Box
    PROVE  StaysDestroyed(b)
<1>1. what \in Seq({"hide", "destroy"})
  BY Callbacks
<1> QED BY <1>1, WaitStays DEF DestroyBoxes, StaysDestroyed

LEMMA HideBoxStays ==
    ASSUME BoxInv, NEW c, HideBox(c), NEW b \in Box
    PROVE  StaysDestroyed(b)
<1>1. CASE Wait({c}, <<"hide">>)
  BY <1>1, WaitStays, Callbacks DEF StaysDestroyed
<1>2. CASE UNCHANGED pending
  BY <1>2 DEF StaysDestroyed, Destroyed
<1> QED BY <1>1, <1>2 DEF HideBox

(* A callback that runs is the first of those that wait.                   *)
LEMMA TimerFiresStays ==
    ASSUME BoxInv, NEW c \in Box, TimerFires(c), NEW b \in Box
    PROVE  StaysDestroyed(b)
<1> SUFFICES ASSUME b \in doc, Destroyed(b), b \in doc'  PROVE Destroyed(b)'
  BY DEF StaysDestroyed
<1>1. pending \in [Box -> Seq({"hide", "destroy"})]
  BY DEF BoxInv, BoxTypeOK
<1>2. CASE b = c
  <2>1. Head(pending[b]) = "hide"
    BY <1>2 DEF TimerFires, DestroyCallback
  <2>2. PICK i \in 1..Len(pending[b]) : pending[b][i] = "destroy"
    BY <1>1 DEF Destroyed
  <2>3. /\ pending[b] \in Seq({"hide", "destroy"}) /\ pending[b] # <<>>
        /\ pending'[b] = Tail(pending[b])
    BY <1>1, <1>2 DEF TimerFires
  <2>4. pending[b][1] = "hide" /\ Len(Tail(pending[b])) = Len(pending[b]) - 1
        /\ \A k \in 1..Len(pending[b]) - 1 : Tail(pending[b])[k] = pending[b][k + 1]
    BY <2>1, <2>3
  <2>5. i # 1
    BY <2>2, <2>4
  <2>6. i - 1 \in 1..Len(pending[b]) - 1 /\ (i - 1) + 1 = i
    BY <2>2, <2>3, <2>5
  <2>7. Tail(pending[b])[i - 1] = "destroy" /\ i - 1 \in DOMAIN Tail(pending[b])
    BY <2>2, <2>3, <2>4, <2>6
  <2> QED BY <2>3, <2>7 DEF Destroyed
<1>3. CASE b # c
  BY <1>1, <1>3 DEF TimerFires, Destroyed
<1> QED BY <1>2, <1>3

LEMMA ScriptCallsStay ==
    ASSUME BoxInv, ScriptCalls, NEW b \in Box  PROVE StaysDestroyed(b)
<1>1. CASE UNCHANGED pending
  BY <1>1 DEF StaysDestroyed, Destroyed
<1>2. ASSUME NEW c \in Box, Hide(c)  PROVE StaysDestroyed(b)
  BY <1>2, HideBoxStays DEF Hide
<1>3. ASSUME NEW c \in Box, Destroy(c)  PROVE StaysDestroyed(b)
  BY <1>3, DestroyBoxesStays DEF Destroy
<1>4. ASSUME NEW c \in Box,
             \/ \E g \in Options.alert : Alert(c, g)
             \/ \E g \in Options.confirm : Confirm(c, g)
             \/ \E g \in Options.prompt : Prompt(c, g)
             \/ \E g \in Options.progress : Progress(c, g)
             \/ \E g \in Options.window : WindowBox(c, g)
             \/ Show(c)
             \/ \E p \in Levels : SetProgress(c, p)
             \/ ProgressUpdated(c)
      PROVE  UNCHANGED pending
  BY <1>4 DEF Alert, Confirm, Prompt, Progress, WindowBox, New, Show, SetProgress, ProgressUpdated
<1> QED BY <1>1, <1>2, <1>3, <1>4 DEF ScriptCalls

LEMMA ClickButtonStays ==
    ASSUME BoxInv, NEW c, NEW answer, ClickButton(c, answer), NEW b \in Box
    PROVE  StaysDestroyed(b)
BY DestroyBoxesStays DEF ClickButton

LEMMA BoxEventsStay ==
    ASSUME BoxInv, BoxEvents \/ Timers, NEW b \in Box  PROVE StaysDestroyed(b)
<1>1. CASE EscKey
  BY <1>1, DestroyBoxesStays DEF EscKey
<1>2. ASSUME NEW c \in Box, ClickClose(c)  PROVE StaysDestroyed(b)
  BY <1>2, DestroyBoxesStays DEF ClickClose
<1>3. ASSUME NEW c \in Box, Loaded(c)  PROVE StaysDestroyed(b)
  BY <1>3 DEF Loaded, StaysDestroyed, Destroyed
<1> QED BY <1>1, <1>2, <1>3, TimerFiresStays DEF BoxEvents, Timers

LEMMA UploadStays ==
    ASSUME BoxInv, UploadNext, NEW b \in Box  PROVE StaysDestroyed(b)
<1>1. CASE ChooseFile
  BY <1>1 DEF ChooseFile, Confirm, New, boxVars, StaysDestroyed, Destroyed
<1>2. ASSUME NEW c \in Box, NEW type \in Answer, AnswerBox(c, type)  PROVE StaysDestroyed(b)
  BY <1>2, ClickButtonStays DEF AnswerBox
<1>3. CASE Redirected
  BY <1>3 DEF Redirected, StaysDestroyed
<1> QED BY <1>1, <1>2, <1>3, BoxEventsStay DEF UploadNext

(* A box of the document that waits for being destroyed is not forgotten:  *)
(* whatever is called, clicked or shown meanwhile, the callback of destroy *)
(* goes on waiting until one takes the box out of the document.            *)
THEOREM DestroyIsKept == PageSpec => [][\A b \in Box : StaysDestroyed(b)]_pageScriptVars
<1>1. ASSUME PageInv, [PageNext]_pageScriptVars
      PROVE  [\A b \in Box : StaysDestroyed(b)]_pageScriptVars
  <2> SUFFICES ASSUME NEW b \in Box, PageNext  PROVE StaysDestroyed(b)
    BY <1>1
  <2>1. CASE OnUploadPage
    BY <1>1, <2>1, UploadStays DEF OnUploadPage, PageInv
  <2>2. CASE OnBoxPage
    BY <1>1, <2>2, ScriptCallsStay, BoxEventsStay, ClickButtonStays DEF OnBoxPage, ClickAnswer, PageInv
  <2>3. CASE UNCHANGED boxVars
    BY <2>3 DEF boxVars, StaysDestroyed, Destroyed
  <2> QED BY <2>1, <2>2, <2>3 DEF PageNext, OnNotePage, OnLayoutPage
<1> QED BY <1>1, PageAlways, PTL DEF PageSpec

(* A notification with a delay has its timer, or waits to be removed.      *)
DelayKept == \A n \in shown : Small(n) /\ (note[n].delay => n \in ticking \/ removals[n] > 0)

LEMMA NotifyDelay ==
    ASSUME NoteInv, DelayKept, NEW n \in Note, NEW o \in NoteOption, Notify(n, o)
    PROVE  DelayKept'
<1>1. /\ n \notin DOMAIN note /\ shown \subseteq DOMAIN note
      /\ note'[n] = o /\ \A m \in DOMAIN note : note'[m] = note[m]
      /\ UNCHANGED removals /\ ticking \subseteq ticking'
  BY DEF Notify, NoteInv, NoteTypeOK
<1>2. ASSUME NEW m \in shown  PROVE Small(m)' /\ (note'[m].delay => m \in ticking' \/ removals'[m] > 0)
  BY <1>1 DEF DelayKept, Small
<1>3. ASSUME n \in shown'  PROVE Small(n)' /\ (note'[n].delay => n \in ticking')
  BY <1>1, <1>3 DEF Notify, Small
<1>4. shown' \subseteq shown \cup {n}
  BY DEF Notify
<1> QED BY <1>2, <1>3, <1>4 DEF DelayKept

(* remove adds to the removals of a small notification.                    *)
LEMMA CallsDelay ==
    ASSUME NoteInv, DelayKept, NEW n \in Note, Close(n) \/ Click(n) \/ DelayEnds(n)
    PROVE  DelayKept'
<1>1. /\ removals \in [Note -> Nat] /\ shown \subseteq Note
  BY NoteAssumption DEF NoteInv, NoteTypeOK
<1>2. UNCHANGED <<note, shown>> /\ ticking \ {n} \subseteq ticking'
  BY DEF Close, Click, DelayEnds
<1>3. PICK k \in {1, 2} : CallRemove(n, k)
  BY DEF Close, Click, DelayEnds
<1>4. \A m \in Note \ {n} : removals'[m] = removals[m]
  BY <1>1, <1>3 DEF CallRemove
<1>5. n \in shown => removals'[n] > 0
  BY <1>1, <1>3 DEF CallRemove, DelayKept
<1>6. ASSUME NEW m \in shown  PROVE Small(m)' /\ (note'[m].delay => m \in ticking' \/ removals'[m] > 0)
  BY <1>1, <1>2, <1>4, <1>5 DEF DelayKept, Small
<1> QED BY <1>2, <1>6 DEF DelayKept

LEMMA RemovalFiresDelay ==
    ASSUME NoteInv, DelayKept, NEW n \in Note, RemovalFires(n)
    PROVE  DelayKept'
<1>1. /\ removals' = [removals EXCEPT ![n] = @ - 1] /\ shown' = shown \ {n}
      /\ UNCHANGED <<note, ticking>>
  BY DEF RemovalFires
<1>2. removals \in [Note -> 0..MaxRemovals + 2] /\ shown \subseteq Note
  BY DEF NoteInv, NoteTypeOK
<1>3. \A m \in Note \ {n} : removals'[m] = removals[m]
  BY <1>1, <1>2
<1> QED BY <1>1, <1>2, <1>3 DEF DelayKept, Small

(* A small notification with a delay never stays on the page with nothing  *)
(* to take it away, however clicks, the close button and the end of the    *)
(* delay overlap.                                                          *)
THEOREM DelayIsKept == PageSpec => []DelayKept
<1>1. PageInit => DelayKept
  BY DEF PageInit, NoteInit, DelayKept
<1>2. ASSUME PageInv, DelayKept, [PageNext]_pageScriptVars  PROVE DelayKept'
  <2>1. CASE UNCHANGED noteVars
    BY <1>2, <2>1 DEF noteVars, DelayKept, Small
  <2>2. CASE ChooseTab
    BY <1>2, <2>2 DEF ChooseTab, DelayKept, Small
  <2>3. CASE NoteNext
    BY <1>2, <2>2, <2>3, NotifyDelay, CallsDelay, RemovalFiresDelay DEF NoteNext, NoteTimers, PageInv
  <2> QED BY <1>2, <2>1, <2>3 DEF PageNext, OnUploadPage, OnBoxPage, OnNotePage, OnLayoutPage, pageScriptVars
<1> QED BY <1>1, <1>2, PageAlways, PTL DEF PageSpec
=============================================================================
