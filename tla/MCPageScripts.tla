---------------------------- MODULE MCPageScripts ----------------------------
(* Instances of PageScripts for TLC.                                       *)
EXTENDS PageScripts

MCOptions ==
    [ confirm |-> {[callback |-> TRUE]},
      alert |-> {[modal |-> FALSE, hideClass |-> FALSE]},
      prompt |-> {[hideClass |-> FALSE]},
      progress |-> {[hideClass |-> FALSE, closeOnEsc |-> FALSE]},
      window |-> {[url |-> TRUE]} ]

MCLevels == {-5, 40, 120}

MCWindow == {[w |-> w, h |-> h] : w \in {10, 500, 800}, h \in {150, 600}}
MCSize == {0, 100, 500, 900}
MCNatural == {60, 700}
MCCoordinate == {-20, 300}
=============================================================================
