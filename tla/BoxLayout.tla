------------------------------ MODULE BoxLayout ------------------------------
(***************************************************************************)
(* Size and position of a message box of js/lobibox.js, in pixels.  They   *)
(* are computed when the box is made and when a script calls setWidth,     *)
(* setHeight, setSize or setPosition; a window that is resized changes     *)
(* nothing.                                                                *)
(***************************************************************************)
EXTENDS Integers

CONSTANTS
    Window,            \* sizes a window can have, records with w and h
    Size,              \* widths and heights a script can give
    Natural,           \* heights a box can have by its content
    Coordinate,        \* coordinates a script can give
    HorizontalOffset,  \* horizontalOffset, 5
    Header, Footer     \* heights of the header and the footer of the box

ASSUME LayoutAssumption ==
    /\ HorizontalOffset \in Nat /\ Header \in Nat /\ Footer \in Nat
    /\ Size \subseteq Nat /\ Natural \subseteq Nat /\ Coordinate \subseteq Int
    /\ \A win \in Window : win.w \in Nat /\ win.h \in Nat /\ win.w >= 2 * HorizontalOffset

VARIABLES
    win,       \* the window
    rect,      \* the box: w, h, the height of its body, twice its left and top
    sized,     \* history: its size was computed in the present window
    centered   \* history: it was centered in the present window with its present size

layoutVars == <<win, rect, sized, centered>>

(* Mutant: the offset is left out.                                         *)
CalculateWidthWide(w) == IF w < win.w THEN w ELSE win.w + 2 * HorizontalOffset

CalculateWidth(w) == IF w < win.w THEN w ELSE win.w - 2 * HorizontalOffset
CalculateHeight(h) == IF h < win.h THEN h ELSE win.h
CalculateBodyHeight(h) == h - Header - Footer

(* Twice the coordinates, which are halves of pixels.                      *)
CalculatePosition(r, where) ==
    [left2 |-> win.w - r.w,
     top2 |-> CASE where = "top" -> 60
                [] where = "bottom" -> 2 * (win.h - r.h - 30)
                [] OTHER -> win.h - r.h]

WithWidth(r, w) == [r EXCEPT !.w = CalculateWidth(w)]

(* The style of the body takes no negative height.                         *)
Styled(h) == IF h < 0 THEN 0 ELSE h
WithHeight(r, h) ==
    [r EXCEPT !.h = CalculateHeight(h), !.body = Styled(CalculateBodyHeight(CalculateHeight(h)))]
At(r, where) ==
    [r EXCEPT !.left2 = CalculatePosition(r, where).left2, !.top2 = CalculatePosition(r, where).top2]

NewBox == [w |-> 0, h |-> 0, body |-> 0, left2 |-> 0, top2 |-> 0]

(* _position: sized as given, or as high as its content, and centered.     *)
Place(w, h) == At(WithHeight(WithWidth(NewBox, w), h), "center")

LayoutInit ==
    /\ win \in Window
    /\ \E w \in Size, h \in Size \cup Natural : rect = Place(w, h)
    /\ sized = TRUE /\ centered = TRUE

Resize ==
    /\ win' \in Window \ {win}
    /\ sized' = FALSE /\ centered' = FALSE
    /\ UNCHANGED rect

(* setWidth, setHeight, setSize: the box stays where it is.                *)
SetSize ==
    \E w, h \in Size :
        /\ rect' = WithHeight(WithWidth(rect, w), h)
        /\ sized' = TRUE /\ centered' = FALSE
        /\ UNCHANGED win

(* By name or by numbers, which may be any.                                *)
SetPosition ==
    /\ \/ \E where \in {"top", "center", "bottom"} :
            rect' = At(rect, where) /\ centered' = (where = "center")
       \/ \E left, top \in Coordinate :
            rect' = [rect EXCEPT !.left2 = 2 * left, !.top2 = 2 * top] /\ centered' = FALSE
    /\ UNCHANGED <<win, sized>>

LayoutNext == Resize \/ SetSize \/ SetPosition

LayoutTypeOK ==
    /\ win \in Window
    /\ rect \in [w : Int, h : Int, body : Nat, left2 : Int, top2 : Int]
    /\ sized \in BOOLEAN /\ centered \in BOOLEAN

(* A box that got its size in the present window and was centered in it    *)
(* then lies in the window, whatever its content and options and whatever  *)
(* sizes and positions it was given before.                                *)
FitsWindow ==
    sized /\ centered => /\ rect.left2 >= 0 /\ rect.left2 + 2 * rect.w =< 2 * win.w
                         /\ rect.top2 >= 0 /\ rect.top2 + 2 * rect.h =< 2 * win.h
=============================================================================
