-------------------------------- MODULE AnsiUp --------------------------------
(***************************************************************************)
(* The converter of the log page, lib/ansi_up/ansi_up.js: it is fed the    *)
(* output of the chains line by line, keeps what may be the beginning of   *)
(* an escape sequence for the next line, and makes styled blocks of the    *)
(* rest.  One object lives as long as the page and converts the lines of   *)
(* all processes, so its buffer and its style are carried from each line   *)
(* to the next.                                                            *)
(*                                                                         *)
(* Each turn of the loop of ansi_to_html is a step, and so is each turn of *)
(* the loop of process_ansi, which is how SGR sequences change the style.  *)
(* Characters are told apart as far as the regular expressions do.         *)
(***************************************************************************)
EXTENDS Integers, SequencesExt

CONSTANT MaxUrl   \* longest URL of a hyperlink, 512 in the regular expression

ASSUME MaxUrlAssumption == MaxUrl \in Nat

ESC == "ESC"
BEL == "BEL"
Control == {ESC, BEL, "TAB"}                              \* x00-x1f
Digit == {"0", "1", "2", "3", "4", "5", "6", "7", "8", "9"}
Param == Digit \cup {";"}
Private == {"?", "<"}                                     \* x3c-x3f
Intermediate == {" ", "&"}                                \* x20-x2f
Final == {"[", "]", "\\", "m", "n", "u", "l", "http"}     \* x40-x7e
Printable == Param \cup {":"} \cup Private \cup Intermediate \cup Final
Wide == {"WIDE"}                                          \* x7f and above
Char == Control \cup Printable \cup Wide

(* No color is <<>>, one of the 16 named ones <<i>>, a true color <<r,g,b>>. *)
Color == Seq(0..255)
Style == [bold : BOOLEAN, fg : Color, bg : Color]
NoStyle == [bold |-> FALSE, fg |-> <<>>, bg |-> <<>>]

Html == Char \cup {"&lt;", "&amp;"}
Block == [kind : {"text", "link"}, style : Style, text : Seq(Html), url : Seq(Char)]

VARIABLES
    buffer,   \* _buffer: characters not converted yet
    style,    \* bold, fg, bg
    cmds,     \* sgr_cmds: commands of an SGR sequence left, each with a ";" after it
    blocks,   \* blocks made of the present line
    conv      \* where ansi_to_html is: "idle", "packet", "sgr"

ansiVars == <<buffer, style, cmds, blocks, conv>>

(* A new AnsiUp object.                                                    *)
FreshAnsi ==
    /\ buffer = <<>>
    /\ style = NoStyle
    /\ cmds = <<>>
    /\ blocks = <<>>
    /\ conv = "idle"

-----------------------------------------------------------------------------
(* get_next_packet: what the buffer begins with.                           *)

Starts(b, c) == Len(b) >= 2 /\ b[1] = ESC /\ b[2] = c

(* A legal control sequence ends at n: a private-mode character at p = 3   *)
(* (p = 2 if there is none), parameters up to q, an intermediate, a command *)
LegalCsi(b, n) ==
    /\ b[n] \in Final
    /\ \E p \in {2, 3}, q \in {n - 2, n - 1} :
          /\ p =< q
          /\ p = 3 => b[3] \in Private
          /\ \A i \in p+1..q : b[i] \in Param
          /\ q = n - 2 => b[n - 1] \in Intermediate

Csi(b) == {n \in 3..Len(b) : Starts(b, "[") /\ LegalCsi(b, n)}

(* Its command is a plain "m", and it has no private-mode character.        *)
IsSgr(b, n) == b[n] = "m" /\ \A i \in 3..n-1 : b[i] \in Param

(* The illegal sequence of _csi_regex.  The ^ of that expression belongs to *)
(* the legal alternative only: this one may match anywhere in the buffer.  *)
IllegalCsi(b) ==
    \E s \in 1..Len(b) - 2 :
        /\ b[s] = ESC /\ b[s + 1] = "["
        /\ \E n \in s+2..Len(b) :
              /\ b[n] \in Control \cup {":"}
              /\ \A i \in s+2..n-1 : b[i] \in Printable

(* Positions at which _osc_st matches: a terminator, ESC \ or BEL, or      *)
(* anything it calls illegal.                                              *)
Terminator(b, i) == b[i] = BEL \/ (b[i] = ESC /\ i < Len(b) /\ b[i + 1] = "\\")
After(b, i) == IF b[i] = ESC THEN i + 2 ELSE i + 1
StopAt(b, i) == Terminator(b, i) \/ b[i] \in Control \ {ESC, BEL}
FirstStop(b, from) ==
    {i \in from..Len(b) : StopAt(b, i) /\ \A j \in from..i-1 : ~StopAt(b, j)}

IsLinkStart(b) == Starts(b, "]") /\ Len(b) >= 4 /\ b[3] = "8" /\ b[4] = ";"

(* _osc_regex: the URL ends at i, its text before the end mark at j; the   *)
(* parameters end with the ";" at k.                                       *)
LinkEnd == <<ESC, "]", "8", ";", ";">>
Link(b, k, i, j) ==
    /\ Terminator(b, i) /\ Terminator(b, j)
    /\ k < i /\ b[k] = ";"
    /\ \A x \in 5..k-1 : b[x] \in Printable \ {";"}
    /\ \A x \in k+1..i-1 : b[x] \in Printable \ {" "}
    /\ i - 1 - k =< MaxUrl
    /\ After(b, i) =< j - 6
    /\ \A x \in After(b, i)..j-6 : b[x] \in Printable \ {" "}
    /\ SubSeq(b, j - 5, j - 1) = LinkEnd

SecondStop(b) == UNION {FirstStop(b, After(b, i)) : i \in FirstStop(b, 1)}
Links(b) ==
    IF IsLinkStart(b)
    THEN {m \in (5..Len(b)) \X FirstStop(b, 1) \X SecondStop(b) : Link(b, m[1], m[2], m[3])}
    ELSE {}

(* Mutant: a sequence cut at the end of the line is not waited for.        *)
IncompleteCsiDropped(b) ==
    \/ b = <<ESC>>
    \/ Starts(b, "]") /\ Len(b) < 4
    \/ IsLinkStart(b) /\ (\A i \in FirstStop(b, 1) : Terminator(b, i)) /\ SecondStop(b) = {}

(* The beginning of a sequence of which nothing more can be said yet.      *)
Incomplete(b) ==
    \/ b = <<ESC>>
    \/ Starts(b, "[") /\ Csi(b) = {} /\ ~IllegalCsi(b)
    \/ Starts(b, "]") /\ Len(b) < 4
    \/ IsLinkStart(b) /\ (\A i \in FirstStop(b, 1) : Terminator(b, i)) /\ SecondStop(b) = {}

(* What matches nothing: its ESC alone is dropped.                         *)
Dropped(b) ==
    /\ b # <<>> /\ b[1] = ESC
    /\ ~Incomplete(b)
    /\ Csi(b) = {}
    /\ Links(b) = {}

(* Text up to the next ESC.                                                *)
Text(b, n) ==
    /\ n \in DOMAIN b
    /\ \A i \in 1..n : b[i] # ESC
    /\ n < Len(b) => b[n + 1] = ESC

Rest(b, n) == SubSeq(b, n + 1, Len(b))

-----------------------------------------------------------------------------
(* process_ansi: sgr_cmds.shift(), parseInt, and one turn of its loop.     *)

NaN == -1

(* sgr_cmds, in one piece: each command has a ";" after it.                *)
Commands(c) == c \in Seq(Param) /\ (c # <<>> => c[Len(c)] = ";")

Semicolon(c) == CHOOSE k \in DOMAIN c : c[k] = ";" /\ \A i \in 1..k-1 : c[i] # ";"
Command(c) == SubSeq(c, 1, Semicolon(c) - 1)
Shift(c) == Rest(c, Semicolon(c))

DigitValue == [d \in Digit |-> CHOOSE v \in 0..9 : d = ToString(v)]
Number(digits) ==
    IF digits = <<>> THEN NaN ELSE FoldLeft(LAMBDA v, d : 10 * v + DigitValue[d], 0, digits)

Ansi(i) == <<i>>
Palette(i) ==
    LET cube == i - 16
        level(x) == IF x = 0 THEN 0 ELSE 55 + 40 * x
        grey == 8 + 10 * (i - 232) IN
    CASE i < 16 -> Ansi(i)
      [] i \in 16..231 -> <<level(cube \div 36), level((cube \div 6) % 6), level(cube % 6)>>
      [] OTHER -> <<grey, grey, grey>>

(* Mutant: the index of a color is used without a look at its range.       *)
ExtendedColorUnchecked(s, ground, c) ==
    LET c1 == Shift(c) IN
    IF Command(c) = <<"5">> /\ c1 # <<>>
    THEN [style |-> [s EXCEPT ![ground] = Palette(Number(Command(c1)))], cmds |-> Shift(c1)]
    ELSE [style |-> s, cmds |-> c1]

(* 38 and 48: a color follows, of the palette or as three values.          *)
ExtendedColor(s, ground, c) ==
    LET mode == Command(c)
        c1 == Shift(c)
        three == c1 # <<>> /\ Shift(c1) # <<>> /\ Shift(Shift(c1)) # <<>>
        index == Number(Command(c1))
        rgb == <<Number(Command(c1)), Number(Command(Shift(c1))), Number(Command(Shift(Shift(c1))))>> IN
    CASE mode = <<"5">> /\ c1 # <<>> ->
            [style |-> IF index \in 0..255 THEN [s EXCEPT ![ground] = Palette(index)] ELSE s,
             cmds |-> Shift(c1)]
      [] mode = <<"2">> /\ three ->
            [style |-> IF \A i \in 1..3 : rgb[i] \in 0..255 THEN [s EXCEPT ![ground] = rgb] ELSE s,
             cmds |-> Shift(Shift(Shift(c1)))]
      [] OTHER -> [style |-> s, cmds |-> c1]

Sgr(s, c) ==
    LET n == Number(Command(c))
        c1 == Shift(c)
        With(t) == [style |-> t, cmds |-> c1] IN
    CASE n \in {NaN, 0} -> With(NoStyle)
      [] n = 1 -> With([s EXCEPT !.bold = TRUE])
      [] n = 22 -> With([s EXCEPT !.bold = FALSE])
      [] n = 39 -> With([s EXCEPT !.fg = <<>>])
      [] n = 49 -> With([s EXCEPT !.bg = <<>>])
      [] n \in 30..37 -> With([s EXCEPT !.fg = Ansi(n - 30)])
      [] n \in 40..47 -> With([s EXCEPT !.bg = Ansi(n - 40)])
      [] n \in 90..97 -> With([s EXCEPT !.fg = Ansi(n - 82)])
      [] n \in 100..107 -> With([s EXCEPT !.bg = Ansi(n - 92)])
      [] n \in {38, 48} /\ c1 # <<>> -> ExtendedColor(s, IF n = 38 THEN "fg" ELSE "bg", c1)
      [] OTHER -> With(s)

-----------------------------------------------------------------------------
(* The blocks.                                                             *)

(* escape_txt_for_html.                                                    *)
EscapeTxtForHtml(t) ==
    [i \in DOMAIN t |-> CASE t[i] = "<" -> "&lt;" [] t[i] = "&" -> "&amp;" [] OTHER -> t[i]]

(* transform_to_html: a span with the style, plain text if there is none.  *)
TransformToHtml(s, t) ==
    [kind |-> "text", style |-> s, text |-> EscapeTxtForHtml(t), url |-> <<>>]

(* process_hyperlink: nothing unless the scheme is in the whitelist.       *)
Whitelisted(url) == url # <<>> /\ url[1] = "http" /\ (Len(url) > 1 => url[2] = ":")
ProcessHyperlink(url, t) ==
    IF Whitelisted(url)
    THEN <<[kind |-> "link", style |-> NoStyle, text |-> EscapeTxtForHtml(t), url |-> url]>>
    ELSE <<>>

-----------------------------------------------------------------------------
(* ansi_to_html: append_buffer, the loop, and its end.                     *)

AppendBuffer(txt) ==
    /\ conv = "idle"
    /\ buffer' = buffer \o txt
    /\ blocks' = <<>>
    /\ conv' = "packet"
    /\ UNCHANGED <<style, cmds>>

TextPacket ==
    /\ conv = "packet"
    /\ \E n \in DOMAIN buffer :
          /\ Text(buffer, n)
          /\ blocks' = Append(blocks, TransformToHtml(style, SubSeq(buffer, 1, n)))
          /\ buffer' = Rest(buffer, n)
    /\ UNCHANGED <<style, cmds, conv>>

EscPacket ==
    /\ conv = "packet"
    /\ Dropped(buffer)
    /\ buffer' = Rest(buffer, 1)
    /\ UNCHANGED <<style, cmds, blocks, conv>>

(* A control sequence: SGR, or unknown and skipped.                        *)
CsiPacket ==
    /\ conv = "packet"
    /\ \E n \in Csi(buffer) :
          /\ buffer' = Rest(buffer, n)
          /\ \/ /\ IsSgr(buffer, n)
                /\ cmds' = Append(SubSeq(buffer, 3, n - 1), ";")
                /\ conv' = "sgr"
             \/ ~IsSgr(buffer, n) /\ UNCHANGED <<cmds, conv>>
    /\ UNCHANGED <<style, blocks>>

LinkPacket ==
    /\ conv = "packet"
    /\ \E m \in Links(buffer) :
          /\ blocks' = blocks \o ProcessHyperlink(SubSeq(buffer, m[1] + 1, m[2] - 1),
                                                  SubSeq(buffer, After(buffer, m[2]), m[3] - 6))
          /\ buffer' = Rest(buffer, After(buffer, m[3]) - 1)
    /\ UNCHANGED <<style, cmds, conv>>

(* Mutant: the command is looked at and left in the list.                  *)
SgrCommandUnshifted ==
    /\ conv = "sgr"
    /\ cmds # <<>>
    /\ style' = Sgr(style, cmds).style
    /\ UNCHANGED <<buffer, cmds, blocks, conv>>

SgrCommand ==
    /\ conv = "sgr"
    /\ cmds # <<>>
    /\ style' = Sgr(style, cmds).style
    /\ cmds' = Sgr(style, cmds).cmds
    /\ UNCHANGED <<buffer, blocks, conv>>

SgrEnd ==
    /\ conv = "sgr"
    /\ cmds = <<>>
    /\ conv' = "packet"
    /\ UNCHANGED <<buffer, style, cmds, blocks>>

(* EOS or Incomplete: the blocks are returned.                             *)
AtEnd == conv = "packet" /\ (buffer = <<>> \/ Incomplete(buffer))

AnsiEnd ==
    /\ AtEnd
    /\ conv' = "idle"
    /\ blocks' = <<>>
    /\ UNCHANGED <<buffer, style, cmds>>

AnsiStep == TextPacket \/ EscPacket \/ CsiPacket \/ LinkPacket \/ SgrCommand \/ SgrEnd
-----------------------------------------------------------------------------
AnsiTypeOK ==
    /\ buffer \in Seq(Char)
    /\ style \in Style
    /\ cmds \in Seq(Param)
    /\ blocks \in Seq(Block)
    /\ conv \in {"idle", "packet", "sgr"}
=============================================================================
