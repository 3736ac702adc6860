------------------------------- MODULE Rendering -------------------------------
(***************************************************************************)
(* What a log page should show: the reference for LogStream.  The whole    *)
(* input of a converter is taken in one go, by functions, and the looks of *)
(* each character are what counts: not the line it came in, not the text   *)
(* block it is in.                                                         *)
(***************************************************************************)
EXTENDS LogStream

-----------------------------------------------------------------------------
(* The characters shown by blocks, each with its style and its URL.        *)

Cell == Html \X Style \X Seq(Char)

CellsOf(block) == [j \in DOMAIN block.text |-> <<block.text[j], block.style, block.url>>]
Cells(bs) == FlattenSeq([i \in DOMAIN bs |-> CellsOf(bs[i])])

-----------------------------------------------------------------------------
(* A conversion under way: the input left, the style, the commands left of *)
(* an SGR sequence, and the cells made so far.                             *)

Conversion == [buffer : Seq(Char), style : Style,
               cmds : {c \in Seq(Param) : Commands(c)}, cells : Seq(Cell)]

Conv(t, s, c, w) == [buffer |-> t, style |-> s, cmds |-> c, cells |-> w]

Ended(x) == x.cmds = <<>> /\ (x.buffer = <<>> \/ Incomplete(x.buffer))

AfterCommand(x) ==
    Conv(x.buffer, Sgr(x.style, x.cmds).style, Sgr(x.style, x.cmds).cmds, x.cells)

(* Text is taken character by character.                                   *)
AfterChar(x) ==
    Conv(Rest(x.buffer, 1), x.style, <<>>,
         x.cells \o Cells(<<TransformToHtml(x.style, SubSeq(x.buffer, 1, 1))>>))

AfterEsc(x) == Conv(Rest(x.buffer, 1), x.style, <<>>, x.cells)

CommandsOf(t, n) == IF IsSgr(t, n) THEN Append(SubSeq(t, 3, n - 1), ";") ELSE <<>>
AfterCsi(x, n) == Conv(Rest(x.buffer, n), x.style, CommandsOf(x.buffer, n), x.cells)

LinkOf(t, m) ==
    ProcessHyperlink(SubSeq(t, m[1] + 1, m[2] - 1), SubSeq(t, After(t, m[2]), m[3] - 6))
AfterLink(x, m) ==
    Conv(Rest(x.buffer, After(x.buffer, m[3]) - 1), x.style, <<>>,
         x.cells \o Cells(LinkOf(x.buffer, m)))

Advanced(x) ==
    IF x.cmds # <<>> THEN AfterCommand(x)
    ELSE CASE x.buffer[1] # ESC      -> AfterChar(x)
           [] Dropped(x.buffer)      -> AfterEsc(x)
           [] Csi(x.buffer) # {}     -> AfterCsi(x, CHOOSE n \in Csi(x.buffer) : TRUE)
           [] Links(x.buffer) # {}   -> AfterLink(x, CHOOSE m \in Links(x.buffer) : TRUE)

Converted[x \in Conversion] == IF Ended(x) THEN x ELSE Converted[Advanced(x)]

Rendered(t) == Converted[Conv(t, NoStyle, <<>>, <<>>)]

-----------------------------------------------------------------------------
(* Properties.                                                             *)

(* What the page shows does not depend on where lines end: each character  *)
(* has the style and the link it would have had if all lines had come as   *)
(* one, whatever processes they are from.                                  *)
CutDoesNotMatter ==
    conv = "idle" =>
        Conv(buffer, style, <<>>, Cells(FlattenSeq(box))) = Rendered(FlattenSeq(heard))

(* If every line so far has ended its own sequences and styles, each is    *)
(* shown as if it were the only one: output of different processes that    *)
(* mix line by line does not change each other's looks.                    *)
RenderedLine == [l \in Line \cup {NullText} |-> Rendered(l)]
SelfContained == {l \in Line \cup {NullText} :
                    RenderedLine[l].buffer = <<>> /\ RenderedLine[l].style = NoStyle}
LinesDoNotMix ==
    (conv = "idle" /\ \A i \in DOMAIN heard : heard[i] \in SelfContained) =>
        \A i \in DOMAIN heard : Cells(box[i]) = RenderedLine[heard[i]].cells
=============================================================================
