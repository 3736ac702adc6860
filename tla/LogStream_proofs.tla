--------------------------- MODULE LogStream_proofs ---------------------------
(***************************************************************************)
(* Theorems about LogStream and the converter AnsiUp, for any streams,     *)
(* projects and lines.                                                     *)
(***************************************************************************)
EXTENDS LogStream, SequenceTheorems, WellFoundedInduction, TLAPS

-----------------------------------------------------------------------------
(* Parts of sequences.                                                     *)

LEMMA PartType ==
    ASSUME NEW S, NEW b \in Seq(S), NEW m \in Nat \ {0}, NEW n \in Int, n =< Len(b)
    PROVE  /\ SubSeq(b, m, n) \in Seq(S)
           /\ Len(SubSeq(b, m, n)) = IF m =< n THEN n - m + 1 ELSE 0
           /\ \A i \in 1..n - m + 1 : SubSeq(b, m, n)[i] = b[m + i - 1]
<1>1. \A i \in m..n : b[i] \in S
  OBVIOUS
<1> QED BY <1>1, SubSeqProperties

LEMMA RestType ==
    ASSUME NEW S, NEW b \in Seq(S), NEW n \in Nat
    PROVE  /\ Rest(b, n) \in Seq(S)
           /\ Len(Rest(b, n)) = IF n =< Len(b) THEN Len(b) - n ELSE 0
           /\ \A i \in 1..Len(b) - n : Rest(b, n)[i] = b[n + i]
<1>1. Len(b) \in Nat /\ n + 1 \in Nat \ {0}
  OBVIOUS
<1>2. /\ SubSeq(b, n + 1, Len(b)) \in Seq(S)
      /\ Len(SubSeq(b, n + 1, Len(b))) = IF n + 1 =< Len(b) THEN Len(b) - (n + 1) + 1 ELSE 0
      /\ \A i \in 1..Len(b) - (n + 1) + 1 : SubSeq(b, n + 1, Len(b))[i] = b[n + 1 + i - 1]
  BY <1>1, PartType
<1> QED BY <1>1, <1>2 DEF Rest

LEMMA Nonempty ==
    ASSUME NEW S, NEW b \in Seq(S), b # <<>>
    PROVE  Len(b) \in Nat /\ Len(b) >= 1 /\ DOMAIN b = 1..Len(b) /\ Len(b) \in 1..Len(b)
OBVIOUS

LEMMA FirstPosition ==
    ASSUME NEW T \in SUBSET Nat, T # {}
    PROVE  \E n \in T : \A m \in T : n =< m
<1> DEFINE R == OpToRel(<, Nat)
<1>1. IsWellFoundedOn(R, Nat)
  BY NatLessThanWellFounded
<1>2. \A x, y \in Nat : <<y, x>> \in R <=> y < x
  BY DEF OpToRel
<1> HIDE DEF R
<1>3. PICK n \in T : \A m \in T : ~(<<m, n>> \in R)
  BY <1>1, WFMin
<1>4. \A m \in T : ~(m < n)
  BY <1>2, <1>3
<1> QED BY <1>4

-----------------------------------------------------------------------------
(* The commands of an SGR sequence.                                        *)

LEMMA CommandsLen ==
    ASSUME NEW c, Commands(c)  PROVE c \in Seq(Param) /\ Len(c) \in Nat
<1>1. c \in Seq(Param)
  BY DEF Commands
<1>2. Len(c) \in Nat
  BY <1>1, LenProperties
<1> QED BY <1>1, <1>2

LEMMA SemicolonFirst ==
    ASSUME NEW c \in Seq(Param), c # <<>>, Commands(c)
    PROVE  Semicolon(c) \in 1..Len(c)
<1>1. Len(c) \in Nat /\ Len(c) >= 1 /\ DOMAIN c = 1..Len(c) /\ Len(c) \in 1..Len(c)
  BY Nonempty
<1> DEFINE T == {j \in 1..Len(c) : c[j] = ";"}
<1>2. T \subseteq 1..Len(c) /\ \A j \in 1..Len(c) : j \in T <=> c[j] = ";"
  OBVIOUS
<1> HIDE DEF T
<1>3. Len(c) \in T /\ T \in SUBSET Nat
  <2>1. c[Len(c)] = ";"
    BY DEF Commands
  <2>2. \A j \in 1..Len(c) : j \in Nat
    BY <1>1
  <2> QED BY <1>1, <1>2, <2>1, <2>2, Zenon
<1>4. PICK k \in T : \A m \in T : k =< m
  BY <1>3, FirstPosition
<1>5. k \in 1..Len(c)
  BY <1>2
<1>6. ASSUME NEW i \in 1..k - 1  PROVE c[i] # ";"
  <2>1. i \in 1..Len(c) /\ ~(k =< i)
    BY <1>1, <1>5
  <2> QED BY <1>2, <1>4, <2>1
<1>7. k \in DOMAIN c
  BY <1>1, <1>5
<1>8. c[k] = ";"
  BY <1>2, <1>5
<1> QED BY <1>1, <1>6, <1>7, <1>8 DEF Semicolon

LEMMA ShiftCommands ==
    ASSUME NEW c, Commands(c), c # <<>>
    PROVE  Commands(Shift(c)) /\ Len(Shift(c)) < Len(c) /\ Len(c) \in Nat
<1>1. c \in Seq(Param)
  BY DEF Commands
<1>2. PICK n \in 1..Len(c) : n = Semicolon(c)
  BY <1>1, SemicolonFirst
<1>3. Len(c) \in Nat /\ n \in Nat /\ 1 =< n /\ n =< Len(c)
  BY <1>1
<1> DEFINE r == Rest(c, n)
<1>4. /\ r \in Seq(Param) /\ Len(r) = Len(c) - n
      /\ \A i \in 1..Len(c) - n : r[i] = c[n + i]
  BY <1>1, <1>3, RestType
<1> HIDE DEF r
<1>5. ASSUME r # <<>>  PROVE r[Len(r)] = ";"
  <2>1. Len(r) >= 1
    BY <1>4, <1>5, Nonempty
  <2>2. Len(r) \in 1..Len(c) - n /\ n + Len(r) = Len(c)
    BY <1>3, <1>4, <2>1
  <2>3. r[Len(r)] = c[Len(c)]
    BY <1>4, <2>2
  <2>4. c[Len(c)] = ";"
    BY DEF Commands
  <2> QED BY <2>3, <2>4
<1>6. Shift(c) = r
  BY <1>2 DEF Shift, r
<1>7. Len(r) < Len(c)
  BY <1>3, <1>4
<1> QED BY <1>3, <1>4, <1>5, <1>6, <1>7, Zenon DEF Commands

LEMMA AnsiColor ==
    ASSUME NEW i \in 0..255  PROVE Ansi(i) \in Color
BY DEF Ansi, Color

LEMMA PaletteColor ==
    ASSUME NEW i \in 0..255  PROVE Palette(i) \in Color
<1>1. CASE i < 16
  BY <1>1, AnsiColor DEF Palette
<1>2. CASE i \in 16..231
  <2> DEFINE cube == i - 16
             level(x) == IF x = 0 THEN 0 ELSE 55 + 40 * x
  <2>1. cube \div 36 \in 0..5 /\ (cube \div 6) % 6 \in 0..5 /\ cube % 6 \in 0..5
    BY <1>2
  <2>2. \A x \in 0..5 : level(x) \in 0..255
    OBVIOUS
  <2>3. Palette(i) = <<level(cube \div 36), level((cube \div 6) % 6), level(cube % 6)>>
    BY <1>2 DEF Palette
  <2>4. level(cube \div 36) \in 0..255 /\ level((cube \div 6) % 6) \in 0..255 /\ level(cube % 6) \in 0..255
    BY <2>1, <2>2
  <2> HIDE DEF level, cube
  <2> QED BY <2>3, <2>4 DEF Color
<1>3. CASE i \in 232..255
  <2>1. 8 + 10 * (i - 232) \in 0..255
    BY <1>3
  <2>2. Palette(i) = <<8 + 10 * (i - 232), 8 + 10 * (i - 232), 8 + 10 * (i - 232)>>
    BY <1>3 DEF Palette
  <2> QED BY <2>1, <2>2 DEF Color
<1> QED BY <1>1, <1>2, <1>3

(* What a turn of process_ansi returns: a style, and fewer commands.       *)
Turn(r, c) == r.style \in Style /\ Commands(r.cmds) /\ Len(r.cmds) < Len(c)

LEMMA StyleGround ==
    ASSUME NEW s \in Style, NEW ground \in {"fg", "bg"}, NEW color \in Color
    PROVE  [s EXCEPT ![ground] = color] \in Style
<1>1. CASE ground = "fg"
  BY <1>1 DEF Style
<1>2. CASE ground = "bg"
  BY <1>2 DEF Style
<1> QED BY <1>1, <1>2

LEMMA ExtendedColorTurn ==
    ASSUME NEW s \in Style, NEW ground \in {"fg", "bg"}, NEW c, Commands(c), c # <<>>
    PROVE  Turn(ExtendedColor(s, ground, c), c)
<1> DEFINE mode == Command(c)
           c1 == Shift(c)
           three == c1 # <<>> /\ Shift(c1) # <<>> /\ Shift(Shift(c1)) # <<>>
           index == Number(Command(c1))
           rgb == <<Number(Command(c1)), Number(Command(Shift(c1))), Number(Command(Shift(Shift(c1))))>>
           five == [style |-> IF index \in 0..255 THEN [s EXCEPT ![ground] = Palette(index)] ELSE s,
                    cmds |-> Shift(c1)]
           true == [style |-> IF \A i \in 1..3 : rgb[i] \in 0..255 THEN [s EXCEPT ![ground] = rgb] ELSE s,
                    cmds |-> Shift(Shift(Shift(c1)))]
           none == [style |-> s, cmds |-> c1]
<1>1. Commands(c1) /\ Len(c1) < Len(c) /\ Len(c) \in Nat
  BY ShiftCommands
<1>2. Len(c1) \in Nat
  BY <1>1, CommandsLen
<1>3. \/ mode = <<"5">> /\ c1 # <<>> /\ ExtendedColor(s, ground, c) = five
      \/ mode = <<"2">> /\ three /\ ExtendedColor(s, ground, c) = true
      \/ ExtendedColor(s, ground, c) = none
  <2> HIDE DEF five, true, none
  <2>1. ExtendedColor(s, ground, c) =
          CASE mode = <<"5">> /\ c1 # <<>> -> five
            [] mode = <<"2">> /\ three -> true
            [] OTHER -> none
    BY Zenon DEF ExtendedColor, five, true, none
  <2> HIDE DEF mode, c1, three
  <2> QED BY <2>1
<1>4. ASSUME c1 # <<>>  PROVE Turn(five, c)
  <2>1. index \in 0..255 => [s EXCEPT ![ground] = Palette(index)] \in Style
    BY PaletteColor, StyleGround
  <2>2. Commands(Shift(c1)) /\ Len(Shift(c1)) < Len(c1)
    BY <1>1, <1>4, ShiftCommands
  <2> HIDE DEF c1, index
  <2>3. five.style \in Style /\ five.cmds = Shift(c1)
    BY <2>1
  <2>4. Len(Shift(c1)) < Len(c)
    <3>1. Len(Shift(c1)) \in Nat
      BY <2>2, CommandsLen
    <3> QED BY <1>1, <1>2, <2>2, <3>1
  <2> QED BY <2>2, <2>3, <2>4 DEF Turn
<1>5. ASSUME three  PROVE Turn(true, c)
  <2> DEFINE c2 == Shift(c1)
             c3 == Shift(c2)
             c4 == Shift(c3)
  <2>1. (\A i \in 1..3 : rgb[i] \in 0..255) => [s EXCEPT ![ground] = rgb] \in Style
    <3>1. (\A i \in 1..3 : rgb[i] \in 0..255) => rgb \in Color
      BY DEF Color
    <3> QED BY <3>1, StyleGround
  <2>2. Commands(c2) /\ Len(c2) < Len(c1)
    BY <1>1, <1>5, ShiftCommands
  <2>3. Commands(c3) /\ Len(c3) < Len(c2)
    BY <1>5, <2>2, ShiftCommands
  <2>4. Commands(c4) /\ Len(c4) < Len(c3)
    BY <1>5, <2>3, ShiftCommands
  <2>5. true.style \in Style
    BY <2>1
  <2>6. true.cmds = c4
    OBVIOUS
  <2> HIDE DEF c4, c3, c2
  <2>7. Len(c2) \in Nat /\ Len(c3) \in Nat /\ Len(c4) \in Nat
    BY <2>2, <2>3, <2>4, CommandsLen
  <2>8. Len(c4) < Len(c)
    BY <1>1, <1>2, <2>2, <2>3, <2>4, <2>7
  <2> QED BY <2>4, <2>5, <2>6, <2>8 DEF Turn
<1>6. Turn(none, c)
  BY <1>1 DEF Turn
<1> QED BY <1>3, <1>4, <1>5, <1>6

LEMMA SgrTurn ==
    ASSUME NEW s \in Style, NEW c, Commands(c), c # <<>>
    PROVE  Turn(Sgr(s, c), c)
<1> DEFINE n == Number(Command(c))
           c1 == Shift(c)
           With(t) == [style |-> t, cmds |-> c1]
<1>1. Commands(c1) /\ Len(c1) < Len(c)
  BY ShiftCommands
<1>2. ASSUME NEW t \in Style  PROVE Turn(With(t), c)
  BY <1>1 DEF Turn
<1>3. /\ NoStyle \in Style
      /\ [s EXCEPT !.bold = TRUE] \in Style /\ [s EXCEPT !.bold = FALSE] \in Style
      /\ [s EXCEPT !.fg = <<>>] \in Style /\ [s EXCEPT !.bg = <<>>] \in Style
  <2>1. <<>> \in Color
    BY DEF Color
  <2>2. NoStyle \in Style
    BY <2>1 DEF NoStyle, Style
  <2>3. [s EXCEPT !.bold = TRUE] \in Style /\ [s EXCEPT !.bold = FALSE] \in Style
    BY DEF Style
  <2>4. [s EXCEPT !.fg = <<>>] \in Style /\ [s EXCEPT !.bg = <<>>] \in Style
    BY <2>1 DEF Style
  <2> QED BY <2>2, <2>3, <2>4
<1>4. ASSUME NEW i \in 0..255
      PROVE  [s EXCEPT !.fg = Ansi(i)] \in Style /\ [s EXCEPT !.bg = Ansi(i)] \in Style
  BY AnsiColor DEF Style
<1>5. ASSUME c1 # <<>>, NEW ground \in {"fg", "bg"}
      PROVE  Turn(ExtendedColor(s, ground, c1), c)
  <2>1. Turn(ExtendedColor(s, ground, c1), c1)
    BY <1>1, <1>5, ExtendedColorTurn
  <2>2. Len(c) \in Nat /\ Len(c1) \in Nat
    BY <1>1, CommandsLen
  <2>3. Len(ExtendedColor(s, ground, c1).cmds) \in Nat
    <3>1. Commands(ExtendedColor(s, ground, c1).cmds)
      BY <2>1 DEF Turn
    <3> QED BY <3>1, CommandsLen
  <2> QED BY <1>1, <2>1, <2>2, <2>3 DEF Turn
<1>6. \/ n \in {NaN, 0} /\ Sgr(s, c) = With(NoStyle)
      \/ n = 1 /\ Sgr(s, c) = With([s EXCEPT !.bold = TRUE])
      \/ n = 22 /\ Sgr(s, c) = With([s EXCEPT !.bold = FALSE])
      \/ n = 39 /\ Sgr(s, c) = With([s EXCEPT !.fg = <<>>])
      \/ n = 49 /\ Sgr(s, c) = With([s EXCEPT !.bg = <<>>])
      \/ n \in 30..37 /\ Sgr(s, c) = With([s EXCEPT !.fg = Ansi(n - 30)])
      \/ n \in 40..47 /\ Sgr(s, c) = With([s EXCEPT !.bg = Ansi(n - 40)])
      \/ n \in 90..97 /\ Sgr(s, c) = With([s EXCEPT !.fg = Ansi(n - 82)])
      \/ n \in 100..107 /\ Sgr(s, c) = With([s EXCEPT !.bg = Ansi(n - 92)])
      \/ n \in {38, 48} /\ c1 # <<>>
         /\ Sgr(s, c) = ExtendedColor(s, IF n = 38 THEN "fg" ELSE "bg", c1)
      \/ Sgr(s, c) = With(s)
  BY DEF Sgr
<1> HIDE DEF n, With, c1
<1>7. n \in 30..37 => n - 30 \in 0..255
  OBVIOUS
<1>8. n \in 40..47 => n - 40 \in 0..255
  OBVIOUS
<1>9. n \in 90..97 => n - 82 \in 0..255
  OBVIOUS
<1>10. n \in 100..107 => n - 92 \in 0..255
  OBVIOUS
<1>11. (IF n = 38 THEN "fg" ELSE "bg") \in {"fg", "bg"}
  OBVIOUS
<1> QED BY <1>2, <1>3, <1>4, <1>5, <1>6, <1>7, <1>8, <1>9, <1>10, <1>11, Zenon

-----------------------------------------------------------------------------
(* The blocks.                                                             *)

LEMMA EscapedType ==
    ASSUME NEW t \in Seq(Char)  PROVE EscapeTxtForHtml(t) \in Seq(Html)
<1>1. Len(t) \in Nat /\ DOMAIN t = 1..Len(t)
  BY LenProperties
<1>2. \A i \in 1..Len(t) : t[i] \in Html
  BY ElementOfSeq DEF Html
<1>3. "&lt;" \in Html /\ "&amp;" \in Html
  BY DEF Html
<1>4. ASSUME NEW i \in 1..Len(t)
      PROVE  (CASE t[i] = "<" -> "&lt;" [] t[i] = "&" -> "&amp;" [] OTHER -> t[i]) \in Html
  BY <1>2, <1>3
<1>5. EscapeTxtForHtml(t) \in [1..Len(t) -> Html]
  BY <1>1, <1>4 DEF EscapeTxtForHtml
<1>6. [1..Len(t) -> Html] \subseteq Seq(Html)
  BY <1>1, SeqDef
<1> QED BY <1>5, <1>6

LEMMA TextBlock ==
    ASSUME NEW s \in Style, NEW t \in Seq(Char)  PROVE TransformToHtml(s, t) \in Block
<1>1. EscapeTxtForHtml(t) \in Seq(Html) /\ <<>> \in Seq(Char)
  BY EscapedType, EmptySeq
<1> QED BY <1>1 DEF TransformToHtml, Block

LEMMA LinkBlocks ==
    ASSUME NEW url \in Seq(Char), NEW t \in Seq(Char)
    PROVE  ProcessHyperlink(url, t) \in Seq(Block)
<1>1. EscapeTxtForHtml(t) \in Seq(Html)
  BY EscapedType
<1>2. NoStyle \in Style
  BY DEF NoStyle, Style, Color
<1> DEFINE b == [kind |-> "link", style |-> NoStyle, text |-> EscapeTxtForHtml(t), url |-> url]
<1>3. b \in Block
  BY <1>1, <1>2 DEF Block
<1>4. ProcessHyperlink(url, t) = <<b>> \/ ProcessHyperlink(url, t) = <<>>
  BY DEF ProcessHyperlink
<1> HIDE DEF b
<1>5. <<b>> \in Seq(Block)
  BY <1>3
<1>6. <<>> \in Seq(Block)
  OBVIOUS
<1> QED BY <1>4, <1>5, <1>6, Zenon

-----------------------------------------------------------------------------
(* The converter.                                                          *)

(* Commands are only left inside an SGR sequence.                          *)
AnsiInv == AnsiTypeOK /\ Commands(cmds) /\ (conv # "sgr" => cmds = <<>>)

(* Each step takes something off the buffer, or off the commands of an SGR *)
(* sequence, or ends that sequence.                                        *)
Advance ==
    \/ Len(buffer') < Len(buffer)
    \/ UNCHANGED buffer /\ conv = "sgr" /\ (conv' = "packet" \/ Len(cmds') < Len(cmds))

LEMMA TextPacketInv ==
    ASSUME AnsiInv, TextPacket  PROVE AnsiInv' /\ Len(buffer') < Len(buffer)
<1> PICK n \in DOMAIN buffer :
        /\ blocks' = Append(blocks, TransformToHtml(style, SubSeq(buffer, 1, n)))
        /\ buffer' = Rest(buffer, n)
        /\ UNCHANGED <<style, cmds, conv>>
  BY DEF TextPacket
<1>1. /\ buffer \in Seq(Char) /\ blocks \in Seq(Block) /\ style \in Style
  BY DEF AnsiInv, AnsiTypeOK
<1>2. Len(buffer) \in Nat /\ n \in Nat /\ 1 =< n /\ n =< Len(buffer)
  BY <1>1
<1>3. buffer' \in Seq(Char) /\ Len(buffer') = Len(buffer) - n
  BY <1>1, <1>2, RestType
<1>4. SubSeq(buffer, 1, n) \in Seq(Char)
  BY <1>1, <1>2, PartType
<1>5. blocks' \in Seq(Block)
  BY <1>1, <1>4, TextBlock, AppendProperties
<1>6. Len(buffer') < Len(buffer)
  BY <1>2, <1>3
<1> QED BY <1>3, <1>5, <1>6 DEF AnsiInv, AnsiTypeOK

LEMMA EscPacketInv ==
    ASSUME AnsiInv, EscPacket  PROVE AnsiInv' /\ Len(buffer') < Len(buffer)
<1>1. buffer \in Seq(Char) /\ buffer # <<>> /\ buffer' = Rest(buffer, 1)
  BY DEF AnsiInv, AnsiTypeOK, EscPacket, Dropped
<1>2. Len(buffer) \in Nat /\ Len(buffer) >= 1
  BY <1>1, Nonempty
<1>3. buffer' \in Seq(Char) /\ Len(buffer') = Len(buffer) - 1
  BY <1>1, <1>2, RestType
<1>4. Len(buffer') < Len(buffer)
  BY <1>2, <1>3
<1> QED BY <1>3, <1>4 DEF AnsiInv, AnsiTypeOK, EscPacket

LEMMA CsiPacketInv ==
    ASSUME AnsiInv, CsiPacket  PROVE AnsiInv' /\ Len(buffer') < Len(buffer)
<1>1. PICK n \in Csi(buffer) :
        /\ buffer' = Rest(buffer, n)
        /\ \/ /\ IsSgr(buffer, n)
              /\ cmds' = Append(SubSeq(buffer, 3, n - 1), ";")
              /\ conv' = "sgr"
           \/ UNCHANGED <<cmds, conv>>
        /\ UNCHANGED <<style, blocks>>
  BY DEF CsiPacket
<1>2. buffer \in Seq(Char)
  BY DEF AnsiInv, AnsiTypeOK
<1>3. Len(buffer) \in Nat /\ n \in Nat /\ 3 =< n /\ n =< Len(buffer)
  <2>1. n \in 3..Len(buffer)
    BY DEF Csi
  <2> QED BY <1>2, <2>1
<1>4. buffer' \in Seq(Char) /\ Len(buffer') = Len(buffer) - n
  BY <1>1, <1>2, <1>3, RestType
<1>5. Len(buffer') < Len(buffer)
  BY <1>3, <1>4
<1>6. ASSUME IsSgr(buffer, n)
      PROVE  Commands(Append(SubSeq(buffer, 3, n - 1), ";"))
  <2> DEFINE t == SubSeq(buffer, 3, n - 1)
  <2>1. \A i \in 3..n - 1 : buffer[i] \in Param
    BY <1>6 DEF IsSgr
  <2>2. 3 \in Int /\ n - 1 \in Int
    BY <1>3
  <2>3. t \in Seq(Param)
    BY <2>1, <2>2, SubSeqProperties
  <2>4. ";" \in Param
    BY DEF Param
  <2> HIDE DEF t
  <2>5. /\ Append(t, ";") \in Seq(Param) /\ Len(Append(t, ";")) = Len(t) + 1
        /\ Append(t, ";")[Len(t) + 1] = ";"
    BY <2>3, <2>4, AppendProperties
  <2> QED BY <2>5 DEF Commands, t
<1>7. Commands(cmds') /\ (conv' # "sgr" => cmds' = <<>>) /\ conv' \in {"idle", "packet", "sgr"}
  BY <1>1, <1>6 DEF AnsiInv, CsiPacket
<1>8. cmds' \in Seq(Param)
  BY <1>7, CommandsLen
<1> QED BY <1>1, <1>4, <1>5, <1>7, <1>8 DEF AnsiInv, AnsiTypeOK

(* The ends of the URL and of the text lie in the buffer, one after the    *)
(* other.                                                                  *)
LEMMA LinkPositions ==
    ASSUME NEW b \in Seq(Char), NEW k, NEW i, NEW j, <<k, i, j>> \in Links(b)
    PROVE  /\ k \in 5..Len(b) /\ i \in 1..Len(b) /\ j \in 2..Len(b)
           /\ After(b, i) \in 2..Len(b) + 2 /\ After(b, j) \in 3..Len(b) + 2
<1>1. k \in 5..Len(b) /\ i \in FirstStop(b, 1) /\ j \in SecondStop(b)
  BY DEF Links
<1>2. i \in 1..Len(b)
  BY <1>1 DEF FirstStop
<1>3. PICK h \in FirstStop(b, 1) : j \in FirstStop(b, After(b, h))
  BY <1>1 DEF SecondStop
<1>4. h \in 1..Len(b) /\ j \in After(b, h)..Len(b)
  BY <1>3 DEF FirstStop
<1>5. Len(b) \in Nat
  BY LenProperties
<1>6. \A x \in Nat : After(b, x) = x + 1 \/ After(b, x) = x + 2
  BY DEF After
<1>7. j \in 2..Len(b)
  <2>1. After(b, h) = h + 1 \/ After(b, h) = h + 2
    BY <1>4, <1>5, <1>6
  <2> QED BY <1>4, <1>5, <2>1
<1>8. After(b, i) \in 2..Len(b) + 2
  <2>1. After(b, i) = i + 1 \/ After(b, i) = i + 2
    BY <1>2, <1>5, <1>6
  <2> QED BY <1>2, <1>5, <2>1
<1>9. After(b, j) \in 3..Len(b) + 2
  <2>1. After(b, j) = j + 1 \/ After(b, j) = j + 2
    BY <1>5, <1>6, <1>7
  <2> QED BY <1>5, <1>7, <2>1
<1> QED BY <1>1, <1>2, <1>7, <1>8, <1>9

LEMMA LinkPacketInv ==
    ASSUME AnsiInv, LinkPacket  PROVE AnsiInv' /\ Len(buffer') < Len(buffer)
<1>1. PICK m \in Links(buffer) :
        /\ blocks' = blocks \o ProcessHyperlink(SubSeq(buffer, m[1] + 1, m[2] - 1),
                                                SubSeq(buffer, After(buffer, m[2]), m[3] - 6))
        /\ buffer' = Rest(buffer, After(buffer, m[3]) - 1)
        /\ UNCHANGED <<style, cmds, conv>>
  BY DEF LinkPacket
<1>2. buffer \in Seq(Char) /\ blocks \in Seq(Block) /\ Len(buffer) \in Nat
  BY DEF AnsiInv, AnsiTypeOK
<1>3. m = <<m[1], m[2], m[3]>>
  BY DEF Links
<1> DEFINE k == m[1]
           i == m[2]
           j == m[3]
<1> HIDE DEF k, i, j
<1>4. <<k, i, j>> \in Links(buffer)
  BY <1>3 DEF k, i, j
<1>5. /\ k \in 5..Len(buffer) /\ i \in 1..Len(buffer) /\ j \in 2..Len(buffer)
      /\ After(buffer, i) \in 2..Len(buffer) + 2 /\ After(buffer, j) \in 3..Len(buffer) + 2
  BY <1>2, <1>4, LinkPositions
<1> DEFINE from == After(buffer, i)
           n == After(buffer, j) - 1
<1>6. /\ from \in Nat \ {0} /\ j - 6 \in Int /\ j - 6 =< Len(buffer)
      /\ k + 1 \in Nat \ {0} /\ i - 1 \in Int /\ i - 1 =< Len(buffer)
      /\ n \in Nat /\ n >= 2
  BY <1>2, <1>5
<1>7. SubSeq(buffer, k + 1, i - 1) \in Seq(Char) /\ SubSeq(buffer, from, j - 6) \in Seq(Char)
  <2> HIDE DEF from
  <2> QED BY <1>2, <1>6, PartType
<1>8. blocks' \in Seq(Block)
  <2>1. ProcessHyperlink(SubSeq(buffer, k + 1, i - 1), SubSeq(buffer, from, j - 6)) \in Seq(Block)
    BY <1>7, LinkBlocks
  <2>2. blocks' = blocks \o ProcessHyperlink(SubSeq(buffer, k + 1, i - 1), SubSeq(buffer, from, j - 6))
    BY <1>1 DEF k, i, j
  <2> QED BY <1>2, <2>1, <2>2, ConcatProperties
<1>9. buffer' = Rest(buffer, n)
  BY <1>1 DEF j
<1> HIDE DEF n
<1>10. buffer' \in Seq(Char) /\ Len(buffer') = IF n =< Len(buffer) THEN Len(buffer) - n ELSE 0
  BY <1>2, <1>6, <1>9, RestType
<1>11. Len(buffer') < Len(buffer)
  BY <1>2, <1>5, <1>6, <1>10
<1> QED BY <1>1, <1>8, <1>10, <1>11 DEF AnsiInv, AnsiTypeOK

LEMMA SgrCommandInv ==
    ASSUME AnsiInv, SgrCommand
    PROVE  AnsiInv' /\ UNCHANGED buffer /\ conv = "sgr" /\ Len(cmds') < Len(cmds)
<1>1. Turn(Sgr(style, cmds), cmds)
  BY SgrTurn DEF AnsiInv, AnsiTypeOK, SgrCommand
<1>2. style' \in Style /\ Commands(cmds') /\ Len(cmds') < Len(cmds)
  BY <1>1 DEF Turn, SgrCommand
<1>3. cmds' \in Seq(Param)
  BY <1>2, CommandsLen
<1> QED BY <1>2, <1>3 DEF AnsiInv, AnsiTypeOK, SgrCommand

LEMMA AnsiStepInv ==
    ASSUME AnsiInv, AnsiStep  PROVE AnsiInv' /\ Advance /\ conv' \in {"packet", "sgr"}
<1>1. CASE TextPacket
  BY <1>1, TextPacketInv DEF Advance, TextPacket
<1>2. CASE EscPacket
  BY <1>2, EscPacketInv DEF Advance, EscPacket
<1>3. CASE CsiPacket
  BY <1>3, CsiPacketInv DEF Advance, CsiPacket
<1>4. CASE LinkPacket
  BY <1>4, LinkPacketInv DEF Advance, LinkPacket
<1>5. CASE SgrCommand
  BY <1>5, SgrCommandInv DEF Advance, SgrCommand
<1>6. CASE SgrEnd
  <2>1. AnsiInv'
    BY <1>6 DEF AnsiInv, AnsiTypeOK, SgrEnd
  <2> QED BY <1>6, <2>1 DEF Advance, SgrEnd
<1> QED BY <1>1, <1>2, <1>3, <1>4, <1>5, <1>6 DEF AnsiStep

LEMMA FreshAnsiInv == FreshAnsi => AnsiInv
<1> SUFFICES ASSUME FreshAnsi  PROVE AnsiInv
  OBVIOUS
<1>1. NoStyle \in Style
  BY DEF NoStyle, Style, Color
<1>2. <<>> \in Seq(Char) /\ <<>> \in Seq(Param) /\ <<>> \in Seq(Block)
  BY EmptySeq
<1>3. Commands(cmds)
  BY <1>2 DEF FreshAnsi, Commands
<1> QED BY <1>1, <1>2, <1>3 DEF FreshAnsi, AnsiInv, AnsiTypeOK

LEMMA AppendBufferInv ==
    ASSUME AnsiInv, NEW txt \in Seq(Char), AppendBuffer(txt)  PROVE AnsiInv' /\ conv' = "packet"
<1>1. buffer' \in Seq(Char)
  BY ConcatProperties DEF AnsiInv, AnsiTypeOK, AppendBuffer
<1>2. blocks' \in Seq(Block)
  BY EmptySeq DEF AppendBuffer
<1> QED BY <1>1, <1>2 DEF AnsiInv, AnsiTypeOK, AppendBuffer

LEMMA AnsiEndInv ==
    ASSUME AnsiInv, AnsiEnd  PROVE AnsiInv'
<1>1. blocks' \in Seq(Block)
  BY EmptySeq DEF AnsiEnd
<1> QED BY <1>1 DEF AnsiInv, AnsiTypeOK, AnsiEnd, AtEnd
-----------------------------------------------------------------------------
(* The way from the streams to the page.                                   *)

(* Between two lines the buffer holds only the beginning of a sequence and *)
(* no block waits; what the page was sent has been read on the server.     *)
LogInv ==
    /\ LogTypeOK
    /\ AnsiInv
    /\ conv = "idle" => blocks = <<>> /\ (buffer # <<>> => Incomplete(buffer))
    /\ sent =< lines
    /\ OneParagraphEach

LEMMA NullTextType == NullText \in Seq(Char)
<1>1. "n" \in Char /\ "u" \in Char /\ "l" \in Char
  BY DEF Char, Printable, Final
<1> QED BY <1>1 DEF NullText

LEMMA LineType == \A l \in Line \cup {NullText} : l \in Seq(Char)
<1>1. \A l \in Line : l \in Seq(Char)
  BY LogAssumption DEF Line
<1> QED BY <1>1, NullTextType

LEMMA WireHead ==
    ASSUME NEW w \in Seq(Message), w # <<>>
    PROVE  /\ Tail(w) \in Seq(Message)
           /\ Head(w).log \in Line \cup {NullText}
           /\ Head(w).log \in Seq(Char)
<1>1. Head(w) \in Message /\ Tail(w) \in Seq(Message)
  BY HeadTailProperties
<1>2. Head(w).log \in Line \cup {NullText}
  BY <1>1 DEF Message
<1> QED BY <1>1, <1>2, LineType

LEMMA LogInitInv == LogInit => LogInv
<1> SUFFICES ASSUME LogInit  PROVE LogInv
  OBVIOUS
<1>1. AnsiInv
  BY FreshAnsiInv DEF LogInit
<1>2. AnsiTypeOK
  BY <1>1 DEF AnsiInv
<1>3. blocks = <<>> /\ buffer = <<>> /\ conv = "idle"
  BY DEF LogInit, FreshAnsi
<1>4. 0 \in 0..MaxLines
  BY LogAssumption
<1>5. <<>> \in Seq(Message) /\ <<>> \in Seq(Seq(Block)) /\ <<>> \in Seq(Line \cup {NullText})
  BY EmptySeq
<1>6. LogTypeOK
  BY <1>2, <1>4, <1>5 DEF LogInit, LogTypeOK
<1>7. sent =< lines
  BY DEF LogInit
<1>8. OneParagraphEach
  BY <1>3 DEF LogInit, OneParagraphEach
<1> QED BY <1>1, <1>3, <1>6, <1>7, <1>8 DEF LogInv

(* What the page holds is not touched by a step of the server.             *)
LEMMA PageUnchanged ==
    ASSUME LogInv, UNCHANGED pageVars
    PROVE  /\ AnsiInv'
           /\ (conv = "idle" => blocks = <<>> /\ (buffer # <<>> => Incomplete(buffer)))'
           /\ OneParagraphEach'
           /\ AnsiTypeOK' /\ box' \in Seq(Seq(Block)) /\ heard' \in Seq(Line \cup {NullText})
<1>1. UNCHANGED <<box, heard, buffer, style, cmds, blocks, conv>>
  BY DEF pageVars, ansiVars
<1>2. AnsiTypeOK' /\ AnsiInv'
  BY <1>1 DEF LogInv, AnsiInv, AnsiTypeOK
<1>3. (conv = "idle" => blocks = <<>> /\ (buffer # <<>> => Incomplete(buffer)))'
  BY <1>1 DEF LogInv
<1>4. OneParagraphEach'
  BY <1>1 DEF LogInv, OneParagraphEach
<1> QED BY <1>1, <1>2, <1>3, <1>4 DEF LogInv, LogTypeOK

LEMMA SendInv ==
    ASSUME LogInv, NEW s \in Stream, NEW txt \in Line \cup {NullText}, Send(s, txt),
           running' \subseteq Stream
    PROVE  LogInv'
<1>1. /\ lines \in 0..MaxLines /\ sent \in 0..MaxLines /\ sent =< lines /\ MaxLines \in Nat
      /\ wire \in Seq(Message)
  BY LogAssumption DEF LogInv, LogTypeOK
<1>2. lines < MaxLines /\ lines' = lines + 1 /\ (sent' = sent + 1 \/ sent' = sent)
  BY DEF Send
<1>3. lines' \in 0..MaxLines /\ sent' \in 0..MaxLines /\ sent' =< lines'
  BY <1>1, <1>2
<1> DEFINE m == [id |-> ProjectOf[s], log |-> txt]
<1>4. m \in Message
  BY DEF Message
<1>5. wire' = Append(wire, m) \/ wire' = wire
  BY DEF Send
<1> HIDE DEF m
<1>6. wire' \in Seq(Message)
  BY <1>1, <1>4, <1>5, AppendProperties
<1>7. UNCHANGED conv /\ UNCHANGED conn /\ UNCHANGED pageVars
  BY DEF Send, pageVars, ansiVars
<1>8. conn' \in {"starting", "open", "closed"}
  BY <1>7 DEF LogInv, LogTypeOK
<1> QED BY <1>3, <1>6, <1>7, <1>8, PageUnchanged DEF LogInv, LogTypeOK

LEMMA StartProcessInv ==
    ASSUME LogInv, NEW s \in Stream, StartProcess(s)  PROVE LogInv'
<1>1. UNCHANGED pageVars /\ UNCHANGED <<lines, conn, wire, sent>>
  BY DEF StartProcess
<1>2. running' \subseteq Stream
  BY DEF StartProcess, LogInv, LogTypeOK
<1> QED BY <1>1, <1>2, PageUnchanged DEF LogInv, LogTypeOK

LEMMA WriteLineInv ==
    ASSUME LogInv, NEW s \in Stream, WriteLine(s)  PROVE LogInv'
<1>1. PICK l \in Lines[s] : Send(s, l) /\ UNCHANGED running
  BY DEF WriteLine
<1>2. l \in Line \cup {NullText}
  BY DEF Line
<1>3. running' \subseteq Stream
  BY <1>1 DEF LogInv, LogTypeOK
<1> QED BY <1>1, <1>2, <1>3, SendInv

LEMMA EndOfStreamInv ==
    ASSUME LogInv, NEW s \in Stream, EndOfStream(s)  PROVE LogInv'
<1>1. running' \subseteq Stream
  BY DEF EndOfStream, LogInv, LogTypeOK
<1> QED BY <1>1, SendInv DEF EndOfStream

LEMMA LoadPageInv ==
    ASSUME LogInv, LoadPage  PROVE LogInv'
<1>1. buffer' = <<>> /\ style' = NoStyle /\ cmds' = <<>> /\ blocks' = <<>> /\ conv' = "idle"
  BY DEF LoadPage
<1>2. NoStyle \in Style
  BY DEF NoStyle, Style, Color
<1>3. <<>> \in Seq(Char) /\ <<>> \in Seq(Param) /\ <<>> \in Seq(Block)
  BY EmptySeq
<1>4. AnsiTypeOK'
  BY <1>1, <1>2, <1>3 DEF AnsiTypeOK
<1>5. AnsiInv'
  BY <1>1, <1>3, <1>4 DEF AnsiInv, Commands
<1>6. <<>> \in Seq(Message) /\ <<>> \in Seq(Seq(Block)) /\ <<>> \in Seq(Line \cup {NullText})
  BY EmptySeq
<1>7. UNCHANGED lines /\ UNCHANGED running /\ lines \in 0..MaxLines /\ running \subseteq Stream
  BY DEF LoadPage, serverVars, LogInv, LogTypeOK
<1>8. sent' \in 0..MaxLines /\ sent' =< lines'
  <2>1. sent' = 0 /\ MaxLines \in Nat
    BY LogAssumption DEF LoadPage
  <2> QED BY <1>7, <2>1
<1>9. LogTypeOK'
  BY <1>4, <1>6, <1>7, <1>8 DEF LoadPage, LogTypeOK
<1>10. OneParagraphEach'
  BY <1>1 DEF LoadPage, OneParagraphEach
<1> QED BY <1>1, <1>5, <1>8, <1>9, <1>10 DEF LogInv

LEMMA ConnectionStartsInv ==
    ASSUME LogInv, ConnectionStarts  PROVE LogInv'
<1>1. UNCHANGED pageVars /\ UNCHANGED <<running, lines, wire, sent>>
  BY DEF ConnectionStarts, serverVars
<1>2. conn' \in {"starting", "open", "closed"}
  BY DEF ConnectionStarts
<1> QED BY <1>1, <1>2, PageUnchanged DEF LogInv, LogTypeOK

LEMMA ConnectionLostInv ==
    ASSUME LogInv, ConnectionLost  PROVE LogInv'
<1>1. UNCHANGED pageVars /\ UNCHANGED <<running, lines, sent>> /\ conn' = "closed"
  BY DEF ConnectionLost, serverVars
<1>2. PICK n \in 0..Len(wire) : wire' = SubSeq(wire, 1, n)
  BY DEF ConnectionLost
<1>3. wire \in Seq(Message)
  BY DEF LogInv, LogTypeOK
<1>4. n \in Int /\ n =< Len(wire) /\ 1 \in Nat \ {0}
  BY <1>3
<1>5. wire' \in Seq(Message)
  BY <1>2, <1>3, <1>4, PartType
<1> QED BY <1>1, <1>5, PageUnchanged DEF LogInv, LogTypeOK

LEMMA ReceiveLogInv ==
    ASSUME LogInv, ReceiveLog  PROVE LogInv'
<1> DEFINE m == Head(wire)
<1>1. /\ wire # <<>> /\ conv = "idle" /\ wire' = Tail(wire)
      /\ UNCHANGED <<running, lines, conn, sent, box>>
  BY DEF ReceiveLog, serverVars
<1>2. /\ wire' \in Seq(Message) /\ m.log \in Line \cup {NullText} /\ m.log \in Seq(Char)
  BY <1>1, WireHead DEF LogInv, LogTypeOK
<1>3. heard \in Seq(Line \cup {NullText}) /\ box \in Seq(Seq(Block))
  BY DEF LogInv, LogTypeOK
<1>4. CASE m.id = PageProject /\ AppendBuffer(m.log) /\ heard' = Append(heard, m.log)
  <2>1. AnsiInv' /\ conv' = "packet"
    BY <1>2, <1>4, AppendBufferInv DEF LogInv
  <2>2. AnsiTypeOK'
    BY <2>1 DEF AnsiInv
  <2> HIDE DEF m
  <2>3. heard' \in Seq(Line \cup {NullText}) /\ Len(heard') = Len(heard) + 1
    BY <1>2, <1>3, <1>4, AppendProperties
  <2>4. Len(box) = Len(heard)
    BY <1>1 DEF LogInv, OneParagraphEach
  <2>5. Len(heard) \in Nat
    BY <1>3, LenProperties
  <2>6. Len(box') = Len(heard') - 1
    BY <1>1, <2>3, <2>4, <2>5
  <2>7. OneParagraphEach'
    BY <2>1, <2>6 DEF OneParagraphEach
  <2>8. LogTypeOK'
    BY <1>1, <1>2, <2>2, <2>3 DEF LogInv, LogTypeOK
  <2>9. sent' =< lines'
    BY <1>1 DEF LogInv
  <2> QED BY <2>1, <2>7, <2>8, <2>9 DEF LogInv
<1>5. CASE UNCHANGED <<ansiVars, heard>>
  <2>1. UNCHANGED pageVars
    BY <1>1, <1>5 DEF pageVars
  <2> QED BY <1>1, <1>2, <2>1, PageUnchanged DEF LogInv, LogTypeOK
<1> QED BY <1>4, <1>5 DEF ReceiveLog

LEMMA ConvertInv ==
    ASSUME LogInv, Convert  PROVE LogInv' /\ Advance
<1>1. UNCHANGED <<running, lines, conn, wire, sent, box, heard>>
  BY DEF Convert, serverVars
<1>2. AnsiInv' /\ Advance /\ conv' \in {"packet", "sgr"}
  BY AnsiStepInv DEF Convert, LogInv
<1>3. AnsiTypeOK'
  BY <1>2 DEF AnsiInv
<1>4. LogTypeOK'
  BY <1>1, <1>3 DEF LogInv, LogTypeOK
<1>5. conv # "idle"
  BY DEF Convert, AnsiStep, TextPacket, EscPacket, CsiPacket, LinkPacket, SgrCommand, SgrEnd
<1>6. conv' # "idle"
  BY <1>2
<1>7. OneParagraphEach'
  BY <1>1, <1>5, <1>6 DEF LogInv, OneParagraphEach
<1>8. sent' =< lines'
  BY <1>1 DEF LogInv
<1> QED BY <1>2, <1>4, <1>6, <1>7, <1>8 DEF LogInv

LEMMA AddParagraphInv ==
    ASSUME LogInv, AddParagraph  PROVE LogInv'
<1>1. UNCHANGED <<running, lines, conn, wire, sent, heard>> /\ box' = Append(box, blocks)
  BY DEF AddParagraph, serverVars
<1>2. AnsiInv'
  BY AnsiEndInv DEF AddParagraph, LogInv
<1>3. AnsiTypeOK'
  BY <1>2 DEF AnsiInv
<1>4. /\ conv' = "idle" /\ blocks' = <<>> /\ UNCHANGED buffer
      /\ conv = "packet" /\ (buffer = <<>> \/ Incomplete(buffer))
  BY DEF AddParagraph, AnsiEnd, AtEnd
<1>5. (conv = "idle" => blocks = <<>> /\ (buffer # <<>> => Incomplete(buffer)))'
  BY <1>4
<1>6. blocks \in Seq(Block) /\ box \in Seq(Seq(Block)) /\ heard \in Seq(Line \cup {NullText})
  BY DEF LogInv, LogTypeOK, AnsiTypeOK
<1>7. box' \in Seq(Seq(Block)) /\ Len(box') = Len(box) + 1
  BY <1>1, <1>6, AppendProperties
<1>8. Len(box) = Len(heard) - 1
  BY <1>4 DEF LogInv, OneParagraphEach
<1>9. Len(heard) \in Nat
  BY <1>6, LenProperties
<1>10. Len(box') = Len(heard')
  BY <1>1, <1>7, <1>8, <1>9
<1>11. OneParagraphEach'
  BY <1>4, <1>10 DEF OneParagraphEach
<1>12. LogTypeOK'
  BY <1>1, <1>3, <1>7 DEF LogInv, LogTypeOK
<1>13. sent' =< lines'
  BY <1>1 DEF LogInv
<1> QED BY <1>2, <1>5, <1>11, <1>12, <1>13 DEF LogInv

LEMMA LogStepInv == LogInv /\ [LogNext]_logVars => LogInv'
<1> SUFFICES ASSUME LogInv, [LogNext]_logVars  PROVE LogInv'
  OBVIOUS
<1>1. CASE \E s \in Stream : StartProcess(s) \/ WriteLine(s) \/ EndOfStream(s)
  BY <1>1, StartProcessInv, WriteLineInv, EndOfStreamInv
<1>2. CASE LoadPage
  BY <1>2, LoadPageInv
<1>3. CASE ConnectionStarts
  BY <1>3, ConnectionStartsInv
<1>4. CASE ConnectionLost
  BY <1>4, ConnectionLostInv
<1>5. CASE ReceiveLog
  BY <1>5, ReceiveLogInv
<1>6. CASE Convert
  BY <1>6, ConvertInv
<1>7. CASE AddParagraph
  BY <1>7, AddParagraphInv
<1>8. CASE UNCHANGED logVars
  <2>1. UNCHANGED pageVars /\ UNCHANGED <<running, lines, conn, wire, sent>>
    BY <1>8 DEF logVars, pageVars
  <2> QED BY <2>1, PageUnchanged DEF LogInv, LogTypeOK
<1> QED BY <1>1, <1>2, <1>3, <1>4, <1>5, <1>6, <1>7, <1>8 DEF LogNext

LEMMA LogInvAlways == LogSpec => []LogInv
<1> QED BY LogInitInv, LogStepInv, PTL DEF LogSpec

-----------------------------------------------------------------------------
(* What a buffer begins with: the alternatives of get_next_packet.         *)

LEMMA FinalApart ==
    \A c \in Final : c \notin Param /\ c \notin Private /\ c \notin Intermediate
<1> QED BY DEF Final, Param, Digit, Private, Intermediate

(* A regular expression of a control sequence can end at one place only.   *)
LEMMA CsiEnd ==
    ASSUME NEW b \in Seq(Char), NEW m \in Csi(b), NEW n \in Csi(b)  PROVE ~(m < n)
<1> SUFFICES ASSUME m < n  PROVE FALSE
  OBVIOUS
<1>1. m \in 3..Len(b) /\ n \in 3..Len(b) /\ LegalCsi(b, m) /\ LegalCsi(b, n)
  BY DEF Csi
<1>2. b[m] \in Final
  BY <1>1 DEF LegalCsi
<1>3. PICK p \in {2, 3}, q \in {n - 2, n - 1} :
        /\ p =< q
        /\ p = 3 => b[3] \in Private
        /\ \A i \in p+1..q : b[i] \in Param
        /\ q = n - 2 => b[n - 1] \in Intermediate
  BY <1>1 DEF LegalCsi
<1>4. Len(b) \in Nat
  BY LenProperties
<1>5. (m = 3 /\ p = 3) \/ m \in p+1..q \/ (q = n - 2 /\ m = n - 1)
  BY <1>1, <1>3, <1>4
<1>6. b[m] \in Private \/ b[m] \in Param \/ b[m] \in Intermediate
  BY <1>3, <1>5
<1> QED BY <1>2, <1>6, FinalApart

LEMMA TextEnd ==
    ASSUME NEW b \in Seq(Char), NEW m, NEW n, Text(b, m), Text(b, n)  PROVE ~(m < n)
<1>1. m \in 1..Len(b) /\ n \in 1..Len(b) /\ Len(b) \in Nat
  BY LenProperties DEF Text
<1>2. m < Len(b) => b[m + 1] = ESC
  BY DEF Text
<1>3. \A i \in 1..n : b[i] # ESC
  BY DEF Text
<1>4. m < n => m < Len(b) /\ m + 1 \in 1..n
  BY <1>1
<1> QED BY <1>2, <1>3, <1>4

LEMMA OneFirstStop ==
    ASSUME NEW b \in Seq(Char), NEW from \in Nat,
           NEW m \in FirstStop(b, from), NEW n \in FirstStop(b, from)
    PROVE  m = n
<1>1. /\ m \in from..Len(b) /\ n \in from..Len(b) /\ Len(b) \in Nat
      /\ StopAt(b, m) /\ StopAt(b, n)
  BY LenProperties DEF FirstStop
<1>2. (\A j \in from..m-1 : ~StopAt(b, j)) /\ (\A j \in from..n-1 : ~StopAt(b, j))
  BY DEF FirstStop
<1>3. n \notin from..m-1 /\ m \notin from..n-1
  BY <1>1, <1>2
<1> QED BY <1>1, <1>3

LEMMA OneSecondStop ==
    ASSUME NEW b \in Seq(Char), NEW m \in SecondStop(b), NEW n \in SecondStop(b)
    PROVE  m = n
<1>1. PICK h \in FirstStop(b, 1) : m \in FirstStop(b, After(b, h))
  BY DEF SecondStop
<1>2. PICK i \in FirstStop(b, 1) : n \in FirstStop(b, After(b, i))
  BY DEF SecondStop
<1>3. h = i
  BY OneFirstStop
<1>4. h \in 1..Len(b) /\ Len(b) \in Nat
  BY LenProperties DEF FirstStop
<1>5. After(b, h) \in Nat
  <2>1. After(b, h) = h + 1 \/ After(b, h) = h + 2
    BY DEF After
  <2> QED BY <1>4, <2>1
<1> QED BY <1>1, <1>2, <1>3, <1>5, OneFirstStop

(* The ";" in front of the URL is the first one.                           *)
LEMMA OneUrlStart ==
    ASSUME NEW b, NEW k \in Nat, NEW l \in Nat, k >= 5, l >= 5, NEW i, NEW j,
           Link(b, k, i, j), Link(b, l, i, j)
    PROVE  k = l
<1>1. b[k] = ";" /\ b[l] = ";"
  BY DEF Link
<1>2. /\ \A x \in 5..k-1 : b[x] \in Printable \ {";"}
      /\ \A x \in 5..l-1 : b[x] \in Printable \ {";"}
  BY DEF Link
<1>3. k \notin 5..l-1 /\ l \notin 5..k-1
  BY <1>1, <1>2
<1> QED BY <1>3

LEMMA OneLink ==
    ASSUME NEW b \in Seq(Char), NEW x \in Links(b), NEW y \in Links(b)  PROVE x = y
<1>1. /\ x = <<x[1], x[2], x[3]>> /\ y = <<y[1], y[2], y[3]>>
      /\ x[1] \in 5..Len(b) /\ x[2] \in FirstStop(b, 1) /\ x[3] \in SecondStop(b)
      /\ y[1] \in 5..Len(b) /\ y[2] \in FirstStop(b, 1) /\ y[3] \in SecondStop(b)
      /\ Link(b, x[1], x[2], x[3]) /\ Link(b, y[1], y[2], y[3])
  BY DEF Links
<1>2. x[2] = y[2]
  BY <1>1, OneFirstStop
<1>3. x[3] = y[3]
  BY <1>1, OneSecondStop
<1>4. Len(b) \in Nat
  BY LenProperties
<1>5. x[1] \in Nat /\ y[1] \in Nat /\ x[1] >= 5 /\ y[1] >= 5
  BY <1>1, <1>4
<1>6. x[1] = y[1]
  BY <1>1, <1>2, <1>3, <1>5, OneUrlStart
<1> QED BY <1>1, <1>2, <1>3, <1>6

(* A sequence that is held back is none yet.                               *)
LEMMA IncompleteApart ==
    ASSUME NEW b \in Seq(Char), Incomplete(b)
    PROVE  b # <<>> /\ b[1] = ESC /\ Csi(b) = {} /\ Links(b) = {} /\ ~Dropped(b)
<1>1. ~Dropped(b)
  BY DEF Dropped
<1>2. CASE b = <<ESC>>
  <2>1. Len(b) = 1 /\ b[1] = ESC
    BY <1>2
  <2>2. ~Starts(b, "[") /\ ~Starts(b, "]")
    BY <2>1 DEF Starts
  <2> QED BY <1>1, <1>2, <2>1, <2>2 DEF Csi, Links, IsLinkStart
<1>3. ASSUME Starts(b, "[") \/ Starts(b, "]")  PROVE b # <<>> /\ b[1] = ESC
  BY <1>3 DEF Starts
<1>4. Starts(b, "]") => ~Starts(b, "[")
  BY DEF Starts
<1>5. CASE Starts(b, "[") /\ Csi(b) = {}
  <2>1. Links(b) = {}
    BY <1>4, <1>5 DEF Links, IsLinkStart
  <2> QED BY <1>1, <1>3, <1>5, <2>1
<1>6. CASE Starts(b, "]") /\ Len(b) < 4
  <2>1. ~IsLinkStart(b)
    <3>1. Len(b) \in Nat
      BY LenProperties
    <3>2. ~(Len(b) >= 4)
      BY <1>6, <3>1
    <3> QED BY <3>2 DEF IsLinkStart
  <2> QED BY <1>1, <1>3, <1>4, <1>6, <2>1 DEF Csi, Links
<1>7. CASE IsLinkStart(b) /\ SecondStop(b) = {}
  <2>1. Starts(b, "]")
    BY <1>7 DEF IsLinkStart
  <2>2. Links(b) = {}
    BY <1>7 DEF Links
  <2> QED BY <1>1, <1>3, <1>4, <2>1, <2>2 DEF Csi
<1> QED BY <1>2, <1>5, <1>6, <1>7 DEF Incomplete

TextAhead(b) == \E n \in DOMAIN b : Text(b, n)

LEMMA TextUpToEsc ==
    ASSUME NEW b \in Seq(Char), b # <<>>  PROVE TextAhead(b) <=> b[1] # ESC
<1>1. Len(b) \in Nat /\ Len(b) >= 1 /\ DOMAIN b = 1..Len(b)
  BY Nonempty
<1>2. ASSUME TextAhead(b)  PROVE b[1] # ESC
  <2>1. PICK n \in 1..Len(b) : \A i \in 1..n : b[i] # ESC
    BY <1>1, <1>2 DEF TextAhead, Text
  <2>2. 1 \in 1..n
    BY <1>1
  <2> QED BY <2>1, <2>2
<1>3. ASSUME b[1] # ESC  PROVE TextAhead(b)
  <2> DEFINE E == {i \in 1..Len(b) : b[i] = ESC}
  <2>1. CASE E = {}
    <3>1. Text(b, Len(b))
      BY <1>1, <2>1 DEF Text
    <3> QED BY <1>1, <3>1 DEF TextAhead
  <2>2. CASE E # {}
    <3>1. E \in SUBSET Nat
      BY <1>1
    <3>2. PICK e \in E : \A i \in E : e =< i
      <4> HIDE DEF E
      <4> QED BY <2>2, <3>1, FirstPosition
    <3>3. e \in 1..Len(b) /\ b[e] = ESC /\ \A i \in 1..Len(b) : b[i] = ESC => e =< i
      BY <3>2
    <3>4. e # 1
      BY <1>3, <3>3
    <3>5. e - 1 \in 1..Len(b) /\ (e - 1) + 1 = e
      BY <1>1, <3>3, <3>4
    <3>6. \A i \in 1..e - 1 : i \in 1..Len(b) /\ ~(e =< i)
      BY <1>1, <3>3
    <3>7. Text(b, e - 1)
      BY <1>1, <3>3, <3>5, <3>6 DEF Text
    <3> QED BY <1>1, <3>5, <3>7 DEF TextAhead
  <2> QED BY <2>1, <2>2
<1> QED BY <1>2, <1>3

(* What is not empty begins with exactly one kind of packet, and it ends at *)
(* one place: the order in which get_next_packet tries its regular          *)
(* expressions decides nothing, and neither does the choice the model       *)
(* leaves among their matches.  (ansi_up.js, get_next_packet.)              *)
THEOREM OnePacket ==
    ASSUME NEW b \in Seq(Char), b # <<>>
    PROVE  /\ Incomplete(b) \/ TextAhead(b) \/ Dropped(b) \/ Csi(b) # {} \/ Links(b) # {}
           /\ Incomplete(b) => ~TextAhead(b) /\ ~Dropped(b) /\ Csi(b) = {} /\ Links(b) = {}
           /\ TextAhead(b) => ~Dropped(b) /\ Csi(b) = {} /\ Links(b) = {}
           /\ Dropped(b) => Csi(b) = {} /\ Links(b) = {}
           /\ Csi(b) = {} \/ Links(b) = {}
           /\ \A m, n \in DOMAIN b : Text(b, m) /\ Text(b, n) => m = n
           /\ \A m, n \in Csi(b) : m = n
           /\ \A x, y \in Links(b) : x = y
<1>1. TextAhead(b) <=> b[1] # ESC
  BY TextUpToEsc
<1>2. Dropped(b) => b[1] = ESC /\ Csi(b) = {} /\ Links(b) = {}
  BY DEF Dropped
<1>3. Csi(b) # {} => Starts(b, "[")
  BY DEF Csi
<1>4. Links(b) # {} => Starts(b, "]")
  BY DEF Links, IsLinkStart
<1>5. \A c : Starts(b, c) => b[1] = ESC
  BY DEF Starts
<1>6. ~(Starts(b, "[") /\ Starts(b, "]"))
  BY DEF Starts
<1>7. b[1] = ESC => Incomplete(b) \/ Dropped(b) \/ Csi(b) # {} \/ Links(b) # {}
  BY DEF Dropped
<1>8. Incomplete(b) => b[1] = ESC /\ ~Dropped(b) /\ Csi(b) = {} /\ Links(b) = {}
  BY IncompleteApart
<1>9. \A m, n \in DOMAIN b : Text(b, m) /\ Text(b, n) => m = n
  <2> SUFFICES ASSUME NEW m \in DOMAIN b, NEW n \in DOMAIN b, Text(b, m), Text(b, n)
               PROVE  m = n
    OBVIOUS
  <2>1. ~(m < n) /\ ~(n < m)
    BY TextEnd
  <2>2. m \in Nat /\ n \in Nat
    BY Nonempty
  <2> QED BY <2>1, <2>2
<1>10. \A m, n \in Csi(b) : m = n
  <2> SUFFICES ASSUME NEW m \in Csi(b), NEW n \in Csi(b)  PROVE m = n
    OBVIOUS
  <2>1. ~(m < n) /\ ~(n < m)
    BY CsiEnd
  <2>2. m \in 3..Len(b) /\ n \in 3..Len(b) /\ Len(b) \in Nat
    BY LenProperties DEF Csi
  <2> QED BY <2>1, <2>2
<1>11. \A x, y \in Links(b) : x = y
  BY OneLink
<1>12. TextAhead(b) => ~Dropped(b) /\ Csi(b) = {} /\ Links(b) = {}
  BY <1>1, <1>2, <1>3, <1>4, <1>5
<1>13. Csi(b) = {} \/ Links(b) = {}
  BY <1>3, <1>4, <1>6
<1> QED BY <1>1, <1>2, <1>7, <1>8, <1>9, <1>10, <1>11, <1>12, <1>13

-----------------------------------------------------------------------------
(* What more input does to a packet.                                       *)

(* The input c begins with b.                                              *)
Begins(b, c) == Len(b) =< Len(c) /\ \A i \in 1..Len(b) : c[i] = b[i]

LEMMA StartsStay ==
    ASSUME NEW b \in Seq(Char), NEW c \in Seq(Char), Begins(b, c), Len(b) >= 2, NEW x
    PROVE  Starts(c, x) <=> Starts(b, x)
<1>1. Len(b) \in Nat /\ Len(c) \in Nat /\ Len(b) =< Len(c)
  BY LenProperties DEF Begins
<1>2. 1 \in 1..Len(b) /\ 2 \in 1..Len(b) /\ Len(c) >= 2
  BY <1>1
<1>3. c[1] = b[1] /\ c[2] = b[2]
  BY <1>2 DEF Begins
<1> QED BY <1>2, <1>3 DEF Starts

(* Whether a control sequence ends at n is seen from what is before n.     *)
LEMMA LegalStays ==
    ASSUME NEW b \in Seq(Char), NEW c \in Seq(Char), Begins(b, c), NEW n \in 3..Len(b)
    PROVE  LegalCsi(c, n) <=> LegalCsi(b, n)
<1>1. Len(b) \in Nat /\ \A i \in 1..Len(b) : c[i] = b[i]
  BY LenProperties DEF Begins
<1>2. c[n] = b[n] /\ c[n - 1] = b[n - 1] /\ c[3] = b[3]
  <2>1. n \in 1..Len(b) /\ n - 1 \in 1..Len(b) /\ 3 \in 1..Len(b)
    BY <1>1
  <2> QED BY <1>1, <2>1
<1>3. ASSUME NEW p \in {2, 3}, NEW q \in {n - 2, n - 1}
      PROVE  \A i \in p+1..q : c[i] = b[i]
  <2>1. \A i \in p+1..q : i \in 1..Len(b)
    BY <1>1
  <2> QED BY <1>1, <2>1
<1> QED BY <1>2, <1>3 DEF LegalCsi

LEMMA CsiStays ==
    ASSUME NEW b \in Seq(Char), NEW c \in Seq(Char), Begins(b, c), Csi(b) # {}
    PROVE  Csi(c) = Csi(b)
<1>1. Len(b) \in Nat /\ Len(c) \in Nat /\ Len(b) =< Len(c)
  BY LenProperties DEF Begins
<1>2. Starts(b, "[")
  BY DEF Csi
<1>3. Len(b) >= 2
  BY <1>2 DEF Starts
<1>4. Starts(c, "[")
  BY <1>2, <1>3, StartsStay
<1>5. \A n \in Csi(b) : n \in 3..Len(b) /\ n \in 3..Len(c) /\ LegalCsi(c, n)
  <2> SUFFICES ASSUME NEW n \in Csi(b)  PROVE n \in 3..Len(b) /\ n \in 3..Len(c) /\ LegalCsi(c, n)
    OBVIOUS
  <2>1. n \in 3..Len(b) /\ LegalCsi(b, n)
    BY DEF Csi
  <2> QED BY <1>1, <2>1, LegalStays
<1>6. Csi(b) \subseteq Csi(c)
  BY <1>4, <1>5 DEF Csi
<1>7. \A m, n \in Csi(c) : m = n
  <2> SUFFICES ASSUME NEW m \in Csi(c), NEW n \in Csi(c)  PROVE m = n
    OBVIOUS
  <2>1. ~(m < n) /\ ~(n < m)
    BY CsiEnd
  <2>2. m \in 3..Len(c) /\ n \in 3..Len(c)
    BY DEF Csi
  <2> QED BY <1>1, <2>1, <2>2
<1> QED BY <1>6, <1>7

LEMMA ControlApart ==
    \A x \in Control \cup {":"} : x \notin Param /\ x \notin Private /\ x \notin Intermediate
<1> QED BY DEF Control, ESC, BEL, Param, Digit, Private, Intermediate

(* An illegal control sequence does not become legal.                      *)
LEMMA IllegalStays ==
    ASSUME NEW b \in Seq(Char), NEW c \in Seq(Char), Begins(b, c), IllegalCsi(b), Csi(b) = {}
    PROVE  IllegalCsi(c) /\ (Starts(b, "[") => Csi(c) = {})
<1>1. Len(b) \in Nat /\ Len(c) \in Nat /\ Len(b) =< Len(c) /\ \A i \in 1..Len(b) : c[i] = b[i]
  BY LenProperties DEF Begins
<1>2. PICK s \in 1..Len(b) - 2 :
        /\ b[s] = ESC /\ b[s + 1] = "["
        /\ \E n \in s+2..Len(b) :
              /\ b[n] \in Control \cup {":"}
              /\ \A i \in s+2..n-1 : b[i] \in Printable
  BY DEF IllegalCsi
<1>3. PICK n \in s+2..Len(b) :
        /\ b[n] \in Control \cup {":"}
        /\ \A i \in s+2..n-1 : b[i] \in Printable
  BY <1>2
<1>4. /\ s \in 1..Len(c) - 2 /\ n \in s+2..Len(c) /\ n \in 3..Len(b)
      /\ s \in 1..Len(b) /\ s + 1 \in 1..Len(b) /\ n \in 1..Len(b)
      /\ \A i \in s+2..n-1 : i \in 1..Len(b)
  BY <1>1
<1>5. c[s] = ESC /\ c[s + 1] = "["
  BY <1>1, <1>2, <1>4
<1>6. c[n] \in Control \cup {":"} /\ \A i \in s+2..n-1 : c[i] \in Printable
  BY <1>1, <1>3, <1>4
<1>7. IllegalCsi(c)
  BY <1>4, <1>5, <1>6 DEF IllegalCsi
<1>8. ASSUME Starts(b, "["), NEW m \in Csi(c)  PROVE FALSE
  <2>1. m \in 3..Len(c) /\ LegalCsi(c, m)
    BY DEF Csi
  <2>2. CASE m =< Len(b)
    <3>1. m \in 3..Len(b)
      BY <1>1, <2>1, <2>2
    <3>2. m \in Csi(b)
      BY <1>8, <2>1, <3>1, LegalStays DEF Csi
    <3> QED BY <3>2
  <2>3. CASE m > Len(b)
    <3>1. PICK p \in {2, 3}, q \in {m - 2, m - 1} :
            /\ p = 3 => c[3] \in Private
            /\ \A i \in p+1..q : c[i] \in Param
            /\ q = m - 2 => c[m - 1] \in Intermediate
      BY <2>1 DEF LegalCsi
    <3>2. (n = 3 /\ p = 3) \/ n \in p+1..q \/ (q = m - 2 /\ n = m - 1)
      BY <1>1, <1>4, <2>1, <2>3
    <3>3. c[n] \in Private \/ c[n] \in Param \/ c[n] \in Intermediate
      BY <3>1, <3>2
    <3> QED BY <1>6, <3>3, ControlApart
  <2> QED BY <1>1, <2>1, <2>2, <2>3
<1> QED BY <1>7, <1>8

(* A stop stays one, of the same kind, and what is none before the last    *)
(* character stays none.                                                   *)
LEMMA StopStays ==
    ASSUME NEW b \in Seq(Char), NEW c \in Seq(Char), Begins(b, c), NEW i \in 1..Len(b)
    PROVE  /\ After(c, i) = After(b, i)
           /\ StopAt(b, i) => StopAt(c, i) /\ (Terminator(c, i) <=> Terminator(b, i))
           /\ i < Len(b) => (StopAt(c, i) <=> StopAt(b, i))
<1>1. Len(b) \in Nat /\ Len(c) \in Nat /\ Len(b) =< Len(c) /\ \A x \in 1..Len(b) : c[x] = b[x]
  BY LenProperties DEF Begins
<1>2. c[i] = b[i]
  BY <1>1
<1>3. ASSUME i < Len(b)  PROVE i < Len(c) /\ c[i + 1] = b[i + 1]
  <2>1. i + 1 \in 1..Len(b) /\ i < Len(c)
    BY <1>1, <1>3
  <2> QED BY <1>1, <2>1
<1>4. ASSUME i < Len(b)  PROVE Terminator(c, i) <=> Terminator(b, i)
  BY <1>2, <1>3, <1>4 DEF Terminator
<1>5. ASSUME i < Len(b)  PROVE StopAt(c, i) <=> StopAt(b, i)
  BY <1>2, <1>4, <1>5 DEF StopAt
<1>6. ASSUME ~(i < Len(b)), StopAt(b, i)
      PROVE  StopAt(c, i) /\ (Terminator(c, i) <=> Terminator(b, i))
  <2>1. b[i] = BEL \/ b[i] \in Control \ {ESC, BEL}
    BY <1>6 DEF StopAt, Terminator
  <2>2. b[i] # ESC
    BY <2>1 DEF ESC, BEL
  <2> QED BY <1>2, <2>1, <2>2 DEF StopAt, Terminator
<1>7. After(c, i) = After(b, i)
  BY <1>2 DEF After
<1> QED BY <1>4, <1>5, <1>6, <1>7

LEMMA FirstStopStays ==
    ASSUME NEW b \in Seq(Char), NEW c \in Seq(Char), Begins(b, c), NEW from \in Nat \ {0},
           FirstStop(b, from) # {}
    PROVE  FirstStop(c, from) = FirstStop(b, from)
<1>1. Len(b) \in Nat /\ Len(c) \in Nat /\ Len(b) =< Len(c)
  BY LenProperties DEF Begins
<1>2. ASSUME NEW i \in FirstStop(b, from)  PROVE i \in FirstStop(c, from)
  <2>1. i \in from..Len(b) /\ StopAt(b, i) /\ \A j \in from..i-1 : ~StopAt(b, j)
    BY <1>2 DEF FirstStop
  <2>2. i \in 1..Len(b) /\ i \in from..Len(c) /\ \A j \in from..i-1 : j \in 1..Len(b) /\ j < Len(b)
    BY <1>1, <2>1
  <2>3. StopAt(c, i)
    BY <2>1, <2>2, StopStays
  <2>4. \A j \in from..i-1 : ~StopAt(c, j)
    BY <2>1, <2>2, StopStays
  <2> QED BY <2>2, <2>3, <2>4 DEF FirstStop
<1>3. \A m, n \in FirstStop(c, from) : m = n
  BY OneFirstStop
<1> QED BY <1>2, <1>3

LEMMA SecondStopStays ==
    ASSUME NEW b \in Seq(Char), NEW c \in Seq(Char), Begins(b, c), SecondStop(b) # {}
    PROVE  SecondStop(c) = SecondStop(b) /\ FirstStop(c, 1) = FirstStop(b, 1)
<1>1. PICK h \in FirstStop(b, 1) : FirstStop(b, After(b, h)) # {}
  BY DEF SecondStop
<1>2. FirstStop(c, 1) = FirstStop(b, 1)
  BY <1>1, FirstStopStays
<1>3. \A i \in FirstStop(b, 1) : i = h
  BY OneFirstStop
<1>4. h \in 1..Len(b) /\ Len(b) \in Nat
  BY LenProperties DEF FirstStop
<1>5. After(c, h) = After(b, h)
  BY <1>4, StopStays
<1>6. After(b, h) \in Nat \ {0}
  <2>1. After(b, h) = h + 1 \/ After(b, h) = h + 2
    BY DEF After
  <2> QED BY <1>4, <2>1
<1>7. FirstStop(c, After(c, h)) = FirstStop(b, After(b, h))
  BY <1>1, <1>5, <1>6, FirstStopStays
<1>8. SecondStop(b) = FirstStop(b, After(b, h)) /\ SecondStop(c) = FirstStop(c, After(c, h))
  BY <1>1, <1>2, <1>3 DEF SecondStop
<1> QED BY <1>2, <1>7, <1>8

LEMMA PartStays ==
    ASSUME NEW b \in Seq(Char), NEW c \in Seq(Char), Begins(b, c),
           NEW m \in Nat \ {0}, NEW n \in Nat, n =< Len(b)
    PROVE  SubSeq(c, m, n) = SubSeq(b, m, n)
<1>1. Len(b) \in Nat /\ Len(c) \in Nat /\ Len(b) =< Len(c) /\ \A x \in 1..Len(b) : c[x] = b[x]
  BY LenProperties DEF Begins
<1>2. n =< Len(c) /\ n \in Int
  BY <1>1
<1>3. /\ SubSeq(b, m, n) \in Seq(Char) /\ SubSeq(c, m, n) \in Seq(Char)
      /\ Len(SubSeq(b, m, n)) = Len(SubSeq(c, m, n))
      /\ Len(SubSeq(b, m, n)) = IF m =< n THEN n - m + 1 ELSE 0
      /\ \A i \in 1..n - m + 1 : SubSeq(b, m, n)[i] = b[m + i - 1] /\ SubSeq(c, m, n)[i] = c[m + i - 1]
  BY <1>2, PartType
<1>4. \A i \in 1..n - m + 1 : m + i - 1 \in 1..Len(b)
  BY <1>1
<1>5. \A i \in 1..n - m + 1 : SubSeq(b, m, n)[i] = SubSeq(c, m, n)[i]
  BY <1>1, <1>3, <1>4
<1> DEFINE s == SubSeq(b, m, n)
           t == SubSeq(c, m, n)
<1>6. s \in Seq(Char) /\ t \in Seq(Char) /\ Len(s) = Len(t)
  BY <1>3
<1>7. \A i \in 1..Len(s) : s[i] = t[i]
  BY <1>3, <1>5
<1> HIDE DEF s, t
<1>8. s = t
  BY <1>6, <1>7, SeqEqual
<1> QED BY <1>8 DEF s, t

LEMMA LinkStays ==
    ASSUME NEW b \in Seq(Char), NEW c \in Seq(Char), Begins(b, c),
           NEW k \in Nat, k >= 5, NEW i \in 1..Len(b), NEW j \in 1..Len(b),
           StopAt(b, i), StopAt(b, j)
    PROVE  Link(c, k, i, j) <=> Link(b, k, i, j)
<1>1. Len(b) \in Nat /\ \A x \in 1..Len(b) : c[x] = b[x]
  BY LenProperties DEF Begins
<1>2. /\ Terminator(c, i) <=> Terminator(b, i)
      /\ Terminator(c, j) <=> Terminator(b, j)
      /\ After(c, i) = After(b, i)
  BY StopStays
<1> DEFINE from == After(b, i)
<1>3. from \in Nat \ {0}
  <2>1. After(b, i) = i + 1 \/ After(b, i) = i + 2
    BY DEF After
  <2> QED BY <1>1, <2>1
<1>4. CASE k < i /\ from =< j - 6
  <2> HIDE DEF from
  <2>1. k \in 1..Len(b) /\ j - 5 \in Nat \ {0} /\ j - 1 \in Nat /\ j - 1 =< Len(b)
    BY <1>1, <1>3, <1>4
  <2>2. /\ \A x \in 5..k-1 : x \in 1..Len(b)
        /\ \A x \in k+1..i-1 : x \in 1..Len(b)
        /\ \A x \in from..j-6 : x \in 1..Len(b)
    BY <1>1, <1>3, <1>4
  <2>3. SubSeq(c, j - 5, j - 1) = SubSeq(b, j - 5, j - 1)
    BY <2>1, PartStays
  <2>4. c[k] = b[k]
    BY <1>1, <2>1
  <2>5. /\ (\A x \in 5..k-1 : c[x] \in Printable \ {";"}) <=> (\A x \in 5..k-1 : b[x] \in Printable \ {";"})
        /\ (\A x \in k+1..i-1 : c[x] \in Printable \ {" "}) <=> (\A x \in k+1..i-1 : b[x] \in Printable \ {" "})
        /\ (\A x \in from..j-6 : c[x] \in Printable \ {" "}) <=> (\A x \in from..j-6 : b[x] \in Printable \ {" "})
    BY <1>1, <2>2
  <2> QED BY <1>2, <2>3, <2>4, <2>5 DEF Link, from
<1>5. CASE ~(k < i) \/ ~(from =< j - 6)
  BY <1>2, <1>5 DEF Link
<1> QED BY <1>4, <1>5

LEMMA LinksStay ==
    ASSUME NEW b \in Seq(Char), NEW c \in Seq(Char), Begins(b, c),
           IsLinkStart(b), IsLinkStart(c), SecondStop(b) # {}
    PROVE  Links(c) = Links(b)
<1>1. SecondStop(c) = SecondStop(b) /\ FirstStop(c, 1) = FirstStop(b, 1)
  BY SecondStopStays
<1>2. Len(b) \in Nat /\ Len(c) \in Nat /\ Len(b) =< Len(c)
  BY LenProperties DEF Begins
<1>3. \A i \in FirstStop(b, 1) : i \in 1..Len(b) /\ StopAt(b, i)
  BY DEF FirstStop
<1>4. \A j \in SecondStop(b) : j \in 1..Len(b) /\ StopAt(b, j)
  <2> SUFFICES ASSUME NEW j \in SecondStop(b)  PROVE j \in 1..Len(b) /\ StopAt(b, j)
    OBVIOUS
  <2>1. PICK h \in FirstStop(b, 1) : j \in FirstStop(b, After(b, h))
    BY DEF SecondStop
  <2>2. h \in 1..Len(b) /\ j \in After(b, h)..Len(b) /\ StopAt(b, j)
    BY <1>3, <2>1 DEF FirstStop
  <2>3. After(b, h) = h + 1 \/ After(b, h) = h + 2
    BY DEF After
  <2> QED BY <1>2, <2>2, <2>3
<1>5. ASSUME NEW k, NEW i \in FirstStop(b, 1), NEW j \in SecondStop(b)
      PROVE  (k \in 5..Len(c) /\ Link(c, k, i, j)) <=> (k \in 5..Len(b) /\ Link(b, k, i, j))
  <2>1. i \in 1..Len(b) /\ StopAt(b, i) /\ j \in 1..Len(b) /\ StopAt(b, j)
    BY <1>3, <1>4
  <2>2. Link(c, k, i, j) => k < i
    BY DEF Link
  <2>3. k \in 5..Len(c) => k \in Nat /\ k >= 5
    BY <1>2
  <2>4. k \in 5..Len(b) => k \in 5..Len(c)
    BY <1>2
  <2>5. k \in 5..Len(c) => (Link(c, k, i, j) <=> Link(b, k, i, j))
    BY <2>1, <2>3, LinkStays
  <2>6. k \in 5..Len(c) /\ k < i => k \in 5..Len(b)
    BY <1>2, <2>1
  <2> QED BY <2>2, <2>4, <2>5, <2>6
<1>6. Links(c) = {m \in (5..Len(c)) \X FirstStop(b, 1) \X SecondStop(b) : Link(c, m[1], m[2], m[3])}
  BY <1>1 DEF Links
<1>7. Links(b) = {m \in (5..Len(b)) \X FirstStop(b, 1) \X SecondStop(b) : Link(b, m[1], m[2], m[3])}
  BY DEF Links
<1>8. ASSUME NEW m \in Links(c)  PROVE m \in Links(b)
  <2>1. /\ m = <<m[1], m[2], m[3]>> /\ m[1] \in 5..Len(c)
        /\ m[2] \in FirstStop(b, 1) /\ m[3] \in SecondStop(b) /\ Link(c, m[1], m[2], m[3])
    BY <1>6, <1>8
  <2>2. m[1] \in 5..Len(b) /\ Link(b, m[1], m[2], m[3])
    BY <1>5, <2>1
  <2> QED BY <1>7, <2>1, <2>2
<1>9. ASSUME NEW m \in Links(b)  PROVE m \in Links(c)
  <2>1. /\ m = <<m[1], m[2], m[3]>> /\ m[1] \in 5..Len(b)
        /\ m[2] \in FirstStop(b, 1) /\ m[3] \in SecondStop(b) /\ Link(b, m[1], m[2], m[3])
    BY <1>7, <1>9
  <2>2. m[1] \in 5..Len(c) /\ Link(c, m[1], m[2], m[3])
    BY <1>5, <2>1
  <2> QED BY <1>6, <2>1, <2>2
<1> QED BY <1>8, <1>9

LEMMA LinkStartStays ==
    ASSUME NEW b \in Seq(Char), NEW c \in Seq(Char), Begins(b, c), Len(b) >= 4
    PROVE  IsLinkStart(c) <=> IsLinkStart(b)
<1>1. Len(b) \in Nat /\ Len(c) \in Nat /\ Len(b) =< Len(c)
  BY LenProperties DEF Begins
<1>2. Len(c) >= 4 /\ Len(b) >= 2 /\ 3 \in 1..Len(b) /\ 4 \in 1..Len(b)
  BY <1>1
<1>3. c[3] = b[3] /\ c[4] = b[4]
  BY <1>2 DEF Begins
<1>4. Starts(c, "]") <=> Starts(b, "]")
  BY <1>2, StartsStay
<1> QED BY <1>2, <1>3, <1>4 DEF IsLinkStart

(* Once the converter can tell what an escape sequence is, more input does *)
(* not change it: the same control sequence, the same link, or the same    *)
(* dropped ESC.  A cut between two lines is seen at a sequence that is     *)
(* held back for it and nowhere else.  (ansi_up.js, get_next_packet.)      *)
THEOREM DecidedPacketsStay ==
    ASSUME NEW b \in Seq(Char), NEW t \in Seq(Char), b # <<>>, b[1] = ESC, ~Incomplete(b)
    PROVE  /\ ~Incomplete(b \o t)
           /\ Csi(b \o t) = Csi(b)
           /\ Links(b \o t) = Links(b)
           /\ Dropped(b \o t) <=> Dropped(b)
<1> DEFINE c == b \o t
<1>1. /\ c \in Seq(Char) /\ Len(c) = Len(b) + Len(t) /\ Len(b) \in Nat /\ Len(t) \in Nat
      /\ \A i \in 1..Len(b) : c[i] = b[i]
  BY ConcatProperties, LenProperties
<1> HIDE DEF c
<1>2. Begins(b, c)
  BY <1>1 DEF Begins
<1>3. Len(b) >= 2
  <2>1. Len(b) >= 1
    BY Nonempty
  <2>2. ASSUME Len(b) = 1  PROVE FALSE
    <3>1. ESC \in Char
      BY DEF Char, Control
    <3>2. <<ESC>> \in Seq(Char) /\ Len(<<ESC>>) = 1 /\ <<ESC>>[1] = ESC
      BY <3>1
    <3>3. \A i \in 1..Len(b) : b[i] = <<ESC>>[i]
      BY <2>2, <3>2
    <3>4. b = <<ESC>>
      BY <2>2, <3>2, <3>3, SeqEqual
    <3> QED BY <3>4 DEF Incomplete
  <2>3. Len(b) # 1
    BY <2>2
  <2>4. \A n \in Nat : n >= 1 /\ n # 1 => n >= 2
    OBVIOUS
  <2>5. Len(b) \in Nat
    BY <1>1
  <2> QED BY <2>1, <2>3, <2>4, <2>5
<1>4. c # <<>> /\ c # <<ESC>> /\ c[1] = ESC
  <2>1. Len(c) >= 2
    BY <1>1, <1>3
  <2>2. 1 \in 1..Len(b)
    BY <1>1, <1>3
  <2>3. Len(<<>>) = 0 /\ Len(<<ESC>>) = 1
    OBVIOUS
  <2>4. Len(c) # Len(<<>>)
    BY <1>1, <2>1, <2>3
  <2>5. Len(c) # Len(<<ESC>>)
    BY <1>1, <2>1, <2>3
  <2>6. c # <<>> /\ c # <<ESC>>
    BY <2>4, <2>5, Zenon
  <2> QED BY <1>1, <2>2, <2>6
<1>5. \A x : Starts(c, x) <=> Starts(b, x)
  BY <1>1, <1>2, <1>3, StartsStay
<1>6. ~Incomplete(c) /\ Csi(c) = Csi(b) /\ Links(c) = Links(b)
  <2>1. CASE Starts(b, "[")
    <3>1. ~Starts(b, "]") /\ ~Starts(c, "]") /\ Starts(c, "[")
      BY <1>5, <2>1 DEF Starts
    <3>2. Links(b) = {} /\ Links(c) = {}
      BY <3>1 DEF Links, IsLinkStart
    <3>3. Csi(b) # {} \/ IllegalCsi(b)
      BY <2>1 DEF Incomplete
    <3>4. Csi(c) = Csi(b) /\ (Csi(c) # {} \/ IllegalCsi(c))
      BY <1>1, <1>2, <2>1, <3>3, CsiStays, IllegalStays
    <3>5. ~Incomplete(c)
      BY <1>4, <3>1, <3>4 DEF Incomplete, IsLinkStart
    <3> QED BY <3>2, <3>4, <3>5
  <2>2. CASE Starts(b, "]")
    <3>1. Starts(c, "]") /\ ~Starts(b, "[") /\ ~Starts(c, "[")
      BY <1>5, <2>2 DEF Starts
    <3>2. Csi(b) = {} /\ Csi(c) = {}
      BY <3>1 DEF Csi
    <3>3. ~(Len(b) < 4)
      BY <2>2 DEF Incomplete
    <3>4. Len(b) >= 4 /\ ~(Len(c) < 4)
      BY <1>1, <3>3
    <3>5. IsLinkStart(c) <=> IsLinkStart(b)
      BY <1>1, <1>2, <3>4, LinkStartStays
    <3>6. CASE ~IsLinkStart(b)
      <4>1. Links(b) = {} /\ Links(c) = {}
        BY <3>5, <3>6 DEF Links
      <4>2. ~Incomplete(c)
        BY <1>4, <3>1, <3>4, <3>5, <3>6 DEF Incomplete
      <4> QED BY <3>2, <4>1, <4>2
    <3>7. CASE IsLinkStart(b) /\ SecondStop(b) # {}
      <4>1. Links(c) = Links(b) /\ SecondStop(c) # {}
        BY <1>1, <1>2, <3>5, <3>7, LinksStay, SecondStopStays
      <4>2. ~Incomplete(c)
        BY <1>4, <3>1, <3>4, <4>1 DEF Incomplete
      <4> QED BY <3>2, <4>1, <4>2
    <3>8. CASE IsLinkStart(b) /\ \E i \in FirstStop(b, 1) : ~Terminator(b, i)
      <4>1. PICK i \in FirstStop(b, 1) : ~Terminator(b, i)
        BY <3>8
      <4>2. FirstStop(c, 1) = FirstStop(b, 1)
        BY <1>1, <1>2, <4>1, FirstStopStays
      <4>3. i \in 1..Len(b) /\ StopAt(b, i)
        BY DEF FirstStop
      <4>4. ~Terminator(c, i)
        BY <1>1, <1>2, <4>1, <4>3, StopStays
      <4>5. \A h \in FirstStop(b, 1) : h = i
        BY OneFirstStop
      <4>6. Links(b) = {} /\ Links(c) = {}
        BY <4>1, <4>2, <4>4, <4>5 DEF Links, Link
      <4>7. ~Incomplete(c)
        BY <1>4, <3>1, <3>4, <4>2, <4>4 DEF Incomplete
      <4> QED BY <3>2, <4>6, <4>7
    <3> QED BY <3>6, <3>7, <3>8 DEF Incomplete
  <2>3. CASE ~Starts(b, "[") /\ ~Starts(b, "]")
    <3>1. ~Starts(c, "[") /\ ~Starts(c, "]")
      BY <1>5, <2>3
    <3> QED BY <1>4, <2>3, <3>1 DEF Csi, Links, IsLinkStart, Incomplete
  <2> QED BY <2>1, <2>2, <2>3
<1>7. Dropped(c) <=> Dropped(b)
  BY <1>4, <1>6 DEF Dropped
<1> QED BY <1>6, <1>7 DEF c

-----------------------------------------------------------------------------
(* The converter can always go on with a line it has begun: what is left   *)
(* is one of the packets, or the end.                                      *)
ConverterGoesOn ==
    conv = "packet" =>
        \/ AtEnd
        \/ TextAhead(buffer) \/ Dropped(buffer) \/ Csi(buffer) # {} \/ Links(buffer) # {}

-----------------------------------------------------------------------------
(* The server, the wire, the page and its converter keep their types.       *)
THEOREM LogType == LogSpec => []LogTypeOK
<1>1. LogInv => LogTypeOK
  BY DEF LogInv
<1> QED BY <1>1, LogInvAlways, PTL

(* Each message of the page's project gives exactly one paragraph of its   *)
(* log box (log.js, the handler of "ReceiveLog").                          *)
THEOREM OneParagraphAlways == LogSpec => []OneParagraphEach
<1>1. LogInv => OneParagraphEach
  BY DEF LogInv
<1> QED BY <1>1, LogInvAlways, PTL

(* Every step of the converter takes characters off the buffer, or commands *)
(* off the SGR sequence it is in, or ends that sequence: the pair of their  *)
(* lengths is a variant of the two loops of ansi_to_html, whatever a        *)
(* process writes.                                                          *)
THEOREM ConverterAdvances == LogSpec => [][Convert => Advance]_logVars
<1>1. LogInv /\ Convert => Advance
  BY ConvertInv
<1>2. LogInv /\ [LogNext]_logVars => [Convert => Advance]_logVars
  BY <1>1
<1> QED BY <1>2, LogInvAlways, PTL DEF LogSpec

(* It never meets a buffer for which get_next_packet knows no packet.      *)
THEOREM ConverterNeverStuck == LogSpec => []ConverterGoesOn
<1>1. LogInv => ConverterGoesOn
  <2> SUFFICES ASSUME LogInv, conv = "packet", buffer # <<>>, ~Incomplete(buffer)
               PROVE  TextAhead(buffer) \/ Dropped(buffer) \/ Csi(buffer) # {} \/ Links(buffer) # {}
    BY DEF ConverterGoesOn, AtEnd
  <2>1. buffer \in Seq(Char)
    BY DEF LogInv, LogTypeOK, AnsiTypeOK
  <2> QED BY <2>1, OnePacket
<1> QED BY <1>1, LogInvAlways, PTL
=============================================================================
