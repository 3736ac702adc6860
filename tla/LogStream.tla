------------------------------ MODULE LogStream ------------------------------
(***************************************************************************)
(* The way of a line of output from a child process to the log page.       *)
(*                                                                         *)
(* Each output stream of a node or miner is read line by line; the end of  *)
(* the stream is read as a null line (CommandProcess.HandleOutput).  The   *)
(* line goes through the events of ProcessGroup and ProcessManager to      *)
(* Program.OnNodeLogReceived, which sends it to every page over SignalR.   *)
(* The page, log.js, takes the lines of its own project, converts each     *)
(* with the one AnsiUp object it has, and adds a paragraph for it.         *)
(*                                                                         *)
(* Stop waits for the end of the streams before it detaches the events, so *)
(* a running process is always attached.  A page in another window has a   *)
(* connection and a converter of its own: one is modelled.                 *)
(***************************************************************************)
EXTENDS AnsiUp

CONSTANTS
    Stream,        \* the output streams of the child processes
    ProjectOf,     \* the project of each
    PageProject,   \* the project the page was loaded for, its #project-id
    Lines,         \* the lines each can write
    MaxLines       \* bound on the lines read from all streams

ASSUME LogAssumption ==
    /\ PageProject \in {ProjectOf[s] : s \in Stream}
    /\ \A s \in Stream : Lines[s] \subseteq Seq(Char)
    /\ MaxLines \in Nat

VARIABLES
    running,      \* streams whose process runs
    lines,        \* lines read so far
    conn,         \* the page's connection: "starting", "open", "closed"
    wire,         \* messages on their way to the page
    box,          \* paragraphs of the log box
    sent,         \* history: messages of PageProject sent to the page since it was loaded
    heard         \* history: what the page has converted since it was loaded

serverVars == <<running, lines>>
pageVars == <<box, heard, ansiVars>>
logVars == <<running, lines, conn, wire, box, sent, heard, ansiVars>>

(* How the page reads e.Data = null: it adds null to a string.             *)
NullText == <<"n", "u", "l", "l">>

Line == UNION {Lines[s] : s \in Stream}
Message == [id : {ProjectOf[s] : s \in Stream}, log : Line \cup {NullText}]

-----------------------------------------------------------------------------
(* The server.                                                             *)

(* Clients.All.SendAsync("ReceiveLog", e.ID, e.Log): to the pages that are *)
(* connected at the moment.                                                *)
Send(s, txt) ==
    /\ lines < MaxLines
    /\ lines' = lines + 1
    /\ wire' = IF conn = "open" THEN Append(wire, [id |-> ProjectOf[s], log |-> txt]) ELSE wire
    /\ sent' = IF conn = "open" /\ ProjectOf[s] = PageProject THEN sent + 1 ELSE sent
    /\ UNCHANGED <<conn, pageVars>>

StartProcess(s) ==
    /\ s \notin running
    /\ running' = running \cup {s}
    /\ UNCHANGED <<lines, conn, wire, sent, pageVars>>

WriteLine(s) ==
    \E l \in Lines[s] :
        /\ s \in running
        /\ Send(s, l)
        /\ UNCHANGED running

(* The process exits or is killed: the reader gets null.                   *)
EndOfStream(s) ==
    /\ s \in running
    /\ running' = running \ {s}
    /\ Send(s, NullText)

-----------------------------------------------------------------------------
(* The page.                                                               *)

(* The page is loaded, or loaded again.  It has a log box only if its      *)
(* chain runs.                                                             *)
LoadPage ==
    /\ \E s \in running : ProjectOf[s] = PageProject
    /\ conv = "idle"
    /\ buffer' = <<>> /\ style' = NoStyle /\ cmds' = <<>> /\ blocks' = <<>> /\ conv' = "idle"
    /\ conn' = "starting"
    /\ wire' = <<>>
    /\ box' = <<>>
    /\ heard' = <<>>
    /\ sent' = 0
    /\ UNCHANGED serverVars

(* connection.start(): it succeeds, or the error is written to the console *)
(* and that is all.                                                        *)
ConnectionStarts ==
    /\ conn = "starting"
    /\ conn' \in {"open", "closed"}
    /\ UNCHANGED <<serverVars, wire, sent, pageVars>>

(* Without withAutomaticReconnect the page stays without connection.       *)
ConnectionLost ==
    /\ conn = "open"
    /\ conn' = "closed"
    /\ \E n \in 0..Len(wire) : wire' = SubSeq(wire, 1, n)
    /\ UNCHANGED <<serverVars, sent, pageVars>>

(* Mutant: lines are converted before the project is compared.             *)
ReceiveLogOfAll ==
    LET m == Head(wire) IN
    /\ wire # <<>>
    /\ wire' = Tail(wire)
    /\ AppendBuffer(m.log)
    /\ heard' = IF m.id = PageProject THEN Append(heard, m.log) ELSE heard
    /\ UNCHANGED <<serverVars, conn, sent, box>>

(* The handler of "ReceiveLog", up to the call of ansi_to_html.  Messages  *)
(* are handled one after the other, and other events have to wait.         *)
ReceiveLog ==
    LET m == Head(wire) IN
    /\ wire # <<>>
    /\ conv = "idle"
    /\ wire' = Tail(wire)
    /\ \/ /\ m.id = PageProject
          /\ AppendBuffer(m.log)
          /\ heard' = Append(heard, m.log)
       \/ /\ m.id # PageProject
          /\ UNCHANGED <<ansiVars, heard>>
    /\ UNCHANGED <<serverVars, conn, sent, box>>

Convert == AnsiStep /\ UNCHANGED <<serverVars, conn, wire, sent, box, heard>>

(* Mutant: no paragraph for a line of which nothing is shown yet.          *)
AddParagraphIfAny ==
    /\ AnsiEnd
    /\ box' = IF blocks = <<>> THEN box ELSE Append(box, blocks)
    /\ UNCHANGED <<serverVars, conn, wire, sent, heard>>

AddParagraph ==
    /\ AnsiEnd
    /\ box' = Append(box, blocks)
    /\ UNCHANGED <<serverVars, conn, wire, sent, heard>>

-----------------------------------------------------------------------------
LogInit ==
    /\ FreshAnsi
    /\ running = {}
    /\ lines = 0
    /\ conn = "closed"
    /\ wire = <<>>
    /\ box = <<>>
    /\ sent = 0
    /\ heard = <<>>

LogNext ==
    \/ \E s \in Stream : StartProcess(s) \/ WriteLine(s) \/ EndOfStream(s)
    \/ LoadPage \/ ConnectionStarts \/ ConnectionLost
    \/ ReceiveLog \/ Convert \/ AddParagraph

LogSpec == LogInit /\ [][LogNext]_logVars

(* The browser's event loop goes on with what it has begun and takes the   *)
(* messages that have arrived.  Nothing is assumed of processes, users and *)
(* connections.                                                            *)
LogFairSpec == LogSpec /\ WF_logVars(ReceiveLog \/ Convert \/ AddParagraph)
-----------------------------------------------------------------------------
(* Properties.                                                             *)

LogTypeOK ==
    /\ AnsiTypeOK
    /\ running \subseteq Stream
    /\ lines \in 0..MaxLines
    /\ conn \in {"starting", "open", "closed"}
    /\ wire \in Seq(Message)
    /\ box \in Seq(Seq(Block))
    /\ sent \in 0..MaxLines
    /\ heard \in Seq(Line \cup {NullText})

(* Each message of the page's project gives one paragraph, in the order in *)
(* which they came, the one being converted excepted.                      *)
OneParagraphEach == Len(box) = IF conv = "idle" THEN Len(heard) ELSE Len(heard) - 1

(* A line that has been sent to the page gets its paragraph, unless the    *)
(* connection or the page ends: no line makes the converter loop for ever. *)
LinesAreShown ==
    \A n \in 1..MaxLines :
        (sent >= n) ~> (Len(box) >= n \/ sent < n \/ conn = "closed")
=============================================================================
