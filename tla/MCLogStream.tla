----------------------------- MODULE MCLogStream -----------------------------
(* Instances of LogStream for TLC, with the reference of Rendering.        *)
EXTENDS Rendering

CONSTANTS aOut, bOut, a, b

MCProjectOf == (aOut :> a) @@ (bOut :> b)

(* Lines with no sequence, with whole ones, and with pieces of one.        *)
OwnLine ==
    { <<"u", "<">>,
      <<ESC, "[", "4", "4", ";", "3", "8", ";", "5", ";", "m", "n">>,
      <<ESC, "[", "1", "m", "u", ESC, "[", "m">>,
      <<"l", ESC, "[", "3", "8">>,
      <<";", "5", ";", "9", "m", "n", ESC>>,
      <<ESC, "[", "?", "4", "l", "u", ESC, "[", ":", "u">>,
      <<ESC, "[", "2", "WIDE", "u">>,
      <<ESC, "]", "8", ";", ";", "http", ":", "u", BEL, "l">>,
      <<ESC, "]", "8", ";", ";", BEL, "n">> }

MCLines == (aOut :> OwnLine) @@ (bOut :> {<<"u", ESC, "[", "3", "1", "m", ESC, "[">>})

=============================================================================
