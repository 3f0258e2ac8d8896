--------------------------- MODULE MCStdioSession ---------------------------
(* Instances of StdioSession for TLC.                                      *)
EXTENDS StdioSession

CONSTANTS nl, a, b, INT, TERM

Short == <<a>>
Long  == <<b, b>>        \* half of it does not parse
Huge  == <<b, b, b>>     \* parses, but is over the cap of 2 while unterminated

MCMessages == {Short, Long, Huge}

(* The server ends with a newline, in a line without one, in half a         *)
(* message, or floods; the client says one thing and no newline.            *)
MCScripts ==
  [client |-> {Long},
   server |-> {Long \o <<nl, nl>> \o Short,
               Short \o <<nl, b>>,
               Huge \o <<nl>> \o Huge \o <<b>>}]
=============================================================================
