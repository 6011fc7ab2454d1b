---------------------------- MODULE MCMcpServer ----------------------------
(* Model-checking instance of McpServer: the server and another agent work  *)
(* on a file that another program changes.                                  *)
EXTENDS McpServer

CONSTANTS server, builder

\* One match between ends of lines as Windows writes them, and two matches.
MCTexts == {<< "CRLF", "x", "CRLF" >>, << "x", "x" >>}

MCOperations == {Edit("x", "y"), Write(<< "y" >>), Read, Bash}

MCLines ==
  {Line(form, FALSE, "none", NoOperation) : form \in {"blank", "broken", "other"}}
  \cup {Line("object", hasId, method, NoOperation) :
          hasId \in BOOLEAN, method \in {"none", "ping"}}
  \cup {Line("object", TRUE, "tools/call", call) :
          call \in MCOperations \cup {NoOperation}}

=============================================================================
