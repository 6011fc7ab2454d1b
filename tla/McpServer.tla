----------------------------- MODULE McpServer -----------------------------
(***************************************************************************)
(* `pelmeni tools-mcp` (src/pelmeni/mcp/server.py): a process that reads   *)
(* JSON-RPC lines from its standard input, one after another, runs tools   *)
(* and writes answers.  It is one of the agents of FileOps; the others     *)
(* call tools on their own.                                                *)
(*                                                                         *)
(* A command that bash starts has the server's standard input: what it     *)
(* reads there the server never sees.                                      *)
(***************************************************************************)
EXTENDS FileOps

CONSTANTS Server,    \* one of Agents
          Lines,     \* what the client may send
          MaxLines   \* bound: lines it sends

ASSUME ServerAssumption ==
  /\ Server \in Agents /\ MaxLines \in Nat
  /\ \A line \in Lines :
       /\ line.form \in {"blank", "broken", "other", "object"}
       /\ line.hasId \in BOOLEAN

\* A line: what its text parses to ("blank", "broken", "other" or "object"),
\* whether it has an id (a string or an integer), its method, and the call
\* its parameters describe, NoOperation if they are invalid or dispatch
\* refuses it.
Line(form, hasId, method, call) ==
  [form |-> form, hasId |-> hasId, method |-> method, call |-> call]

VARIABLES
  serverPc,  \* "reading", "dispatching", "ended" (end of input) or "down"
  sent,      \* number of lines sent: a line's number is its id, if it has one
  inbox,     \* the lines in the pipe, with their numbers
  inHand,    \* id of the call in hand
  answers,   \* ids of the answers written, 0: null
  owed       \* ids of the answers due for all lines but those a command read

serverVars == << serverPc, sent, inbox, inHand, answers, owed >>
mcpVars == << fileVars, serverVars >>

ServerInit ==
  /\ FileInit
  /\ serverPc = "reading"
  /\ sent = 0 /\ inHand = 0
  /\ inbox = << >> /\ answers = << >> /\ owed = << >>

-----------------------------------------------------------------------------
\* What JSON-RPC calls for: whoever gives an id gets an answer with it, what
\* is no request at all one without.
Due(item) ==
  CASE item.line.form = "blank"  -> << >>
    [] item.line.form = "object" -> IF item.line.hasId THEN << item.no >> ELSE << >>
    [] OTHER -> << 0 >>

AllDue(items) == FlattenSeq([i \in DOMAIN items |-> Due(items[i])])

Send ==
  /\ serverPc \in {"reading", "dispatching"} /\ sent < MaxLines
  /\ sent' = sent + 1
  /\ \E line \in Lines :
       LET item == [no |-> sent + 1, line |-> line]
       IN  /\ inbox' = Append(inbox, item)
           /\ owed' = owed \o Due(item)
  /\ UNCHANGED << fileVars, serverPc, inHand, answers >>

\* Mutant: a request without a method is dropped, whether it has an id or not.
HandleMethods(item) ==
  IF item.line.method = "none" \/ ~item.line.hasId THEN << >> ELSE << item.no >>

\* handle_request and _dispatch_method, but for the running of a tool: results
\* and errors alike carry the request's id.
HandleRequest(item) ==
  CASE item.line.method = "none" -> IF item.line.hasId THEN << item.no >> ELSE << >>
    [] item.line.method # "none" /\ ~item.line.hasId -> << >>  \* a notification
    [] OTHER -> << item.no >>

\* _process_stream_line: an error without id for what is no JSON or no object.
Response(item) ==
  CASE item.line.form = "blank" -> << >>
    [] item.line.form \in {"broken", "other"} -> << 0 >>
    [] item.line.form = "object" -> HandleRequest(item)

RunsTool(line) ==
  /\ line.form = "object" /\ line.hasId
  /\ line.method = "tools/call" /\ line.call \in Operations

ReadLine ==
  /\ serverPc = "reading" /\ inbox # << >>
  /\ inbox' = Tail(inbox)
  /\ IF RunsTool(Head(inbox).line)
       THEN /\ StartCall(Server, Head(inbox).line.call)
            /\ inHand' = Head(inbox).no
            /\ serverPc' = "dispatching"
            /\ UNCHANGED answers
       ELSE /\ answers' = answers \o Response(Head(inbox))
            /\ UNCHANGED << fileVars, serverPc, inHand >>
  /\ UNCHANGED << sent, owed >>

\* The command reads what the server has not read ahead: nobody will ever
\* answer it.
CommandReadsInput ==
  /\ opPc[Server] = "called" /\ op[Server].do = "bash" /\ inbox # << >>
  /\ \E n \in 0..(Len(inbox) - 1) :
       LET eaten == SubSeq(inbox, n + 1, Len(inbox))
       IN  /\ inbox' = SubSeq(inbox, 1, n)
           /\ owed' = SubSeq(owed, 1, Len(owed) - Len(AllDue(eaten)))
  /\ UNCHANGED << fileVars, serverPc, sent, inHand, answers >>

\* _handle_tools_call; an exception that dispatch lets through ends the server.
Answer ==
  /\ serverPc = "dispatching" /\ opPc[Server] = "replied"
  /\ IF reply[Server] = "raised"
       THEN serverPc' = "down" /\ UNCHANGED << inHand, answers >>
       ELSE /\ serverPc' = "reading"
            /\ answers' = Append(answers, inHand)
            /\ inHand' = 0
  /\ Done(Server)
  /\ UNCHANGED << sent, inbox, owed >>

\* The client has closed the pipe.
EndOfInput ==
  /\ serverPc = "reading" /\ inbox = << >>
  /\ serverPc' = "ended"
  /\ UNCHANGED << fileVars, sent, inbox, inHand, answers, owed >>

ServerDies ==
  /\ serverPc \in {"reading", "dispatching"}
  /\ Die(Server)
  /\ serverPc' = "down"
  /\ UNCHANGED << sent, inbox, inHand, answers, owed >>

\* The other agents only write: what they read concerns nobody else.
AgentStep(a) ==
  /\ \/ \E o \in Operations : o.do \in {"edit", "write"} /\ StartCall(a, o)
     \/ Done(a) \/ Die(a)
  /\ UNCHANGED serverVars

ServerNext ==
  \/ Send \/ ReadLine \/ CommandReadsInput \/ Answer \/ EndOfInput \/ ServerDies
  \/ \E a \in Agents : Work(a) /\ UNCHANGED serverVars
  \/ \E a \in Agents \ {Server} : AgentStep(a)
  \/ ChangeOutside /\ UNCHANGED serverVars

ServerSpec == ServerInit /\ [][ServerNext]_mcpVars

-----------------------------------------------------------------------------
(* Every request is answered once, in order, and no notification is; still *)
(* without an answer are those in the pipe, and the call in hand or in     *)
(* hand when the server died (McpServer.run).  The client of a server      *)
(* whose commands read its input waits for good.                           *)
AnsweredOnce ==
  owed = answers \o (IF inHand = 0 THEN << >> ELSE << inHand >>) \o AllDue(inbox)

=============================================================================
