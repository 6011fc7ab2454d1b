------------------------- MODULE AntigravityBridge -------------------------
(***************************************************************************)
(* The provider that talks to the agy command through its pipes            *)
(* (src/pelmeni/providers/antigravity/), driven by the request loop with   *)
(* the conversation id of the session's header.                            *)
(*                                                                         *)
(* agy keeps a conversation on a remote server.  A process that is given a *)
(* conversation that expired dies and says so on stderr; one that is given *)
(* none opens a new one.  It announces its conversation before its first   *)
(* result.  It can die at any time; its output ends before it can be       *)
(* waited for ("closing").  agy is external: what is known of it is what   *)
(* process.py and events.py expect.                                        *)
(***************************************************************************)
EXTENDS Naturals, Sequences, FiniteSets

CONSTANTS WithRole,      \* the provider was given a role: its processes get a
                         \* home directory of their own
          MaxChats,      \* bound: calls of chat
          MaxProcesses,  \* bound: processes started
          MaxConvs       \* bound: conversations opened

ASSUME BridgeAssumption ==
  /\ WithRole \in BOOLEAN
  /\ MaxChats \in Nat /\ MaxProcesses \in Nat /\ MaxConvs \in Nat

NoConv  == 0   \* conversations are numbered as they are opened
NoProc  == 0   \* processes as they are started, prompts by their chat
ConvIds == 1..MaxConvs

Line == [kind : {"init", "result"}, conv : 0..MaxConvs, prompt : 0..MaxChats]

InitLine(c)   == [kind |-> "init", conv |-> c, prompt |-> 0]
ResultLine(n) == [kind |-> "result", conv |-> NoConv, prompt |-> n]

Process == [state : {"running", "closing", "dead"},
            expiry : BOOLEAN,           \* its stderr reports an expiry
            conv : 0..MaxConvs,         \* conversation it works in
            announced : BOOLEAN,
            stdin : Seq(1..MaxChats),   \* prompts it has not answered
            stdout : Seq(Line),         \* lines nobody has read
            provider : 1..(MaxChats + 1),
            chat : 1..MaxChats,         \* the chat it was started for
            home : BOOLEAN]             \* its temporary directory exists

VARIABLES
  pc,        \* "idle", "ready" (_execute_prompt_turn), "writing", "reading",
             \* or "restart" (close and start again)
  chats,     \* calls of chat so far: the number of the last one
  attempt,   \* which _execute_prompt_turn of this chat is running
  given,     \* the conversation_id argument of the last chat
  header,    \* conversation id of the session header
  provider,  \* number of the provider, which configure replaces
  provConv,  \* provider._conversation_id
  session,   \* the provider has a session
  sessConv,  \* session.conversation_id
  proc,      \* session._process
  procs,     \* all processes ever started
  convs,     \* conversations opened so far
  expired,   \* those the server has purged
  answer,    \* the last reply: its chat, the prompt it answers, its source
  unheard    \* auxiliary: processes whose announcement on_init failed on

bridge == << pc, chats, attempt, given, header, provider, provConv, session,
             sessConv, proc, answer, unheard >>
remote == << convs, expired >>
vars == << bridge, procs, remote >>

NoAnswer == [chat |-> 0, prompt |-> 0, conv |-> NoConv, lost |-> FALSE,
             late |-> FALSE]

Init ==
  /\ pc = "idle" /\ chats = 0 /\ attempt = 1 /\ given = NoConv
  /\ header = NoConv
  /\ provider = 1 /\ provConv = NoConv
  /\ session = FALSE /\ sessConv = NoConv /\ proc = NoProc
  /\ procs = << >> /\ convs = 0 /\ expired = {}
  /\ answer = NoAnswer /\ unheard = {}

\* is_running: poll() does not see yet that a closing process ended.
IsRunning == proc # NoProc /\ procs[proc].state # "dead"

-----------------------------------------------------------------------------
(* The provider and its session.                                           *)

\* Mutant: every chat takes a new session.
ChatAnew ==
  /\ pc = "idle" /\ chats < MaxChats
  /\ chats' = chats + 1
  /\ attempt' = 1
  /\ given' = header
  /\ provConv' = IF header # NoConv THEN header ELSE provConv
  /\ session' = TRUE
  /\ sessConv' = provConv' /\ proc' = NoProc
  /\ pc' = "ready"
  /\ UNCHANGED << header, provider, answer, procs, remote, unheard >>

\* chat: resume the header's conversation; a session whose process is gone is
\* replaced (and not closed).
Chat ==
  /\ pc = "idle" /\ chats < MaxChats
  /\ chats' = chats + 1
  /\ attempt' = 1
  /\ given' = header
  /\ provConv' = IF header # NoConv THEN header ELSE provConv
  /\ session' = TRUE
  /\ IF session /\ IsRunning
       THEN UNCHANGED << sessConv, proc >>
       ELSE sessConv' = provConv' /\ proc' = NoProc
  /\ pc' = "ready"
  /\ UNCHANGED << header, provider, answer, procs, remote, unheard >>

\* start, which forgets the process and the directory it had.
Launch ==
  /\ Len(procs) < MaxProcesses
  /\ procs' = Append(procs,
       [state |-> "running", expiry |-> FALSE, conv |-> sessConv,
        announced |-> FALSE, stdin |-> << >>, stdout |-> << >>,
        provider |-> provider, chat |-> chats, home |-> WithRole])
  /\ proc' = Len(procs')

\* _execute_prompt_turn: start the process unless it runs.
StartIfNeeded ==
  /\ pc = "ready"
  /\ pc' = "writing"
  /\ IF IsRunning THEN UNCHANGED << proc, procs >> ELSE Launch
  /\ UNCHANGED << chats, attempt, given, header, provider, provConv, session,
                  sessConv, answer, remote, unheard >>

\* send_prompt after an expiry starts again without conversation, and then
\* executes the turn as usual.
Restart ==
  /\ pc = "restart"
  /\ pc' = "ready"
  /\ Launch
  /\ UNCHANGED << chats, attempt, given, header, provider, provConv, session,
                  sessConv, answer, remote, unheard >>

\* ProviderError: the loop gives the prompt up.
Fail == pc' = "idle"

\* agy is missing, or Popen fails.
StartFails ==
  /\ (pc = "ready" /\ ~IsRunning) \/ pc = "restart"
  /\ Fail
  /\ UNCHANGED << chats, attempt, given, header, provider, provConv, session,
                  sessConv, proc, answer, procs, remote, unheard >>

\* The pipe takes the prompt even if the process is just ending ...
WritePrompt ==
  /\ pc = "writing" /\ procs[proc].state # "dead"
  /\ pc' = "reading"
  /\ procs' = [procs EXCEPT ![proc].stdin = Append(@, chats)]
  /\ UNCHANGED << chats, attempt, given, header, provider, provConv, session,
                  sessConv, proc, answer, remote, unheard >>

\* ... or breaks.
WriteFails ==
  /\ pc = "writing" /\ procs[proc].state # "running"
  /\ Fail
  /\ UNCHANGED << chats, attempt, given, header, provider, provConv, session,
                  sessConv, proc, answer, procs, remote, unheard >>

Reading(kind) ==
  /\ pc = "reading"
  /\ procs[proc].stdout # << >>
  /\ Head(procs[proc].stdout).kind = kind
  /\ procs' = [procs EXCEPT ![proc].stdout = Tail(@)]

\* on_init records the conversation in the header's file, or raises and ends
\* the chat; what the process answers stays in the pipe.
ReadInit ==
  /\ Reading("init")
  /\ sessConv' = Head(procs[proc].stdout).conv
  /\ \/ header' = sessConv' /\ UNCHANGED << pc, unheard >>
     \/ Fail /\ unheard' = unheard \cup {proc} /\ UNCHANGED header
  /\ UNCHANGED << chats, attempt, given, provider, provConv, session, proc,
                  answer, remote >>

\* Mutant: the provider's own conversation id goes first.
ReadResultStale ==
  /\ Reading("result")
  /\ provConv' = IF provConv # NoConv THEN provConv ELSE sessConv
  /\ header' = IF provConv' # NoConv THEN provConv' ELSE header
  /\ answer' = [chat |-> chats, prompt |-> Head(procs[proc].stdout).prompt,
                conv |-> procs[proc].conv,
                lost |-> given \notin expired \cup {NoConv, procs[proc].conv},
                late |-> proc \in unheard]
  /\ pc' = "idle"
  /\ UNCHANGED << chats, attempt, given, provider, session, sessConv, proc,
                  remote, unheard >>

\* The reply names the conversation, and the loop records it.
ReadResult ==
  /\ Reading("result")
  /\ provConv' = IF sessConv # NoConv THEN sessConv ELSE provConv
  /\ header' = IF provConv' # NoConv THEN provConv' ELSE header
  /\ answer' = [chat |-> chats, prompt |-> Head(procs[proc].stdout).prompt,
                conv |-> procs[proc].conv,
                lost |-> given \notin expired \cup {NoConv, procs[proc].conv},
                late |-> proc \in unheard]
  /\ pc' = "idle"
  /\ UNCHANGED << chats, attempt, given, provider, session, sessConv, proc,
                  remote, unheard >>

\* A result whose status is not SUCCESS.
ReadFailure ==
  /\ Reading("result")
  /\ Fail
  /\ UNCHANGED << chats, attempt, given, header, provider, provConv, session,
                  sessConv, proc, answer, remote, unheard >>

\* Mutant: the reader does not wait for a slow process.
AtEofOrSlow == pc = "reading" /\ procs[proc].stdout = << >>

\* readline returns nothing: the output has ended.
AtEof == pc = "reading" /\ procs[proc].stdout = << >>
         /\ procs[proc].state # "running"

\* Mutant: every exit is taken for an expiry.
SeesExit == procs[proc].state = "dead" /\ sessConv # NoConv

\* The process exited and reported an expiry, of a conversation known here.
SeesExpiry == procs[proc].state = "dead" /\ procs[proc].expiry
              /\ sessConv # NoConv

\* Mutant: close forgets the directory.
ClosedHalf == procs

\* close: the process is waited for and its directory removed.
Closed == [procs EXCEPT ![proc].home = FALSE, ![proc].stdout = << >>]

\* send_prompt and chat each try once more without conversation: send_prompt
\* in its session, chat in a new one, whose send_prompt retries as well.
RetryExpired ==
  /\ AtEof /\ SeesExpiry /\ attempt < 4
  /\ attempt' = attempt + 1
  /\ procs' = Closed
  /\ proc' = NoProc
  /\ sessConv' = NoConv
  /\ IF attempt = 2
       THEN provConv' = NoConv /\ pc' = "ready"
       ELSE pc' = "restart" /\ UNCHANGED provConv
  /\ UNCHANGED << chats, given, header, provider, session, answer, remote,
                  unheard >>

\* Any other end of the output, or an expiry once too often.
ReadEof ==
  /\ AtEof /\ (~SeesExpiry \/ attempt = 4)
  /\ Fail
  /\ UNCHANGED << chats, attempt, given, header, provider, provConv, session,
                  sessConv, proc, answer, procs, remote, unheard >>

\* /role: the router takes a new provider; nobody closes the old one.  (Bound:
\* no more role switches than chats.)
Reconfigure ==
  /\ pc = "idle" /\ provider <= chats
  /\ provider' = provider + 1
  /\ provConv' = NoConv /\ session' = FALSE
  /\ sessConv' = NoConv /\ proc' = NoProc
  /\ UNCHANGED << pc, chats, attempt, given, header, answer, procs, remote,
                  unheard >>

-----------------------------------------------------------------------------
(* agy and its server.                                                     *)

Announce(p) ==
  /\ procs[p].state = "running" /\ ~procs[p].announced
  /\ IF procs[p].conv = NoConv
       THEN convs < MaxConvs /\ convs' = convs + 1
       ELSE procs[p].conv \notin expired /\ UNCHANGED convs
  /\ LET conv == IF procs[p].conv = NoConv THEN convs' ELSE procs[p].conv
     IN  procs' = [procs EXCEPT ![p].announced = TRUE, ![p].conv = conv,
                                ![p].stdout = Append(@, InitLine(conv))]
  /\ UNCHANGED << bridge, expired >>

Work(p) ==
  /\ procs[p].state = "running" /\ procs[p].announced
  /\ procs[p].stdin # << >> /\ procs[p].conv \notin expired
  /\ procs' = [procs EXCEPT ![p].stdin = Tail(@),
                            ![p].stdout = Append(@, ResultLine(Head(procs[p].stdin)))]
  /\ UNCHANGED << bridge, remote >>

\* Output ends: of an expired conversation, or by an accident.
Die(p) ==
  /\ procs[p].state = "running"
  /\ \E expiry \in BOOLEAN :
        /\ expiry => procs[p].conv \in expired
        /\ procs' = [procs EXCEPT ![p].state = "closing",
                                  ![p].expiry = expiry, ![p].stdin = << >>]
  /\ UNCHANGED << bridge, remote >>

Exit(p) ==
  /\ procs[p].state = "closing"
  /\ procs' = [procs EXCEPT ![p].state = "dead"]
  /\ UNCHANGED << bridge, remote >>

Expire ==
  /\ \E c \in (1..convs) \ expired : expired' = expired \cup {c}
  /\ UNCHANGED << bridge, procs, convs >>

Agy == \/ \E p \in DOMAIN procs : Announce(p) \/ Work(p) \/ Die(p) \/ Exit(p)
       \/ Expire

Bridge == \/ Chat \/ StartIfNeeded \/ Restart \/ StartFails
          \/ WritePrompt \/ WriteFails \/ ReadInit \/ ReadResult \/ ReadFailure
          \/ RetryExpired \/ ReadEof \/ Reconfigure

Next == Bridge \/ Agy

Spec == Init /\ [][Next]_vars

-----------------------------------------------------------------------------
TypeOK ==
  /\ pc \in {"idle", "ready", "writing", "reading", "restart"}
  /\ chats \in 0..MaxChats /\ attempt \in 1..4
  /\ {given, header, provConv, sessConv} \subseteq 0..MaxConvs
  /\ provider \in 1..(MaxChats + 1)
  /\ session \in BOOLEAN
  /\ procs \in Seq(Process) /\ Len(procs) <= MaxProcesses
  /\ proc \in 0..Len(procs)
  /\ pc \in {"writing", "reading"} => proc # NoProc
  /\ convs \in 0..MaxConvs /\ expired \subseteq 1..convs
  /\ unheard \subseteq 1..Len(procs)

\* A provider never has two processes at work: whichever it started before
\* the one it talks to is dead, whatever it retried and whoever died when.
OneProcess ==
  \A p \in DOMAIN procs :
     (procs[p].provider = provider /\ p # proc) => procs[p].state = "dead"

\* A reply is the answer to the prompt that was asked for, whatever was retried
\* and whichever process died when; only a process on whose announcement
\* on_init has failed falls behind, and each of its replies is to an
\* earlier prompt.
AnswerMatchesPrompt ==
  IF answer.late THEN answer.prompt < answer.chat
  ELSE answer.prompt = answer.chat

\* After a reply the header names the conversation that gave it, through
\* expiries, restarts, role switches and failures of on_init: the next chat
\* resumes that one.
ReplyRecorded ==
  (pc = "idle" /\ answer.chat = chats) => header = answer.conv

\* A conversation that the header names and that is still there is never given
\* up for another.
ConversationNotLost == ~answer.lost

\* However often conversations expire and processes die: a chat starts at most
\* six processes, one for each attempt, and one more when the process that
\* send_prompt restarted is gone before it is used; at most three of these
\* leave their temporary directory behind, the last one and those that a
\* restart came upon dead.
LeftoversBounded ==
  /\ \A n \in 1..chats : Cardinality({p \in DOMAIN procs : procs[p].chat = n}) <= 6
  /\ Cardinality({p \in DOMAIN procs : procs[p].home}) <= 3 * chats

=============================================================================
