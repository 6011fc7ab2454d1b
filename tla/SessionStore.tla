---------------------------- MODULE SessionStore ----------------------------
(***************************************************************************)
(* main.jsonl of a session (src/pelmeni/session/store.py): a header on     *)
(* line 1, rewritten through a temporary file when the bridge announces a  *)
(* conversation, and events appended below it.                             *)
(*                                                                         *)
(* One process writes the file.  It can die in the middle of an append,    *)
(* which leaves any part of the line behind, also one that ends within a   *)
(* character: lines are UTF-8 and not confined to ASCII, and every read is *)
(* strict, so that such a line makes a read fail.  It can die between the  *)
(* writing of the temporary file and its renaming; the session can be      *)
(* opened again.  The operating system does not crash: nothing is synced.  *)
(***************************************************************************)
EXTENDS Naturals, Sequences, FiniteSets

CONSTANTS ConvIds,       \* conversation ids of the bridge
          NoConv,        \* no conversation yet
          EnsuresHeader, \* the caller runs ensure_header first (the REPL
                         \* does, an AgentSession or a bare loop.run does not)
          MaxEvents,     \* bound: events logged in one behaviour
          MaxLines,      \* bound: lines of the log when a header is appended
          MaxCrashes     \* bound: crashes

ASSUME StoreAssumption ==
  /\ NoConv \notin ConvIds
  /\ EnsuresHeader \in BOOLEAN
  /\ MaxEvents \in Nat /\ MaxLines \in Nat /\ MaxCrashes \in Nat

\* An event is its number in the order of the calls of log.
Line == [kind : {"header", "event", "junk", "cut"},
         conv : ConvIds \cup {NoConv},
         event : Nat]

Header(conv) == [kind |-> "header", conv |-> conv, event |-> 0]
Event(n)     == [kind |-> "event", conv |-> NoConv, event |-> n]
Junk         == [kind |-> "junk", conv |-> NoConv, event |-> 0]  \* no JSON
Cut          == [kind |-> "cut", conv |-> NoConv, event |-> 0]   \* no UTF-8

VARIABLES
  pc,        \* "closed", "opening", "open" or "replacing"
  file,      \* the lines of main.jsonl
  dangling,  \* the last line has no newline
  temp,      \* what main.tmp is about to replace main.jsonl with
  asked,     \* the conversation id update_bridge_conversation_id is recording
  conv,      \* the last conversation id whose recording returned
  started,   \* calls of log so far
  logged,    \* numbers of the calls that returned
  crashes    \* how often the process died

vars == << pc, file, dangling, temp, asked, conv, started, logged, crashes >>

-----------------------------------------------------------------------------
HasHeader == file # << >> /\ file[1].kind = "header"

CutLines == {i \in DOMAIN file : file[i].kind = "cut"}

\* Appending to a line that has no end spoils both.
Spoilt(line) == IF Cut \in {line, file[Len(file)]} THEN Cut ELSE Junk

Appended(line) ==
  IF dangling THEN [file EXCEPT ![Len(file)] = Spoilt(line)] ELSE Append(file, line)

\* Mutant: off by one, a line of the log goes with the header.
RewrittenOffByOne(header) == << header >> \o SubSeq(file, 3, Len(file))

\* Mutant: the old header is written back.
RewrittenUnchanged(header) == file

\* _rewrite_main_header: all lines but the first, behind the new header.
Rewritten(header) == << header >> \o Tail(file)

Init ==
  /\ pc = "closed"
  /\ file = << >>
  /\ dangling = FALSE
  /\ temp = << >>
  /\ asked = NoConv
  /\ conv = NoConv
  /\ started = 0
  /\ logged = {}
  /\ crashes = 0

\* create or open_session.
Open ==
  /\ pc = "closed"
  /\ pc' = IF EnsuresHeader THEN "opening" ELSE "open"
  /\ UNCHANGED << file, dangling, temp, asked, conv, started, logged, crashes >>

\* The whole line, by the process that lives on.
Write(line) ==
  /\ file' = Appended(line)
  /\ dangling' = FALSE

\* Part of the line, up to the middle of a character or not, or all of it but
\* its newline.
Tear(line) ==
  /\ crashes < MaxCrashes
  /\ crashes' = crashes + 1
  /\ pc' = "closed"
  /\ \/ UNCHANGED << file, dangling >>
     \/ file' = Appended(Junk) /\ dangling' = TRUE
     \/ file' = Appended(Cut) /\ dangling' = TRUE
     \/ file' = Appended(line) /\ dangling' = TRUE

\* ensure_header finds the header or appends one.  read_header decodes line 1
\* and what comes with it: it raises for a cut line 1, and perhaps for
\* another; the REPL then ends.
EnsureHeader ==
  /\ pc = "opening"
  /\ \/ /\ 1 \notin CutLines
        /\ IF HasHeader THEN UNCHANGED << file, dangling >>
                        ELSE Write(Header(NoConv))
        /\ pc' = "open"
        /\ UNCHANGED crashes
     \/ ~HasHeader /\ 1 \notin CutLines /\ Tear(Header(NoConv))
     \/ CutLines # {} /\ pc' = "closed" /\ UNCHANGED << file, dangling, crashes >>
  /\ UNCHANGED << temp, asked, conv, started, logged >>

Log ==
  /\ pc = "open"
  /\ started < MaxEvents
  /\ started' = started + 1
  /\ \/ /\ Write(Event(started'))
        /\ logged' = logged \cup {started'}
        /\ UNCHANGED << pc, crashes >>
     \/ Tear(Event(started')) /\ UNCHANGED logged
  /\ UNCHANGED << temp, asked, conv >>

\* update_bridge_conversation_id without a header: ensure_header appends one.
\* If read_header raises, nothing is recorded.
AppendHeader ==
  /\ pc = "open" /\ ~HasHeader /\ 1 \notin CutLines
  /\ Len(file) < MaxLines
  /\ \E k \in ConvIds :
        \/ Write(Header(k)) /\ conv' = k /\ UNCHANGED << pc, crashes >>
        \/ Tear(Header(k)) /\ UNCHANGED conv
  /\ UNCHANGED << temp, asked, started, logged >>

\* Mutant: the log is emptied and written again in place.
WriteInPlace ==
  /\ pc = "open" /\ HasHeader
  /\ \E k \in ConvIds : temp' = Rewritten(Header(k)) /\ asked' = k
  /\ pc' = "replacing"
  /\ file' = << >> /\ dangling' = FALSE
  /\ UNCHANGED << conv, started, logged, crashes >>

\* With a header: all lines go to the temporary file, the first one new ...
\* With a cut line among them readlines raises, and nothing is recorded.
WriteTemp ==
  /\ pc = "open" /\ HasHeader /\ CutLines = {}
  /\ \E k \in ConvIds : temp' = Rewritten(Header(k)) /\ asked' = k
  /\ pc' = "replacing"
  /\ UNCHANGED << file, dangling, conv, started, logged, crashes >>

\* Mutant: the new lines are put in front of the old ones.
ReplaceAppending ==
  /\ pc = "replacing"
  /\ file' = temp \o Tail(file)
  /\ conv' = asked
  /\ temp' = << >>
  /\ pc' = "open"
  /\ UNCHANGED << dangling, asked, started, logged, crashes >>

\* ... which then takes the place of the log.
Replace ==
  /\ pc = "replacing"
  /\ file' = temp
  /\ dangling' = (dangling /\ Len(temp) > 1)
  /\ conv' = asked
  /\ temp' = << >>
  /\ pc' = "open"
  /\ UNCHANGED << asked, started, logged, crashes >>

\* Between two writes, or before the temporary file, whole or not, is renamed.
Crash ==
  /\ pc # "closed" /\ crashes < MaxCrashes
  /\ pc' = "closed"
  /\ crashes' = crashes + 1
  /\ temp' = << >>
  /\ UNCHANGED << file, dangling, asked, conv, started, logged >>

Next == Open \/ EnsureHeader \/ Log \/ AppendHeader \/ WriteTemp \/ Replace
        \/ Crash

Spec == Init /\ [][Next]_vars

-----------------------------------------------------------------------------
TypeOK ==
  /\ pc \in {"closed", "opening", "open", "replacing"}
  /\ file \in Seq(Line)
  /\ dangling \in BOOLEAN
  /\ dangling => file # << >>
  /\ temp \in Seq(Line)
  /\ pc = "replacing" => temp # << >> /\ HasHeader
  /\ asked \in ConvIds \cup {NoConv}
  /\ conv \in ConvIds \cup {NoConv}
  /\ started \in Nat
  /\ logged \subseteq 1..started
  /\ crashes \in Nat

EventLines == {i \in DOMAIN file : file[i].kind = "event"}

Kept == {file[i].event : i \in EventLines}

\* Rewriting the header never loses, repeats or reorders events: they stand in
\* the log in the order of the calls of log, each once.
EventsInOrder ==
  \A i, j \in EventLines : i < j => file[i].event < file[j].event

\* A crash takes at most one event from the file whose call of log returned, the
\* one that was appended to the line the crash tore; and it cuts at most one line
\* within a character.  Only a file without such a line can be read: one of them
\* hides all events until it is mended.
LossBounded ==
  /\ Cardinality(logged \ Kept) <= crashes
  /\ Cardinality(CutLines) <= crashes

\* A header on line 1, once it ends with a newline, survives every crash.
HeaderSafe == HasHeader /\ (Len(file) > 1 \/ ~dangling)

HeaderStays == [][HeaderSafe => HeaderSafe']_vars

\* The next request that can read the header resumes the conversation that was
\* recorded last.
ConversationKept == HasHeader => file[1].conv = conv

=============================================================================
