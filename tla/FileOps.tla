------------------------------ MODULE FileOps ------------------------------
(***************************************************************************)
(* The tools read, edit, write and bash (src/pelmeni/tools/file_ops.py and *)
(* bash.py) on one path that several agents, each in a process of its own, *)
(* and other programs work on.  read_text, mkstemp, the writing of the     *)
(* temporary file and its renaming are steps of their own; a process may   *)
(* die between any two of them.  A text is a sequence of words, of which   *)
(* "LF", "CRLF" and "CR" are the ends of lines.                            *)
(***************************************************************************)
EXTENDS Naturals, Sequences, FiniteSets, SequencesExt

CONSTANTS Agents,      \* the processes that call tools
          Operations,  \* calls they make: records of Operation
          Texts,       \* what other programs and commands write
          MaxChanges,  \* bound: such changes
          MaxFailures  \* bound: writes that fail or die halfway

\* bash's command is one that changes the path or not, as it likes.
Edit(old, new) == [do |-> "edit", old |-> old, new |-> new, text |-> << >>]
Write(text)    == [do |-> "write", old |-> "", new |-> "", text |-> text]
Read           == [do |-> "read", old |-> "", new |-> "", text |-> << >>]
Bash           == [do |-> "bash", old |-> "", new |-> "", text |-> << >>]
NoOperation    == [do |-> "none", old |-> "", new |-> "", text |-> << >>]

ASSUME FileAssumption ==
  /\ \A o \in Operations : o.do \in {"edit", "write", "read", "bash"}
  /\ Texts \subseteq Seq(STRING)
  /\ IsFiniteSet(Agents)
  /\ MaxChanges \in Nat /\ MaxFailures \in Nat

File(text) == [is |-> "file", text |-> text]
Absent     == [is |-> "absent", text |-> << >>]
Directory  == [is |-> "directory", text |-> << >>]
Torn       == [is |-> "torn", text |-> << >>]

VARIABLES
  target,   \* what is at the path
  opPc,     \* "idle", "called", "checked", "creating", "writing", "renaming",
            \* "replied" or "dead", for each agent
  op,       \* the call in hand
  draft,    \* what edit and write are going to write
  reply,    \* "none", "ok", "error" (a text for the model) or "raised"
  seen,     \* what the last read or edit read
  temps,    \* temporary files in the directory
  failures, \* writes that failed or died halfway
  changes,  \* changes by other programs and by commands
  intact    \* nobody has changed the path since the agent's edit read it

fileVars == << target, opPc, op, draft, reply, seen, temps, failures, changes,
               intact >>

FileInit ==
  /\ target \in {File(text) : text \in Texts}
  /\ opPc = [a \in Agents |-> "idle"]
  /\ op = [a \in Agents |-> NoOperation]
  /\ draft = [a \in Agents |-> << >>]
  /\ reply = [a \in Agents |-> "none"]
  /\ seen = [a \in Agents |-> Absent]
  /\ temps = 0 /\ failures = 0 /\ changes = 0
  /\ intact = [a \in Agents |-> FALSE]

-----------------------------------------------------------------------------
Occurrences(text, word) == {i \in DOMAIN text : text[i] = word}

Replaced(text, old, new) ==
  [i \in DOMAIN text |-> IF text[i] = old THEN new ELSE text[i]]

\* read_text opens the file with universal newlines; writing turns nothing back.
Universal(text) ==
  [i \in DOMAIN text |-> IF text[i] \in {"CRLF", "CR"} THEN "LF" ELSE text[i]]

Goto(a, where) == opPc' = [opPc EXCEPT ![a] = where]

Reply(a, what) ==
  /\ Goto(a, "replied")
  /\ reply' = [reply EXCEPT ![a] = what]

\* Somebody else's edit is no longer of the text it has read.
Changed == intact' = [a \in Agents |-> FALSE]

StartCall(a, o) ==
  /\ opPc[a] = "idle"
  /\ op' = [op EXCEPT ![a] = o]
  /\ draft' = [draft EXCEPT ![a] = o.text]
  /\ Goto(a, IF o.do = "write" THEN "creating" ELSE "called")
  /\ UNCHANGED << target, reply, seen, temps, failures, changes, intact >>

\* read_path: what cannot be listed raises, what is gone or cannot be read
\* is an error.
ReadPath(a) ==
  /\ opPc[a] = "called" /\ op[a].do = "read"
  /\ \/ /\ target.is # "absent"
        /\ Reply(a, "ok")
        /\ seen' = [seen EXCEPT ![a] = target]
     \/ /\ \/ Reply(a, "error")
           \/ target.is = "directory" /\ Reply(a, "raised")
        /\ UNCHANGED seen
  /\ UNCHANGED << target, op, draft, temps, failures, changes, intact >>

\* edit_file: is_file.
CheckIsFile(a) ==
  /\ opPc[a] = "called" /\ op[a].do = "edit"
  /\ IF target.is = "file"
       THEN Goto(a, "checked") /\ UNCHANGED reply
       ELSE Reply(a, "error")
  /\ UNCHANGED << target, op, draft, seen, temps, failures, changes, intact >>

\* Mutant: the old text may occur more than once.
MatchesAny(text, old) == Occurrences(text, old) # {}

\* _edit_content counts the matches.
Matches(text, old) == Cardinality(Occurrences(text, old)) = 1

\* read_text and _edit_content.  An edit gives up when the file cannot be read
\* or there is not one match.
ReadText(a) ==
  /\ opPc[a] = "checked"
  /\ \/ /\ target.is = "file" /\ Matches(Universal(target.text), op[a].old)
        /\ Goto(a, "creating")
        /\ seen' = [seen EXCEPT ![a] = target]
        /\ draft' = [draft EXCEPT ![a] =
                      Replaced(Universal(target.text), op[a].old, op[a].new)]
        /\ intact' = [intact EXCEPT ![a] = TRUE]
        /\ UNCHANGED reply
     \/ /\ Reply(a, "error")
        /\ UNCHANGED << seen, draft, intact >>
  /\ UNCHANGED << target, op, temps, failures, changes >>

\* Mutant: the target itself is opened for writing.
CreateTempInPlace(a) ==
  /\ opPc[a] = "creating"
  /\ target' = Torn
  /\ Goto(a, "writing")
  /\ UNCHANGED << op, draft, reply, seen, temps, failures, changes, intact >>

\* _atomic_write: mkdir and NamedTemporaryFile.
CreateTemp(a) ==
  /\ opPc[a] = "creating"
  /\ \/ Goto(a, "writing") /\ temps' = temps + 1 /\ UNCHANGED reply
     \/ Reply(a, "error") /\ UNCHANGED temps
  /\ UNCHANGED << target, op, draft, seen, failures, changes, intact >>

WriteTemp(a) ==
  /\ opPc[a] = "writing"
  /\ Goto(a, "renaming")
  /\ UNCHANGED << target, op, draft, reply, seen, temps, failures, changes,
                  intact >>

\* write, flush, fsync or replace raises: delete=False, the temporary file
\* stays.
WriteFails(a) ==
  /\ opPc[a] \in {"writing", "renaming"} /\ failures < MaxFailures
  /\ Reply(a, "error")
  /\ failures' = failures + 1
  /\ UNCHANGED << target, op, draft, seen, temps, changes, intact >>

\* A file is not renamed over a directory.
Rename(a) ==
  /\ opPc[a] = "renaming" /\ target.is # "directory"
  /\ target' = File(draft[a])
  /\ Reply(a, "ok")
  /\ Changed
  /\ temps' = temps - 1
  /\ UNCHANGED << op, draft, seen, failures, changes >>

\* Another program, a command, or what a command has left running.
ChangeOutside ==
  /\ changes < MaxChanges
  /\ target' \in {File(text) : text \in Texts} \cup {Absent, Directory}
  /\ target' # target
  /\ changes' = changes + 1
  /\ Changed
  /\ UNCHANGED << opPc, op, draft, reply, seen, temps, failures >>

\* execute_bash returns: output, a timeout, or output that is no UTF-8, which
\* dispatch reports as invalid arguments.  The shell itself is killed after
\* the timeout, what it has started is not.
BashReturns(a) ==
  /\ opPc[a] = "called" /\ op[a].do = "bash"
  /\ \E what \in {"ok", "error"} : Reply(a, what)
  /\ UNCHANGED << target, op, draft, seen, temps, failures, changes, intact >>

Forget(a) ==
  /\ reply' = [reply EXCEPT ![a] = "none"]
  /\ op' = [op EXCEPT ![a] = NoOperation]
  /\ draft' = [draft EXCEPT ![a] = << >>]
  /\ seen' = [seen EXCEPT ![a] = Absent]
  /\ intact' = [intact EXCEPT ![a] = FALSE]

\* The process that runs the tool is killed.
Die(a) ==
  /\ opPc[a] # "dead"
  /\ opPc[a] \in {"writing", "renaming"} => failures < MaxFailures
  /\ Goto(a, "dead")
  /\ Forget(a)
  /\ failures' = IF opPc[a] \in {"writing", "renaming"}
                    THEN failures + 1 ELSE failures
  /\ UNCHANGED << target, temps, changes >>

\* The reply is taken; the next call may come.
Done(a) ==
  /\ opPc[a] = "replied"
  /\ Goto(a, "idle")
  /\ Forget(a)
  /\ UNCHANGED << target, temps, failures, changes >>

Work(a) ==
  \/ ReadPath(a) \/ CheckIsFile(a) \/ ReadText(a) \/ CreateTemp(a)
  \/ WriteTemp(a) \/ WriteFails(a) \/ Rename(a) \/ BashReturns(a)

-----------------------------------------------------------------------------
(* A crash or an error halfway leaves the old text or the new one, readers *)
(* never see a part of one, and the temporary files in the directory are   *)
(* those of writes in progress and of writes that failed or died.          *)
FilesWhole ==
  /\ target.is # "torn"
  /\ \A a \in Agents : seen[a].is # "torn"
  /\ temps = failures
       + Cardinality({a \in Agents : opPc[a] \in {"writing", "renaming"}})

(* An edit that reports success has left the text it read, every end of a  *)
(* line turned to LF, with its one occurrence of the old text replaced and *)
(* no other word touched, whoever else writes the path meanwhile.  What it *)
(* read is what it replaces unless the path was changed after it had read: *)
(* that change, and no earlier one, is lost (edit_file).                   *)
ReplacesOne(a) ==
  /\ opPc[a] = "renaming" /\ reply'[a] = "ok"
  /\ op[a].do = "edit" /\ op[a].old # op[a].new
  =>
    LET before == Universal(seen[a].text)
    IN  /\ seen[a].is = "file" /\ DOMAIN target'.text = DOMAIN before
        /\ Cardinality({i \in DOMAIN before : target'.text[i] # before[i]}) = 1
        /\ intact[a] => seen[a] = target

EditReplacesOne == [][\A a \in Agents : ReplacesOne(a)]_fileVars

=============================================================================
